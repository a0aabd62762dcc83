SPECIFICATION Spec
CONSTANTS
  Cards = {card}
  Hooks = {hook}
  Inbox = inbox
  Messages = {m}
  NoKey = none
  Capacity = 1
  MaxGroups = 2
  Window = 1
  Buffer = 2
  Budget = 1
  Attempts = 2
  Faults <- MCFaults
  Dispatches = 2
  Others = 2
  Horizon = 2
CHECK_DEADLOCK FALSE
INVARIANTS
  TypeOK
  NotificationPerDispatch
  OneMessageEach
  ViewerMissesNothing
