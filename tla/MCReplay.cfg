SPECIFICATION Spec
CONSTANTS
  Outputs = {ops, pager}
  Runs = {r1, r2}
  MaxLen = 2
  Parks = 3
  Attempts = 2
  Faults = 1
CHECK_DEADLOCK FALSE
INVARIANTS
  TypeOK
  GoneIsPosted
  TwiceHasAReason
  ExitZeroIsDone
