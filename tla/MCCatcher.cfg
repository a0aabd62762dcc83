SPECIFICATION Spec
CONSTANTS
  blue = blue
  green = green
  Pods <- MCPods
  chat = chat
  hook = hook
  Outputs <- MCOutputs
  Throttled <- MCThrottled
  MaxPosts <- MCMaxOne
  ParkMayFail <- MCHook
  Messages <- MCMessages
  Malformed <- MCMalformed
  Routes <- MCRoutes
  KeyOf <- MCKeyOf
  BufferSize = 2
  Visibility = 2
  DispatchBudget = 1
  MaxFaults = 2
SYMMETRY MCSymmetry
INVARIANTS
  TypeOK
  AckedIsKept
  InOrderUnlessReclaimed
  ClientOpenWhileHandling
