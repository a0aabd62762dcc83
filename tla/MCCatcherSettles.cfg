SPECIFICATION FairSpec
CONSTANTS
  blue = blue
  green = green
  Pods <- MCPods
  chat = chat
  hook = hook
  Outputs <- MCOutputs
  Throttled <- MCThrottled
  MaxPosts <- MCNoMax
  ParkMayFail <- MCHook
  Messages <- MCTwo
  Malformed <- MCNone
  Routes <- MCTwoRoutes
  KeyOf <- MCTwoKeys
  BufferSize = 2
  Visibility = 2
  DispatchBudget = 1
  MaxFaults = 2
INVARIANT AckedIsKept
PROPERTY EventuallyAcked
