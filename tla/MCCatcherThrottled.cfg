SPECIFICATION Spec
CONSTANTS
  blue = blue
  green = green
  Pods <- MCOnePod
  chat = chat
  hook = hook
  Outputs <- MCThrottled
  Throttled <- MCThrottled
  MaxPosts <- MCNoMax
  ParkMayFail <- MCThrottled
  Messages <- MCSingle
  Malformed <- MCNone
  Routes <- MCOneChat
  KeyOf <- MCSingleKey
  BufferSize = 2
  Visibility = 3
  DispatchBudget = 2
  MaxFaults = 1
INVARIANT
  AckedIsKept
