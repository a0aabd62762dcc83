SPECIFICATION AssertSpec
CONSTANTS
  Want = 2
  Timeout = 8
  Interval = 1
  HttpTimeout = 2
  Latency = 1
  Rejects = TRUE
  Changes = 5
CHECK_DEADLOCK FALSE
INVARIANTS
  AssertTypeOK
  PassIsReal
  FailsInTime
