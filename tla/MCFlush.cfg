SPECIFICATION FairSpec
CONSTANTS
  N = 2
  Every = 3
  HttpTimeout = 2
  Attempts = 2
  Pauses = {0, 1}
  DryRun = FALSE
  Windows = 2
  LastEnd = 4
INVARIANTS
  TypeOK
  FlushFitsInterval
  CollectedInTime
PROPERTY
  EverySummarySettled
CHECK_DEADLOCK FALSE
