SPECIFICATION FairSpec
CONSTANTS
  Outputs = {"teams", "inbox"}
  Results <- MCResults
  Queries <- MCQueries
  Capacity = 2
  Records = 3
  Dispatches <- MCDispatches
  DeadLetterOn = TRUE
  StartupTimeout = 1
  PingTimeout = 1
  DeadLetterTimeout = 2
  Grace = 4
  Outages = 1
CHECK_DEADLOCK FALSE
INVARIANTS
  TypeOK
  ListIsNewest
  CountersAddUp
  ScrapeAddsUp
  NothingCutOff
PROPERTY
  StopsWhenTold
