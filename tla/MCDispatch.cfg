SPECIFICATION Spec
CONSTANTS
  ops = ops
  pager = pager
  Outputs <- MCOutputs
  Fallbacks <- MCFallbacks
  Attempts <- MCAttempts
  Backoff <- MCBackoff
  MaxRetryBackoff = 2
  HttpTimeout = 2
  DispatchTimeout = 6
  ParkTimeout = 1
  DeadLetterOn = TRUE
  DryRun = FALSE
  Codes = {404, 429}
  RetryAfters = {0, 3}
INVARIANTS
  TypeOK
  Budget
  ShutdownBounded
  AckedIsKept
PROPERTIES
  RetrySpacing
  ContractSpec
