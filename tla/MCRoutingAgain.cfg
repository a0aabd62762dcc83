SPECIFICATION Spec
CONSTANTS
  Configs <- MCDocs
  Env <- MCEnv
  Alerts <- MCAlerts
  Plain <- MCPlain
  Unset = unset
  DefaultAttempts = 3
  DefaultBackoff = 1
  MaxRetryAttempts = 10
  MaxRetryBackoff = 10
  DefaultThrottleKey <- MCKey
  Messages = 5
CHECK_DEADLOCK FALSE
INVARIANT FiringAgainGoesOut
