SPECIFICATION Spec
CONSTANTS
  Configs <- MCConfigs
  Env <- MCEnv
  Alerts <- MCAlerts
  Plain <- MCPlain
  Unset = unset
  DefaultAttempts = 3
  DefaultBackoff = 1
  MaxRetryAttempts = 10
  MaxRetryBackoff = 10
  DefaultThrottleKey <- MCKey
  Messages = 7
CHECK_DEADLOCK FALSE
INVARIANTS
  TypeOK
  AlertPairs
  PostsShareTheirKey
  CardTellsTheAlert
