SPECIFICATION FairSpec
CONSTANTS
  Configs <- MCConfigs
  Sites <- MCSites
  Tenants <- MCTenants
  MaxUpsets = 3
INVARIANTS TypeOK SecretsOutliveData NothingLeftBehind DoneIsThere PreflightFindsClashes
PROPERTIES BlockedOnlyByOthers ComesUp
CHECK_DEADLOCK FALSE
