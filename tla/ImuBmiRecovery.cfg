SPECIFICATION FairSpec
CONSTANTS
  MaxBoots = 10
  MaxRetries = 10
  BusRecovery <- MCAnyOutcome
  SettingsFail = TRUE
INVARIANTS
  FailedBootIsCounted
PROPERTIES
  ImplementsBootCount
  ClearedOnlyWhenReady
  RecoveryEnds
