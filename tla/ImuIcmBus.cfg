SPECIFICATION FairSpec
CONSTANTS
  MaxBoots = 2
  SoftResets = 4
  ReadyTries = 2
  DataTries = 2
  BusRecovery <- MCAnyOutcome
  Bus <- MCAnyBus
  SettingsFail = TRUE
  WarmRestart = FALSE
  Bytes <- MCNoData
INVARIANTS
  RightBank
  ConfiguredBeforeSampling
PROPERTIES
  ImplementsBootCount
  GivesUp
