SPECIFICATION FairSpec
CONSTANTS
  DevChannels <- MCThreeChannels
  MaxTries = 10
  Sensor <- MCSensor
  Unsteady <- MCBoth
INVARIANTS
  HoldUpIsBounded
  StaleOnlyAfterRetries
PROPERTIES
  AcquisitionEnds
CHECK_DEADLOCK FALSE
