SPECIFICATION Spec
CONSTANTS
  IntMax = 15
  MaxDuty = 2
  KpNum = 1
  KiNum = 1
  GainDen = 2
  UaPerMv = 3
  NumAxes = 2
  MaxUa <- MCMaxUaTwo
  HistLen = 1
  AdcMv <- MCAdcMvTwo
  Setpoints <- MCSetpointsTwo
  Average <- WindowMean
  Faults <- MCCoilFaults
INVARIANTS
  DriverOnlyOnInLoop
  CoilsFollowActive
  TelemetryMatchesCoils
  FeedbackSignMatchesDrive
PROPERTIES
  ImplementsCoilDrive
