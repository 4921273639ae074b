SPECIFICATION FairSpec
CONSTANTS
  IntMax = 63
  MaxDuty = 4
  KpNum = 3
  KiNum = 1
  GainDen = 4
  UaPerMv = 6
  NumAxes = 1
  MaxUa <- MCMaxUaOne
  HistLen = 1
  AdcMv <- MCAdcMvTwo
  Setpoints <- MCSetpoints
  Average <- WindowMean
  Faults <- MCLoopFaults
INVARIANTS
  WithinLimits
PROPERTIES
  ZeroCommandStopsCoil
