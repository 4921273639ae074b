SPECIFICATION Spec
CONSTANTS
  IntMax = 63
  MaxDuty = 4
  KpNum = 3
  KiNum = 1
  GainDen = 4
  UaPerMv = 6
  NumAxes = 1
  MaxUa <- MCMaxUaOne
  HistLen = 2
  AdcMv <- MCAdcMv
  Setpoints <- MCSetpoints
  Average <- WindowMean
  Faults <- MCNoFaults
INVARIANTS
  RestCurrentIsSmall
