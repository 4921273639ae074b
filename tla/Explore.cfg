SPECIFICATION ExploreSpec
CONSTANTS
  IntMax = 15
  MaxDuty = 2
  KpNum = 1
  KiNum = 0
  GainDen = 1
  UaPerMv = 1
  NumPwms = 2
  Cps <- MCCps
  DefaultFrequency = 10
  PercentScale = 2
  NumAxes = 2
  MaxUa <- MCMaxUa
  StepUa = 1
  FirstStopUa = 5
  Feedbacks = {0}
  SdoWrites <- MCSdoWrites
  HandDuties <- MCHandDuties
  HandTargets <- MCHandTargets
  HandFrequencies <- MCHandFrequencies
  Modes = {"TM_OFF", "TM_ADC", "TM_CURRENT", "TM_LOOP", "TM_LOOP_RAMP"}
INVARIANTS
  PulseWithinPeriod
  OneOutputPerCoil
PROPERTIES
  RampEndsAtRest
