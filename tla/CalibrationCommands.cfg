SPECIFICATION FairSpec
CONSTANTS
  Axes <- MCAxes
  Level <- MCLevel
  Bias <- MCBias
  Motions <- MCMotions
  IntMax = 32767
  HistLen = 2
  Fittings <- MCFittings
  MaxCommands <- MCMaxCommands
  Faults = TRUE
INVARIANTS
  CalibratedReadsMotion
  
PROPERTIES
  ReadyMeansWholeHistory
  CommandEnds
