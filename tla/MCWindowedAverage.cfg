SPECIFICATION Spec
CONSTANTS
  HistLen = 3
  Samples <- MCSamples
  IntMax = 9
INVARIANTS
  LoopsAreSafe
  NothingBeyondDepth
PROPERTIES
  ReturnWithinWindow
  ImplementsRecentMean
