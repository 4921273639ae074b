SPECIFICATION TelemetrySpec
CONSTANTS
  Mags <- MCMags
  Faults <- MCAll
  Frames <- MCFrames
  MaxAge = 2
INVARIANTS
  LatestDuringIteration
  TornOneWay
PROPERTIES
  NeverBackwards
  LastSamplePublished
  PowersUp
  KeepsReading
