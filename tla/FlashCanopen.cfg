SPECIFICATION FairUpdate
CONSTANTS
  DEFAULT_NODE_ID = 124
  NodeIds <- MCNodeIds
  MustBeSet = FALSE
  Pins = 1
  Faults <- MCTransient
  NewImages <- MCNewImages
INVARIANTS
  SuccessFollowsTrial
PROPERTIES
  BackOnTheBus
