SPECIFICATION PacingSpec
CONSTANTS
  Period = 5
  MaxWork = 8
  MaxLate = 2
INVARIANTS
  NoBurst
