CONSTANTS
  FileSets <- MCTwoPools
  MaxUint16 = 1
SPECIFICATION Spec
INVARIANTS PointsAtOwned
CHECK_DEADLOCK FALSE
