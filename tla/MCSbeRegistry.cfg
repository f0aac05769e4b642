CONSTANTS
  FileSets <- MCFileSets
  MaxUint16 = 1
SPECIFICATION Spec
INVARIANTS FoundByItsIds RefusedForCause
CHECK_DEADLOCK FALSE
