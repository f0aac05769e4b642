SPECIFICATION Spec
CONSTANTS
  PayloadBits = 5
  WordBits = 11
  FieldBits = 5
  GroupLimit = 2
  NarrowBits = 6
  BadBytes = {63}
  Types <- MCTypes
  Walks <- MCWalks
  Inputs <- MCInputs
INVARIANTS
  DecodesRecords
  ReencodesSame
  LimitsHold
CHECK_DEADLOCK FALSE
