CONSTANTS
  Layouts <- MCLayouts
  HeaderSize = 3
  GroupHeader = 2
  Uint16 <- MCUint16
  Buffers <- MCBuffers
  MaxMessage = 17
  MaxRepeated = 2
SPECIFICATION Spec
INVARIANTS ReadsInBounds GroupsAgree
PROPERTIES GroupsFound
CHECK_DEADLOCK FALSE
