CONSTANTS
  Types <- MCTypes
  Root = "M"
  Schemas <- MCSchemas
  MaxUint16 = 15
  ByteBits = 2
  TemplateId = 1
  SchemaId = 2
  Version = 0
  MaxMessageSize = 40
  MaxRepeated = 3
  Work <- MCWork
SPECIFICATION CodecSpec
INVARIANTS BlocksTiled RoundTrips WireStable StructureFirst
CHECK_DEADLOCK FALSE
