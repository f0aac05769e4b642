CONSTANTS
  Lens <- MCLens
  Sizes <- MCSizes
  DefaultMax = 4
  HeaderLen = 2
  Modulus = 6
  MaxFrames = 2
  MaxGarbles = 1
SPECIFICATION Spec
PROPERTIES EOFMeansDrained ChannelSpec
CHECK_DEADLOCK FALSE
