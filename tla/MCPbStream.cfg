CONSTANTS
  Lens <- MCLens
  Sizes <- MCSizes
  DefaultMax = 0
  Base = 2
  MaxVarintBytes = 3
  MaxFrames = 2
  MaxGarbles = 1
SPECIFICATION FairSpec
INVARIANTS AtFrameBoundary
PROPERTIES EndsForCause ChannelSpec AllDelivered
CHECK_DEADLOCK FALSE
