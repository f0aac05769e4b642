CONSTANTS
  Contexts <- MCContexts
  Depths = {2}
SPECIFICATION Spec
INVARIANTS
  TolerantAgrees
  CommentsFiled
  BodyOffsetSplits
  FormatRoundTrip
  ParseEnds
CHECK_DEADLOCK FALSE
