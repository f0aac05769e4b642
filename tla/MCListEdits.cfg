CONSTANTS
  Sources <- MCTwoEdits
  LineComments <- MCLineComments
  BlockComments <- MCBlockComments
  Keys = {"a", "b", "c", "x", "y"}
  NewKeys = {"x", "y"}
  MaxCalls = 2
  MayReturn = FALSE
SPECIFICATION Spec
INVARIANTS ElementsAsAsked CommentsKept
CHECK_DEADLOCK FALSE
