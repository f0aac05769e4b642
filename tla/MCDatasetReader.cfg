SPECIFICATION Spec
CONSTANTS
  Valid <- MCValid
  MaxBytesLiteral = 3
  Columns = 1
  ShortWait = 8
  Documents <- MCDocs
  PullSize = 40
  MaxMessageSize = 20
  SourceMayFail = TRUE
INVARIANTS RowsAsParsed NotHeldBack TailResumes
PROPERTIES Advances
