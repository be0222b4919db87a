SPECIFICATION FairSpec
CONSTANTS
  Pipelines = {p, q}
  Full = {}
  Jobs = {j1, j2}
  Rows = {1}
  Cur <- Distinct
  TextRank <- SameOrder
  CursorColumn = TRUE
  BatchSize = 1
  MaxFailures = 1
  MaxCrashes = 1
  MaxReplacements = 0
  MaxCancels = 1
  MaxCopies = 1
  MayDelete = FALSE
INVARIANTS
  QueryableWhenIdle
PROPERTIES
  EventuallySynced
  RunsEnd
