SPECIFICATION Spec
CONSTANTS
  Pipelines = {p}
  Full = {}
  Jobs = {j1}
  Rows = {1, 2, 3}
  Cur <- Distinct
  TextRank <- SameOrder
  CursorColumn = TRUE
  BatchSize = 2
  MaxFailures = 1
  MaxCrashes = 1
  MaxReplacements = 1
  MaxCancels = 1
  MaxCopies = 4
  MayDelete = TRUE
INVARIANTS
  WatermarkCovers
  CopiesBounded
CHECK_DEADLOCK FALSE
