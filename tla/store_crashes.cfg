\* Ingest, DELETE and compaction with two crashes anywhere.
SPECIFICATION FairSpec
CONSTANTS
  Threshold = 2
  MaxSegments = 3
  MinMerge = 2
  MaxDocs = 4
  BatchSizes = {1, 2}
  CompactModes = {"normal", "full"}
  DeletableIds = {0, 1}
  DeleteAhead = 1
  SizeTiers = {0}
  MaxCrashes = 2
INVARIANTS
  TypeOK
  OnlyKnownLosses
  RowsDistinct
  FreshIds
  LogReconciled
PROPERTY OperationsFinish
