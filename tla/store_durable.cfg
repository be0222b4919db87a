\* Without compaction the table implements DurableTable, whatever the crashes.
SPECIFICATION Spec
CONSTANTS
  Threshold = 9
  MaxSegments = 9
  MinMerge = 2
  MaxDocs = 5
  BatchSizes = {1, 2}
  CompactModes = {}
  DeletableIds = {0, 1, 2, 3}
  DeleteAhead = 0
  SizeTiers = {0}
  MaxCrashes = 2
PROPERTY
  ImplementsDurableTable
