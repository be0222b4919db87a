\* The default policy and no crash: a flush overwrites a compacted segment.
SPECIFICATION Spec
CONSTANTS
  Threshold = 4
  MaxSegments = 8
  MinMerge = 3
  MaxDocs = 8
  BatchSizes = {1}
  CompactModes = {}
  DeletableIds = {}
  DeleteAhead = 0
  SizeTiers = {0}
  MaxCrashes = 0
INVARIANT CommittedSurvive
