\* One process without crashes: ingest, DELETE of the oldest document, and compaction.
SPECIFICATION Spec
CONSTANTS
  Threshold = 3
  MaxSegments = 4
  MinMerge = 2
  MaxDocs = 7
  BatchSizes = {1, 2}
  CompactModes = {"normal", "full"}
  DeletableIds = {0}
  DeleteAhead = 0
  SizeTiers = {0, 1}
  MaxCrashes = 0
INVARIANTS
  ManifestCoversFiles
  
