SPECIFICATION Spec
CONSTANTS
  HnswMin = 4
  ShardMin = 2
  MinParts = 2
  WithVector = {0, 1, 3, 4, 5}
  WithSparse = {0, 2, 4}
  BatchSizes = {1, 2, 3}
  MaxDocs = 6
  MaxDeletes = 2
  MaxMerges = 1
  MaxOpens = 2
  MaxBuilds = 1
INVARIANTS TypeOK VectorsMet SparseSurvives
CHECK_DEADLOCK FALSE
