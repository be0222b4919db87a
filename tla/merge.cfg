\* Every content of three sources that share no id, every set of tombstones,
\* and failing readers and writers.
SPECIFICATION FairSpec
CONSTANTS
  Segments = {1, 2, 3}
  RowIds = {1, 2, 3, 4, 5}
  BatchSize = 2
  SharedIds = FALSE
  MaxReadErrors = 1
  WriterFails = TRUE
INVARIANTS
  RemovedIsWritten
  OutputIsUnion
PROPERTIES
  WritesAscend
  MergeEnds
