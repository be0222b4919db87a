SPECIFICATION Spec
CONSTANTS
  Handles = {h1, h2}
  Searchers = {h1}
  Loaders = {h1}
  Nodes = 1
  Words = {"a", "b"}
  Queries = {"a"}
  Batches <- MCBatches
  MaxDocs = 3
  MaxMerges = 1
  MaxDeletes = 1
  MaxSearches = 2
  MaxOpens = 1
  RoutedMin = 2
  PageSize = 1
  Offsets = {0}
  LossesAfter = {1}
  Graphs = {FALSE}
INVARIANTS TypeOK MemoryAnswers GhostsOnlyFromCaches SegmentAnswers
CHECK_DEADLOCK FALSE
VIEW Seen
