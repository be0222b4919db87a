\* Jobs, the server's store, hub downloads, full syncs, ingests, the catalogue,
\* text searches and the caches, side by side.
SPECIFICATION Spec
CONSTANTS
  Parts = {"jobs", "store", "hub", "sync", "ingest", "catalogue", "text", "caches"}
  MaxJobs = 2
  MaxListed = 1
  MaxReports = 1
  Progress = {10, 60}
  KeyNames = {"k1", "k2", "k3"}
  NoKey = "none"
  Torn = "torn"
  Ttl = 1
  MaxTime = 1
  MaxRequests = 3
  Remote <- Dataset
  Served <- ServedFiles
  Requests <- Asked
  Dirs = {"d1"}
  MaxFiles = 2
  ParallelFailures = 1
  MaxRetries = 1
  Unset = "unset"
  Rows = {1, 2, 3, 4}
  BatchSize = 2
  MaxReplacements = 1
  MaxCancels = 1
  MaxCopies = 2
  Tasks = {"t1"}
  MaxBatches = 4
  Handles = {"h1", "h2"}
  TableNames = {"t", "v"}
  Types = {"int"}
  Undeclared = "undeclared"
  Selected = {1}
  MaxRows = 2
  MaxStatements = 3
  MaxId = 3
  Terms = {1, 2, 3}
  Tfs <- Texts
  Queries <- TextQueries
  Ks = {1, 2}
  MaxTerms = 2
  BlockSize = 2
  DeltaWidth = 8
  Workers = 2
  Scale = 6
  Paths = {"p", "q", "r"}
  MaxVersions = 3
  Sizes = {1, 2, 4}
  Capacity = 2
  Budget = 3
  Unknown = 5
  Jobs = {"j1"}
  MaxFailures = 1
  MaxCrashes = 1
INVARIANTS
  TypesOK
  ShownIsTrue
  AnswersSurvive
  FetchedIsWhole
  FullTakesAll
  
  
  SearchExact
  CachesBounded
PROPERTY JobsSettle
CHECK_DEADLOCK FALSE
