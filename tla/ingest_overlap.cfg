SPECIFICATION FairSpec
CONSTANTS
  Jobs = {j1}
  Tasks = {t1, t2}
  ClientWaits = FALSE
  HubJobs = TRUE
  MaxBatches = 1
  MaxFailures = 1
  MaxCrashes = 1
  MaxCancels = 1
PROPERTY BuildingEnds
PROPERTY JobsEnd
