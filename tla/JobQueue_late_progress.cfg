CONSTANTS
  w1 = w1
  w2 = w2
  Jobs = {1}
  Workers = {w1}
  Concurrency = 1
  Retries = 1
  Faults = {"late_progress"}
  Sqlite = FALSE
  MaxInFlight = 1
  MaxCancels = 0
SPECIFICATION FairSpec
PROPERTY FailedJobIsRetried
