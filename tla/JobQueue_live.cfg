CONSTANTS
  w1 = w1
  w2 = w2
  Jobs = {1, 2, 3}
  Workers = {w1}
  Concurrency = 2
  Retries = 1
  Faults = {}
  Sqlite = FALSE
  MaxInFlight = 1
  MaxCancels = 0
SPECIFICATION FairSpec
INVARIANTS ActiveWithinConcurrency RunningHasHolder
PROPERTY EveryJobSettles
