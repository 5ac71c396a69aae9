CONSTANTS
  w1 = w1
  w2 = w2
  Jobs = {1}
  Workers = {w1}
  Concurrency = 1
  Retries = 0
  Faults = {}
  Sqlite = TRUE
  MaxInFlight = 1
  MaxCancels = 1
SPECIFICATION Spec
PROPERTY NextHandsOverTheJob
