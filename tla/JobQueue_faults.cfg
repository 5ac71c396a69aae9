CONSTANTS
  w1 = w1
  w2 = w2
  Jobs = {1}
  Workers = {w1, w2}
  Concurrency = 1
  Retries = 1
  Faults = {"stop", "crash", "db_error", "late_progress"}
  Sqlite = FALSE
  MaxInFlight = 1
  MaxCancels = 1
SPECIFICATION Spec
SYMMETRY WorkerSymmetry
INVARIANTS TypeOK OneHolder IInv AttemptsCounted
PROPERTIES SettledIsFinal ImplementsLifecycle
