CONSTANTS
  r1 = r1
  r2 = r2
  Requests = {r1, r2}
  MaxCalls <- MCMaxCalls
  Shared = FALSE
  AbortsOnError = TRUE
  CatchesErrors = TRUE
SPECIFICATION Spec
CHECK_DEADLOCK FALSE
INVARIANT CommittedAsPromised
