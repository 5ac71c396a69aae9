CONSTANTS
  r1 = r1
  r2 = r2
  Requests = {r1, r2}
  MaxCalls <- MCMaxCalls
  Shared = FALSE
  AbortsOnError = TRUE
  CatchesErrors = TRUE
SPECIFICATION FairSpec
CHECK_DEADLOCK FALSE
INVARIANTS TypeOK AllOrNothing EventsFollowTransaction ConnectionIsClean
PROPERTY EventsAreSettled
