CONSTANTS
  r1 = r1 r2 = r2 d1 = d1 d2 = d2 n1 = n1 n2 = n2 n3 = n3
  Entries = {1, 2, 3}
  Amounts <- MCAmounts
  MaxClock = 2
  Addresses = {d1, d2}
  AccountRequests = {r1, r2}
  MaxSecrets = 3
  MaxBegun = 4
  Nodes = {n1, n2, n3}
  TreeRequests = {r1, r2}
  MaxFilters = 1
  MaxChanges = 2
  Uploads = {r1, r2}
  Deletions = {d1, d2}
  Keys = {n1, n2, n3}
  CacheUsers = {r1, r2}
  CacheSize = 3
  DeleteBatch = 2
  MaxDataChanges = 2
  HandlerIds = {n1, n2, n3}
  Admins = {n1, n2, n3}
  AdminRequests = {r1, r2}
  Servers = {"server"}
  WorkerProcs = {"worker"}
  MaxSuperRoles = 2
  MaxStarts = 3
  MaxAdminCalls = 2
SPECIFICATION Spec
SYMMETRY Symmetry
INVARIANTS
  TypeOK ChainAddsUp LatestIsTotal PendingIsWhereTokenWent VerifiedByProof
  SpentStaysSpent EveryWalkEnds MembersFollowFilters AssetsHaveTheirFiles
  CachedIsCurrent BlockingOrderKept SuperadminRemains
CHECK_DEADLOCK FALSE
