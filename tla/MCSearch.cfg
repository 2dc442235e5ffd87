SPECIFICATION Spec
CONSTANTS
  A = A
  B = B
  x = x
  y = y
  blank = blank
  Bases <- MCBases
  First = A
  Queries <- MCQueries
  Blank = blank
  Routes <- MCRoutes
  None = None
  Window = 2
  Limit = 1
  Factor = 2
  CacheTTL = 3
  MaxEntries = 1
  ConfigTTL = 2
  Cooldown = 1
  RequestLife = 1
  MaxTime = 4
  MaxRequests = 2
  MaxChanges = 2
INVARIANTS SameSpace FairShare SparesTheQuota
CHECK_DEADLOCK FALSE
