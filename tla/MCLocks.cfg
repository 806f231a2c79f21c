SPECIFICATION FairSpec
CONSTANTS
  Threads = {t1, t2}
  Peers = {p1}
  Nobody = Nobody
  Mutexes <- SrnpMutexes
  Rank <- SrnpRank
  Paths <- SrnpPaths
  Callbacks <- SrnpCallbacks
  MaxCalls = 2
CHECK_DEADLOCK FALSE
INVARIANT LockOrder
PROPERTY CallsReturn
