CONSTANTS
  t1 = t1
  t2 = t2
  Threads = {t1, t2}
  NoThread = NoThread
  Addrs <- TwoAddrs
  NUM_SHARDS = 1
  QUARANTINE_SIZE = 2
  MaxBorrow = 1
  ClientOps <- ClaimOps
  ExclusiveOps <- NoClaimDiscipline
SYMMETRY ThreadSymmetry
SPECIFICATION Spec
INVARIANT InterceptsDoubleFree
