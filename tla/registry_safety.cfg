CONSTANTS
  t1 = t1
  t2 = t2
  Threads = {t1, t2}
  NoThread = NoThread
  Addrs <- TwoAddrs
  NUM_SHARDS = 1
  QUARANTINE_SIZE = 1
  MaxBorrow = 1
  ClientOps <- Ops
  ExclusiveOps <- SharedDiscipline
SPECIFICATION FairSpec
INVARIANTS LocksHeld IInv QuarantineSound
PROPERTIES BorrowedKeepsMemory LeakReport ImplementsLifecycle ExitCompletes
