CONSTANTS
  c1 = c1
  c2 = c2
  w1 = w1
  w2 = w2
  f1 = f1
  f2 = f2
  b1 = b1
  Callers = {c1, c2}
  Workers = {w1, w2}
  Threads = {c1, c2, w1, w2}
  Futures = {f1, f2}
  Blocks = {b1}
  NoThread = NoThread
  NULL = NULL
  CreateFails = TRUE
  SpawnerAwaits = TRUE
SPECIFICATION FairSpec
INVARIANTS IInv OnePlace NoFault FutureOutlives
PROPERTIES ImplementsPromise StartedAwaitReturns
