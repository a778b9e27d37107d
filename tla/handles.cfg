CONSTANTS
  t1 = t1
  t2 = t2
  w1 = w1
  w2 = w2
  w3 = w3
  r1 = r1
  m1 = m1
  Mains = {t1}
  Threads = {t1, t2}
  Wrappers = {w1, w2, w3}
  Raws = {r1}
  Mutexes = {m1}
  NULL = NULL
  MaxScopes = 2
  Careful = {"once", "private", "unlocked"}
SPECIFICATION FairSpec
INVARIANTS HandlesOwned LocksOnRecord NoWrapperLeaks NoFault
PROPERTY ScopesEnd
