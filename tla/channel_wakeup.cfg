CONSTANTS
  r = r
  s1 = s1
  s2 = s2
  b1 = b1
  b2 = b2
  b3 = b3
  b4 = b4
  NoThread = NoThread
  Chan = Chan
  NULL = NULL
  Threads = {r, s1, s2}
  Receivers = {r, s1}
  Blocks = {b1, b2, b3}
  Careful = {"detach"}
SPECIFICATION FairSpec
INVARIANTS WakeupPending OnlyRemainingLeak
PROPERTY NoLostWakeup
