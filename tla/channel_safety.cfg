CONSTANTS
  r = r
  s1 = s1
  s2 = s2
  b1 = b1
  b2 = b2
  b3 = b3
  b4 = b4
  Threads = {r, s1, s2}
  Receivers = {r}
  Blocks = {b1, b2, b3, b4}
  NoThread = NoThread
  Chan = Chan
  NULL = NULL
  Careful = {"detach", "creator", "drain"}
SYMMETRY SenderSymmetry
SPECIFICATION Spec
INVARIANTS ChannelOK OnePlace NoFault
PROPERTIES ImplementsQueue ImplementsLifecycle
