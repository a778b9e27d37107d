CONSTANTS
  o1 = o1
  o2 = o2
  o3 = o3
  s1 = s1
  s2 = s2
  x = x
  y = y
  i1 = i1
  i2 = i2
  i3 = i3
  c1 = c1
  c2 = c2
  c3 = c3
  p = p
  q = q
  Objects = {o1, o2, o3}
  MaxChildren = 2
  MaxCount = 2
  Strings = {s1, s2}
  Chars = {x, y}
  NUL = NUL
  Junk = Junk
  Literals <- Texts
  InitialCap = 1
  MaxLength = 3
  SelfAppend = FALSE
  SizeMax = 64
  PtrSize = 8
  DefaultCap = 2
  Caps = {0, 1, 3, 4, 8, 9}
  MaxItems = 4
  Items = {i1, i2, i3}
  None = None
  Garbage = Garbage
  Chunks = {c1, c2, c3}
  NoChunk = NoChunk
  Align = 4
  MetaSize = 8
  ChunkSize = 4
  DefaultSize = 12
  MinSize = 8
  MemLimit = 40
  Sizes = {0, 1, 5, 8, 9, 20, 44, 52, 53, 60, 61, 63}
  MaxGrants = 3
  Tokens = {"[", "]", "{", "}", ",", ":", "S", "N", "Q", "X"}
  MaxTokens = 9
  FirstCap = 1
  RegrowFails = FALSE
  Vars = {p, q}
  MaxVars = 2
  LineLength = 2
  TextLength = 4
  MaxNesting = 2
SYMMETRY Symmetry
SPECIFICATION Spec
INVARIANTS CountsAgree NoDangling
INVARIANT StringsIntact
INVARIANTS VectorIntact ItemsOwnedOnce 
INVARIANT GrantsDisjoint
INVARIANTS HeapOwned NoFault ParseCorrect
INVARIANTS TableAgrees ReportsExact ErrorsGrounded
PROPERTY CollectExact
CHECK_DEADLOCK FALSE
