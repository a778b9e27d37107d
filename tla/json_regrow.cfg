CONSTANTS
  Tokens = {"[", "]", "{", "}", ",", ":", "S", "N", "Q", "X"}
  MaxTokens = 9
  FirstCap = 1
  RegrowFails = TRUE
SPECIFICATION JsonSpec
INVARIANT NoFault
CHECK_DEADLOCK FALSE
