SPECIFICATION FairSpec
CONSTANTS
  None = None
  MaxNoise = 2
  Timeouts = TRUE
  ServerFails = TRUE
INVARIANTS
  SessionInv
  NoRequestForgotten
PROPERTIES
  TurnEnds
  SessionEnds
CHECK_DEADLOCK FALSE
