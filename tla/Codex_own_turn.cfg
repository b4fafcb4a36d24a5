SPECIFICATION FairSpec
CONSTANTS
  None = None
  MaxNoise = 2
  Timeouts = FALSE
  ServerFails = FALSE
INVARIANTS
  OutcomeOfOwnTurn
CHECK_DEADLOCK FALSE
