SPECIFICATION FairSpec
CONSTANTS
  None = None
  MaxCancels = 2
INVARIANTS
  AttemptInv
PROPERTIES
  ImplementsAttempt
  AttemptEnds
CHECK_DEADLOCK FALSE
