SPECIFICATION FairSpec
CONSTANTS
  Worker = {w1, w2}
  MaxEdit = 2
INVARIANTS
  ServiceInv
PROPERTIES
  GraceGiven
  EditsLand
  ShutdownEnds
CHECK_DEADLOCK FALSE
