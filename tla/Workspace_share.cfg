SPECIFICATION FairSpec
CONSTANTS
  Caller = {c1, c2, c3}
INVARIANTS
  SharingInv
PROPERTIES
  PreparedWhenReturned
  ReadyUntilCleaned
  CallsReturn
CHECK_DEADLOCK FALSE
