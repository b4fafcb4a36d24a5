SPECIFICATION FairSpec
CONSTANTS
  Issue = {i1}
  Worker = {w1, w2}
  None = None
  Active = {todo}
  Terminal = {done}
  Other = {review}
  StartState = None
  SuccessState = review
  Config <- OnlyOneAgent
  InitConfig <- OneAgent
  Blockable = {i1}
  MaxRefresh = 0
  MayStop = TRUE
  MaySwallow = FALSE
  MaxAttempt = 2
  MaxMail = 5
INVARIANTS
  NoTurnInCleanup
  ShutdownReachesAll
PROPERTIES
  PollingGoesOn
  DeadEntriesReaped
  ShutdownHonoured
CHECK_DEADLOCK FALSE
