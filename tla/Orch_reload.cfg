SPECIFICATION Spec
CONSTANTS
  Issue = {i1}
  Worker = {w1, w2}
  None = None
  Active = {todo}
  Terminal = {}
  Other = {review}
  StartState = None
  SuccessState = None
  Config <- Reloads
  InitConfig <- TwoAgents
  Blockable = {}
  MaxRefresh = 1
  MayStop = FALSE
  MaySwallow = TRUE
  MaxAttempt = 2
  MaxMail = 2
SYMMETRY Symmetry
INVARIANTS
  ConfigCatchesUp
  ClaimsOwned
  RetryOrRunning
  NoStrandedRetry
  TickChainAlive
PROPERTIES
  ImplementsLifecycle
  EntriesNotReplaced
CHECK_DEADLOCK FALSE
