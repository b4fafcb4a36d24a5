SPECIFICATION Spec
CONSTANTS
  Issue = {i1}
  Worker = {w1, w2, w3}
  None = None
  Active = {todo}
  Terminal = {}
  Other = {review}
  StartState = None
  SuccessState = review
  Config <- OnlyTwoAgents
  InitConfig <- TwoAgents
  Blockable = {}
  MaxRefresh = 1
  MayStop = FALSE
  MaySwallow = FALSE
  MaxAttempt = 2
  MaxMail = 3
SYMMETRY Symmetry
INVARIANTS
  OneWorkerPerIssue
CHECK_DEADLOCK FALSE
