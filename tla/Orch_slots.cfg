SPECIFICATION Spec
CONSTANTS
  Issue = {i1, i2}
  Worker = {w1, w2}
  None = None
  Active = {todo, doing}
  Terminal = {}
  Other = {review}
  StartState = doing
  SuccessState = review
  Config <- OnlyOnePerState
  InitConfig <- OnePerState
  Blockable = {}
  MaxRefresh = 0
  MayStop = FALSE
  MaySwallow = FALSE
  MaxAttempt = 2
  MaxMail = 3
SYMMETRY Symmetry
INVARIANTS
  TypeOK
  WorkersOwned
  ExitsAreCurrent
  BackoffHonoured
  OneTickAtATime
PROPERTIES
  DispatchWithinCaps
CHECK_DEADLOCK FALSE
