SPECIFICATION FairSpec
CONSTANTS
  Comment = {c1, c2}
  Question = {q1, q2}
  None = None
  MaxText = 2
  MaxRestart = 1
INVARIANTS
  TypeOK
PROPERTIES
  OnlyJudgedInput
  WaitsForNewInput
  NotAskedTwice
  AnswersConsidered
CHECK_DEADLOCK FALSE
