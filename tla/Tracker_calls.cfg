SPECIFICATION Spec
CONSTANTS
  Issues = 2
  a = a
  b = b
  Team = {a, b}
  team <- TwoTeams
  Name = {todo, done}
  Active = {todo}
  Caller = {c1, c2}
  PageSize = 1
  None = None
SYMMETRY Symmetry
INVARIANTS
  CacheInv
  FetchComplete
CHECK_DEADLOCK FALSE
