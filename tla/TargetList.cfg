SPECIFICATION Spec
SYMMETRY Places
CONSTANTS
  Address = {a1, a2}
  NULL = NULL
  MaxFound = 2
  MaxId = 3
  MaxWatch = 1
  Requested <- Kinds
  Mishaps <- Anything
INVARIANTS
  CurNeverDangles
  DetachedIsClean
  StaticsAreCurrent
