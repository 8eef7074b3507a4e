SPECIFICATION Spec
CONSTANTS
  Ops = {o1, o2}
  o1 = o1
  o2 = o2
  Databases = {"data", "aux"}
  ScopeCount = 2
  MaxDepth = 3
  MaxPanics = 0
  CrossDB = TRUE
INVARIANT SuccessMeansCommitted
\* the user code returns in the end
CHECK_DEADLOCK FALSE
