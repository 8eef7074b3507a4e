SPECIFICATION Spec
CONSTANTS
  w1 = w1
  w2 = w2
  Writers = {w1, w2}
  Kinds = {"settings", "collections"}
  Debounce = 4
  RemoveAfter = 5
  MaxChanges = 1
INVARIANT NoReloadMissed
\* the changes end
CHECK_DEADLOCK FALSE
