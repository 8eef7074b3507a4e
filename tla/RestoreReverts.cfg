SPECIFICATION Spec
CONSTANTS
  Entries = {"o1", "n1"}
  Old = {"o1"}
INVARIANT FailureIsReverted
\* the restore ends
CHECK_DEADLOCK FALSE
