SPECIFICATION Spec
CONSTANTS
  StartCount = 1
  CallsOnceOvertaken = TRUE
INVARIANT StopIsFinal
\* the starts are used up and the cron is stopped
CHECK_DEADLOCK FALSE
