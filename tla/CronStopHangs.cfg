SPECIFICATION FairSpec
CONSTANTS
  StartCount = 1
  CallsOnceOvertaken = TRUE
PROPERTY CallsReturn
\* the starts are used up and the cron is stopped
CHECK_DEADLOCK FALSE
