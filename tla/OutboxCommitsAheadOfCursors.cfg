SPECIFICATION Spec
CONSTANTS
  Instances = {i1, i2}
  Listening = {i1}
  i1 = i1
  i2 = i2
  EventCount = 2
  Lag = 2
  MaxCommitDelay = 1
  BatchSize = 1
  Retention = 6
  MaxTime = 4
  MaxPublishTime = 2
  MaxFaults = 1
PROPERTY CommitsAheadOfCursors
\* the clock and the rows are bounded, so every behaviour ends
CHECK_DEADLOCK FALSE
