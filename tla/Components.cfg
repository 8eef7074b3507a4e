SPECIFICATION ComponentsSpec
CONSTANTS
  old = old
  new1 = new1
  new2 = new2
  Procs = {old, new1, new2}
  NoProc = NoProc
  FileCount = 3
  Known <- MCKnown
  System = {1, 2}
  Conditional = {1}
  Reversible = {1, 3}
  MaxRuns = 4
  CronStarts = 4
  CallsOnceOvertaken = FALSE
  w1 = w1
  w2 = w2
  Writers = {w1, w2}
  Kind = "collections"
  Debounce = 4
  RemoveAfter = 5
  MaxChanges = 3
  o1 = o1
  o2 = o2
  n1 = n1
  n2 = n2
  Entries = {o1, o2, n1, n2}
  Old = {o1, o2}
  Count = 3
  u1 = u1
  u2 = u2
  u3 = u3
  Workers = {u1, u2, u3}
  First = u1
  MaxChunks = 3
  BeatStarts = 3
  t1 = t1
  t2 = t2
  Terminations = {t1, t2}
  a1 = a1
  a2 = a2
  Attempts = {a1, a2}
  NoAttempt = NoAttempt
  c1 = c1
  Clients = {c1}
  NoClient = NoClient
  p1 = p1
  p2 = p2
  Topics = {p1, p2}
  Capacity = 1
  Overlap = FALSE
  MaxPanics = 0
INVARIANT TypesOK
INVARIANT ChangesOnce
INVARIANT RowsMatchSchema
INVARIANT StopHalts
INVARIANT OneStartInEffect
INVARIANT ReloadIsDue
INVARIANT NeverMixed
INVARIANT OldIsKept
INVARIANT AnswersTruly
INVARIANT WritesReported
INVARIANT UploadIsWhole
INVARIANT NothingLeftAtS3
INVARIANT OneHeartbeat
PROPERTY UpCompletes
PROPERTY NewestReverted
PROPERTY EveryRunEnds
PROPERTY QuietCallsReturn
PROPERTY JobsKeepRunning
PROPERTY TicksAreTaken
PROPERTY ReloadsAfterBurst
PROPERTY BatchEnds
PROPERTY EventuallyReceived
\* every component may come to an end: its runs, starts or changes are used up
CHECK_DEADLOCK FALSE
