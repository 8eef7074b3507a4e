SPECIFICATION RequestsSpec
CONSTANTS
  Ops = {o1, o2, o3}
  o1 = o1
  o2 = o2
  o3 = o3
  Databases = {"data"}
  ScopeCount = 2
  MaxDepth = 4
  MaxPanics = 1
  CrossDB = FALSE
  f1 = f1
  f2 = f2
  f3 = f3
  FileNames = {f1, f2, f3}
  MaxSaves = 3
  a1 = a1
  a2 = a2
  Attempts = {a1, a2}
  NoAttempt = NoAttempt
  c1 = c1
  Clients = {c1}
  NoClient = NoClient
  t1 = t1
  t2 = t2
  Topics = {t1, t2}
  Capacity = 1
  Overlap = TRUE
  DeletePanics = 1
SYMMETRY OpSymmetry
INVARIANT TypesOK
INVARIANT HooksTellTheTruth
INVARIANT NewAgreesWithRow
INVARIANT EveryOpReported
INVARIANT NoDangling
INVARIANT NoLeftovers
INVARIANT NoDeleteBeforeCommit
INVARIANT NothingLeftBehind
INVARIANT DeletedOnce
 
\* the requests end
CHECK_DEADLOCK FALSE
