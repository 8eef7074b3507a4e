SPECIFICATION Spec
CONSTANTS
  a1 = a1
  a2 = a2
  Attempts = {a1, a2}
  c1 = c1
  Clients = {c1}
  t1 = t1
  Topics = {t1}
  NoAttempt = NoAttempt
  NoClient = NoClient
  Capacity = 1
  Overlap = TRUE
  MaxPanics = 0
INVARIANT OutboxFollowsBroadcast
\* the requests end
CHECK_DEADLOCK FALSE
