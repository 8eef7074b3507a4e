--------------------------- MODULE RealtimeOutbox ---------------------------
(***************************************************************************)
(* The cross-instance realtime outbox of core/realtime_outbox.go and the   *)
(* listener of apis/realtime_outbox_listener.go.                           *)
(*                                                                         *)
(* Every instance appends rows to the table _realtime_outbox, and every    *)
(* instance runs one listener that pages through the rows of the OTHER     *)
(* instances in (created, id) order behind a private forward cursor.  A    *)
(* row gets its "created" from NOW() when its INSERT starts but becomes    *)
(* visible only when the INSERT commits, so rows may become visible out of *)
(* key order; the reader therefore ignores rows younger than a stability   *)
(* lag.  Listeners start at any time, lose their connection, fail to read, *)
(* and are stopped while the application's handles are torn down.          *)
(*                                                                         *)
(* An element of Instances is one process lifetime: a restarted process is *)
(* another element (it has a new origin and a new listener).  A listener   *)
(* that queries with a cleared handle panics, which nothing recovers: the  *)
(* whole process dies.  That is not an orderly end of the listener         *)
(* ("exited") and is a place of its own, "panicked".                       *)
(***************************************************************************)
EXTENDS Naturals, FiniteSets, Sequences

CONSTANTS
  Instances,       \* process lifetimes sharing one database
  Listening,       \* those whose listener is followed (listeners only read the table)
  EventCount,      \* rows that can ever be inserted; their ids are 1..EventCount
  Lag,             \* realtimeOutboxStabilityLag, in clock ticks
  MaxCommitDelay,  \* longest time an INSERT takes from its NOW() to its commit
  BatchSize,       \* realtimeOutboxBatchSize
  Retention,       \* age after which the cleanup cron deletes a row
  MaxTime,         \* bound: the clock stops here
  MaxPublishTime,  \* bound: no INSERT starts after this time
  MaxFaults        \* bound: failed queries and lost connections

Events == 1..EventCount
Time   == 0..MaxTime

ASSUME ConstantsAssumption ==
  /\ Listening \subseteq Instances
  /\ EventCount \in Nat /\ Lag \in Nat /\ MaxCommitDelay \in Nat
  /\ MaxCommitDelay < Lag   \* "1s is a very wide safety margin"
  /\ BatchSize \in Nat \ {0}
  /\ Retention \in Nat /\ MaxTime \in Nat /\ MaxPublishTime \in Nat
  /\ MaxFaults \in Nat

VARIABLES
  now,            \* the database clock
  status,         \* each row: none, inflight, visible, aborted or deleted
  created,        \* the row's created column
  origin,         \* the row's origin column
  pc,             \* where each listener goroutine is
  cursorReady, cursorCreated, cursorId,   \* the listener's fields
  batch,          \* rows returned by the last read
  todo,           \* rows of the batch not processed yet
  stopClosed,     \* stopCh has been closed
  dataDB,         \* the app's data handle: open, closed or nil
  forwarded,      \* history: rows handed to processEvent, in order
  seedCreated, seedId,  \* history: the cursor last obtained from the tail
  faults          \* history: faults so far

table    == <<now, status, created, origin>>
cursor   == <<cursorReady, cursorCreated, cursorId, seedCreated, seedId>>
appState == <<stopClosed, dataDB>>
vars     == <<table, pc, cursor, batch, todo, appState, forwarded, faults>>

(***************************************************************************)
(* Keys.  Rows are ordered by (created, id); the ids are random strings,   *)
(* so any unused id may be the next one.  The zero cursor <<0, 0>> is      *)
(* below every row because time starts at 1.                               *)
(***************************************************************************)
KeyLess(c, e, d, f) == c < d \/ (c = d /\ e < f)

RowLessById(e, f) == e < f  \* mutant: ORDER BY "id"
RowLess(e, f)    == KeyLess(created[e], e, created[f], f)
PastCursorOrAt(i, e) ==     \* mutant: >= instead of >
  ~KeyLess(created[e], e, cursorCreated[i], cursorId[i])
PastCursor(i, e) == KeyLess(cursorCreated[i], cursorId[i], created[e], e)
PastSeed(i, e)   == KeyLess(seedCreated[i], seedId[i], created[e], e)

Visible == {e \in Events : status[e] = "visible"}
SettledAtOnce(e) == created[e] <= now  \* mutant: no stability lag
Settled(e) == created[e] + Lag <= now

\* The rows RealtimeOutboxEventsAfter selects before its LIMIT.
Pending(i) == {e \in Visible : PastCursor(i, e) /\ Settled(e) /\ origin[e] # i}

\* B is the ORDER BY created, id LIMIT BatchSize prefix of the pending rows.
IsFirstBatch(i, B) ==
  /\ B \subseteq Pending(i)
  /\ \A e \in B, f \in Pending(i) \ B : RowLess(e, f)
  /\ Cardinality(B) <= BatchSize
  /\ B # Pending(i) => Cardinality(B) = BatchSize

IsLast(e, B)  == e \in B /\ \A f \in B \ {e} : RowLess(f, e)
IsFirst(e, B) == e \in B /\ \A f \in B \ {e} : RowLess(e, f)

-----------------------------------------------------------------------------
Init ==
  /\ now = 1
  /\ status  = [e \in Events |-> "none"]
  /\ created = [e \in Events |-> 0]
  /\ origin  \in [Events -> Instances]
  /\ pc = [i \in Instances |-> "off"]
  /\ cursorReady   = [i \in Instances |-> FALSE]
  /\ cursorCreated = [i \in Instances |-> 0]
  /\ cursorId      = [i \in Instances |-> 0]
  /\ seedCreated   = [i \in Instances |-> 0]
  /\ seedId        = [i \in Instances |-> 0]
  /\ batch = [i \in Instances |-> {}]
  /\ todo  = [i \in Instances |-> {}]
  /\ stopClosed = [i \in Instances |-> FALSE]
  /\ dataDB     = [i \in Instances |-> "open"]
  /\ forwarded  = [i \in Instances |-> <<>>]
  /\ faults = 0

(***************************************************************************)
(* The table: PublishRealtimeEvent's INSERT, which starts (and fixes       *)
(* created), then commits or fails, and the cleanup cron.  NOTIFY is only  *)
(* a wake-up and the listener polls anyway, so it is not part of the state.*)
(***************************************************************************)
BeginPublish(e) ==
  /\ status[e] = "none"
  /\ now <= MaxPublishTime
  /\ dataDB[origin[e]] = "open"
  /\ status'  = [status  EXCEPT ![e] = "inflight"]
  /\ created' = [created EXCEPT ![e] = now]
  /\ UNCHANGED <<now, origin, pc, cursor, batch, todo, appState, forwarded, faults>>

EndPublish(e) ==
  /\ status[e] = "inflight"
  /\ \E s \in {"visible", "aborted"} : status' = [status EXCEPT ![e] = s]
  /\ UNCHANGED <<now, created, origin, pc, cursor, batch, todo, appState, forwarded, faults>>

Expired == {e \in Visible : created[e] + Retention < now}

CleanupStaleRealtimeEvents ==
  /\ Expired # {}
  /\ status' = [e \in Events |-> IF e \in Expired THEN "deleted" ELSE status[e]]
  /\ UNCHANGED <<now, created, origin, pc, cursor, batch, todo, appState, forwarded, faults>>

\* An INSERT does not stay in flight longer than MaxCommitDelay.
Tick ==
  /\ now < MaxTime
  /\ \A e \in Events : status[e] = "inflight" => now < created[e] + MaxCommitDelay
  /\ now' = now + 1
  /\ UNCHANGED <<status, created, origin, pc, cursor, batch, todo, appState, forwarded, faults>>

-----------------------------------------------------------------------------
Goto(i, l) == pc' = [pc EXCEPT ![i] = l]
Fault == faults < MaxFaults /\ faults' = faults + 1

SetCursorIdOnly(i, c, e) ==  \* mutant: the created half is forgotten
  /\ UNCHANGED cursorCreated
  /\ cursorId' = [cursorId EXCEPT ![i] = e]

SetCursor(i, c, e) ==
  /\ cursorCreated' = [cursorCreated EXCEPT ![i] = c]
  /\ cursorId'      = [cursorId      EXCEPT ![i] = e]

\* RealtimeOutboxTailCursor: the newest row of any origin, settled or not.
IsTail(c, e) ==
  \/ Visible = {} /\ c = 0 /\ e = 0
  \/ IsLast(e, Visible) /\ c = created[e]

\* seedCursorIfNeeded when cursorReady is false and the query succeeds.
SeedFromTail(i) ==
  \E e \in Events \cup {0}, c \in Time :
    /\ IsTail(c, e)
    /\ SetCursor(i, c, e)
    /\ cursorReady' = [cursorReady EXCEPT ![i] = TRUE]
    /\ seedCreated' = [seedCreated EXCEPT ![i] = c]
    /\ seedId'      = [seedId      EXCEPT ![i] = e]

\* registerRealtimeOutboxListener: seed, then start the goroutine.
Register(i) ==
  /\ i \in Listening /\ pc[i] = "off" /\ dataDB[i] = "open"
  /\ Goto(i, "connect")
  /\ \/ SeedFromTail(i) /\ UNCHANGED faults
     \/ Fault /\ UNCHANGED cursor
  /\ UNCHANGED <<table, batch, todo, appState, forwarded>>

\* run: OpenRealtimeOutboxListener first checks the handle ...
Connect(i) ==
  /\ pc[i] = "connect"
  /\ Goto(i, IF dataDB[i] = "nil" THEN "backoff" ELSE "dial")
  /\ UNCHANGED <<table, cursor, batch, todo, appState, forwarded, faults>>

\* ... then queries with whatever NonconcurrentDB() returns by now, dials and LISTENs.
Dial(i) ==
  /\ pc[i] = "dial"
  /\ \/ dataDB[i] = "open" /\ Goto(i, "seed") /\ UNCHANGED faults
     \/ dataDB[i] = "open" /\ Fault /\ Goto(i, "backoff")
     \/ dataDB[i] = "closed" /\ Goto(i, "backoff") /\ UNCHANGED faults
     \/ dataDB[i] = "nil" /\ Goto(i, "panicked") /\ UNCHANGED faults
  /\ UNCHANGED <<table, cursor, batch, todo, appState, forwarded>>

BackoffGivesUp(i) ==  \* mutant: return instead of continue
  /\ pc[i] = "backoff"
  /\ Goto(i, "exited")
  /\ UNCHANGED <<table, cursor, batch, todo, appState, forwarded, faults>>

Backoff(i) ==
  /\ pc[i] = "backoff"
  /\ Goto(i, IF stopClosed[i] THEN "exited" ELSE "connect")
  /\ UNCHANGED <<table, cursor, batch, todo, appState, forwarded, faults>>

\* seedCursorIfNeeded after a successful LISTEN.
Seed(i) ==
  /\ pc[i] = "seed"
  /\ \/ cursorReady[i] /\ Goto(i, "check") /\ UNCHANGED <<cursor, faults>>
     \/ ~cursorReady[i] /\ dataDB[i] = "open" /\ SeedFromTail(i)
          /\ Goto(i, "check") /\ UNCHANGED faults
     \/ ~cursorReady[i] /\ dataDB[i] = "open" /\ Fault
          /\ Goto(i, "check") /\ UNCHANGED cursor
     \/ ~cursorReady[i] /\ dataDB[i] = "closed"
          /\ Goto(i, "check") /\ UNCHANGED <<cursor, faults>>
     \/ ~cursorReady[i] /\ dataDB[i] = "nil"
          /\ Goto(i, "panicked") /\ UNCHANGED <<cursor, faults>>
  /\ UNCHANGED <<table, batch, todo, appState, forwarded>>

CheckNever(i) ==  \* mutant: the pass does not look at stopCh
  /\ pc[i] = "check"
  /\ Goto(i, "read")
  /\ UNCHANGED <<table, cursor, batch, todo, appState, forwarded, faults>>

\* The stop check before every batch.
Check(i) ==
  /\ pc[i] = "check"
  /\ Goto(i, IF stopClosed[i] THEN "exited" ELSE "read")
  /\ UNCHANGED <<table, cursor, batch, todo, appState, forwarded, faults>>

\* RealtimeOutboxEventsAfter; a failed or an empty read ends the pass.
Read(i) ==
  /\ pc[i] = "read"
  /\ \/ /\ dataDB[i] = "open"
        /\ \E B \in SUBSET Pending(i) :
             /\ IsFirstBatch(i, B)
             /\ batch' = [batch EXCEPT ![i] = B]
             /\ todo'  = [todo  EXCEPT ![i] = B]
             /\ Goto(i, IF B = {} THEN "wait" ELSE "process")
        /\ UNCHANGED faults
     \/ dataDB[i] = "open" /\ Fault /\ Goto(i, "wait") /\ UNCHANGED <<batch, todo>>
     \/ dataDB[i] = "closed" /\ Goto(i, "wait") /\ UNCHANGED <<batch, todo, faults>>
     \/ dataDB[i] = "nil" /\ Goto(i, "panicked") /\ UNCHANGED <<batch, todo, faults>>
  /\ UNCHANGED <<table, cursor, appState, forwarded>>

\* processEvent: its errors are logged and never stop the pass.  Its queries go
\* through RecordQuery and ModelQuery, which answer a cleared handle with an error.
Process(i) ==
  /\ pc[i] = "process"
  /\ \E e \in todo[i] :
       /\ IsFirst(e, todo[i])
       /\ forwarded' = [forwarded EXCEPT ![i] = Append(@, e)]
       /\ todo' = [todo EXCEPT ![i] = @ \ {e}]
  /\ UNCHANGED <<table, pc, cursor, batch, appState, faults>>

Advance(i) ==
  /\ pc[i] = "process" /\ todo[i] = {}
  /\ \E e \in batch[i] : IsLast(e, batch[i]) /\ SetCursor(i, created[e], e)
  /\ batch' = [batch EXCEPT ![i] = {}]
  /\ Goto(i, IF Cardinality(batch[i]) < BatchSize THEN "wait" ELSE "check")
  /\ UNCHANGED <<table, cursorReady, seedCreated, seedId, todo, appState, forwarded, faults>>

\* NOTIFY, the 5s wait timeout or the poll ticker.
Wake(i) ==
  /\ pc[i] = "wait"
  /\ Goto(i, "check")
  /\ UNCHANGED <<table, cursor, batch, todo, appState, forwarded, faults>>

ConnectionLost(i) ==
  /\ pc[i] = "wait" /\ Fault
  /\ Goto(i, "backoff")
  /\ UNCHANGED <<table, cursor, batch, todo, appState, forwarded>>

-----------------------------------------------------------------------------
(* The OnTerminate chain: stop() runs first, ResetBootstrapState last. It  *)
(* closes the pools and then clears the handles.                           *)
Stop(i) ==
  /\ pc[i] # "off" /\ ~stopClosed[i]
  /\ stopClosed' = [stopClosed EXCEPT ![i] = TRUE]
  /\ UNCHANGED <<table, pc, cursor, batch, todo, dataDB, forwarded, faults>>

ResetBootstrapState(i) ==
  /\ stopClosed[i]
  /\ \/ dataDB[i] = "open"   /\ dataDB' = [dataDB EXCEPT ![i] = "closed"]
     \/ dataDB[i] = "closed" /\ dataDB' = [dataDB EXCEPT ![i] = "nil"]
  /\ UNCHANGED <<table, pc, cursor, batch, todo, stopClosed, forwarded, faults>>

-----------------------------------------------------------------------------
Listener(i) ==
  \/ Connect(i) \/ Dial(i) \/ Backoff(i) \/ Seed(i) \/ Check(i)
  \/ Read(i) \/ Process(i) \/ Advance(i) \/ Wake(i)

Next ==
  \/ \E e \in Events : BeginPublish(e) \/ EndPublish(e)
  \/ CleanupStaleRealtimeEvents
  \/ Tick
  \/ \E i \in Instances :
       Register(i) \/ Listener(i) \/ ConnectionLost(i) \/ Stop(i) \/ ResetBootstrapState(i)

Spec == Init /\ [][Next]_vars

\* The Go scheduler runs the listener goroutine, and time passes.
Fairness ==
  /\ WF_vars(Tick)
  /\ \A i \in Instances : WF_vars(Listener(i))
  /\ \A e \in Events : WF_vars(EndPublish(e))

FairSpec == Spec /\ Fairness

-----------------------------------------------------------------------------
(***************************************************************************)
(* Properties.                                                             *)
(***************************************************************************)
IsKey(c, e) == IF e = 0 THEN c = 0
               ELSE e \in Events /\ c = created[e] /\ status[e] \in {"visible", "deleted"}

Labels == {"off", "connect", "dial", "backoff", "seed", "check",
           "read", "process", "wait", "exited", "panicked"}

VarTypes ==
  /\ now \in Nat /\ faults \in Nat
  /\ status \in [Events -> {"none", "inflight", "visible", "aborted", "deleted"}]
  /\ created \in [Events -> Nat]
  /\ origin \in [Events -> Instances]
  /\ pc \in [Instances -> Labels]
  /\ cursorReady \in [Instances -> BOOLEAN]
  /\ cursorCreated \in [Instances -> Nat] /\ cursorId \in [Instances -> Nat]
  /\ seedCreated \in [Instances -> Nat] /\ seedId \in [Instances -> Nat]
  /\ batch \in [Instances -> SUBSET Events] /\ todo \in [Instances -> SUBSET Events]
  /\ stopClosed \in [Instances -> BOOLEAN]
  /\ dataDB \in [Instances -> {"open", "closed", "nil"}]
  /\ forwarded \in [Instances -> Seq(Events)]

CursorsAreKeys ==
  \A i \in Instances :
    IsKey(cursorCreated[i], cursorId[i]) /\ IsKey(seedCreated[i], seedId[i])

BatchesInProcess ==
  \A i \in Instances :
    /\ todo[i] \subseteq batch[i]
    /\ \A e \in batch[i] : status[e] \in {"visible", "deleted"}
    /\ batch[i] # {} <=> pc[i] = "process"

\* The type invariant; besides the types, a cursor is zero or the key of a row
\* that was visible, and a batch is at hand exactly while it is processed.
TypeOK == VarTypes /\ CursorsAreKeys /\ BatchesInProcess

Forwarded(i) == {forwarded[i][k] : k \in DOMAIN forwarded[i]}

\* Once a cursor has moved past a foreign row that lies after the point the
\* listener was seeded at, the row has been handed to processEvent: paging by a
\* high-water mark loses no row, although rows commit out of key order.
NoSkip ==
  \A i \in Instances, e \in Visible :
    origin[e] # i /\ PastSeed(i, e) /\ ~PastCursor(i, e) => e \in Forwarded(i)

\* Every listener hands rows over in strictly increasing key order.  So no row
\* is broadcast twice by an instance, whatever reconnects and failed reads
\* happen in between, and any two instances agree on the order of events.
InOrder ==
  \A i \in Instances : \A k, l \in DOMAIN forwarded[i] :
    k < l => RowLess(forwarded[i][k], forwarded[i][l])

\* A committed foreign row behind the cursor of no seeded listener is, in the
\* end, broadcast by that listener, unless the listener is stopped or the
\* cleanup cron removes the row first.
EventuallyForwarded ==
  \A i \in Instances, e \in Events :
    (cursorReady[i] /\ status[e] = "visible" /\ origin[e] # i /\ PastCursor(i, e))
      ~> (e \in Forwarded(i) \/ stopClosed[i] \/ status[e] = "deleted")

\* Closing stopCh makes the listener goroutine return, from wherever it is,
\* unless the teardown that goes on meanwhile clears the handle first: what
\* happens then is the subject of HandleOutlivesPass.
StopEndsListener ==
  \A i \in Instances : stopClosed[i] ~> (pc[i] = "exited" \/ dataDB[i] = "nil")

(***************************************************************************)
(* The outbox implements the gap-free ordered broadcast of BroadcastLog.   *)
(***************************************************************************)
Log == INSTANCE BroadcastLog WITH
  Listeners <- Instances,
  stage     <- [e \in Events |-> CASE status[e] = "visible" -> "published"
                                  [] status[e] = "deleted" -> "expired"
                                  [] OTHER -> "none"],
  stamp     <- [e \in Events |-> IF status[e] \in {"visible", "deleted"}
                                 THEN created[e] ELSE 0],
  sender    <- origin,
  attached  <- cursorReady,
  baseStamp <- seedCreated,
  baseId    <- seedId,
  heard     <- forwarded

\* Every behaviour of the table, its cleanup and its listeners is, seen through
\* the mapping above, a behaviour of the abstract broadcast log.
ImplementsLog == Log!Spec

(***************************************************************************)
(* Claims of the source's comments that the code does not keep (findings). *)
(***************************************************************************)
\* realtime_outbox.go:137-145: a row that becomes visible is never behind the
\* cursor of another instance's listener, where it would be skipped forever.
CommitsAheadOfCursors ==
  [][\A e \in Events, i \in Instances :
       status[e] = "inflight" /\ status'[e] = "visible" /\ origin[e] # i /\ cursorReady[i]
         => PastCursor(i, e)]_vars

\* realtime_outbox_listener.go:138-141 and 220-222: the stop check before a pass
\* keeps the teardown from clearing the handle under it.  When it does not, the
\* read panics and kills the process instead of ending it in order.
HandleOutlivesPass ==
  \A i \in Instances : pc[i] = "read" => dataDB[i] # "nil"

=============================================================================
