--------------------------- MODULE RealtimeDelete ---------------------------
(***************************************************************************)
(* Broadcasting the delete of one record: the OnModelDelete and            *)
(* OnModelAfterDelete... hooks of apis/realtime.go.                        *)
(*                                                                         *)
(* The message must be prepared before the delete (the record is gone      *)
(* afterwards) and sent only when the delete is committed.  In between it  *)
(* waits in the store of every subscribed client, its dry cache, and the   *)
(* snapshot for the outbox waits in a process-wide stash.  Both are keyed  *)
(* by the record, not by the delete, so the delete requests of a record    *)
(* that overlap share them.  Each step below is one critical section of    *)
(* the client's lock, the stash or the database.                           *)
(*                                                                         *)
(* The subscriptions of a client and the rules of the record may change at *)
(* any time, and a delete asks for each subscription once whether it       *)
(* exists and is allowed the record: the answer is a choice made there.    *)
(***************************************************************************)
EXTENDS Naturals, Sequences, FiniteSets

CONSTANTS
  Attempts,    \* the delete requests of the record
  NoAttempt,   \* not a request
  Clients,     \* the registered realtime clients, of one chunk
  NoClient,    \* not a client
  Topics,      \* the subscriptions that match the record, one for each prefix
  Capacity,    \* clientChannelBufferSize
  Overlap,     \* bound: whether requests start while another is in progress
  MaxPanics    \* bound: panics of the hooks around the delete

ConstantsAssumption ==
  /\ NoAttempt \notin Attempts /\ NoClient \notin Clients
  /\ Capacity \in Nat \ {0} /\ MaxPanics \in Nat /\ Overlap \in BOOLEAN

\* The message that a request prepares for a subscription.
Messages == Attempts \X Topics

VARIABLES
  rowExists,  \* the record is in the database (committed state)
  lockedBy,   \* the attempt whose open transaction has deleted the row
  pc,         \* idle, dry, write, written, flush, drop or done
  checks,     \* the clients' subscriptions the attempt still has to prepare for
  todo,       \* clients the attempt's flush or drop loop still has to visit
  cur, got,   \* the client whose dry cache was read, and the messages it will get
  cache,      \* each client's dry cache
  stash,      \* realtimeDeleteSnapshotStash: the attempt that left a snapshot
  flight,     \* messages held by the goroutine an attempt started for a client
  gone,       \* the clients that were discarded
  queue,      \* each client's channel
  dropped,    \* the messages that found it full, which droppedCount counts
  received,   \* history: messages written to each client
  published,  \* history: the attempts that published to the outbox
  overlapped, \* history: a request has started while another was in progress
  unprepared, \* history: preparing the messages has failed
  panics      \* history: panics so far

loopVars    == <<checks, todo, cur, got>>
dbVars      == <<rowExists, lockedBy>>
clientVars  == <<gone, queue, dropped, received>>
historyVars == <<published, overlapped, unprepared, panics>>
vars == <<dbVars, pc, loopVars, cache, stash, flight, clientVars, historyVars>>

-----------------------------------------------------------------------------
Registered == Clients \ gone

AllOver == \A a \in Attempts : pc[a] \in {"idle", "done"}

GoTo(a, s) == pc' = [pc EXCEPT ![a] = s]
\* Enter a loop over ChunkedClients, after the transaction.
GoToLoop(a, s) == GoTo(a, s) /\ todo' = [todo EXCEPT ![a] = Registered]

Init ==
  /\ rowExists = TRUE /\ lockedBy = NoAttempt
  /\ pc    = [a \in Attempts |-> "idle"]
  /\ checks = [a \in Attempts |-> {}]
  /\ todo  = [a \in Attempts |-> {}]
  /\ cur   = [a \in Attempts |-> NoClient]
  /\ got   = [a \in Attempts |-> <<>>]
  /\ cache = [c \in Clients |-> <<>>]
  /\ stash = NoAttempt
  /\ flight = [a \in Attempts |-> [c \in Clients |-> <<>>]]
  /\ gone = {}
  /\ queue    = [c \in Clients |-> <<>>]
  /\ dropped  = [c \in Clients |-> {}]
  /\ received = [c \in Clients |-> <<>>]
  /\ published = <<>> /\ panics = 0
  /\ overlapped = FALSE /\ unprepared = FALSE

(***************************************************************************)
(* Before the delete: realtimeBroadcastRecord with dryCache, then the stash. *)
(***************************************************************************)
\* The request has found the record.
Start(a) ==
  /\ pc[a] = "idle" /\ rowExists /\ (Overlap \/ AllOver)
  /\ GoTo(a, "dry")
  /\ checks' = [checks EXCEPT ![a] = Registered \X Topics]
  /\ overlapped' = (overlapped \/ ~AllOver)
  /\ UNCHANGED <<dbVars, todo, cur, got, cache, stash, flight, clientVars, published,
                 unprepared, panics>>

\* The loop comes to a subscription of client c.
Check(a, c, t) ==
  /\ pc[a] = "dry" /\ cur[a] = NoClient /\ <<c, t>> \in checks[a]
  /\ checks' = [checks EXCEPT ![a] = @ \ {<<c, t>>}]
  /\ UNCHANGED <<dbVars, pc, todo, cache, stash, flight, clientVars, historyVars>>

\* It does not exist, its rule does not allow it the record, or enriching fails.
DrySkip(a, c, t) == Check(a, c, t) /\ UNCHANGED <<cur, got>>

\* client.Get(dryCacheKey), to which the message is appended.
DryGet(a, c, t) ==
  /\ Check(a, c, t)
  /\ cur' = [cur EXCEPT ![a] = c]
  /\ got' = [got EXCEPT ![a] = Append(cache[c], <<a, t>>)]

\* The loop is done with the client whose dry cache it has read.
Leave(a) ==
  /\ cur' = [cur EXCEPT ![a] = NoClient]
  /\ got' = [got EXCEPT ![a] = <<>>]

DrySetSends(a) ==  \* mutant: dryCache is FALSE, the message is sent at once
  /\ pc[a] = "dry" /\ cur[a] # NoClient
  /\ flight' = [flight EXCEPT ![a][cur[a]] = got[a]]
  /\ Leave(a)
  /\ UNCHANGED <<dbVars, pc, checks, todo, cache, stash, clientVars, historyVars>>

\* client.Set(dryCacheKey, messages)
DrySet(a) ==
  /\ pc[a] = "dry" /\ cur[a] # NoClient
  /\ cache' = [cache EXCEPT ![cur[a]] = got[a]]
  /\ Leave(a)
  /\ UNCHANGED <<dbVars, pc, checks, todo, stash, flight, clientVars, historyVars>>

\* Everything is prepared.
Prepared(a) == pc[a] = "dry" /\ checks[a] = {} /\ cur[a] = NoClient

StashForSubscribers(a) ==  \* mutant: the snapshot is taken only for subscribers
  /\ Prepared(a)
  /\ stash' = IF \E c \in Clients : cache[c] # <<>> THEN a ELSE stash
  /\ GoTo(a, "write")
  /\ UNCHANGED <<dbVars, loopVars, cache, flight, clientVars, historyVars>>

\* realtimeDeleteSnapshotStash.Store
Stash(a) ==
  /\ Prepared(a)
  /\ stash' = a
  /\ GoTo(a, "write")
  /\ UNCHANGED <<dbVars, loopVars, cache, flight, clientVars, historyVars>>

\* A rule or an enrich hook panics: SafeWrap turns it into an error, the rest
\* of the chunk is not visited, no snapshot is stashed and the delete goes on.
DryError(a) ==
  /\ pc[a] = "dry" /\ checks[a] # {} /\ cur[a] = NoClient
  /\ checks' = [checks EXCEPT ![a] = {}] /\ unprepared' = TRUE
  /\ GoTo(a, "write")
  /\ UNCHANGED <<dbVars, todo, cur, got, cache, stash, flight, clientVars, published,
                 overlapped, panics>>

(***************************************************************************)
(* The delete and its transaction.                                         *)
(***************************************************************************)
\* DELETE waits for the row lock of another transaction; when the row is gone
\* it affects no row, which is not an error.
Write(a) ==
  /\ pc[a] = "write" /\ lockedBy = NoAttempt
  /\ lockedBy' = IF rowExists THEN a ELSE NoAttempt
  /\ GoTo(a, "written")
  /\ UNCHANGED <<rowExists, loopVars, cache, stash, flight, clientVars, historyVars>>

Unlock(a) == lockedBy' = IF lockedBy = a THEN NoAttempt ELSE lockedBy

Commit(a) ==
  /\ pc[a] = "written"
  /\ rowExists' = (rowExists /\ lockedBy # a) /\ Unlock(a)
  /\ GoToLoop(a, "flush")
  /\ UNCHANGED <<checks, cur, got, cache, stash, flight, clientVars, historyVars>>

\* The delete failed, or the transaction it was part of.
Rollback(a) ==
  /\ pc[a] \in {"write", "written"}
  /\ Unlock(a)
  /\ GoToLoop(a, "drop")
  /\ UNCHANGED <<rowExists, checks, cur, got, cache, stash, flight, clientVars, historyVars>>

\* A panic around the delete: the transaction is rolled back, no After hook runs.
Panic(a) ==
  /\ pc[a] \in {"write", "written"} /\ panics < MaxPanics
  /\ panics' = panics + 1
  /\ Unlock(a)
  /\ GoTo(a, "done")
  /\ UNCHANGED <<rowExists, loopVars, cache, stash, flight, clientVars, published, overlapped,
                 unprepared>>

(***************************************************************************)
(* OnModelAfterDeleteSuccess: realtimeBroadcastDryCacheKey, then publish.  *)
(***************************************************************************)
\* The loop comes to client c: client.Get(key).
Visit(a, c) ==
  /\ cur[a] = NoClient /\ c \in todo[a]
  /\ todo' = [todo EXCEPT ![a] = @ \ {c}]
  /\ IF cache[c] = <<>> THEN UNCHANGED <<cur, got>>
     ELSE cur' = [cur EXCEPT ![a] = c] /\ got' = [got EXCEPT ![a] = cache[c]]
  /\ UNCHANGED <<dbVars, pc, checks, cache, stash, flight, clientVars, historyVars>>

FlushGet(a, c) == pc[a] = "flush" /\ Visit(a, c)

FlushLosesCopy(a) ==  \* mutant: the goroutine reads the cache after Unset
  /\ pc[a] = "flush" /\ cur[a] # NoClient
  /\ cache' = [cache EXCEPT ![cur[a]] = <<>>]
  /\ Leave(a)
  /\ UNCHANGED <<dbVars, pc, checks, todo, stash, flight, clientVars, historyVars>>

\* client.Unset(key), and a goroutine that sends what was read.
FlushUnset(a) ==
  /\ pc[a] = "flush" /\ cur[a] # NoClient
  /\ cache'  = [cache EXCEPT ![cur[a]] = <<>>]
  /\ flight' = [flight EXCEPT ![a][cur[a]] = got[a]]
  /\ Leave(a)
  /\ UNCHANGED <<dbVars, pc, checks, todo, stash, clientVars, historyVars>>

\* The flush or drop loop has visited all its clients.
Visited(a) == todo[a] = {} /\ cur[a] = NoClient

\* LoadAndDelete of the stash, then publishRealtimeEvent.
Publish(a) ==
  /\ pc[a] = "flush" /\ Visited(a)
  /\ published' = IF stash # NoAttempt THEN Append(published, a) ELSE published
  /\ stash' = NoAttempt
  /\ GoTo(a, "done")
  /\ UNCHANGED <<dbVars, loopVars, cache, flight, clientVars, overlapped, unprepared, panics>>

(***************************************************************************)
(* OnModelAfterDeleteError: realtimeUnsetDryCacheKey, then the stash.      *)
(***************************************************************************)
DropGet(a, c) == pc[a] = "drop" /\ Visit(a, c)

DropKeepsCache(a) ==  \* mutant: the dry cache is not unset
  pc[a] = "drop" /\ cur[a] # NoClient /\ Leave(a)
  /\ UNCHANGED <<dbVars, pc, checks, todo, cache, stash, flight, clientVars, historyVars>>

DropUnset(a) ==
  /\ pc[a] = "drop" /\ cur[a] # NoClient
  /\ cache' = [cache EXCEPT ![cur[a]] = <<>>]
  /\ Leave(a)
  /\ UNCHANGED <<dbVars, pc, checks, todo, stash, flight, clientVars, historyVars>>

DropKeepsStash(a) ==  \* mutant: the snapshot is not deleted
  pc[a] = "drop" /\ Visited(a) /\ GoTo(a, "done")
  /\ UNCHANGED <<dbVars, loopVars, cache, stash, flight, clientVars, historyVars>>

DropStash(a) ==
  /\ pc[a] = "drop" /\ Visited(a)
  /\ stash' = NoAttempt
  /\ GoTo(a, "done")
  /\ UNCHANGED <<dbVars, loopVars, cache, flight, clientVars, historyVars>>

(***************************************************************************)
(* Clients.                                                                *)
(***************************************************************************)
\* DefaultClient.Send: nothing for a discarded client; a message that finds the
\* channel full is dropped.
Send(a, c) ==
  /\ flight[a][c] # <<>>
  /\ flight' = [flight EXCEPT ![a][c] = Tail(@)]
  /\ LET m == Head(flight[a][c]) IN
     \/ c \in gone /\ UNCHANGED <<queue, dropped>>
     \/ /\ c \notin gone /\ Len(queue[c]) < Capacity
        /\ queue' = [queue EXCEPT ![c] = Append(@, m)] /\ UNCHANGED dropped
     \/ /\ c \notin gone /\ Len(queue[c]) = Capacity
        /\ dropped' = [dropped EXCEPT ![c] = @ \cup {m}] /\ UNCHANGED queue
  /\ UNCHANGED <<dbVars, pc, loopVars, cache, stash, gone, received, historyVars>>

\* The loop of realtimeConnect writes the next message.
Receive(c) ==
  /\ queue[c] # <<>>
  /\ received' = [received EXCEPT ![c] = Append(@, Head(queue[c]))]
  /\ queue'    = [queue EXCEPT ![c] = Tail(@)]
  /\ UNCHANGED <<dbVars, pc, loopVars, cache, stash, flight, gone, dropped, historyVars>>

\* realtimeConnect returns: Unregister, which discards the client.
Unregister(c) ==
  /\ c \in Registered
  /\ gone'  = gone \cup {c}
  /\ queue' = [queue EXCEPT ![c] = <<>>]
  /\ UNCHANGED <<dbVars, pc, loopVars, cache, stash, flight, dropped, received, historyVars>>

-----------------------------------------------------------------------------
Request(a) ==
  \/ \E c \in Clients : FlushGet(a, c) \/ DropGet(a, c) \/
       \E t \in Topics : DrySkip(a, c, t) \/ DryGet(a, c, t)
  \/ DrySet(a) \/ Stash(a) \/ DryError(a)
  \/ Write(a) \/ Commit(a) \/ Rollback(a) \/ Panic(a)
  \/ FlushUnset(a) \/ Publish(a)
  \/ DropUnset(a) \/ DropStash(a)

Next ==
  \/ \E a \in Attempts : Start(a) \/ Request(a) \/ \E c \in Clients : Send(a, c)
  \/ \E c \in Clients : Receive(c) \/ Unregister(c)

Spec == Init /\ [][Next]_vars

\* Requests that have started, goroutines and writers keep running; nobody has
\* to make a request or to disconnect.
Fairness ==
  /\ \A a \in Attempts : WF_vars(Request(a)) /\ \A c \in Clients : WF_vars(Send(a, c))
  /\ \A c \in Clients : WF_vars(Receive(c))

FairSpec == Spec /\ Fairness

-----------------------------------------------------------------------------
\* The type invariant; besides the types, the row lock belongs to an attempt
\* inside its transaction, an attempt visits a client in its loops only, and the
\* channel of a discarded client stays empty.
TypeOK ==
  /\ rowExists \in BOOLEAN
  /\ lockedBy \in Attempts \cup {NoAttempt}
  /\ pc \in [Attempts -> {"idle", "dry", "write", "written", "flush", "drop", "done"}]
  /\ checks \in [Attempts -> SUBSET (Clients \X Topics)]
  /\ todo \in [Attempts -> SUBSET Clients]
  /\ cur \in [Attempts -> Clients \cup {NoClient}] /\ got \in [Attempts -> Seq(Messages)]
  /\ cache \in [Clients -> Seq(Messages)] /\ stash \in Attempts \cup {NoAttempt}
  /\ flight \in [Attempts -> [Clients -> Seq(Messages)]]
  /\ gone \in SUBSET Clients
  /\ queue \in [Clients -> Seq(Messages)] /\ \A c \in Clients : Len(queue[c]) <= Capacity
  /\ dropped \in [Clients -> SUBSET Messages] /\ received \in [Clients -> Seq(Messages)]
  /\ published \in Seq(Attempts) /\ panics \in 0..MaxPanics
  /\ overlapped \in BOOLEAN /\ unprepared \in BOOLEAN
  /\ lockedBy # NoAttempt => rowExists /\ pc[lockedBy] = "written"
  /\ \A a \in Attempts : cur[a] # NoClient => pc[a] \in {"dry", "flush", "drop"}
  /\ \A c \in gone : queue[c] = <<>>

\* The W-01 rule (api-contract.md section 5): while the record exists, no client
\* has been sent a delete of it and nothing has been published, whatever other
\* attempts prepare, drop or roll back.
NoDeleteBeforeCommit ==
  rowExists =>
    /\ published = <<>>
    /\ \A c \in Clients : queue[c] = <<>> /\ received[c] = <<>> /\ dropped[c] = {}
    /\ \A a \in Attempts, c \in Clients : flight[a][c] = <<>>

\* When all deletes are over, however they interleaved, no message and no
\* snapshot of them is left for a later delete of the record to send.
NothingLeftBehind ==
  panics = 0 /\ AllOver => stash = NoAttempt /\ \A c \in Registered : cache[c] = <<>>

\* "Delivery is at-most-once" (api-contract.md section 5): a client gets the delete
\* of the record at most once for each of its subscriptions.
AtMostOnce ==
  \A c \in Clients : \A i, j \in DOMAIN received[c] : received[c][i][2] = received[c][j][2] => i = j

\* It does unless delete requests of the record overlap or a hook panics around one:
\* what an attempt prepares and rolls back is never sent by a later one.
DeletedOnce == ~overlapped /\ panics = 0 => AtMostOnce

\* "outbox follows a successful local broadcast" (realtime.go:524): when the deletes
\* are over and one of them has committed, it has been published.
OutboxFollowsBroadcast == ~rowExists /\ ~unprepared /\ AllOver => published # <<>>

\* It does unless delete requests of the record overlap, whatever earlier ones rolled
\* back, failed to prepare or left behind in a panic.
CommitIsPublished == ~overlapped => OutboxFollowsBroadcast

InSeq(m, s) == \E i \in DOMAIN s : s[i] = m

\* A message that waits for a client when a delete has committed is received, unless
\* it finds the channel full, the client leaves or another request overlaps.
EventuallyReceived ==
  \A c \in Clients, m \in Messages :
    InSeq(m, cache[c]) /\ (\E a \in Attempts : pc[a] = "flush" /\ c \in todo[a])
      ~> InSeq(m, received[c]) \/ m \in dropped[c] \/ c \in gone \/ overlapped

=============================================================================
