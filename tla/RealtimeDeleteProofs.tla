------------------------ MODULE RealtimeDeleteProofs ------------------------
(***************************************************************************)
(* Proofs about the broadcast of a delete, for any number of requests and  *)
(* of clients: nothing is sent before a commit and nothing prepared is     *)
(* left behind, however the requests overlap, and what holds as long as    *)
(* they do not.                                                            *)
(***************************************************************************)
EXTENDS RealtimeDelete, TLAPS

\* What is taken from a channel or a goroutine.
LEMMA TailType ==
  ASSUME NEW S, NEW s \in Seq(S), s # <<>>
  PROVE  Tail(s) \in Seq(S) /\ Len(Tail(s)) = Len(s) - 1 /\ Head(s) \in S /\ Len(s) \in Nat
  OBVIOUS

\* What is added to one.
LEMMA AppendType ==
  ASSUME NEW S, NEW s \in Seq(S), NEW e \in S
  PROVE  Append(s, e) \in Seq(S) /\ Len(Append(s, e)) = Len(s) + 1 /\ Append(s, e) # <<>>
<1>1. Append(s, e) \in Seq(S) /\ Len(Append(s, e)) = Len(s) + 1
  OBVIOUS
<1>2. Len(s) + 1 # 0 /\ Len(<<>>) = 0
  OBVIOUS
<1>3. QED BY <1>1, <1>2

-----------------------------------------------------------------------------
(* Type correctness, in the parts that steps share. *)

Places == {"idle", "dry", "write", "written", "flush", "drop", "done"}

RowTypes ==
  /\ rowExists \in BOOLEAN /\ lockedBy \in Attempts \cup {NoAttempt}
  /\ pc \in [Attempts -> Places] /\ panics \in 0..MaxPanics
  /\ lockedBy # NoAttempt => rowExists /\ pc[lockedBy] = "written"

LoopTypes ==
  /\ checks \in [Attempts -> SUBSET (Clients \X Topics)]
  /\ todo \in [Attempts -> SUBSET Clients]
  /\ cur \in [Attempts -> Clients \cup {NoClient}] /\ got \in [Attempts -> Seq(Messages)]
  /\ \A a \in Attempts : cur[a] # NoClient => pc[a] \in {"dry", "flush", "drop"}

StoreTypes ==
  cache \in [Clients -> Seq(Messages)] /\ stash \in Attempts \cup {NoAttempt}

SendTypes ==
  /\ flight \in [Attempts -> [Clients -> Seq(Messages)]]
  /\ gone \in SUBSET Clients
  /\ queue \in [Clients -> Seq(Messages)] /\ \A c \in Clients : Len(queue[c]) <= Capacity
  /\ dropped \in [Clients -> SUBSET Messages] /\ received \in [Clients -> Seq(Messages)]
  /\ published \in Seq(Attempts)
  /\ \A c \in gone : queue[c] = <<>>

HistoryTypes == overlapped \in BOOLEAN /\ unprepared \in BOOLEAN

\* The type invariant is its parts.
LEMMA Parts ==
  /\ TypeOK <=> RowTypes /\ LoopTypes /\ StoreTypes /\ SendTypes /\ HistoryTypes
  /\ TypeOK' <=> RowTypes' /\ LoopTypes' /\ StoreTypes' /\ SendTypes' /\ HistoryTypes'
<1>1. TypeOK <=> RowTypes /\ LoopTypes /\ StoreTypes /\ SendTypes /\ HistoryTypes
  BY DEF TypeOK, RowTypes, LoopTypes, StoreTypes, SendTypes, HistoryTypes, Places
<1>2. TypeOK' <=> RowTypes' /\ LoopTypes' /\ StoreTypes' /\ SendTypes' /\ HistoryTypes'
  BY DEF TypeOK, RowTypes, LoopTypes, StoreTypes, SendTypes, HistoryTypes, Places
<1>3. QED BY <1>1, <1>2

\* What a request may announce is committed: a request that has written holds the
\* lock, or somebody else's delete is committed.
Announces ==
  \A a \in Attempts : /\ pc[a] = "written" => lockedBy = a \/ ~rowExists
                      /\ pc[a] = "flush" => ~rowExists

\* The loop of a request has c before it, or is with it.
Faces(a, c) == c \in todo[a] \/ cur[a] = c

\* What is prepared for a client is still going to be flushed or dropped.
WillVisit(a, c) ==
  pc[a] \in {"dry", "write", "written"} \/ (pc[a] \in {"flush", "drop"} /\ Faces(a, c))

CacheOwned ==
  panics = 0 => \A c \in Registered : cache[c] # <<>> => \E a \in Attempts : WillVisit(a, c)

StashOwned ==
  panics = 0 /\ stash # NoAttempt =>
    \E a \in Attempts : pc[a] \in {"write", "written", "flush", "drop"}

\* The inductive invariant.
IInv == TypeOK /\ Announces /\ NoDeleteBeforeCommit /\ CacheOwned /\ StashOwned

\* At the start nothing is prepared or sent.
LEMMA InitIInv == ConstantsAssumption /\ Init => IInv
<1> SUFFICES ASSUME ConstantsAssumption, Init PROVE IInv
  OBVIOUS
<1> USE DEF ConstantsAssumption
<1>1. RowTypes /\ LoopTypes
  BY DEF Init, RowTypes, LoopTypes, Places
<1>2. StoreTypes /\ SendTypes
  <2>1. <<>> \in Seq(Messages) /\ <<>> \in Seq(Attempts) /\ Len(<<>>) = 0 /\ 0 <= Capacity
    OBVIOUS
  <2>2. QED BY <2>1 DEF Init, StoreTypes, SendTypes
<1>3. HistoryTypes /\ Announces /\ NoDeleteBeforeCommit
  BY DEF Init, HistoryTypes, Announces, NoDeleteBeforeCommit
<1>4. CacheOwned /\ StashOwned
  <2>1. \A c \in Registered : cache[c] = <<>>
    BY DEF Init, Registered
  <2>2. stash = NoAttempt
    BY DEF Init
  <2>3. QED BY <2>1, <2>2 DEF CacheOwned, StashOwned
<1>5. QED BY <1>1, <1>2, <1>3, <1>4, Parts DEF IInv

-----------------------------------------------------------------------------
(* The steps, grouped by what they leave alone. *)

\* The loop before the delete, the loop after it goes to a client, and both leave one.
Dries(a)  == \E c \in Clients, t \in Topics : DrySkip(a, c, t) \/ DryGet(a, c, t)
Gets(a)   == \E c \in Clients : FlushGet(a, c) \/ DropGet(a, c)
Leaves(a) == DrySet(a) \/ FlushUnset(a) \/ DropUnset(a)
\* A loop ends.
Ends(a)   == Stash(a) \/ Publish(a) \/ DropStash(a)
\* The transaction, and what ends it.
Writes(a) == Write(a) \/ Commit(a) \/ Rollback(a) \/ Panic(a)
\* The steps of clients and of what sends to them.
Delivers == \E c \in Clients : (\E a \in Attempts : Send(a, c)) \/ Receive(c) \/ Unregister(c)

\* Every step is of one of the groups.
LEMMA NextCases ==
  ASSUME Next
  PROVE  \/ \E a \in Attempts : \/ Start(a) \/ Dries(a) \/ Gets(a) \/ Leaves(a) \/ Ends(a)
                                \/ DryError(a) \/ Writes(a)
         \/ Delivers
  BY DEF Next, Request, Dries, Gets, Leaves, Ends, Writes, Delivers

\* A request goes on from one place to another.
LEMMA GoToPc ==
  ASSUME pc \in [Attempts -> Places], NEW a \in Attempts, NEW s \in Places, GoTo(a, s)
  PROVE  /\ pc' \in [Attempts -> Places]
         /\ pc'[a] = s /\ \A b \in Attempts \ {a} : pc'[b] = pc[b]
  BY DEF GoTo

\* The row, its lock and where the requests are.
LEMMA RowStep ==
  ASSUME ConstantsAssumption, RowTypes, Announces, Next
  PROVE  RowTypes' /\ Announces' /\ (rowExists' => rowExists)
<1> USE DEF ConstantsAssumption
<1>1. ASSUME UNCHANGED <<rowExists, lockedBy, pc, panics>>
      PROVE  RowTypes' /\ Announces' /\ (rowExists' => rowExists)
  BY <1>1 DEF RowTypes, Announces
<1>2. ASSUME NEW a \in Attempts, NEW s \in {"dry", "write", "done"},
             pc[a] # "written", GoTo(a, s), UNCHANGED <<rowExists, lockedBy, panics>>
      PROVE  RowTypes' /\ Announces' /\ (rowExists' => rowExists)
  <2>1. /\ pc' \in [Attempts -> Places]
        /\ pc'[a] = s /\ \A b \in Attempts \ {a} : pc'[b] = pc[b]
    BY <1>2, GoToPc DEF RowTypes, Places
  <2>2. QED BY <1>2, <2>1 DEF RowTypes, Announces
<1>3. ASSUME NEW a \in Attempts, Start(a) \/ Ends(a) \/ DryError(a)
      PROVE  RowTypes' /\ Announces' /\ (rowExists' => rowExists)
  <2>1. UNCHANGED <<rowExists, lockedBy, panics>> /\ pc[a] # "written"
    BY <1>3 DEF Start, Ends, Stash, Prepared, Publish, DropStash, DryError, dbVars, historyVars
  <2>2. GoTo(a, "dry") \/ GoTo(a, "write") \/ GoTo(a, "done")
    BY <1>3 DEF Start, Ends, Stash, Publish, DropStash, DryError
  <2>3. QED BY <1>2, <2>1, <2>2
<1>4. ASSUME NEW a \in Attempts, Dries(a) \/ Gets(a) \/ Leaves(a)
      PROVE  RowTypes' /\ Announces' /\ (rowExists' => rowExists)
  BY <1>1, <1>4 DEF Dries, Gets, Leaves, DrySkip, DryGet, Check, FlushGet, DropGet, Visit, DrySet,
                    FlushUnset, DropUnset, dbVars, historyVars
<1>5. ASSUME NEW a \in Attempts, Write(a)
      PROVE  RowTypes' /\ Announces' /\ (rowExists' => rowExists)
  <2>1. /\ pc' \in [Attempts -> Places]
        /\ pc'[a] = "written" /\ \A b \in Attempts \ {a} : pc'[b] = pc[b]
    BY <1>5, GoToPc DEF Write, RowTypes, Places
  <2>2. QED BY <1>5, <2>1 DEF Write, RowTypes, Announces, historyVars
<1>6. ASSUME NEW a \in Attempts, Commit(a)
      PROVE  RowTypes' /\ Announces' /\ (rowExists' => rowExists)
  <2>1. rowExists' = FALSE /\ lockedBy' = NoAttempt /\ UNCHANGED panics
    BY <1>6 DEF Commit, Unlock, RowTypes, Announces, historyVars
  <2>2. pc' \in [Attempts -> Places]
    BY <1>6, GoToPc DEF Commit, GoToLoop, RowTypes, Places
  <2>3. QED BY <2>1, <2>2 DEF RowTypes, Announces
<1>7. ASSUME NEW a \in Attempts, Rollback(a) \/ Panic(a)
      PROVE  RowTypes' /\ Announces' /\ (rowExists' => rowExists)
  <2>1. /\ UNCHANGED rowExists
        /\ lockedBy' = IF lockedBy = a THEN NoAttempt ELSE lockedBy
        /\ panics' \in 0..MaxPanics
    BY <1>7 DEF Rollback, Panic, Unlock, RowTypes, historyVars
  <2>2. GoTo(a, "drop") \/ GoTo(a, "done")
    BY <1>7 DEF Rollback, Panic, GoToLoop
  <2>3. /\ pc' \in [Attempts -> Places]
        /\ pc'[a] \in {"drop", "done"} /\ \A b \in Attempts \ {a} : pc'[b] = pc[b]
    BY <2>2, GoToPc DEF RowTypes, Places
  <2>4. QED BY <2>1, <2>3 DEF RowTypes, Announces
<1>8. CASE Delivers
  BY <1>1, <1>8 DEF Delivers, Send, Receive, Unregister, dbVars, historyVars
<1>9. QED BY <1>3, <1>4, <1>5, <1>6, <1>7, <1>8, NextCases DEF Writes

\* A message for a subscription.
LEMMA MessageType ==
  ASSUME NEW a \in Attempts, NEW t \in Topics
  PROVE  <<a, t>> \in Messages /\ <<a, t>>[2] = t
  BY DEF Messages

\* The step to a client of the loop after the transaction.
LEMMA VisitLoop ==
  ASSUME LoopTypes, StoreTypes, NEW a \in Attempts, NEW c \in Clients, Visit(a, c)
  PROVE  /\ todo' \in [Attempts -> SUBSET Clients] /\ todo'[a] = todo[a] \ {c}
         /\ \A b \in Attempts \ {a} : todo'[b] = todo[b] /\ cur'[b] = cur[b] /\ got'[b] = got[b]
         /\ cur' \in [Attempts -> Clients \cup {NoClient}] /\ got' \in [Attempts -> Seq(Messages)]
         /\ \/ cache[c] = <<>> /\ cur'[a] = NoClient /\ got'[a] = got[a]
            \/ cache[c] # <<>> /\ cur'[a] = c /\ got'[a] = cache[c]
         /\ cur[a] = NoClient /\ c \in todo[a]
<1>1. todo' = [todo EXCEPT ![a] = @ \ {c}] /\ cur[a] = NoClient /\ c \in todo[a]
  BY DEF Visit
<1>2. CASE cache[c] = <<>>
  BY <1>1, <1>2 DEF Visit, LoopTypes
<1>3. CASE cache[c] # <<>>
  <2>1. cur' = [cur EXCEPT ![a] = c] /\ got' = [got EXCEPT ![a] = cache[c]]
    BY <1>3 DEF Visit
  <2>2. cache[c] \in Seq(Messages)
    BY DEF StoreTypes
  <2>3. QED BY <1>1, <1>3, <2>1, <2>2 DEF LoopTypes
<1>4. QED BY <1>2, <1>3

\* The loops of the requests.
LEMMA LoopStep ==
  ASSUME ConstantsAssumption, RowTypes, LoopTypes, StoreTypes, Next
  PROVE  LoopTypes'
<1> USE DEF ConstantsAssumption
<1>1. ASSUME UNCHANGED <<pc, loopVars>> PROVE LoopTypes'
  BY <1>1 DEF LoopTypes, loopVars
<1>2. ASSUME NEW a \in Attempts, Dries(a) PROVE LoopTypes'
  <2>1. PICK c \in Clients, t \in Topics : Check(a, c, t) /\ (DrySkip(a, c, t) \/ DryGet(a, c, t))
    BY <1>2 DEF Dries, DrySkip, DryGet
  <2>2. /\ checks' = [checks EXCEPT ![a] = @ \ {<<c, t>>}] /\ UNCHANGED <<pc, todo>>
        /\ pc[a] = "dry"
    BY <2>1 DEF Check
  <2>3. CASE DrySkip(a, c, t)
    BY <2>2, <2>3 DEF DrySkip, LoopTypes
  <2>4. CASE DryGet(a, c, t)
    <3>1. cur' = [cur EXCEPT ![a] = c] /\ got' = [got EXCEPT ![a] = Append(cache[c], <<a, t>>)]
      BY <2>4 DEF DryGet
    <3>2. Append(cache[c], <<a, t>>) \in Seq(Messages)
      BY MessageType, AppendType DEF StoreTypes
    <3>3. QED BY <2>2, <3>1, <3>2 DEF LoopTypes
  <2>5. QED BY <2>1, <2>3, <2>4
<1>3. ASSUME NEW a \in Attempts, Gets(a) PROVE LoopTypes'
  <2>1. PICK c \in Clients : Visit(a, c) /\ pc[a] \in {"flush", "drop"} /\ UNCHANGED <<pc, checks>>
    BY <1>3 DEF Gets, FlushGet, DropGet, Visit
  <2>2. QED BY <2>1, VisitLoop DEF LoopTypes
<1>4. ASSUME NEW a \in Attempts, Leaves(a) PROVE LoopTypes'
  <2>1. Leave(a) /\ UNCHANGED <<pc, checks, todo>> /\ <<>> \in Seq(Messages)
    BY <1>4 DEF Leaves, DrySet, FlushUnset, DropUnset
  <2>2. QED BY <2>1 DEF Leave, LoopTypes
<1>5. ASSUME NEW a \in Attempts, Start(a) \/ Ends(a) \/ DryError(a) \/ Writes(a)
      PROVE  LoopTypes'
  <2>1. /\ UNCHANGED <<cur, got>> /\ cur[a] = NoClient
        /\ \E s \in Places : GoTo(a, s)
    BY <1>5 DEF Start, Ends, Stash, Prepared, Publish, Visited, DropStash, DryError, Writes, Write,
                Commit, Rollback, Panic, GoToLoop, loopVars, LoopTypes, Places
  <2>2. \A b \in Attempts \ {a} : pc'[b] = pc[b]
    BY <2>1, GoToPc DEF RowTypes
  <2>3. /\ checks' = checks \/ checks' = [checks EXCEPT ![a] = {}]
           \/ checks' = [checks EXCEPT ![a] = Registered \X Topics]
        /\ todo' = todo \/ todo' = [todo EXCEPT ![a] = Registered]
        /\ Registered \subseteq Clients
    BY <1>5 DEF Start, Ends, Stash, Publish, DropStash, DryError, Writes, Write,
                Commit, Rollback, Panic, GoToLoop, loopVars, Registered
  <2>4. checks' \in [Attempts -> SUBSET (Clients \X Topics)]
    BY <2>3 DEF LoopTypes
  <2>5. todo' \in [Attempts -> SUBSET Clients]
    BY <2>3 DEF LoopTypes
  <2>6. QED BY <2>1, <2>2, <2>4, <2>5 DEF LoopTypes
<1>6. CASE Delivers
  BY <1>1, <1>6 DEF Delivers, Send, Receive, Unregister
<1>7. QED BY <1>2, <1>3, <1>4, <1>5, <1>6, NextCases

\* The dry caches hold messages and the stash an attempt.
LEMMA StoreStep ==
  ASSUME LoopTypes, StoreTypes, Next
  PROVE  StoreTypes'
<1>1. ASSUME UNCHANGED <<cache, stash>> PROVE StoreTypes'
  BY <1>1 DEF StoreTypes
<1>2. ASSUME NEW a \in Attempts, Leaves(a) PROVE StoreTypes'
  <2>1. cur[a] # NoClient /\ UNCHANGED stash
    BY <1>2 DEF Leaves, DrySet, FlushUnset, DropUnset
  <2>2. cur[a] \in Clients /\ got[a] \in Seq(Messages) /\ <<>> \in Seq(Messages)
    BY <2>1 DEF LoopTypes
  <2>3. cache' = [cache EXCEPT ![cur[a]] = got[a]] \/ cache' = [cache EXCEPT ![cur[a]] = <<>>]
    BY <1>2 DEF Leaves, DrySet, FlushUnset, DropUnset
  <2>4. QED BY <2>1, <2>2, <2>3 DEF StoreTypes
<1>3. ASSUME NEW a \in Attempts, Ends(a) PROVE StoreTypes'
  BY <1>3 DEF Ends, Stash, Publish, DropStash, StoreTypes
<1>4. ASSUME NEW a \in Attempts, Start(a) \/ Dries(a) \/ Gets(a) \/ DryError(a) \/ Writes(a)
      PROVE  UNCHANGED <<cache, stash>>
  BY <1>4 DEF Start, Dries, DrySkip, DryGet, Check, Gets, FlushGet, DropGet, Visit, DryError,
              Writes, Write, Commit, Rollback, Panic
<1>5. CASE Delivers
  BY <1>1, <1>5 DEF Delivers, Send, Receive, Unregister
<1>6. QED BY <1>1, <1>2, <1>3, <1>4, <1>5, NextCases

\* What does not send, does not publish and keeps the clients.
Silent == UNCHANGED <<flight, gone, queue, dropped, received, published>>

LEMMA SilentSteps ==
  ASSUME NEW a \in Attempts,
         \/ Start(a) \/ Dries(a) \/ Gets(a) \/ DrySet(a) \/ DropUnset(a) \/ Stash(a) \/ DropStash(a)
         \/ DryError(a) \/ Writes(a)
  PROVE  Silent
<1> USE DEF Silent, clientVars, historyVars
<1>1. CASE Start(a) \/ DryError(a) \/ Stash(a) \/ DropStash(a) \/ DrySet(a) \/ DropUnset(a)
  BY <1>1 DEF Start, DryError, Stash, DropStash, DrySet, DropUnset
<1>2. CASE Dries(a) \/ Gets(a)
  BY <1>2 DEF Dries, DrySkip, DryGet, Check, Gets, FlushGet, DropGet, Visit
<1>3. CASE Writes(a)
  BY <1>3 DEF Writes, Write, Commit, Rollback, Panic
<1>4. QED BY <1>1, <1>2, <1>3

\* A message leaves its goroutine.
LEMMA SendQueue ==
  ASSUME ConstantsAssumption, SendTypes, NEW a \in Attempts, NEW c \in Clients, Send(a, c)
  PROVE  /\ flight[a][c] \in Seq(Messages) /\ flight[a][c] # <<>>
         /\ flight' \in [Attempts -> [Clients -> Seq(Messages)]]
         /\ flight'[a][c] = Tail(flight[a][c])
         /\ \A b \in Attempts, d \in Clients : b # a \/ d # c => flight'[b][d] = flight[b][d]
         /\ queue' \in [Clients -> Seq(Messages)] /\ dropped' \in [Clients -> SUBSET Messages]
         /\ \A d \in Clients \ {c} : queue'[d] = queue[d]
         /\ \/ queue'[c] = queue[c]
            \/ queue'[c] = Append(queue[c], Head(flight[a][c])) /\ c \notin gone /\ Len(queue'[c]) <= Capacity
<1> DEFINE m == Head(flight[a][c])
<1>1. flight[a][c] \in Seq(Messages) /\ flight[a][c] # <<>> /\ flight' = [flight EXCEPT ![a][c] = Tail(@)]
  BY DEF Send, SendTypes
<1>2. Tail(flight[a][c]) \in Seq(Messages) /\ m \in Messages
  BY <1>1, TailType
<1>3. /\ flight' \in [Attempts -> [Clients -> Seq(Messages)]]
      /\ flight'[a][c] = Tail(flight[a][c])
      /\ \A b \in Attempts, d \in Clients : b # a \/ d # c => flight'[b][d] = flight[b][d]
  BY <1>1, <1>2 DEF SendTypes
<1>4. CASE c \in gone /\ UNCHANGED <<queue, dropped>>
  BY <1>1, <1>3, <1>4 DEF SendTypes
<1>5. CASE c \notin gone /\ Len(queue[c]) < Capacity /\ queue' = [queue EXCEPT ![c] = Append(@, m)]
           /\ UNCHANGED dropped
  <2>1. queue[c] \in Seq(Messages)
    BY DEF SendTypes
  <2>2. Append(queue[c], m) \in Seq(Messages) /\ Len(Append(queue[c], m)) = Len(queue[c]) + 1
    BY <1>2, <2>1, AppendType
  <2>3. Len(queue[c]) \in Nat /\ Len(queue[c]) + 1 <= Capacity
    BY <1>5, <2>1 DEF ConstantsAssumption
  <2>4. queue' \in [Clients -> Seq(Messages)] /\ queue'[c] = Append(queue[c], m)
        /\ \A d \in Clients \ {c} : queue'[d] = queue[d]
    BY <1>5, <2>2 DEF SendTypes
  <2>5. QED BY <1>1, <1>3, <1>5, <2>2, <2>3, <2>4 DEF SendTypes
<1>6. CASE c \notin gone /\ dropped' = [dropped EXCEPT ![c] = @ \cup {m}] /\ UNCHANGED queue
  <2>1. dropped' \in [Clients -> SUBSET Messages]
    BY <1>2, <1>6 DEF SendTypes
  <2>2. QED BY <1>1, <1>3, <1>6, <2>1 DEF SendTypes
<1>7. QED BY <1>4, <1>5, <1>6 DEF Send

\* A message is written to its client.
LEMMA ReceiveQueue ==
  ASSUME ConstantsAssumption, SendTypes, NEW c \in Clients, Receive(c)
  PROVE  /\ queue[c] \in Seq(Messages) /\ queue[c] # <<>> /\ received[c] \in Seq(Messages)
         /\ queue' \in [Clients -> Seq(Messages)] /\ received' \in [Clients -> Seq(Messages)]
         /\ queue'[c] = Tail(queue[c]) /\ received'[c] = Append(received[c], Head(queue[c]))
         /\ Len(queue'[c]) <= Capacity /\ c \notin gone
         /\ \A d \in Clients \ {c} : queue'[d] = queue[d] /\ received'[d] = received[d]
<1>1. /\ queue[c] \in Seq(Messages) /\ queue[c] # <<>> /\ received[c] \in Seq(Messages)
      /\ Len(queue[c]) <= Capacity
  BY DEF Receive, SendTypes
<1>2. /\ Tail(queue[c]) \in Seq(Messages) /\ Len(Tail(queue[c])) = Len(queue[c]) - 1
      /\ Len(queue[c]) \in Nat /\ Append(received[c], Head(queue[c])) \in Seq(Messages)
  BY <1>1, TailType, AppendType
<1>3. Len(Tail(queue[c])) <= Capacity
  BY <1>1, <1>2 DEF ConstantsAssumption
<1>4. QED BY <1>1, <1>2, <1>3 DEF Receive, SendTypes

\* What is sent, and that a row that is still there has sent nothing: a goroutine is
\* started and an event published only by a request whose delete is committed.
LEMMA SendStep ==
  ASSUME ConstantsAssumption, LoopTypes, SendTypes, Announces, NoDeleteBeforeCommit, rowExists' => rowExists, Next
  PROVE  SendTypes' /\ NoDeleteBeforeCommit'
<1> USE DEF ConstantsAssumption
<1>1. ASSUME Silent PROVE SendTypes' /\ NoDeleteBeforeCommit'
  BY <1>1 DEF Silent, SendTypes, NoDeleteBeforeCommit
<1>2. ASSUME NEW a \in Attempts, FlushUnset(a) PROVE SendTypes' /\ NoDeleteBeforeCommit'
  <2>1. /\ flight' = [flight EXCEPT ![a][cur[a]] = got[a]]
        /\ UNCHANGED <<clientVars, published>> /\ ~rowExists /\ cur[a] # NoClient
    BY <1>2 DEF FlushUnset, historyVars, Announces
  <2>2. cur[a] \in Clients /\ got[a] \in Seq(Messages)
    BY <2>1 DEF LoopTypes
  <2>3. flight' \in [Attempts -> [Clients -> Seq(Messages)]]
    BY <2>1, <2>2 DEF SendTypes
  <2>4. QED BY <2>1, <2>3 DEF SendTypes, NoDeleteBeforeCommit, clientVars
<1>3. ASSUME NEW a \in Attempts, Publish(a) PROVE SendTypes' /\ NoDeleteBeforeCommit'
  <2>1. ~rowExists /\ UNCHANGED <<flight, clientVars>>
    BY <1>3 DEF Publish, Announces
  <2>2. published' \in Seq(Attempts)
    BY <1>3, AppendType DEF Publish, SendTypes
  <2>3. QED BY <2>1, <2>2 DEF SendTypes, NoDeleteBeforeCommit, clientVars
<1>4. ASSUME NEW a \in Attempts, NEW c \in Clients, Send(a, c)
      PROVE  SendTypes' /\ NoDeleteBeforeCommit'
  <2>1. ~rowExists /\ UNCHANGED <<gone, received, published>>
    BY <1>4 DEF Send, historyVars, NoDeleteBeforeCommit
  <2>2. QED BY <1>4, <2>1, SendQueue DEF SendTypes, NoDeleteBeforeCommit
<1>5. ASSUME NEW c \in Clients, Receive(c) PROVE SendTypes' /\ NoDeleteBeforeCommit'
  <2>1. ~rowExists /\ UNCHANGED <<flight, gone, dropped, published>>
    BY <1>5 DEF Receive, historyVars, NoDeleteBeforeCommit
  <2>2. QED BY <1>5, <2>1, ReceiveQueue DEF SendTypes, NoDeleteBeforeCommit
<1>6. ASSUME NEW c \in Clients, Unregister(c) PROVE SendTypes' /\ NoDeleteBeforeCommit'
  <2>1. <<>> \in Seq(Messages) /\ Len(<<>>) <= Capacity
    OBVIOUS
  <2>2. /\ gone' = gone \cup {c} /\ queue' \in [Clients -> Seq(Messages)] /\ queue'[c] = <<>>
        /\ \A d \in Clients \ {c} : queue'[d] = queue[d]
    BY <1>6, <2>1 DEF Unregister, SendTypes
  <2>3. UNCHANGED <<flight, dropped, received, published>>
    BY <1>6 DEF Unregister, historyVars
  <2>4. QED BY <2>1, <2>2, <2>3 DEF SendTypes, NoDeleteBeforeCommit
<1>7. QED BY <1>1, <1>2, <1>3, <1>4, <1>5, <1>6, SilentSteps, NextCases DEF Leaves, Ends, Delivers

\* The histories.
LEMMA HistoryStep ==
  ASSUME HistoryTypes, Next
  PROVE  HistoryTypes' /\ (overlapped => overlapped') /\ (unprepared => unprepared')
<1>1. CASE UNCHANGED <<overlapped, unprepared>>
  BY <1>1 DEF HistoryTypes
<1>2. ASSUME NEW a \in Attempts, Start(a) \/ DryError(a)
      PROVE  HistoryTypes' /\ (overlapped => overlapped') /\ (unprepared => unprepared')
  <2>1. \/ overlapped' = (overlapped \/ ~AllOver) /\ UNCHANGED unprepared
        \/ unprepared' = TRUE /\ UNCHANGED overlapped
    BY <1>2 DEF Start, DryError
  <2>2. QED BY <2>1, Zenon DEF HistoryTypes
<1>3. ASSUME NEW a \in Attempts, Dries(a) \/ Gets(a) \/ Leaves(a) \/ Ends(a) \/ Writes(a)
      PROVE  UNCHANGED <<overlapped, unprepared>>
  BY <1>3 DEF Dries, DrySkip, DryGet, Check, Gets, FlushGet, DropGet, Visit, Leaves, DrySet,
              FlushUnset, DropUnset, Ends, Stash, Publish, DropStash, Writes, Write, Commit, Rollback,
              Panic, historyVars
<1>4. ASSUME Delivers PROVE UNCHANGED <<overlapped, unprepared>>
  BY <1>4 DEF Delivers, Send, Receive, Unregister, historyVars
<1>5. QED BY <1>1, <1>2, <1>3, <1>4, NextCases

\* A step of the clients, or of what sends to them, leaves the requests alone.
LEMMA DeliversKeeps ==
  ASSUME Delivers
  PROVE  /\ UNCHANGED <<rowExists, pc, checks, todo, cur, got, cache, stash, published, panics,
                        overlapped, unprepared>>
         /\ Registered' \subseteq Registered
<1>1. UNCHANGED <<rowExists, pc, checks, todo, cur, got, cache, stash, published, panics, overlapped,
                  unprepared>>
  BY DEF Delivers, Send, Receive, Unregister, dbVars, loopVars, historyVars
<1>2. gone' = gone \/ \E c \in Clients : gone' = gone \cup {c}
  BY DEF Delivers, Send, Receive, Unregister
<1>3. QED BY <1>1, <1>2 DEF Registered

\* Every message that was prepared is still going to be visited by a loop: a loop of
\* a commit or a rollback starts with every registered client.
LEMMA CacheStep ==
  ASSUME ConstantsAssumption, RowTypes, LoopTypes, StoreTypes, SendTypes, CacheOwned, Next
  PROVE  CacheOwned'
<1> USE DEF ConstantsAssumption
\* It is enough that the request that may have visited the client still will.
<1>1. ASSUME NEW a \in Attempts, panics' = panics, UNCHANGED <<cache, gone>>,
             \A b \in Attempts \ {a} : pc'[b] = pc[b] /\ todo'[b] = todo[b] /\ cur'[b] = cur[b],
             \A c \in Registered : cache[c] # <<>> /\ WillVisit(a, c) => WillVisit(a, c)'
      PROVE  CacheOwned'
  <2>1. ASSUME NEW b \in Attempts, NEW c \in Registered, cache[c] # <<>>, WillVisit(b, c)
        PROVE  WillVisit(b, c)'
    BY <1>1, <2>1 DEF WillVisit, Faces
  <2>2. Registered' = Registered
    BY <1>1 DEF Registered
  <2>3. QED BY <1>1, <2>1, <2>2 DEF CacheOwned
<1>2. ASSUME NEW a \in Attempts, Start(a) \/ Stash(a) \/ DryError(a) \/ Write(a) \/ Dries(a)
      PROVE  CacheOwned'
  <2>1. UNCHANGED <<panics, cache, gone, todo>>
    BY <1>2 DEF Start, Stash, DryError, Write, Dries, DrySkip, DryGet, Check, loopVars, clientVars,
                historyVars
  <2>2. \A b \in Attempts \ {a} : cur'[b] = cur[b]
    BY <1>2 DEF Start, Stash, DryError, Write, Dries, DrySkip, DryGet, Check, loopVars, LoopTypes
  <2>3. /\ pc'[a] \in {"dry", "write", "written"}
        /\ \A b \in Attempts \ {a} : pc'[b] = pc[b]
    BY <1>2 DEF Start, Stash, DryError, Write, Dries, DrySkip, DryGet, Check, GoTo, RowTypes, Places
  <2>4. QED BY <1>1, <2>1, <2>2, <2>3 DEF WillVisit
<1>3. ASSUME NEW a \in Attempts, Commit(a) \/ Rollback(a) PROVE CacheOwned'
  <2>1. /\ UNCHANGED <<panics, cache, gone, cur>>
        /\ \A b \in Attempts \ {a} : pc'[b] = pc[b] /\ todo'[b] = todo[b]
        /\ pc'[a] \in {"flush", "drop"} /\ todo'[a] = Registered
    BY <1>3 DEF Commit, Rollback, GoToLoop, GoTo, clientVars, historyVars, RowTypes, LoopTypes, Places
  <2>2. QED BY <1>1, <2>1 DEF WillVisit, Faces
<1>4. ASSUME NEW a \in Attempts, Panic(a) PROVE CacheOwned'
  <2>1. panics' # 0
    BY <1>4 DEF Panic, RowTypes
  <2>2. QED BY <2>1 DEF CacheOwned
<1>5. ASSUME NEW a \in Attempts, Publish(a) \/ DropStash(a) PROVE CacheOwned'
  <2>1. /\ UNCHANGED <<panics, cache, gone, todo, cur>>
        /\ \A b \in Attempts \ {a} : pc'[b] = pc[b]
        /\ pc[a] \in {"flush", "drop"} /\ Visited(a)
    BY <1>5 DEF Publish, DropStash, GoTo, loopVars, clientVars, historyVars, RowTypes
  <2>2. \A c \in Registered : ~Faces(a, c)
    BY <2>1 DEF Visited, Faces, Registered
  <2>3. QED BY <1>1, <2>1, <2>2 DEF WillVisit
<1>6. ASSUME NEW a \in Attempts, Gets(a) PROVE CacheOwned'
  <2>1. PICK c \in Clients : Visit(a, c)
    BY <1>6 DEF Gets, FlushGet, DropGet
  <2>2. UNCHANGED <<panics, cache, gone, pc>>
    BY <2>1 DEF Visit, clientVars, historyVars
  <2>3. \A d \in Registered : cache[d] # <<>> /\ Faces(a, d) => Faces(a, d)'
    BY <2>1, VisitLoop DEF Faces, Registered
  <2>4. \A b \in Attempts \ {a} : todo'[b] = todo[b] /\ cur'[b] = cur[b]
    BY <2>1, VisitLoop
  <2>5. QED BY <1>1, <2>2, <2>3, <2>4 DEF WillVisit
<1>7. ASSUME NEW a \in Attempts, DrySet(a) PROVE CacheOwned'
  <2>1. UNCHANGED pc /\ pc[a] = "dry"
    BY <1>7 DEF DrySet
  <2>2. \A c \in Clients : WillVisit(a, c)'
    BY <2>1 DEF WillVisit
  <2>3. QED BY <2>2 DEF CacheOwned, Registered
<1>8. ASSUME NEW a \in Attempts, FlushUnset(a) \/ DropUnset(a) PROVE CacheOwned'
  <2>1. /\ UNCHANGED <<panics, gone, pc, todo>>
        /\ cache' = [cache EXCEPT ![cur[a]] = <<>>]
        /\ cur' = [cur EXCEPT ![a] = NoClient]
    BY <1>8 DEF FlushUnset, DropUnset, Leave, clientVars, historyVars
  <2>2. ASSUME NEW c \in Registered, cache'[c] # <<>> PROVE c # cur[a] /\ cache[c] # <<>>
    BY <2>1, <2>2 DEF StoreTypes, Registered
  <2>3. ASSUME NEW c \in Registered, c # cur[a], NEW b \in Attempts, WillVisit(b, c)
        PROVE  WillVisit(b, c)'
    BY <2>1, <2>3 DEF WillVisit, Faces, LoopTypes
  <2>4. Registered' = Registered
    BY <2>1 DEF Registered
  <2>5. QED BY <2>1, <2>2, <2>3, <2>4 DEF CacheOwned
<1>9. CASE Delivers
  <2>1. UNCHANGED <<panics, cache, pc, todo, cur>> /\ Registered' \subseteq Registered
    BY <1>9, DeliversKeeps
  <2>2. \A a \in Attempts, c \in Clients : WillVisit(a, c)' <=> WillVisit(a, c)
    BY <2>1 DEF WillVisit, Faces
  <2>3. QED BY <2>1, <2>2 DEF CacheOwned, Registered
<1>10. QED BY <1>2, <1>3, <1>4, <1>5, <1>6, <1>7, <1>8, <1>9, NextCases DEF Leaves, Ends, Writes

\* The stash is emptied by every request that leaves the part that could have filled it.
LEMMA StashStep ==
  ASSUME ConstantsAssumption, RowTypes, StashOwned, Next
  PROVE  StashOwned'
<1> DEFINE Holds == {"write", "written", "flush", "drop"}
<1>1. ASSUME panics' = panics, UNCHANGED stash,
             \A b \in Attempts : pc[b] \in Holds => pc'[b] \in Holds
      PROVE  StashOwned'
  BY <1>1 DEF StashOwned
<1>2. ASSUME NEW a \in Attempts,
             Start(a) \/ DryError(a) \/ Write(a) \/ Commit(a) \/ Rollback(a)
      PROVE  StashOwned'
  <2>1. UNCHANGED <<panics, stash>>
    BY <1>2 DEF Start, DryError, Write, Commit, Rollback, historyVars
  <2>2. /\ \A b \in Attempts \ {a} : pc'[b] = pc[b]
        /\ pc[a] \in Holds => pc'[a] \in Holds
    BY <1>2 DEF Start, DryError, Write, Commit, Rollback, GoToLoop, GoTo, RowTypes
  <2>3. QED BY <1>1, <2>1, <2>2
<1>3. ASSUME NEW a \in Attempts, Panic(a) PROVE StashOwned'
  <2>1. panics' # 0
    BY <1>3 DEF ConstantsAssumption, Panic, RowTypes
  <2>2. QED BY <2>1 DEF StashOwned
<1>4. ASSUME NEW a \in Attempts, Stash(a) PROVE StashOwned'
  <2>1. pc'[a] = "write"
    BY <1>4 DEF Stash, GoTo, RowTypes
  <2>2. QED BY <2>1 DEF StashOwned
<1>5. ASSUME NEW a \in Attempts, Publish(a) \/ DropStash(a) PROVE StashOwned'
  BY <1>5 DEF Publish, DropStash, StashOwned
<1>6. ASSUME NEW a \in Attempts, Dries(a) \/ Gets(a) \/ Leaves(a) PROVE StashOwned'
  BY <1>1, <1>6 DEF Dries, DrySkip, DryGet, Check, Gets, Leaves, FlushGet, DropGet, Visit, DrySet,
                    FlushUnset, DropUnset, historyVars
<1>7. CASE Delivers
  BY <1>1, <1>7, DeliversKeeps
<1>8. QED BY <1>2, <1>3, <1>4, <1>5, <1>6, <1>7, NextCases DEF Ends, Writes

\* The invariant is inductive.
LEMMA NextIInv == ConstantsAssumption /\ IInv /\ [Next]_vars => IInv'
<1>1. CASE ConstantsAssumption /\ IInv /\ Next
  <2>1. /\ RowTypes /\ LoopTypes /\ StoreTypes /\ SendTypes /\ HistoryTypes
        /\ Announces /\ NoDeleteBeforeCommit /\ CacheOwned /\ StashOwned
    BY <1>1, Parts DEF IInv
  <2>2. RowTypes' /\ Announces' /\ (rowExists' => rowExists)
    BY <1>1, <2>1, RowStep
  <2>3. LoopTypes' /\ StoreTypes'
    BY <1>1, <2>1, LoopStep, StoreStep
  <2>4. SendTypes' /\ NoDeleteBeforeCommit'
    BY <1>1, <2>1, <2>2, SendStep
  <2>5. HistoryTypes'
    BY <1>1, <2>1, HistoryStep
  <2>6. CacheOwned' /\ StashOwned'
    BY <1>1, <2>1, CacheStep, StashStep
  <2>7. QED BY <2>2, <2>3, <2>4, <2>5, <2>6, Parts DEF IInv
<1>2. CASE IInv /\ UNCHANGED vars
  <2>1. TypeOK' /\ NoDeleteBeforeCommit'
    BY <1>2 DEF vars, dbVars, loopVars, clientVars, historyVars, IInv, TypeOK, NoDeleteBeforeCommit
  <2>2. Announces' /\ CacheOwned' /\ StashOwned'
    BY <1>2 DEF vars, dbVars, loopVars, clientVars, historyVars, IInv, Announces, CacheOwned,
                StashOwned, WillVisit, Faces, Registered
  <2>3. QED BY <2>1, <2>2 DEF IInv
<1>3. QED BY <1>1, <1>2

\* It holds in every state.
LEMMA Invariant ==
  ASSUME ConstantsAssumption
  PROVE  Spec => []IInv
  BY InitIInv, NextIInv, PTL DEF Spec

-----------------------------------------------------------------------------
\* The types, that the row lock is held only inside a transaction, and that the
\* channel of a discarded client stays empty.
THEOREM TypeCorrect ==
  ASSUME ConstantsAssumption
  PROVE  Spec => []TypeOK
<1>1. IInv => TypeOK
  BY DEF IInv
<1>2. QED BY <1>1, Invariant, PTL

\* The W-01 rule for any number of overlapping requests and of clients: nothing is
\* sent or published while the record exists.
THEOREM AnnouncedAfterCommit ==
  ASSUME ConstantsAssumption
  PROVE  Spec => []NoDeleteBeforeCommit
<1>1. IInv => NoDeleteBeforeCommit
  BY DEF IInv
<1>2. QED BY <1>1, Invariant, PTL

\* A cache or a stash that is not empty has a request that still comes to it.
LEMMA InvEmpties == IInv => NothingLeftBehind
  BY DEF IInv, NothingLeftBehind, CacheOwned, StashOwned, WillVisit, AllOver

\* When all requests are over, however they shared the dry caches and the stash, both
\* are empty, unless a hook has panicked.
THEOREM CachesAreEmptied ==
  ASSUME ConstantsAssumption
  PROVE  Spec => []NothingLeftBehind
  BY InvEmpties, Invariant, PTL

-----------------------------------------------------------------------------
(***************************************************************************)
(* As long as no delete requests of the record have overlapped they share  *)
(* the dry caches and the stash with nobody, so what one of them prepares  *)
(* it also sends, drops or publishes: a client gets one message at most    *)
(* for each subscription, and a commit is published whenever its snapshot  *)
(* was taken.                                                              *)
(***************************************************************************)
Active(a) == pc[a] \notin {"idle", "done"}

Alone == \A a, b \in Attempts : Active(a) /\ Active(b) => a = b
BeforeCommit == \A a \in Attempts : Active(a) /\ pc[a] # "flush" => rowExists
OneByOne == ~overlapped => Alone /\ BeforeCommit

LEMMA AloneStep ==
  ASSUME ~overlapped', RowTypes, Alone, BeforeCommit, Next
  PROVE  Alone' /\ BeforeCommit'
<1>1. ASSUME UNCHANGED <<pc, rowExists>> PROVE Alone' /\ BeforeCommit'
  BY <1>1 DEF Alone, BeforeCommit, Active
<1>2. ASSUME NEW a \in Attempts, NEW s \in {"dry", "write", "written", "flush", "drop", "done"},
             \A b \in Attempts \ {a} : ~Active(b), GoTo(a, s),
             s \in {"flush", "done"} \/ rowExists'
      PROVE  Alone' /\ BeforeCommit'
  <2>1. pc'[a] = s /\ \A b \in Attempts \ {a} : ~Active(b)'
    BY <1>2 DEF GoTo, RowTypes, Active
  <2>2. QED BY <1>2, <2>1 DEF Alone, BeforeCommit, Active
<1>3. ASSUME NEW a \in Attempts, Start(a) PROVE Alone' /\ BeforeCommit'
  <2>1. \A b \in Attempts : ~Active(b)
    BY <1>3 DEF Start, AllOver, Active
  <2>2. GoTo(a, "dry") /\ rowExists'
    BY <1>3 DEF Start, dbVars
  <2>3. QED BY <1>2, <2>1, <2>2
<1>4. ASSUME NEW a \in Attempts, Ends(a) \/ DryError(a) \/ Writes(a)
      PROVE  Alone' /\ BeforeCommit'
  <2>1. \A b \in Attempts \ {a} : ~Active(b)
    BY <1>4 DEF Alone, Active, Ends, Stash, Prepared, Publish, DropStash, DryError, Writes, Write,
                Commit, Rollback, Panic
  <2>2. CASE Publish(a) \/ DropStash(a) \/ Panic(a)
    BY <1>2, <2>1, <2>2 DEF Publish, DropStash, Panic
  <2>3. CASE Commit(a)
    BY <1>2, <2>1, <2>3 DEF Commit, GoToLoop
  <2>4. CASE Stash(a) \/ DryError(a) \/ Write(a) \/ Rollback(a)
    <3>1. rowExists' = rowExists /\ pc[a] \in {"dry", "write", "written"}
      BY <2>4 DEF Stash, Prepared, DryError, Write, Rollback, dbVars
    <3>2. rowExists'
      BY <3>1 DEF BeforeCommit, Active
    <3>3. GoTo(a, "write") \/ GoTo(a, "written") \/ GoTo(a, "drop")
      BY <2>4 DEF Stash, DryError, Write, Rollback, GoToLoop
    <3>4. QED BY <1>2, <2>1, <3>2, <3>3
  <2>5. QED BY <1>4, <2>2, <2>3, <2>4 DEF Ends, Writes
<1>5. ASSUME NEW a \in Attempts, Dries(a) \/ Gets(a) \/ Leaves(a) PROVE UNCHANGED <<pc, rowExists>>
  BY <1>5 DEF Dries, DrySkip, DryGet, Check, Gets, Leaves, FlushGet, DropGet, Visit, DrySet,
              FlushUnset, DropUnset, dbVars
<1>6. CASE Delivers
  BY <1>1, <1>6, DeliversKeeps
<1>7. QED BY <1>1, <1>3, <1>4, <1>5, <1>6, NextCases

-----------------------------------------------------------------------------
(* Sequences of messages, and the subscriptions they are for. *)

TopicsOf(s) == {s[i][2] : i \in DOMAIN s}
Once(s) == \A i, j \in DOMAIN s : s[i][2] = s[j][2] => i = j

LEMMA OnceEmpty == Once(<<>>) /\ TopicsOf(<<>>) = {}
  BY DEF Once, TopicsOf

LEMMA OnceAppend ==
  ASSUME NEW s \in Seq(Messages), NEW m \in Messages, Once(s), m[2] \notin TopicsOf(s)
  PROVE  Once(Append(s, m)) /\ TopicsOf(Append(s, m)) = TopicsOf(s) \cup {m[2]}
<1> DEFINE n == Len(s)
           r == Append(s, m)
<1>1. /\ n \in Nat /\ DOMAIN s = 1..n /\ DOMAIN r = 1..(n + 1)
      /\ r[n + 1] = m /\ \A i \in 1..n : r[i] = s[i]
  OBVIOUS
<1>2. \A i \in 1..(n + 1) : i \in 1..n \/ i = n + 1
  BY <1>1
<1>3. \A i \in 1..n : s[i][2] # m[2]
  BY <1>1 DEF TopicsOf
<1> HIDE DEF r, n
<1>4. Once(r)
  BY <1>1, <1>2, <1>3 DEF Once
<1>5. TopicsOf(r) \subseteq TopicsOf(s) \cup {m[2]}
  BY <1>1, <1>2 DEF TopicsOf
<1>6. m[2] \in TopicsOf(r) /\ TopicsOf(s) \subseteq TopicsOf(r)
  <2>1. n + 1 \in 1..(n + 1) /\ \A i \in 1..n : i \in 1..(n + 1)
    BY <1>1
  <2>2. QED BY <1>1, <2>1 DEF TopicsOf
<1>7. QED BY <1>4, <1>5, <1>6 DEF r

LEMMA OnceTail ==
  ASSUME NEW s \in Seq(Messages), s # <<>>, Once(s)
  PROVE  /\ Once(Tail(s)) /\ TopicsOf(Tail(s)) \subseteq TopicsOf(s)
         /\ Head(s)[2] \in TopicsOf(s) /\ Head(s)[2] \notin TopicsOf(Tail(s)) /\ Head(s) \in Messages
<1> DEFINE n == Len(s)
           r == Tail(s)
<1>1. /\ n \in Nat \ {0} /\ DOMAIN s = 1..n /\ DOMAIN r = 1..(n - 1)
      /\ Head(s) = s[1] /\ Head(s) \in Messages /\ \A i \in 1..(n - 1) : r[i] = s[i + 1]
  OBVIOUS
<1>2. 1 \in 1..n /\ \A i \in 1..(n - 1) : i + 1 \in 1..n /\ i + 1 # 1
  BY <1>1
<1> HIDE DEF r, n
<1>3. ASSUME NEW i \in 1..(n - 1), NEW j \in 1..(n - 1), r[i][2] = r[j][2] PROVE i = j
  <2>1. i + 1 \in DOMAIN s /\ j + 1 \in DOMAIN s /\ s[i + 1][2] = s[j + 1][2]
    BY <1>1, <1>2, <1>3
  <2>2. i + 1 = j + 1
    BY <2>1 DEF Once
  <2>3. i \in Nat /\ j \in Nat
    BY <1>1
  <2>4. QED BY <2>2, <2>3
<1>4. TopicsOf(r) \subseteq TopicsOf(s) /\ Head(s)[2] \in TopicsOf(s)
  <2>1. \A i \in DOMAIN r : i + 1 \in DOMAIN s /\ r[i][2] = s[i + 1][2]
    BY <1>1, <1>2
  <2>2. 1 \in DOMAIN s /\ Head(s) = s[1]
    BY <1>1, <1>2
  <2>3. QED BY <2>1, <2>2 DEF TopicsOf
<1>5. ASSUME NEW i \in 1..(n - 1) PROVE r[i][2] # Head(s)[2]
  BY <1>1, <1>2, <1>5 DEF Once
<1>6. Once(r) /\ Head(s)[2] \notin TopicsOf(r)
  BY <1>1, <1>3, <1>5 DEF Once, TopicsOf
<1>7. QED BY <1>1, <1>4, <1>6 DEF r

-----------------------------------------------------------------------------
(* One message for each subscription of a client. *)

\* The dry caches and the copies of them hold one message for a subscription, and
\* none for one that the loop has still to come to.
OneMessage ==
  /\ \A c \in Clients : Once(cache[c])
  /\ \A a \in Attempts : Once(got[a])
  /\ \A a \in Attempts : pc[a] = "dry" =>
       \A c \in Clients, t \in Topics : <<c, t>> \in checks[a] =>
         t \notin TopicsOf(cache[c]) /\ (cur[a] = c => t \notin TopicsOf(got[a]))

\* No message of the record is on its way to c, or has arrived.
Nowhere(c) == queue[c] = <<>> /\ received[c] = <<>> /\ \A a \in Attempts : flight[a][c] = <<>>

\* What a commit has still to flush has not been sent.
NotYet == \A a \in Attempts, c \in Clients : pc[a] = "flush" /\ Faces(a, c) => Nowhere(c)

\* A loop that is with a client will not come to it again.
Apart == \A a \in Attempts : pc[a] \in {"flush", "drop"} => cur[a] \notin todo[a]

\* The message for a subscription of a client is in one place.
OnePlace ==
  \A c \in Clients :
    /\ Once(received[c]) /\ Once(queue[c])
    /\ TopicsOf(queue[c]) \cap TopicsOf(received[c]) = {}
    /\ \A a \in Attempts :
         /\ Once(flight[a][c])
         /\ TopicsOf(flight[a][c]) \cap (TopicsOf(queue[c]) \cup TopicsOf(received[c])) = {}
         /\ flight[a][c] # <<>> => \A b \in Attempts \ {a} : flight[b][c] = <<>>

\* A loop that starts finds the caches empty.
LEMMA NothingPrepared ==
  ASSUME IInv, panics = 0, \A b \in Attempts : ~Active(b)
  PROVE  \A c \in Registered : cache[c] = <<>>
  BY DEF IInv, CacheOwned, WillVisit, Active

LEMMA OneMessageStep ==
  ASSUME ConstantsAssumption, ~overlapped', IInv, panics = 0, Alone, OneMessage, Next
  PROVE  OneMessage'
<1> USE DEF ConstantsAssumption
<1>0. RowTypes /\ LoopTypes /\ StoreTypes
  BY Parts DEF IInv
<1>1. ASSUME UNCHANGED <<cache, cur, got>>,
             \A b \in Attempts : pc'[b] = "dry" => pc[b] = "dry" /\ checks'[b] \subseteq checks[b]
      PROVE  OneMessage'
  BY <1>1 DEF OneMessage
<1>2. ASSUME NEW a \in Attempts, Start(a) PROVE OneMessage'
  <2>1. \A b \in Attempts : ~Active(b)
    BY <1>2 DEF Start, AllOver, Active
  <2>2. /\ UNCHANGED <<cache, cur, got>> /\ checks'[a] = Registered \X Topics
        /\ \A b \in Attempts \ {a} : pc'[b] # "dry"
    BY <1>0, <1>2, <2>1 DEF Start, GoTo, RowTypes, LoopTypes, Active
  <2>3. cur[a] = NoClient /\ \A c \in Clients : c # NoClient
    BY <1>0, <1>2 DEF Start, LoopTypes
  <2>4. \A c \in Registered : TopicsOf(cache[c]) = {}
    BY <2>1, NothingPrepared, OnceEmpty
  <2>5. QED BY <2>1, <2>2, <2>3, <2>4 DEF OneMessage
<1>3. ASSUME NEW a \in Attempts, Ends(a) \/ DryError(a) \/ Writes(a) PROVE OneMessage'
  <2>1. UNCHANGED <<cache, cur, got>>
    BY <1>3 DEF Ends, Stash, Publish, DropStash, DryError, Writes, Write, Commit, Rollback, Panic, loopVars
  <2>2. pc'[a] # "dry" /\ \A b \in Attempts \ {a} : pc'[b] = pc[b]
    BY <1>0, <1>3 DEF Ends, Stash, Publish, DropStash, DryError, Writes, Write, Commit, Rollback, Panic,
                      GoToLoop, GoTo, RowTypes
  <2>3. \A b \in Attempts \ {a} : checks'[b] = checks[b]
    BY <1>0, <1>3 DEF Ends, Stash, Publish, DropStash, DryError, Writes, Write, Commit, Rollback, Panic,
                      GoToLoop, loopVars, LoopTypes
  <2>4. QED BY <1>1, <2>1, <2>2, <2>3
<1>4. ASSUME NEW a \in Attempts, Dries(a) PROVE OneMessage'
  <2>1. PICK c \in Clients, t \in Topics : Check(a, c, t) /\ (DrySkip(a, c, t) \/ DryGet(a, c, t))
    BY <1>4 DEF Dries, DrySkip, DryGet
  <2>2. /\ checks'[a] = checks[a] \ {<<c, t>>} /\ \A b \in Attempts \ {a} : checks'[b] = checks[b]
        /\ UNCHANGED <<cache, pc>> /\ <<c, t>> \in checks[a] /\ pc[a] = "dry"
    BY <1>0, <2>1 DEF Check, LoopTypes
  <2>3. CASE DrySkip(a, c, t)
    BY <1>1, <2>2, <2>3 DEF DrySkip
  <2>4. CASE DryGet(a, c, t)
    <3>1. cur'[a] = c /\ got'[a] = Append(cache[c], <<a, t>>)
      BY <1>0, <2>4 DEF DryGet, LoopTypes
    <3>2. \A b \in Attempts \ {a} : cur'[b] = cur[b] /\ got'[b] = got[b]
      BY <1>0, <2>4 DEF DryGet, LoopTypes
    <3>3. t \notin TopicsOf(cache[c]) /\ Once(cache[c]) /\ cache[c] \in Seq(Messages)
      BY <1>0, <2>2 DEF OneMessage, StoreTypes
    <3>4. Once(got'[a]) /\ TopicsOf(got'[a]) = TopicsOf(cache[c]) \cup {t}
      BY <3>1, <3>3, MessageType, OnceAppend
    <3>5. \A b \in Attempts : pc[b] = "dry" => b = a
      BY <2>2 DEF Alone, Active
    <3>6. ASSUME NEW d \in Clients, NEW u \in Topics, <<d, u>> \in checks'[a]
          PROVE  u \notin TopicsOf(cache[d]) /\ (cur'[a] = d => u \notin TopicsOf(got'[a]))
      <4>1. u \notin TopicsOf(cache[d]) /\ (d = c => u # t)
        BY <2>2, <3>6 DEF OneMessage
      <4>2. QED BY <3>1, <3>4, <4>1
    <3>7. QED BY <2>2, <3>2, <3>4, <3>5, <3>6 DEF OneMessage
  <2>5. QED BY <2>1, <2>3, <2>4
<1>5. ASSUME NEW a \in Attempts, Gets(a) PROVE OneMessage'
  <2>1. PICK c \in Clients : Visit(a, c) /\ pc[a] \in {"flush", "drop"}
    BY <1>5 DEF Gets, FlushGet, DropGet
  <2>2. UNCHANGED <<cache, pc, checks>>
    BY <2>1 DEF Visit
  <2>3. /\ \A b \in Attempts \ {a} : cur'[b] = cur[b] /\ got'[b] = got[b]
        /\ got'[a] = got[a] \/ got'[a] = cache[c]
    BY <1>0, <2>1, VisitLoop
  <2>4. QED BY <2>1, <2>2, <2>3 DEF OneMessage
<1>6. ASSUME NEW a \in Attempts, Leaves(a) PROVE OneMessage'
  <2>1. /\ UNCHANGED <<pc, checks>> /\ cur[a] \in Clients /\ cur[a] # NoClient /\ Leave(a) /\ Active(a)
        /\ \/ cache' = [cache EXCEPT ![cur[a]] = got[a]] /\ pc[a] = "dry"
           \/ cache' = [cache EXCEPT ![cur[a]] = <<>>] /\ pc[a] # "dry"
    BY <1>0, <1>6 DEF Leaves, DrySet, FlushUnset, DropUnset, LoopTypes, Active
  <2>2. /\ cur'[a] = NoClient /\ got'[a] = <<>>
        /\ \A b \in Attempts \ {a} : cur'[b] = cur[b] /\ got'[b] = got[b]
    BY <1>0, <2>1 DEF Leave, LoopTypes
  <2>3. \A c \in Clients \ {cur[a]} : cache'[c] = cache[c]
    BY <1>0, <2>1 DEF StoreTypes
  <2>4. /\ Once(cache'[cur[a]]) /\ Once(got'[a])
        /\ pc[a] = "dry" => cache'[cur[a]] = got[a]
    BY <1>0, <2>1, <2>2, OnceEmpty DEF StoreTypes, OneMessage
  <2>5. ASSUME NEW b \in Attempts, pc[b] = "dry", NEW c \in Clients, NEW t \in Topics,
               <<c, t>> \in checks[b]
        PROVE  t \notin TopicsOf(cache'[c]) /\ cur'[b] # c
    <3>1. b = a
      BY <2>1, <2>5 DEF Alone, Active
    <3>2. t \notin TopicsOf(cache[c]) /\ (c = cur[a] => t \notin TopicsOf(got[a]))
      BY <2>5, <3>1 DEF OneMessage
    <3>3. QED BY <2>2, <2>3, <2>4, <2>5, <3>1, <3>2
  <2>6. QED BY <2>1, <2>2, <2>3, <2>4, <2>5 DEF OneMessage
<1>7. CASE Delivers
  BY <1>1, <1>7, DeliversKeeps
<1>8. QED BY <1>2, <1>3, <1>4, <1>5, <1>6, <1>7, NextCases

\* The place of the messages for client c, and of the others, when nothing but the first
\* changes.
PlaceOf(c) ==
  /\ Once(received[c]) /\ Once(queue[c])
  /\ TopicsOf(queue[c]) \cap TopicsOf(received[c]) = {}
  /\ \A a \in Attempts :
       /\ Once(flight[a][c])
       /\ TopicsOf(flight[a][c]) \cap (TopicsOf(queue[c]) \cup TopicsOf(received[c])) = {}
       /\ flight[a][c] # <<>> => \A b \in Attempts \ {a} : flight[b][c] = <<>>

LEMMA OnePlaceOf ==
  ASSUME OnePlace, NEW c \in Clients, PlaceOf(c)',
         \A d \in Clients \ {c} : /\ queue'[d] = queue[d] /\ received'[d] = received[d]
                                  /\ \A a \in Attempts : flight'[a][d] = flight[a][d]
  PROVE  OnePlace'
<1>1. ASSUME NEW d \in Clients PROVE PlaceOf(d)'
  <2>1. CASE d = c
    BY <2>1
  <2>2. CASE d # c
    <3>1. PlaceOf(d)
      BY DEF OnePlace, PlaceOf
    <3>2. /\ queue'[d] = queue[d] /\ received'[d] = received[d]
          /\ \A a \in Attempts : flight'[a][d] = flight[a][d]
      BY <2>2
    <3>3. QED BY <3>1, <3>2 DEF PlaceOf
  <2>3. QED BY <2>1, <2>2
<1>2. QED BY <1>1 DEF OnePlace, PlaceOf

\* A step that changes the place of c's messages when no loop faces c any more.
LEMMA NotYetOthers ==
  ASSUME NotYet, NEW c \in Clients, UNCHANGED <<pc, todo, cur>>,
         ~Nowhere(c),
         \A d \in Clients \ {c} : /\ queue'[d] = queue[d] /\ received'[d] = received[d]
                                  /\ \A a \in Attempts : flight'[a][d] = flight[a][d]
  PROVE  NotYet'
<1>1. ASSUME NEW a \in Attempts, NEW d \in Clients, pc'[a] = "flush", Faces(a, d)' PROVE Nowhere(d)'
  <2>1. Nowhere(d) /\ d # c
    BY <1>1 DEF NotYet, Faces
  <2>2. QED BY <2>1 DEF Nowhere
<1>2. QED BY <1>1 DEF NotYet

LEMMA ApartStep ==
  ASSUME ConstantsAssumption, RowTypes, LoopTypes, StoreTypes, Apart, Next
  PROVE  Apart'
<1> USE DEF ConstantsAssumption
<1>1. ASSUME UNCHANGED <<pc, todo, cur>> PROVE Apart'
  BY <1>1 DEF Apart
<1>2. ASSUME NEW a \in Attempts, \/ Start(a) \/ Ends(a) \/ DryError(a) \/ Dries(a) \/ DrySet(a)
                                 \/ Write(a) \/ Panic(a)
      PROVE  Apart'
  <2>1. pc'[a] \notin {"flush", "drop"} /\ \A b \in Attempts \ {a} : pc'[b] = pc[b]
    BY <1>2 DEF Start, Ends, Stash, Publish, DropStash, DryError, Dries, DrySkip, DryGet, Check,
                DrySet, Write, Panic, GoTo, RowTypes
  <2>2. \A b \in Attempts \ {a} : todo'[b] = todo[b] /\ cur'[b] = cur[b]
    BY <1>2 DEF Start, Ends, Stash, Publish, DropStash, DryError, Dries, DrySkip, DryGet, Check,
                DrySet, Leave, Write, Panic, loopVars, LoopTypes
  <2>3. QED BY <2>1, <2>2 DEF Apart
<1>3. ASSUME NEW a \in Attempts, Commit(a) \/ Rollback(a) PROVE Apart'
  <2>1. /\ \A b \in Attempts \ {a} : pc'[b] = pc[b] /\ todo'[b] = todo[b]
        /\ todo'[a] = Registered /\ UNCHANGED cur /\ pc[a] \in {"write", "written"}
    BY <1>3 DEF Commit, Rollback, GoToLoop, GoTo, RowTypes, LoopTypes
  <2>2. cur[a] = NoClient /\ NoClient \notin Registered
    BY <2>1 DEF LoopTypes, Registered
  <2>3. QED BY <2>1, <2>2 DEF Apart
<1>4. ASSUME NEW a \in Attempts, Gets(a) PROVE Apart'
  <2>1. PICK c \in Clients : Visit(a, c)
    BY <1>4 DEF Gets, FlushGet, DropGet
  <2>2. UNCHANGED pc /\ NoClient \notin todo[a]
    BY <2>1 DEF Visit, LoopTypes
  <2>3. cur'[a] \notin todo'[a]
    BY <2>1, <2>2, VisitLoop
  <2>4. \A b \in Attempts \ {a} : cur'[b] = cur[b] /\ todo'[b] = todo[b]
    BY <2>1, VisitLoop
  <2>5. QED BY <2>2, <2>3, <2>4 DEF Apart
<1>5. ASSUME NEW a \in Attempts, FlushUnset(a) \/ DropUnset(a) PROVE Apart'
  <2>1. UNCHANGED <<pc, todo>> /\ cur' = [cur EXCEPT ![a] = NoClient] /\ NoClient \notin todo[a]
    BY <1>5 DEF FlushUnset, DropUnset, Leave, LoopTypes
  <2>2. QED BY <2>1 DEF Apart, LoopTypes
<1>6. CASE Delivers
  BY <1>1, <1>6, DeliversKeeps
<1>7. QED BY <1>2, <1>3, <1>4, <1>5, <1>6, NextCases DEF Leaves, Writes

LEMMA OnePlaceStep ==
  ASSUME ConstantsAssumption, ~overlapped', IInv, Alone, BeforeCommit, OneMessage, NotYet, Apart, OnePlace, Next
  PROVE  NotYet' /\ OnePlace'
<1> USE DEF ConstantsAssumption
<1>0. RowTypes /\ LoopTypes /\ StoreTypes /\ SendTypes /\ NoDeleteBeforeCommit
  BY Parts DEF IInv
<1>1. ASSUME UNCHANGED <<flight, queue, received>>,
             \A b \in Attempts, d \in Clients :
               pc'[b] = "flush" /\ Faces(b, d)' => pc[b] = "flush" /\ Faces(b, d)
      PROVE  NotYet' /\ OnePlace'
  BY <1>1 DEF NotYet, OnePlace, Nowhere
<1>2. ASSUME NEW a \in Attempts, \/ Start(a) \/ Ends(a) \/ DryError(a) \/ Dries(a) \/ DrySet(a)
                                 \/ Write(a) \/ Rollback(a) \/ Panic(a)
      PROVE  NotYet' /\ OnePlace'
  <2>1. UNCHANGED <<flight, queue, received>>
    <3>1. CASE Publish(a)
      BY <3>1 DEF Publish, clientVars
    <3>2. CASE ~Publish(a)
      BY <1>2, <3>2, SilentSteps DEF Ends, Writes, Silent
    <3>3. QED BY <3>1, <3>2
  <2>2. pc'[a] # "flush" /\ \A b \in Attempts \ {a} : pc'[b] = pc[b]
    BY <1>0, <1>2 DEF Start, Ends, Stash, Publish, DropStash, DryError, Dries, DrySkip, DryGet, Check,
                      DrySet, Write, Rollback, Panic, GoToLoop, GoTo, RowTypes
  <2>3. \A b \in Attempts \ {a} : todo'[b] = todo[b] /\ cur'[b] = cur[b]
    BY <1>0, <1>2 DEF Start, Ends, Stash, Publish, DropStash, DryError, Dries, DrySkip, DryGet, Check,
                      DrySet, Leave, Write, Rollback, Panic, GoToLoop, loopVars, LoopTypes
  <2>4. QED BY <1>1, <2>1, <2>2, <2>3 DEF Faces
<1>3. ASSUME NEW a \in Attempts, Commit(a) PROVE NotYet' /\ OnePlace'
  <2>1. UNCHANGED <<flight, queue, received>> /\ pc[a] = "written" /\ rowExists
    BY <1>3 DEF Commit, clientVars, BeforeCommit, Active
  <2>2. \A c \in Clients : Nowhere(c)
    BY <1>0, <2>1 DEF NoDeleteBeforeCommit, Nowhere
  <2>3. NotYet'
    BY <2>1, <2>2 DEF NotYet, Nowhere
  <2>4. QED BY <2>1, <2>3 DEF OnePlace
<1>4. ASSUME NEW a \in Attempts, Gets(a) PROVE NotYet' /\ OnePlace'
  <2>1. PICK c \in Clients : Visit(a, c)
    BY <1>4 DEF Gets, FlushGet, DropGet
  <2>2. UNCHANGED <<flight, queue, received, pc>>
    BY <2>1 DEF Visit, clientVars
  <2>3. \A b \in Attempts, d \in Clients : Faces(b, d)' => Faces(b, d)
    BY <1>0, <2>1, VisitLoop DEF Faces
  <2>4. QED BY <1>1, <2>2, <2>3
<1>5. ASSUME NEW a \in Attempts, DropUnset(a) PROVE NotYet' /\ OnePlace'
  <2>1. UNCHANGED <<flight, queue, received, pc, todo>> /\ cur' = [cur EXCEPT ![a] = NoClient]
    BY <1>5 DEF DropUnset, Leave, clientVars
  <2>2. \A b \in Attempts, d \in Clients : Faces(b, d)' => Faces(b, d)
    BY <1>0, <2>1 DEF Faces, LoopTypes
  <2>3. QED BY <1>1, <2>1, <2>2
<1>6. ASSUME NEW a \in Attempts, FlushUnset(a) PROVE NotYet' /\ OnePlace'
  <2>1. PICK c \in Clients : cur[a] = c
    BY <1>0, <1>6 DEF FlushUnset, LoopTypes
  <2>2. /\ pc[a] = "flush" /\ UNCHANGED <<queue, received, pc, todo>>
        /\ cur' = [cur EXCEPT ![a] = NoClient]
        /\ flight' = [flight EXCEPT ![a][c] = got[a]]
    BY <1>6, <2>1 DEF FlushUnset, Leave, clientVars
  <2>3. Nowhere(c) /\ Once(got[a]) /\ c \notin todo[a]
    BY <2>1, <2>2 DEF NotYet, Faces, OneMessage, Apart
  <2>4. /\ flight'[a][c] = got[a]
        /\ \A b \in Attempts, d \in Clients : b # a \/ d # c => flight'[b][d] = flight[b][d]
    BY <1>0, <2>2 DEF SendTypes
  <2>5. ASSUME NEW b \in Attempts, NEW d \in Clients, pc'[b] = "flush", Faces(b, d)'
        PROVE  Nowhere(d)'
    <3>1. b = a
      BY <2>2, <2>5 DEF Alone, Active
    <3>2. d # c /\ Faces(a, d)
      BY <1>0, <2>2, <2>3, <2>5, <3>1 DEF Faces, LoopTypes
    <3>3. Nowhere(d)
      BY <2>2, <3>2 DEF NotYet
    <3>4. QED BY <2>2, <2>4, <3>2, <3>3 DEF Nowhere
  <2>6. PlaceOf(c)'
    <3>1. queue'[c] = <<>> /\ received'[c] = <<>> /\ \A b \in Attempts \ {a} : flight'[b][c] = <<>>
      BY <2>2, <2>3, <2>4 DEF Nowhere
    <3>2. QED BY <2>3, <2>4, <3>1, OnceEmpty DEF PlaceOf
  <2>7. OnePlace'
    BY <2>2, <2>4, <2>6, OnePlaceOf
  <2>8. QED BY <2>5, <2>7 DEF NotYet
<1>7. ASSUME NEW a \in Attempts, NEW c \in Clients, Send(a, c) PROVE NotYet' /\ OnePlace'
  <2>1. UNCHANGED <<received, pc, todo, cur>>
    BY <1>7 DEF Send, loopVars
  <2>2. /\ flight[a][c] \in Seq(Messages) /\ flight[a][c] # <<>>
        /\ flight'[a][c] = Tail(flight[a][c])
        /\ \A b \in Attempts, d \in Clients : b # a \/ d # c => flight'[b][d] = flight[b][d]
        /\ \A d \in Clients \ {c} : queue'[d] = queue[d]
        /\ queue'[c] = queue[c] \/ queue'[c] = Append(queue[c], Head(flight[a][c]))
        /\ queue[c] \in Seq(Messages)
    BY <1>0, <1>7, SendQueue DEF SendTypes
  <2>3. \A d \in Clients \ {c} : /\ queue'[d] = queue[d] /\ received'[d] = received[d]
                                 /\ \A b \in Attempts : flight'[b][d] = flight[b][d]
    BY <2>1, <2>2
  <2>4. NotYet'
    BY <2>1, <2>2, <2>3, NotYetOthers DEF Nowhere
  <2>5. /\ Once(flight'[a][c]) /\ TopicsOf(flight'[a][c]) \subseteq TopicsOf(flight[a][c])
        /\ Head(flight[a][c])[2] \in TopicsOf(flight[a][c]) /\ Head(flight[a][c]) \in Messages
        /\ Head(flight[a][c])[2] \notin TopicsOf(flight'[a][c])
    BY <2>2, OnceTail DEF OnePlace
  <2>6. /\ Once(queue'[c])
        /\ TopicsOf(queue'[c]) \subseteq TopicsOf(queue[c]) \cup {Head(flight[a][c])[2]}
    <3>1. Once(queue[c]) /\ Head(flight[a][c])[2] \notin TopicsOf(queue[c])
      BY <2>5 DEF OnePlace
    <3>2. CASE queue'[c] = queue[c]
      BY <3>1, <3>2
    <3>3. CASE queue'[c] = Append(queue[c], Head(flight[a][c]))
      BY <2>2, <2>5, <3>1, <3>3, OnceAppend
    <3>4. QED BY <2>2, <3>2, <3>3
  <2>7. \A b \in Attempts \ {a} : flight'[b][c] = <<>>
    BY <2>2 DEF OnePlace
  <2>8. PlaceOf(c)'
    <3>1. /\ Once(received[c]) /\ TopicsOf(queue[c]) \cap TopicsOf(received[c]) = {}
          /\ TopicsOf(flight[a][c]) \cap (TopicsOf(queue[c]) \cup TopicsOf(received[c])) = {}
      BY DEF OnePlace
    <3>2. TopicsOf(queue'[c]) \cap TopicsOf(received'[c]) = {}
      BY <2>1, <2>5, <2>6, <3>1
    <3>3. TopicsOf(flight'[a][c]) \cap (TopicsOf(queue'[c]) \cup TopicsOf(received'[c])) = {}
      BY <2>1, <2>5, <2>6, <3>1
    <3>4. QED BY <2>1, <2>5, <2>6, <2>7, <3>1, <3>2, <3>3, OnceEmpty DEF PlaceOf
  <2>9. QED BY <2>3, <2>4, <2>8, OnePlaceOf
<1>8. ASSUME NEW c \in Clients, Receive(c) PROVE NotYet' /\ OnePlace'
  <2>1. UNCHANGED <<flight, pc, todo, cur>>
    BY <1>8 DEF Receive, loopVars
  <2>2. /\ queue[c] \in Seq(Messages) /\ queue[c] # <<>> /\ received[c] \in Seq(Messages)
        /\ queue'[c] = Tail(queue[c]) /\ received'[c] = Append(received[c], Head(queue[c]))
        /\ \A d \in Clients \ {c} : queue'[d] = queue[d] /\ received'[d] = received[d]
    BY <1>0, <1>8, ReceiveQueue
  <2>3. NotYet'
    BY <2>1, <2>2, NotYetOthers DEF Nowhere
  <2>4. /\ Once(queue'[c]) /\ TopicsOf(queue'[c]) \subseteq TopicsOf(queue[c])
        /\ Head(queue[c])[2] \in TopicsOf(queue[c]) /\ Head(queue[c]) \in Messages
        /\ Head(queue[c])[2] \notin TopicsOf(queue'[c])
    BY <2>2, OnceTail DEF OnePlace
  <2>5. Once(received'[c]) /\ TopicsOf(received'[c]) = TopicsOf(received[c]) \cup {Head(queue[c])[2]}
    <3>1. Head(queue[c])[2] \notin TopicsOf(received[c]) /\ Once(received[c])
      BY <2>4 DEF OnePlace
    <3>2. QED BY <2>2, <2>4, <3>1, OnceAppend
  <2>6. PlaceOf(c)'
    <3>1. /\ TopicsOf(queue[c]) \cap TopicsOf(received[c]) = {}
          /\ \A a \in Attempts :
               /\ Once(flight[a][c])
               /\ TopicsOf(flight[a][c]) \cap (TopicsOf(queue[c]) \cup TopicsOf(received[c])) = {}
               /\ flight[a][c] # <<>> => \A b \in Attempts \ {a} : flight[b][c] = <<>>
      BY DEF OnePlace
    <3>2. TopicsOf(queue'[c]) \cap TopicsOf(received'[c]) = {}
      BY <2>4, <2>5, <3>1
    <3>3. TopicsOf(queue'[c]) \cup TopicsOf(received'[c]) \subseteq TopicsOf(queue[c]) \cup TopicsOf(received[c])
      BY <2>4, <2>5
    <3>4. \A a \in Attempts : TopicsOf(flight[a][c]) \cap (TopicsOf(queue'[c]) \cup TopicsOf(received'[c])) = {}
      BY <3>1, <3>3
    <3>5. QED BY <2>1, <2>4, <2>5, <3>1, <3>2, <3>4 DEF PlaceOf
  <2>7. QED BY <2>1, <2>2, <2>3, <2>6, OnePlaceOf
<1>9. ASSUME NEW c \in Clients, Unregister(c) PROVE NotYet' /\ OnePlace'
  <2>1. /\ UNCHANGED <<flight, received, pc, todo, cur>> /\ queue'[c] = <<>>
        /\ \A d \in Clients \ {c} : queue'[d] = queue[d]
    BY <1>0, <1>9 DEF Unregister, loopVars, SendTypes
  <2>2. NotYet'
    BY <1>0, <2>1 DEF NotYet, Nowhere, Faces
  <2>3. PlaceOf(c)'
    BY <2>1, OnceEmpty DEF PlaceOf, OnePlace
  <2>4. QED BY <2>1, <2>2, <2>3, OnePlaceOf
<1>10. QED BY <1>2, <1>3, <1>4, <1>5, <1>6, <1>7, <1>8, <1>9, NextCases DEF Leaves, Writes, Delivers

-----------------------------------------------------------------------------
(* The snapshot of a commit. *)

\* It is in the stash from the end of the loop until it is published.
Stashed ==
  /\ \A a \in Attempts : pc[a] \in {"write", "written", "flush"} => stash # NoAttempt
  /\ ~rowExists => published # <<>> \/ \E a \in Attempts : pc[a] = "flush"

LEMMA StashedStep ==
  ASSUME ConstantsAssumption, ~overlapped', ~unprepared', IInv, Alone, Stashed, Next
  PROVE  Stashed'
<1> USE DEF ConstantsAssumption
<1>0. RowTypes /\ SendTypes
  BY Parts DEF IInv
<1>1. ASSUME UNCHANGED <<stash, published>>, rowExists \/ ~rowExists',
             \A b \in Attempts : pc'[b] \in {"write", "written", "flush"}
                                   => pc[b] \in {"write", "written", "flush"},
             (\A b \in Attempts : pc[b] = "flush" => pc'[b] = "flush"),
             ~rowExists \/ rowExists' \/ \E b \in Attempts : pc'[b] = "flush"
      PROVE  Stashed'
  BY <1>1 DEF Stashed
<1>2. ASSUME NEW a \in Attempts, Start(a) \/ Writes(a)
      PROVE  Stashed'
  <2>1. UNCHANGED <<stash, published>>
    BY <1>2 DEF Start, Writes, Write, Commit, Rollback, Panic, historyVars
  <2>2. \A b \in Attempts \ {a} : pc'[b] = pc[b]
    BY <1>0, <1>2 DEF Start, Writes, Write, Commit, Rollback, Panic, GoToLoop, GoTo, RowTypes
  <2>3. CASE Commit(a)
    <3>1. pc[a] = "written" /\ pc'[a] = "flush" /\ (rowExists' => rowExists)
      BY <1>0, <2>3 DEF Commit, GoToLoop, GoTo, RowTypes, Places
    <3>2. QED BY <1>1, <2>1, <2>2, <3>1
  <2>4. CASE Start(a) \/ Write(a) \/ Rollback(a) \/ Panic(a)
    <3>1. /\ rowExists' = rowExists /\ pc[a] # "flush" /\ pc'[a] # "flush"
          /\ pc'[a] \in {"dry", "drop", "done"} \/ pc[a] = "write"
      BY <1>0, <2>4 DEF Start, Write, Rollback, Panic, GoToLoop, GoTo, RowTypes, dbVars
    <3>2. QED BY <1>1, <2>1, <2>2, <3>1
  <2>5. QED BY <1>2, <2>3, <2>4 DEF Writes
<1>3. ASSUME NEW a \in Attempts, Stash(a) PROVE Stashed'
  <2>1. stash' = a /\ UNCHANGED <<published, rowExists>> /\ pc[a] = "dry"
    BY <1>3 DEF Stash, Prepared, dbVars, historyVars
  <2>2. \A b \in Attempts \ {a} : pc'[b] = pc[b]
    BY <1>0, <1>3 DEF Stash, GoTo, RowTypes
  <2>3. QED BY <2>1, <2>2 DEF Stashed
<1>4. ASSUME NEW a \in Attempts, Publish(a) \/ DropStash(a) PROVE Stashed'
  <2>1. pc'[a] = "done" /\ UNCHANGED rowExists /\ pc[a] \in {"flush", "drop"}
    BY <1>0, <1>4 DEF Publish, DropStash, GoTo, RowTypes, dbVars
  <2>2. \A b \in Attempts \ {a} : pc'[b] = pc[b] /\ ~Active(b)
    BY <1>0, <1>4, <2>1 DEF Publish, DropStash, GoTo, RowTypes, Alone, Active
  <2>3. CASE Publish(a)
    <3>1. published' = Append(published, a) /\ published \in Seq(Attempts)
      BY <1>0, <2>3 DEF Publish, Stashed, SendTypes
    <3>2. published' # <<>>
      BY <3>1, AppendType
    <3>3. QED BY <2>1, <2>2, <3>2 DEF Stashed, Active
  <2>4. CASE DropStash(a)
    <3>1. UNCHANGED published /\ pc[a] = "drop"
      BY <2>4 DEF DropStash, historyVars
    <3>2. QED BY <2>1, <2>2, <3>1 DEF Stashed, Active
  <2>5. QED BY <1>4, <2>3, <2>4
<1>5. ASSUME NEW a \in Attempts, Dries(a) \/ Gets(a) \/ Leaves(a) PROVE Stashed'
  BY <1>1, <1>5 DEF Dries, DrySkip, DryGet, Check, Gets, Leaves, FlushGet, DropGet, Visit, DrySet,
                    FlushUnset, DropUnset, dbVars, historyVars
<1>6. CASE Delivers
  BY <1>1, <1>6, DeliversKeeps
<1>7. ASSUME NEW a \in Attempts, DryError(a) PROVE FALSE
  BY <1>7 DEF DryError
<1>8. QED BY <1>2, <1>3, <1>4, <1>5, <1>6, <1>7, NextCases DEF Ends

-----------------------------------------------------------------------------
\* What holds until requests have overlapped: the snapshot also after a hook has
\* panicked, the messages until one has.
SeqInv ==
  /\ OneByOne /\ Apart
  /\ ~overlapped /\ panics = 0 => OneMessage /\ NotYet /\ OnePlace
  /\ ~overlapped /\ ~unprepared => Stashed

LEMMA InitSeqInv == Init => SeqInv
<1> SUFFICES ASSUME Init PROVE SeqInv
  OBVIOUS
<1>1. OneByOne /\ Stashed /\ Apart
  BY DEF Init, OneByOne, Alone, BeforeCommit, Active, Stashed, Apart
<1>2. OneMessage
  BY OnceEmpty DEF Init, OneMessage
<1>3. NotYet /\ OnePlace
  BY OnceEmpty DEF Init, NotYet, Nowhere, OnePlace
<1>4. QED BY <1>1, <1>2, <1>3 DEF SeqInv

\* A hook that has panicked has done so for good.
LEMMA PanicsStep ==
  ASSUME ConstantsAssumption, RowTypes, Next
  PROVE  panics' = 0 => panics = 0
<1>1. ASSUME NEW a \in Attempts, \/ Start(a) \/ Dries(a) \/ Gets(a) \/ Leaves(a) \/ Ends(a)
                                 \/ DryError(a) \/ Write(a) \/ Commit(a) \/ Rollback(a)
      PROVE  panics' = panics
  BY <1>1 DEF Start, Dries, DrySkip, DryGet, Check, Gets, Leaves, Ends, FlushGet, DropGet, Visit,
              DrySet, FlushUnset, DropUnset, Stash, Publish, DropStash, DryError, Write, Commit,
              Rollback, historyVars
<1>2. ASSUME NEW a \in Attempts, Panic(a) PROVE panics' # 0
  BY <1>2 DEF ConstantsAssumption, Panic, RowTypes
<1>3. QED BY <1>1, <1>2, DeliversKeeps, NextCases DEF Writes

LEMMA NextSeqInv == ConstantsAssumption /\ IInv /\ SeqInv /\ [Next]_vars => SeqInv'
<1> SUFFICES ASSUME ConstantsAssumption, IInv, SeqInv, [Next]_vars PROVE SeqInv'
  OBVIOUS
<1>1. CASE Next
  <2>1. RowTypes /\ LoopTypes /\ StoreTypes /\ HistoryTypes
    BY Parts DEF IInv
  <2>2. (overlapped => overlapped') /\ (unprepared => unprepared') /\ (panics' = 0 => panics = 0)
    BY <1>1, <2>1, HistoryStep, PanicsStep
  <2>3. OneByOne' /\ Apart'
    BY <1>1, <2>1, <2>2, AloneStep, ApartStep DEF SeqInv, OneByOne
  <2>4. ASSUME ~overlapped', panics' = 0 PROVE (OneMessage /\ NotYet /\ OnePlace)'
    <3>1. Alone /\ BeforeCommit /\ OneMessage /\ NotYet /\ Apart /\ OnePlace /\ panics = 0
      BY <2>2, <2>4 DEF SeqInv, OneByOne
    <3>2. QED BY <1>1, <2>4, <3>1, OneMessageStep, OnePlaceStep
  <2>5. ASSUME ~overlapped', ~unprepared' PROVE Stashed'
    <3>1. Alone /\ Stashed
      BY <2>2, <2>5 DEF SeqInv, OneByOne
    <3>2. QED BY <1>1, <2>5, <3>1, StashedStep
  <2>6. QED BY <2>3, <2>4, <2>5 DEF SeqInv
<1>2. CASE UNCHANGED vars
  <2>1. UNCHANGED <<rowExists, pc, checks, todo, cur, got, cache, stash, flight, queue, received,
                    published, panics, overlapped, unprepared>>
    BY <1>2 DEF vars, dbVars, loopVars, clientVars, historyVars
  <2>2. OneByOne' /\ Apart'
    BY <2>1 DEF SeqInv, OneByOne, Alone, BeforeCommit, Active, Apart
  <2>3. ASSUME ~overlapped, panics = 0 PROVE (OneMessage /\ NotYet /\ OnePlace)'
    BY <2>1, <2>3 DEF SeqInv, OneMessage, NotYet, Faces, Nowhere, OnePlace
  <2>4. ASSUME ~overlapped, ~unprepared PROVE Stashed'
    BY <2>1, <2>4 DEF SeqInv, Stashed
  <2>5. QED BY <2>1, <2>2, <2>3, <2>4 DEF SeqInv
<1>3. QED BY <1>1, <1>2

LEMMA SeqInvariant ==
  ASSUME ConstantsAssumption
  PROVE  Spec => []SeqInv
  BY InitIInv, NextIInv, InitSeqInv, NextSeqInv, PTL DEF Spec

LEMMA InvOnce == SeqInv => DeletedOnce
  BY DEF SeqInv, OnePlace, Once, DeletedOnce, AtMostOnce

LEMMA InvPublished == SeqInv => CommitIsPublished
  BY DEF SeqInv, Stashed, CommitIsPublished, OutboxFollowsBroadcast, AllOver

\* A client gets one message at most for each of its subscriptions, as long as no delete
\* requests of the record have overlapped and no hook around one has panicked, also when
\* earlier requests were rolled back or failed to prepare their messages
\* (api-contract.md section 5; realtime.go:485-560).
THEOREM DeleteComesOnce ==
  ASSUME ConstantsAssumption
  PROVE  Spec => []DeletedOnce
  BY InvOnce, SeqInvariant, PTL

\* As long as no delete requests of the record have overlapped, one that has committed
\* is published to the outbox, whatever the ones before it did, if its messages could
\* be prepared (realtime.go:523).
THEOREM CommittedIsPublished ==
  ASSUME ConstantsAssumption
  PROVE  Spec => []CommitIsPublished
  BY InvPublished, SeqInvariant, PTL

=============================================================================
