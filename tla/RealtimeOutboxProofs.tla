----------------------- MODULE RealtimeOutboxProofs -----------------------
(***************************************************************************)
(* Proofs about the realtime outbox, for any number of instances and rows. *)
(***************************************************************************)
EXTENDS RealtimeOutbox, TLAPS

\* The steps of the listener of instance i that leave its cursor alone ...
KeepsCursor(i) ==
  \/ Connect(i) \/ Dial(i) \/ Backoff(i) \/ Check(i) \/ Read(i) \/ Process(i)
  \/ Wake(i) \/ ConnectionLost(i)
  \/ (Register(i) \/ Seed(i)) /\ UNCHANGED cursor

\* ... and those that obtain it from the tail of the table.
TakesTail(i) == (Register(i) \/ Seed(i)) /\ SeedFromTail(i)

LEMMA NextCases ==
  ASSUME Next
  PROVE  \/ \E e \in Events : BeginPublish(e) \/ EndPublish(e)
         \/ CleanupStaleRealtimeEvents \/ Tick
         \/ \E i \in Instances : \/ KeepsCursor(i) \/ TakesTail(i) \/ Advance(i)
                                \/ Stop(i) \/ ResetBootstrapState(i)
<1>1. ASSUME NEW i \in Instances, Register(i) \/ Seed(i)
      PROVE  KeepsCursor(i) \/ TakesTail(i)
  BY <1>1 DEF Register, Seed, KeepsCursor, TakesTail
<1>2. QED BY <1>1 DEF Next, Listener, KeepsCursor

-----------------------------------------------------------------------------
(* Type correctness. *)

LEMMA InitType == Init => TypeOK
<1> SUFFICES ASSUME Init PROVE TypeOK
  OBVIOUS
<1>1. VarTypes
  BY DEF Init, VarTypes, Labels
<1>2. CursorsAreKeys /\ BatchesInProcess
  BY DEF Init, CursorsAreKeys, IsKey, BatchesInProcess
<1>3. QED BY <1>1, <1>2 DEF TypeOK

LEMMA TailIsKey ==
  ASSUME VarTypes, NEW c \in Time, NEW e \in Events \cup {0}, IsTail(c, e)
  PROVE  IsKey(c, e) /\ c \in Nat /\ e \in Nat
  BY ConstantsAssumption DEF IsTail, IsLast, IsKey, Visible, Events, Time, VarTypes

\* What a read leaves in the listener's hands.
LEMMA ReadsRows ==
  ASSUME VarTypes, NEW i \in Instances, Read(i)
  PROVE  \/ UNCHANGED <<batch, todo>> /\ pc'[i] # "process"
             /\ \A j \in Instances \ {i} : pc'[j] = pc[j]
         \/ \E B \in SUBSET Events :
              /\ IsFirstBatch(i, B) /\ B \subseteq Visible
              /\ batch' = [batch EXCEPT ![i] = B] /\ todo' = [todo EXCEPT ![i] = B]
              /\ pc' = [pc EXCEPT ![i] = IF B = {} THEN "wait" ELSE "process"]
<1>1. Pending(i) \subseteq Visible /\ Visible \subseteq Events
  BY DEF Pending, Visible
<1>2. CASE \E B \in SUBSET Pending(i) :
             /\ IsFirstBatch(i, B)
             /\ batch' = [batch EXCEPT ![i] = B] /\ todo' = [todo EXCEPT ![i] = B]
             /\ Goto(i, IF B = {} THEN "wait" ELSE "process")
  BY <1>1, <1>2 DEF Goto
<1>3. CASE UNCHANGED <<batch, todo>> /\ (Goto(i, "wait") \/ Goto(i, "panicked"))
  BY <1>3 DEF Goto, VarTypes
<1>4. QED BY <1>2, <1>3 DEF Read

LEMMA GotoType ==
  ASSUME VarTypes, NEW i \in Instances, NEW l \in Labels, Goto(i, l)
  PROVE  pc' \in [Instances -> Labels]
  BY DEF VarTypes, Goto

LEMMA VarTypesStep ==
  ASSUME TypeOK, Next
  PROVE  VarTypes'
<1> USE DEF TypeOK, VarTypes
<1>1. ASSUME NEW e \in Events, BeginPublish(e) PROVE VarTypes'
  BY <1>1 DEF BeginPublish, cursor, appState
<1>2. ASSUME NEW e \in Events, EndPublish(e) PROVE VarTypes'
  BY <1>2 DEF EndPublish, cursor, appState
<1>3. CASE CleanupStaleRealtimeEvents
  BY <1>3 DEF CleanupStaleRealtimeEvents, cursor, appState
<1>4. CASE Tick
  BY <1>4 DEF Tick, cursor, appState
<1>5. ASSUME NEW i \in Instances, KeepsCursor(i) PROVE VarTypes'
  <2> USE DEF Goto, Fault, table, cursor, appState, Labels
  <2>1. CASE Connect(i)
    BY <2>1 DEF Connect
  <2>2. CASE Dial(i)
    <3>1. pc' \in [Instances -> Labels]
      BY <2>2 DEF Dial
    <3>2. faults' \in Nat
      BY <2>2 DEF Dial
    <3>3. QED BY <2>2, <3>1, <3>2 DEF Dial
  <2>3. CASE Backoff(i)
    BY <2>3 DEF Backoff
  <2>4. CASE Check(i)
    BY <2>4 DEF Check
  <2>5. CASE Read(i)
    <3>1. /\ UNCHANGED <<now, status, created, origin, cursor, appState, forwarded>>
          /\ faults' \in Nat
      BY <2>5 DEF Read
    <3>2. pc' \in [Instances -> Labels]
      <4> HIDE DEF TypeOK, VarTypes, Goto, table, cursor, appState
      <4>1. \E l \in Labels : Goto(i, l)
        <5>1. CASE \E B \in SUBSET Pending(i) : Goto(i, IF B = {} THEN "wait" ELSE "process")
          BY <5>1
        <5>2. CASE Goto(i, "wait") \/ Goto(i, "panicked")
          BY <5>2
        <5>3. QED BY <2>5, <5>1, <5>2 DEF Read
      <4>2. QED BY <4>1, GotoType DEF TypeOK
    <3>3. batch' \in [Instances -> SUBSET Events] /\ todo' \in [Instances -> SUBSET Events]
      <4> HIDE DEF TypeOK, VarTypes, Goto, Labels
      <4>1. \/ UNCHANGED <<batch, todo>>
            \/ \E B \in SUBSET Events :
                 batch' = [batch EXCEPT ![i] = B] /\ todo' = [todo EXCEPT ![i] = B]
        BY <2>5, ReadsRows DEF TypeOK
      <4>2. ASSUME NEW B \in SUBSET Events, batch' = [batch EXCEPT ![i] = B],
                   todo' = [todo EXCEPT ![i] = B]
            PROVE  batch' \in [Instances -> SUBSET Events] /\ todo' \in [Instances -> SUBSET Events]
        BY <4>2 DEF TypeOK, VarTypes
      <4>3. CASE UNCHANGED <<batch, todo>>
        BY <4>3 DEF TypeOK, VarTypes
      <4>4. QED BY <4>1, <4>2, <4>3
    <3>4. QED BY <3>1, <3>2, <3>3
  <2>6. CASE Process(i)
    BY <2>6 DEF Process
  <2>7. CASE Wake(i)
    BY <2>7 DEF Wake
  <2>8. CASE ConnectionLost(i)
    BY <2>8 DEF ConnectionLost
  <2>9. CASE Register(i) /\ UNCHANGED cursor
    BY <2>9 DEF Register
  <2>10. CASE Seed(i) /\ UNCHANGED cursor
    <3>1. pc' \in [Instances -> Labels]
      <4> HIDE DEF TypeOK, VarTypes, Goto, table, cursor, appState
      <4>1. \E l \in Labels : Goto(i, l)
        BY <2>10 DEF Seed
      <4>2. QED BY <4>1, GotoType DEF TypeOK
    <3>2. faults' \in Nat
      BY <2>10 DEF Seed
    <3>3. QED BY <2>10, <3>1, <3>2 DEF Seed
  <2>11. QED
    BY <1>5, <2>1, <2>2, <2>3, <2>4, <2>5, <2>6, <2>7, <2>8, <2>9, <2>10 DEF KeepsCursor
<1>6. ASSUME NEW i \in Instances, TakesTail(i) PROVE VarTypes'
  <2>1. UNCHANGED <<table, batch, todo, appState, forwarded>>
    BY <1>6 DEF TakesTail, Register, Seed
  <2>2. faults' \in Nat
    BY <1>6 DEF TakesTail, Register, Seed, Fault
  <2>3. pc' \in [Instances -> Labels]
    <3> HIDE DEF TypeOK, VarTypes
    <3>1. \E l \in Labels : Goto(i, l)
      BY <1>6 DEF TakesTail, Register, Seed, Labels
    <3>2. QED BY <3>1, GotoType DEF TypeOK
  <2>4. /\ cursorReady' \in [Instances -> BOOLEAN]
        /\ cursorCreated' \in [Instances -> Nat] /\ cursorId' \in [Instances -> Nat]
        /\ seedCreated' \in [Instances -> Nat] /\ seedId' \in [Instances -> Nat]
    <3>1. PICK e \in Events \cup {0}, c \in Time :
            /\ IsTail(c, e)
            /\ cursorCreated' = [cursorCreated EXCEPT ![i] = c]
            /\ cursorId' = [cursorId EXCEPT ![i] = e]
            /\ cursorReady' = [cursorReady EXCEPT ![i] = TRUE]
            /\ seedCreated' = [seedCreated EXCEPT ![i] = c]
            /\ seedId' = [seedId EXCEPT ![i] = e]
      BY <1>6 DEF TakesTail, SeedFromTail, SetCursor
    <3>2. c \in Nat /\ e \in Nat
      <4> HIDE DEF VarTypes, TypeOK
      <4> QED BY <3>1, TailIsKey DEF TypeOK
    <3>3. QED BY <3>1, <3>2
  <2>5. QED BY <2>1, <2>2, <2>3, <2>4 DEF table, appState
<1>7. ASSUME NEW i \in Instances, Advance(i) PROVE VarTypes'
  <2>1. cursorCreated' \in [Instances -> Nat] /\ cursorId' \in [Instances -> Nat]
    BY <1>7 DEF Advance, SetCursor, Events
  <2>2. batch' \in [Instances -> SUBSET Events] /\ pc' \in [Instances -> Labels]
    BY <1>7 DEF Advance, Goto, Labels
  <2>3. /\ UNCHANGED <<now, status, created, origin, stopClosed, dataDB>>
        /\ UNCHANGED <<cursorReady, seedCreated, seedId, todo, forwarded, faults>>
    BY <1>7 DEF Advance, table, appState
  <2>4. QED BY <2>1, <2>2, <2>3
<1>8. ASSUME NEW i \in Instances, Stop(i) \/ ResetBootstrapState(i) PROVE VarTypes'
  BY <1>8 DEF Stop, ResetBootstrapState, table, cursor
<1>9. QED BY <1>1, <1>2, <1>3, <1>4, <1>5, <1>6, <1>7, <1>8, NextCases

\* A cursor changes only to the tail or to the last row of a batch, and a row
\* that was visible keeps its key.
LEMMA CursorsStep ==
  ASSUME TypeOK, Next
  PROVE  CursorsAreKeys'
<1> USE DEF TypeOK, VarTypes, CursorsAreKeys, IsKey
<1>1. ASSUME NEW e \in Events, BeginPublish(e) PROVE CursorsAreKeys'
  BY <1>1 DEF BeginPublish, cursor
<1>2. ASSUME NEW e \in Events, EndPublish(e) PROVE CursorsAreKeys'
  BY <1>2 DEF EndPublish, cursor
<1>3. CASE CleanupStaleRealtimeEvents
  BY <1>3 DEF CleanupStaleRealtimeEvents, cursor
<1>4. CASE Tick
  BY <1>4 DEF Tick, cursor
<1>5. ASSUME NEW i \in Instances, KeepsCursor(i) PROVE CursorsAreKeys'
  <2>1. UNCHANGED <<cursor, table>>
    BY <1>5 DEF KeepsCursor, Connect, Dial, Backoff, Check, Read, Process, Wake,
                ConnectionLost, Register, Seed, cursor
  <2>2. QED BY <2>1 DEF cursor, table
<1>6. ASSUME NEW i \in Instances, TakesTail(i) PROVE CursorsAreKeys'
  <2>1. PICK e \in Events \cup {0}, c \in Time :
          /\ IsTail(c, e) /\ SetCursor(i, c, e)
          /\ seedCreated' = [seedCreated EXCEPT ![i] = c]
          /\ seedId'      = [seedId      EXCEPT ![i] = e]
    BY <1>6 DEF TakesTail, SeedFromTail
  <2>2. IsKey(c, e)
    <3> HIDE DEF TypeOK, VarTypes, IsKey
    <3>1. QED BY <2>1, TailIsKey DEF TypeOK
  <2>3. UNCHANGED <<status, created>>
    BY <1>6 DEF TakesTail, Register, Seed, table
  <2>4. /\ cursorCreated'[i] = c /\ cursorId'[i] = e /\ seedCreated'[i] = c /\ seedId'[i] = e
        /\ \A j \in Instances \ {i} : UNCHANGED <<cursorCreated[j], cursorId[j],
                                                  seedCreated[j], seedId[j]>>
    BY <2>1 DEF SetCursor
  <2>5. ASSUME NEW j \in Instances
        PROVE  IsKey(cursorCreated[j], cursorId[j])' /\ IsKey(seedCreated[j], seedId[j])'
    <3>1. CASE j = i
      <4>1. \/ e = 0 /\ c = 0
            \/ e # 0 /\ e \in Events /\ c = created'[e] /\ status'[e] \in {"visible", "deleted"}
        BY <2>2, <2>3
      <4>2. j = i /\ cursorCreated'[j] = c /\ cursorId'[j] = e /\ seedCreated'[j] = c /\ seedId'[j] = e
        BY <2>4, <3>1
      <4> HIDE DEF TypeOK, VarTypes, CursorsAreKeys
      <4>3. QED BY <4>1, <4>2 DEF IsKey
    <3>2. CASE j # i
      <4>1. IsKey(cursorCreated[j], cursorId[j]) /\ IsKey(seedCreated[j], seedId[j])
        OBVIOUS
      <4>2. UNCHANGED <<cursorCreated[j], cursorId[j], seedCreated[j], seedId[j]>>
        BY <2>4, <3>2
      <4> HIDE DEF TypeOK, VarTypes, CursorsAreKeys
      <4>3. QED BY <2>3, <4>1, <4>2 DEF IsKey
    <3>3. QED BY <3>1, <3>2
  <2>6. QED BY <2>5
<1>7. ASSUME NEW i \in Instances, Advance(i) PROVE CursorsAreKeys'
  <2>1. PICK e \in batch[i] : SetCursor(i, created[e], e)
    BY <1>7 DEF Advance
  <2>2. e \in Events /\ e # 0 /\ status[e] \in {"visible", "deleted"}
    BY <2>1, ConstantsAssumption DEF BatchesInProcess, Events
  <2>3. UNCHANGED <<status, created, seedCreated, seedId>>
    BY <1>7 DEF Advance, table
  <2>4. QED BY <2>1, <2>2, <2>3 DEF SetCursor
<1>8. ASSUME NEW i \in Instances, Stop(i) \/ ResetBootstrapState(i) PROVE CursorsAreKeys'
  <2>1. UNCHANGED <<cursor, table>>
    BY <1>8 DEF Stop, ResetBootstrapState, cursor
  <2>2. QED BY <2>1 DEF cursor, table
<1>9. QED BY <1>1, <1>2, <1>3, <1>4, <1>5, <1>6, <1>7, <1>8, NextCases

LEMMA BatchesStep ==
  ASSUME TypeOK, Next
  PROVE  BatchesInProcess'
<1> USE DEF TypeOK, VarTypes, BatchesInProcess
<1>1. ASSUME NEW e \in Events, BeginPublish(e) PROVE BatchesInProcess'
  BY <1>1 DEF BeginPublish
<1>2. ASSUME NEW e \in Events, EndPublish(e) PROVE BatchesInProcess'
  BY <1>2 DEF EndPublish
<1>3. CASE CleanupStaleRealtimeEvents
  BY <1>3 DEF CleanupStaleRealtimeEvents
<1>4. CASE Tick
  BY <1>4 DEF Tick
<1>5. ASSUME NEW i \in Instances, KeepsCursor(i) PROVE BatchesInProcess'
  <2> USE DEF Goto, table
  <2>1. CASE Connect(i) \/ Backoff(i)
    BY <2>1 DEF Connect, Backoff
  <2>0. CASE Wake(i) \/ ConnectionLost(i)
    BY <2>0 DEF Wake, ConnectionLost
  <2>2. CASE Dial(i)
    BY <2>2 DEF Dial
  <2>3. CASE Check(i)
    BY <2>3 DEF Check
  <2>4. CASE Read(i)
    <3>1. UNCHANGED status
      BY <2>4 DEF Read
    <3>2. \/ UNCHANGED <<batch, todo>> /\ pc'[i] # "process"
             /\ \A j \in Instances \ {i} : pc'[j] = pc[j]
          \/ \E B \in SUBSET Events :
               /\ B \subseteq Visible
               /\ batch' = [batch EXCEPT ![i] = B] /\ todo' = [todo EXCEPT ![i] = B]
               /\ pc' = [pc EXCEPT ![i] = IF B = {} THEN "wait" ELSE "process"]
      <4> HIDE DEF TypeOK, VarTypes, BatchesInProcess
      <4>1. QED BY <2>4, ReadsRows DEF TypeOK
    <3>3. pc[i] = "read"
      BY <2>4 DEF Read
    <3>4. CASE UNCHANGED <<batch, todo>> /\ pc'[i] # "process"
             /\ \A j \in Instances \ {i} : pc'[j] = pc[j]
      BY <3>1, <3>3, <3>4
    <3>5. CASE \E B \in SUBSET Events :
               /\ B \subseteq Visible
               /\ batch' = [batch EXCEPT ![i] = B] /\ todo' = [todo EXCEPT ![i] = B]
               /\ pc' = [pc EXCEPT ![i] = IF B = {} THEN "wait" ELSE "process"]
      <4>1. PICK B \in SUBSET Events :
               /\ B \subseteq Visible
               /\ batch' = [batch EXCEPT ![i] = B] /\ todo' = [todo EXCEPT ![i] = B]
               /\ pc' = [pc EXCEPT ![i] = IF B = {} THEN "wait" ELSE "process"]
        BY <3>5
      <4>2. batch'[i] = B /\ todo'[i] = B /\ (B # {} <=> pc'[i] = "process")
        BY <4>1
      <4>3. \A e \in B : status'[e] = "visible"
        BY <4>1, <3>1 DEF Visible
      <4>4. \A j \in Instances \ {i} :
              batch'[j] = batch[j] /\ todo'[j] = todo[j] /\ pc'[j] = pc[j]
        BY <4>1
      <4>5. SUFFICES ASSUME NEW j \in Instances
                     PROVE  /\ todo'[j] \subseteq batch'[j]
                            /\ \A e \in batch'[j] : status'[e] \in {"visible", "deleted"}
                            /\ batch'[j] # {} <=> pc'[j] = "process"
        OBVIOUS
      <4>6. CASE j = i
        BY <4>2, <4>3, <4>6
      <4>7. CASE j # i
        BY <3>1, <4>4, <4>7
      <4>8. QED BY <4>6, <4>7
    <3>6. QED BY <3>2, <3>4, <3>5
  <2>5. CASE Process(i)
    <3>1. UNCHANGED <<status, batch, pc>>
      BY <2>5 DEF Process
    <3>2. PICK e \in todo[i] : todo' = [todo EXCEPT ![i] = @ \ {e}]
      BY <2>5 DEF Process
    <3>3. \A j \in Instances : todo'[j] \subseteq todo[j]
      BY <3>2
    <3>4. QED BY <3>1, <3>3
  <2>6. CASE Register(i)
    BY <2>6 DEF Register
  <2>7. CASE Seed(i)
    BY <2>7 DEF Seed
  <2>8. QED BY <1>5, <2>0, <2>1, <2>2, <2>3, <2>4, <2>5, <2>6, <2>7 DEF KeepsCursor
<1>6. ASSUME NEW i \in Instances, TakesTail(i) PROVE BatchesInProcess'
  BY <1>6 DEF TakesTail, Register, Seed, Goto, table
<1>7. ASSUME NEW i \in Instances, Advance(i) PROVE BatchesInProcess'
  BY <1>7 DEF Advance, Goto, table
<1>8. ASSUME NEW i \in Instances, Stop(i) \/ ResetBootstrapState(i) PROVE BatchesInProcess'
  BY <1>8 DEF Stop, ResetBootstrapState, table
<1>9. QED BY <1>1, <1>2, <1>3, <1>4, <1>5, <1>6, <1>7, <1>8, NextCases

LEMMA StutterType == TypeOK /\ UNCHANGED vars => TypeOK'
  BY DEF vars, table, cursor, appState, TypeOK, VarTypes, CursorsAreKeys, IsKey, BatchesInProcess

\* The type invariant of the outbox holds in every reachable state, for any
\* instances, rows, lag, batch size and bounds.
THEOREM TypeCorrect == Spec => []TypeOK
<1>1. TypeOK /\ [Next]_vars => TypeOK'
  BY StutterType, VarTypesStep, CursorsStep, BatchesStep DEF TypeOK
<1>2. QED BY <1>1, InitType, PTL DEF Spec

-----------------------------------------------------------------------------
(***************************************************************************)
(* No row is skipped and no row is repeated.  The argument:                *)
(*   - a row in flight is younger than MaxCommitDelay, hence than the lag, *)
(*     so it lies after every row a listener has read, and after every     *)
(*     cursor except one that still stands where it was seeded;            *)
(*   - a batch is a prefix of what lies after the cursor, so a row that is *)
(*     visible and not in it lies after all of it, also if it becomes      *)
(*     visible while the batch is processed.                               *)
(***************************************************************************)
InFlightRecent ==
  \A e \in Events : status[e] = "inflight" => now <= created[e] + MaxCommitDelay

AtSeed(i) == cursorCreated[i] = seedCreated[i] /\ cursorId[i] = seedId[i]
CursorSettled(i) == AtSeed(i) \/ cursorCreated[i] + Lag <= now

BatchIsPrefix(i) ==
  /\ \A e \in batch[i] : PastCursor(i, e) /\ Settled(e) /\ origin[e] # i
  /\ \A e \in batch[i], f \in Visible \ batch[i] :
       origin[f] # i /\ PastCursor(i, f) => RowLess(e, f)
  /\ batch[i] \ todo[i] \subseteq Forwarded(i)

HeardBehind(i) ==
  /\ \A f \in Forwarded(i) : f \in Events /\ Settled(f) /\ status[f] \in {"visible", "deleted"}
  /\ \A f \in Forwarded(i), e \in todo[i] : RowLess(f, e)
  /\ \A f \in Forwarded(i) \ batch[i], e \in Visible :
       origin[e] # i /\ PastCursor(i, e) => RowLess(f, e)

NoSkipAt(i) ==
  \A e \in Visible : origin[e] # i /\ PastSeed(i, e) /\ ~PastCursor(i, e) => e \in Forwarded(i)

InOrderAt(i) ==
  \A k, l \in DOMAIN forwarded[i] : k < l => RowLess(forwarded[i][k], forwarded[i][l])

ListenerInv(i) ==
  CursorSettled(i) /\ BatchIsPrefix(i) /\ HeardBehind(i) /\ NoSkipAt(i) /\ InOrderAt(i)

\* The inductive invariant.
IInv == TypeOK /\ InFlightRecent /\ \A i \in Instances : ListenerInv(i)

LEMMA KeyLessTransitive ==
  ASSUME NEW a \in Nat, NEW b \in Nat, NEW c \in Nat, NEW d \in Nat, NEW x \in Nat, NEW y \in Nat,
         KeyLess(a, b, c, d), KeyLess(c, d, x, y)
  PROVE  KeyLess(a, b, x, y)
  BY DEF KeyLess

LEMMA EventKeyType ==
  ASSUME VarTypes, NEW e \in Events
  PROVE  created[e] \in Nat /\ e \in Nat
  BY ConstantsAssumption DEF VarTypes, Events

LEMMA RowLessTransitive ==
  ASSUME VarTypes, NEW e \in Events, NEW f \in Events, NEW g \in Events,
         RowLess(e, f), RowLess(f, g)
  PROVE  RowLess(e, g)
  BY EventKeyType, KeyLessTransitive DEF RowLess

LEMMA RowLessTotal ==
  ASSUME VarTypes, NEW e \in Events, NEW f \in Events
  PROVE  RowLess(e, f) \/ e = f \/ RowLess(f, e)
  BY ConstantsAssumption DEF VarTypes, RowLess, KeyLess, Events

LEMMA PastCursorTransitive ==
  ASSUME VarTypes, NEW i \in Instances, NEW e \in Events, NEW f \in Events,
         PastCursor(i, e), RowLess(e, f)
  PROVE  PastCursor(i, f)
<1>1. cursorCreated[i] \in Nat /\ cursorId[i] \in Nat
  BY DEF VarTypes
<1>2. QED BY <1>1, EventKeyType, KeyLessTransitive DEF PastCursor, RowLess

\* A row in flight lies after every settled row ...
LEMMA InFlightAfterSettled ==
  ASSUME VarTypes, InFlightRecent, NEW e \in Events, NEW f \in Events,
         Settled(e), status[f] = "inflight"
  PROVE  RowLess(e, f)
  BY ConstantsAssumption DEF VarTypes, InFlightRecent, Settled, RowLess, KeyLess

\* ... and after every cursor, if it lies after the point the cursor started at.
LEMMA InFlightAfterCursor ==
  ASSUME VarTypes, InFlightRecent, NEW i \in Instances, NEW f \in Events,
         CursorSettled(i), status[f] = "inflight", PastSeed(i, f)
  PROVE  PastCursor(i, f)
<1>1. CASE AtSeed(i)
  BY <1>1 DEF AtSeed, PastSeed, PastCursor
<1>2. CASE ~AtSeed(i)
  <2>1. cursorCreated[i] + Lag <= now /\ now <= created[f] + MaxCommitDelay
    BY <1>2 DEF CursorSettled, InFlightRecent
  <2>2. cursorCreated[i] \in Nat /\ created[f] \in Nat /\ now \in Nat
    BY DEF VarTypes
  <2>3. cursorCreated[i] < created[f]
    BY <2>1, <2>2, ConstantsAssumption
  <2>4. QED BY <2>3 DEF PastCursor, KeyLess
<1>3. QED BY <1>1, <1>2

LEMMA InFlightStep ==
  ASSUME TypeOK, InFlightRecent, Next
  PROVE  InFlightRecent'
<1> USE DEF TypeOK, VarTypes, InFlightRecent
<1>1. ASSUME NEW e \in Events, BeginPublish(e) PROVE InFlightRecent'
  BY <1>1, ConstantsAssumption DEF BeginPublish
<1>2. ASSUME NEW e \in Events, EndPublish(e) PROVE InFlightRecent'
  BY <1>2 DEF EndPublish
<1>3. CASE CleanupStaleRealtimeEvents
  BY <1>3 DEF CleanupStaleRealtimeEvents
<1>4. CASE Tick
  BY <1>4, ConstantsAssumption DEF Tick
<1>5. ASSUME NEW i \in Instances, KeepsCursor(i) \/ TakesTail(i) \/ Advance(i)
      PROVE  InFlightRecent'
  <2>1. UNCHANGED table
    BY <1>5 DEF KeepsCursor, TakesTail, Connect, Dial, Backoff, Check, Read, Process, Wake,
                ConnectionLost, Register, Seed, Advance
  <2>2. QED BY <2>1 DEF table
<1>6. ASSUME NEW i \in Instances, Stop(i) \/ ResetBootstrapState(i) PROVE InFlightRecent'
  BY <1>6 DEF Stop, ResetBootstrapState, table
<1>7. QED BY <1>1, <1>2, <1>3, <1>4, <1>5, <1>6, NextCases

-----------------------------------------------------------------------------
(* The steps of the table. *)

Unread(i) == UNCHANGED <<cursorCreated[i], cursorId[i], seedCreated[i], seedId[i],
                         batch[i], todo[i], forwarded[i]>>

\* A step that hides rows, adds rows not visible, or lets time pass keeps the
\* listener's invariant as long as visible and read rows keep their keys.
LEMMA FewerRowsStep ==
  ASSUME TypeOK, TypeOK', NEW i \in Instances, ListenerInv(i), Unread(i),
         now <= now', UNCHANGED origin, Visible' \subseteq Visible,
         \A e \in Events : status[e] \in {"visible", "deleted"} =>
            created'[e] = created[e] /\ status'[e] \in {"visible", "deleted"}
  PROVE  ListenerInv(i)'
<1> USE DEF TypeOK, VarTypes, Unread, ListenerInv
<1>1. CursorSettled(i)'
  BY ConstantsAssumption DEF CursorSettled, AtSeed
<1>0. now \in Nat /\ now' \in Nat /\ \A e \in Events : created[e] \in Nat
  OBVIOUS
<1>a. \A e \in Visible' : e \in Visible /\ created'[e] = created[e]
  BY DEF Visible
<1>b. \A e \in Events : Settled(e) /\ created'[e] = created[e] => Settled(e)'
  <2> HIDE DEF TypeOK, VarTypes, Unread, ListenerInv
  <2>1. QED BY <1>0, ConstantsAssumption DEF Settled
<1>2. BatchIsPrefix(i)'
  <2>1. \A e \in batch[i] : /\ e \in Events
                            /\ created'[e] = created[e] /\ status'[e] \in {"visible", "deleted"}
    BY DEF BatchesInProcess
  <2>2. \A e \in batch[i] : Settled(e)'
    BY <1>b, <2>1 DEF BatchIsPrefix
  <2>3. \A e \in Visible' \ batch[i] :
          origin[e] # i /\ PastCursor(i, e)' => \A f \in batch[i] : RowLess(f, e)'
    BY <1>a, <2>1 DEF BatchIsPrefix, PastCursor, RowLess
  <2>4. Forwarded(i)' = Forwarded(i)
    BY DEF Forwarded
  <2>5. \A e \in batch[i] : PastCursor(i, e)' /\ origin'[e] # i
    BY <2>1 DEF BatchIsPrefix, PastCursor
  <2>6. batch[i] \ todo[i] \subseteq Forwarded(i)'
    BY <2>4 DEF BatchIsPrefix
  <2>7. UNCHANGED <<batch[i], todo[i], origin>>
    OBVIOUS
  <2>8. QED
    <3> HIDE DEF TypeOK, VarTypes, Unread, ListenerInv
    <3>1. QED BY <2>2, <2>3, <2>5, <2>6, <2>7 DEF BatchIsPrefix
<1>3. HeardBehind(i)'
  <2>1. Forwarded(i)' = Forwarded(i)
    BY DEF Forwarded
  <2>2. \A e \in Visible' : e \in Visible /\ created'[e] = created[e]
    BY DEF Visible
  <2>3. \A f \in Forwarded(i) : f \in Events /\ Settled(f)'
                               /\ created'[f] = created[f] /\ status'[f] \in {"visible", "deleted"}
    BY <1>b DEF HeardBehind
  <2>4. \A e \in todo[i] : created'[e] = created[e]
    BY DEF BatchesInProcess
  <2>5. \A f \in Forwarded(i), e \in todo[i] : RowLess(f, e)'
    BY <2>3, <2>4 DEF HeardBehind, RowLess
  <2>6. \A f \in Forwarded(i) \ batch[i], e \in Visible' :
          origin[e] # i /\ PastCursor(i, e)' => RowLess(f, e)'
    BY <2>2, <2>3 DEF HeardBehind, PastCursor, RowLess
  <2>7. QED BY <2>1, <2>3, <2>5, <2>6 DEF HeardBehind
<1>4. NoSkipAt(i)'
  BY DEF NoSkipAt, PastSeed, PastCursor, Visible, Forwarded
<1>5. InOrderAt(i)'
  <2>1. \A k \in DOMAIN forwarded[i] :
          created'[forwarded[i][k]] = created[forwarded[i][k]]
    BY DEF HeardBehind, Forwarded
  <2>2. QED BY <2>1 DEF InOrderAt, RowLess
<1>6. QED BY <1>1, <1>2, <1>3, <1>4, <1>5

LEMMA CommitStep ==
  ASSUME TypeOK, InFlightRecent, NEW i \in Instances, ListenerInv(i),
         NEW g \in Events, EndPublish(g)
  PROVE  ListenerInv(i)'
<1>1. VarTypes /\ status[g] = "inflight" /\ Unread(i)
      /\ UNCHANGED <<now, created, origin>> /\ Visible' \subseteq Visible \cup {g}
  BY DEF TypeOK, VarTypes, EndPublish, Unread, Visible, cursor
<1>2. \A e \in Events : status[e] \in {"visible", "deleted"} => status'[e] = status[e]
  BY DEF TypeOK, VarTypes, EndPublish
<1>3. CursorSettled(i)'
  BY <1>1 DEF ListenerInv, CursorSettled, AtSeed, Unread
<1>4. BatchIsPrefix(i)'
  <2>1. \A e \in batch[i] : e \in Events /\ Settled(e)
    BY <1>1 DEF VarTypes, ListenerInv, BatchIsPrefix
  <2>2. \A e \in batch[i] : RowLess(e, g)
    BY <1>1, <2>1, InFlightAfterSettled
  <2>3. QED BY <1>1, <2>2 DEF ListenerInv, BatchIsPrefix, Unread, PastCursor, Settled, RowLess, Forwarded
<1>5. HeardBehind(i)'
  <2>1. \A f \in Forwarded(i) : RowLess(f, g)
    BY <1>1, InFlightAfterSettled DEF ListenerInv, HeardBehind
  <2>2. QED BY <1>1, <1>2, <2>1 DEF ListenerInv, HeardBehind, Unread, PastCursor, Settled, RowLess, Forwarded
<1>6. NoSkipAt(i)'
  <2>1. PastSeed(i, g) => PastCursor(i, g)
    BY <1>1, InFlightAfterCursor DEF ListenerInv
  <2>2. QED BY <1>1, <2>1 DEF ListenerInv, NoSkipAt, Unread, PastCursor, PastSeed, Forwarded
<1>7. InOrderAt(i)'
  BY <1>1 DEF ListenerInv, InOrderAt, Unread, RowLess
<1>8. QED BY <1>3, <1>4, <1>5, <1>6, <1>7 DEF ListenerInv

-----------------------------------------------------------------------------
(* The steps of the listener itself. *)

TableStill == UNCHANGED <<now, status, created, origin>>

LEMMA ReadStep ==
  ASSUME TypeOK, NEW i \in Instances, ListenerInv(i), Read(i)
  PROVE  ListenerInv(i)'
<1>1. /\ VarTypes /\ TableStill /\ UNCHANGED forwarded
      /\ UNCHANGED <<cursorCreated[i], cursorId[i], seedCreated[i], seedId[i]>>
      /\ batch[i] = {} /\ todo[i] = {}
  BY DEF TypeOK, Read, BatchesInProcess, TableStill, table, cursor
<1>2. PICK B \in SUBSET Events :
        /\ batch'[i] = B /\ todo'[i] = B
        /\ B # {} => IsFirstBatch(i, B)
  <2>1. CASE UNCHANGED <<batch, todo>>
    BY <1>1, <2>1
  <2>2. ASSUME NEW B \in SUBSET Events, IsFirstBatch(i, B),
               batch' = [batch EXCEPT ![i] = B], todo' = [todo EXCEPT ![i] = B]
        PROVE  batch'[i] = B /\ todo'[i] = B
    BY <1>1, <2>2 DEF VarTypes
  <2>3. QED BY <1>1, <2>1, <2>2, ReadsRows
<1>3. \A e \in B : e \in Pending(i)
  BY <1>2 DEF IsFirstBatch
<1>4. CursorSettled(i)'
  BY <1>1 DEF ListenerInv, CursorSettled, AtSeed, TableStill
<1>5. BatchIsPrefix(i)'
  <2>1. \A e \in B : PastCursor(i, e) /\ Settled(e) /\ origin[e] # i
    BY <1>3 DEF Pending
  <2>2. ASSUME NEW e \in B, NEW f \in Visible \ B, origin[f] # i, PastCursor(i, f)
        PROVE  RowLess(e, f)
    <3>1. CASE Settled(f)
      BY <1>2, <2>2, <3>1 DEF IsFirstBatch, Pending
    <3>2. CASE ~Settled(f)
      <4>1. e \in Events /\ f \in Events /\ created[e] \in Nat /\ created[f] \in Nat
        BY <1>1, EventKeyType DEF Visible
      <4>2. QED BY <1>1, <2>1, <3>2, <4>1, ConstantsAssumption
                   DEF VarTypes, Settled, RowLess, KeyLess
    <3>3. QED BY <3>1, <3>2
  <2>3. QED BY <1>1, <1>2, <2>1, <2>2
            DEF BatchIsPrefix, TableStill, PastCursor, Settled, RowLess, Visible
<1>6. HeardBehind(i)'
  <2>1. \A f \in Forwarded(i), e \in B : RowLess(f, e)
    BY <1>1, <1>3 DEF ListenerInv, HeardBehind, Pending
  <2>2. QED BY <1>1, <1>2, <2>1 DEF ListenerInv, HeardBehind, TableStill, PastCursor,
                                    Settled, RowLess, Visible, Forwarded
<1>7. NoSkipAt(i)' /\ InOrderAt(i)'
  BY <1>1 DEF ListenerInv, NoSkipAt, InOrderAt, TableStill, PastCursor, PastSeed,
              RowLess, Visible, Forwarded
<1>8. QED BY <1>4, <1>5, <1>6, <1>7 DEF ListenerInv

LEMMA ProcessStep ==
  ASSUME TypeOK, NEW i \in Instances, ListenerInv(i), Process(i)
  PROVE  ListenerInv(i)'
<1>1. PICK e \in todo[i] :
        /\ IsFirst(e, todo[i])
        /\ forwarded' = [forwarded EXCEPT ![i] = Append(@, e)]
        /\ todo' = [todo EXCEPT ![i] = @ \ {e}]
  BY DEF Process
<1>2. /\ VarTypes /\ TableStill /\ UNCHANGED batch
      /\ UNCHANGED <<cursorCreated[i], cursorId[i], seedCreated[i], seedId[i]>>
  BY DEF TypeOK, Process, TableStill, table, cursor
<1>3. e \in Events /\ e \in batch[i] /\ Settled(e) /\ status[e] \in {"visible", "deleted"}
  BY <1>2 DEF TypeOK, VarTypes, BatchesInProcess, ListenerInv, BatchIsPrefix
<1>4. todo'[i] = todo[i] \ {e} /\ forwarded'[i] = Append(forwarded[i], e)
      /\ forwarded[i] \in Seq(Events)
  BY <1>1, <1>2 DEF VarTypes
<1>5. Forwarded(i)' = Forwarded(i) \cup {e}
  BY <1>3, <1>4 DEF Forwarded
<1>6. CursorSettled(i)'
  BY <1>2 DEF ListenerInv, CursorSettled, AtSeed, TableStill
<1>7. BatchIsPrefix(i)'
  BY <1>2, <1>4, <1>5 DEF ListenerInv, BatchIsPrefix, TableStill, PastCursor, Settled, RowLess, Visible
<1>8. HeardBehind(i)'
  <2>1. \A f \in todo[i] \ {e} : RowLess(e, f)
    BY <1>1 DEF IsFirst
  <2>2. QED BY <1>2, <1>3, <1>4, <1>5, <2>1
            DEF ListenerInv, HeardBehind, TableStill, PastCursor, Settled, RowLess, Visible
<1>9. NoSkipAt(i)'
  BY <1>2, <1>5 DEF ListenerInv, NoSkipAt, TableStill, PastCursor, PastSeed, Visible
<1>10. InOrderAt(i)'
  <2>1. \A f \in Forwarded(i) : RowLess(f, e)
    BY DEF ListenerInv, HeardBehind
  <2>2. \A k \in DOMAIN forwarded[i] : RowLess(forwarded[i][k], e)
    BY <2>1 DEF Forwarded
  <2>3. /\ DOMAIN forwarded[i] = 1..Len(forwarded[i])
        /\ DOMAIN forwarded'[i] = 1..(Len(forwarded[i]) + 1) /\ Len(forwarded[i]) \in Nat
        /\ \A k \in 1..Len(forwarded[i]) : forwarded'[i][k] = forwarded[i][k]
        /\ forwarded'[i][Len(forwarded[i]) + 1] = e
    BY <1>3, <1>4
  <2>4. ASSUME NEW k \in 1..(Len(forwarded[i]) + 1), NEW l \in 1..(Len(forwarded[i]) + 1), k < l
        PROVE  RowLess(forwarded'[i][k], forwarded'[i][l])
    <3>1. k \in 1..Len(forwarded[i]) /\ forwarded'[i][k] = forwarded[i][k]
      BY <2>3, <2>4
    <3>2. CASE l = Len(forwarded[i]) + 1
      BY <2>2, <2>3, <3>1, <3>2
    <3>3. CASE l # Len(forwarded[i]) + 1
      <4>1. l \in 1..Len(forwarded[i])
        BY <2>3, <3>3
      <4>2. QED BY <2>3, <2>4, <3>1, <4>1 DEF ListenerInv, InOrderAt
    <3>4. QED BY <3>2, <3>3
  <2>5. \A e1, f1 \in Events : RowLess(e1, f1)' <=> RowLess(e1, f1)
    BY <1>2 DEF TableStill, RowLess
  <2>6. \A k \in 1..(Len(forwarded[i]) + 1) : forwarded'[i][k] \in Events
    BY <1>3, <1>4, <2>3
  <2>7. QED BY <2>3, <2>4, <2>5, <2>6 DEF InOrderAt
<1>11. QED BY <1>6, <1>7, <1>8, <1>9, <1>10 DEF ListenerInv

LEMMA AdvanceStep ==
  ASSUME TypeOK, NEW i \in Instances, ListenerInv(i), Advance(i)
  PROVE  ListenerInv(i)'
<1>1. PICK m \in batch[i] : IsLast(m, batch[i]) /\ SetCursor(i, created[m], m)
  BY DEF Advance
<1>2. /\ VarTypes /\ TableStill /\ UNCHANGED <<forwarded, todo>> /\ todo[i] = {}
      /\ UNCHANGED <<seedCreated[i], seedId[i]>>
      /\ cursorCreated'[i] = created[m] /\ cursorId'[i] = m /\ batch'[i] = {}
  BY <1>1 DEF TypeOK, VarTypes, Advance, SetCursor, TableStill, table
<1>3. m \in Events /\ Settled(m) /\ PastCursor(i, m) /\ batch[i] \subseteq Events
  BY <1>2 DEF TypeOK, VarTypes, ListenerInv, BatchIsPrefix
<1>4. batch[i] \subseteq Forwarded(i)
  BY <1>2 DEF ListenerInv, BatchIsPrefix
<1>5. \A f \in Events : PastCursor(i, f)' <=> RowLess(m, f)
  BY <1>2 DEF PastCursor, RowLess, TableStill
<1>6. CursorSettled(i)'
  BY <1>2, <1>3 DEF CursorSettled, Settled, TableStill
<1>7. BatchIsPrefix(i)'
  BY <1>2 DEF BatchIsPrefix
<1>8. HeardBehind(i)'
  <2>1. ASSUME NEW f \in Forwarded(i), NEW e \in Visible, origin[e] # i, RowLess(m, e)
        PROVE  RowLess(f, e)
    <3>1. f \in Events /\ e \in Events
      BY DEF ListenerInv, HeardBehind, Visible
    <3>2. CASE f \in batch[i]
      BY <1>1, <1>2, <1>3, <2>1, <3>1, <3>2, RowLessTransitive DEF IsLast
    <3>3. CASE f \notin batch[i]
      BY <1>2, <1>3, <2>1, <3>1, <3>3, PastCursorTransitive DEF ListenerInv, HeardBehind
    <3>4. QED BY <3>2, <3>3
  <2>2. Forwarded(i)' = Forwarded(i) /\ Visible' = Visible /\ Visible \subseteq Events
    BY <1>2 DEF Forwarded, Visible, TableStill
  <2>3. QED BY <1>2, <1>5, <2>1, <2>2 DEF ListenerInv, HeardBehind, Settled, RowLess, TableStill
<1>9. NoSkipAt(i)'
  <2>1. ASSUME NEW e \in Visible, origin[e] # i, PastSeed(i, e), ~RowLess(m, e)
        PROVE  e \in Forwarded(i)
    <3>1. e \in Events
      BY DEF Visible
    <3>2. CASE PastCursor(i, e)
      BY <1>3, <1>4, <2>1, <3>2 DEF ListenerInv, BatchIsPrefix
    <3>3. CASE ~PastCursor(i, e)
      BY <2>1, <3>3 DEF ListenerInv, NoSkipAt
    <3>4. QED BY <3>2, <3>3
  <2>2. Forwarded(i)' = Forwarded(i) /\ Visible' = Visible /\ Visible \subseteq Events
    BY <1>2 DEF Forwarded, Visible, TableStill
  <2>3. QED BY <1>2, <1>5, <2>1, <2>2 DEF NoSkipAt, PastSeed, TableStill
<1>10. InOrderAt(i)'
  BY <1>2 DEF ListenerInv, InOrderAt, TableStill, RowLess
<1>11. QED BY <1>6, <1>7, <1>8, <1>9, <1>10 DEF ListenerInv

\* After a seed no visible row lies past the cursor, and the cursor is the seed.
LEMMA TailStep ==
  ASSUME TypeOK, NEW i \in Instances, ListenerInv(i), TakesTail(i)
  PROVE  ListenerInv(i)'
<1>1. PICK m \in Events \cup {0}, c \in Time :
        /\ IsTail(c, m) /\ SetCursor(i, c, m)
        /\ seedCreated' = [seedCreated EXCEPT ![i] = c]
        /\ seedId'      = [seedId      EXCEPT ![i] = m]
  BY DEF TakesTail, SeedFromTail
<1>2. /\ VarTypes /\ TableStill /\ UNCHANGED <<forwarded, todo, batch>>
      /\ batch[i] = {} /\ todo[i] = {}
  BY DEF TypeOK, BatchesInProcess, TakesTail, Register, Seed, TableStill, table
<1>3. /\ cursorCreated'[i] = c /\ cursorId'[i] = m
      /\ seedCreated'[i] = c /\ seedId'[i] = m
  BY <1>1, <1>2 DEF VarTypes, SetCursor
<1>4. \A e \in Visible : ~KeyLess(c, m, created[e], e)
  <2>1. CASE Visible = {}
    BY <2>1
  <2>2. CASE IsLast(m, Visible) /\ c = created[m]
    <3>1. ASSUME NEW e \in Visible PROVE ~KeyLess(c, m, created[e], e)
      <4>1. m \in Events /\ e \in Events
        BY <2>2 DEF IsLast, Visible
      <4>2. created[m] \in Nat /\ m \in Nat /\ created[e] \in Nat /\ e \in Nat
        BY <1>2, <4>1, EventKeyType
      <4>3. QED BY <2>2, <4>2 DEF IsLast, RowLess, KeyLess
    <3>2. QED BY <3>1
  <2>3. QED BY <1>1, <2>1, <2>2 DEF IsTail
<1>5. Forwarded(i)' = Forwarded(i) /\ Visible' = Visible
  BY <1>2 DEF Forwarded, Visible, TableStill
<1>6. \A e \in Visible : ~PastCursor(i, e)' /\ ~PastSeed(i, e)'
  BY <1>2, <1>3, <1>4 DEF PastCursor, PastSeed, TableStill
<1>7. CursorSettled(i)'
  BY <1>3 DEF CursorSettled, AtSeed
<1>8. BatchIsPrefix(i)'
  BY <1>2 DEF BatchIsPrefix
<1>9. HeardBehind(i)'
  BY <1>2, <1>5, <1>6 DEF ListenerInv, HeardBehind, TableStill, Settled
<1>10. NoSkipAt(i)' /\ InOrderAt(i)'
  BY <1>2, <1>5, <1>6 DEF ListenerInv, NoSkipAt, InOrderAt, TableStill, RowLess
<1>11. QED BY <1>7, <1>8, <1>9, <1>10 DEF ListenerInv

-----------------------------------------------------------------------------
LEMMA InitIInv == Init => IInv
<1> SUFFICES ASSUME Init PROVE IInv
  OBVIOUS
<1>1. TypeOK
  BY InitType
<1>2. InFlightRecent
  BY DEF Init, InFlightRecent
<1>3. ASSUME NEW i \in Instances PROVE ListenerInv(i)
  <2>1. Forwarded(i) = {} /\ Visible = {} /\ batch[i] = {} /\ todo[i] = {} /\ DOMAIN forwarded[i] = {}
    BY DEF Init, Forwarded, Visible
  <2>2. AtSeed(i)
    BY DEF Init, AtSeed
  <2>3. QED BY <2>1, <2>2 DEF ListenerInv, CursorSettled, BatchIsPrefix, HeardBehind,
                              NoSkipAt, InOrderAt
<1>4. QED BY <1>1, <1>2, <1>3 DEF IInv

\* One step keeps the invariant of every listener: the table's steps by
\* FewerRowsStep and CommitStep, a listener's own steps by the lemmas above, and
\* the other listeners because they share nothing but the table.
LEMMA ListenersStep ==
  ASSUME IInv, Next, TypeOK', NEW j \in Instances
  PROVE  ListenerInv(j)'
<1>1. TypeOK /\ VarTypes /\ InFlightRecent /\ ListenerInv(j)
  BY DEF IInv, TypeOK
<1>2. ASSUME Unread(j), TableStill PROVE ListenerInv(j)'
  <2>1. now <= now' /\ Visible' = Visible
    BY <1>1, <1>2 DEF VarTypes, TableStill, Visible
  <2>2. QED BY <1>1, <1>2, <2>1, FewerRowsStep DEF TableStill
<1>3. ASSUME NEW e \in Events, BeginPublish(e) PROVE ListenerInv(j)'
  <2>1. Unread(j) /\ UNCHANGED <<now, origin>> /\ now <= now'
    BY <1>1, <1>3 DEF BeginPublish, Unread, cursor, VarTypes
  <2>2. Visible' \subseteq Visible
    BY <1>1, <1>3 DEF BeginPublish, Visible, VarTypes
  <2>3. \A f \in Events : status[f] \in {"visible", "deleted"} =>
          created'[f] = created[f] /\ status'[f] \in {"visible", "deleted"}
    BY <1>1, <1>3 DEF BeginPublish, VarTypes
  <2>4. QED BY <1>1, <2>1, <2>2, <2>3, FewerRowsStep
<1>4. ASSUME NEW e \in Events, EndPublish(e) PROVE ListenerInv(j)'
  BY <1>1, <1>4, CommitStep
<1>5. CASE CleanupStaleRealtimeEvents
  <2>1. Unread(j) /\ UNCHANGED <<now, created, origin>> /\ now <= now'
    BY <1>1, <1>5 DEF CleanupStaleRealtimeEvents, Unread, cursor, VarTypes
  <2>2. Visible' \subseteq Visible
    BY <1>1, <1>5 DEF CleanupStaleRealtimeEvents, Visible, VarTypes
  <2>3. \A f \in Events : status[f] \in {"visible", "deleted"} =>
                         status'[f] \in {"visible", "deleted"}
    BY <1>1, <1>5 DEF CleanupStaleRealtimeEvents, VarTypes
  <2>4. QED BY <1>1, <2>1, <2>2, <2>3, FewerRowsStep
<1>6. CASE Tick
  <2>1. Unread(j) /\ UNCHANGED <<status, created, origin>> /\ now <= now'
    BY <1>1, <1>6 DEF Tick, Unread, cursor, VarTypes
  <2>2. Visible' = Visible
    BY <2>1 DEF Visible
  <2>3. QED BY <1>1, <2>1, <2>2, FewerRowsStep
<1>7. ASSUME NEW i \in Instances, KeepsCursor(i) PROVE ListenerInv(j)'
  <2>1. CASE Read(i) /\ i = j
    BY <1>1, <2>1, ReadStep
  <2>2. CASE Process(i) /\ i = j
    BY <1>1, <2>2, ProcessStep
  <2>3. TableStill
    BY <1>7 DEF KeepsCursor, Connect, Dial, Backoff, Check, Read, Process, Wake,
                ConnectionLost, Register, Seed, table, TableStill
  <2>4. CASE (Read(i) \/ Process(i)) /\ i # j
    <3>1. Unread(j)
      BY <1>1, <2>4 DEF Read, Process, Unread, cursor, VarTypes
    <3>2. QED BY <1>2, <2>3, <3>1
  <2>5. CASE ~(Read(i) \/ Process(i))
    <3>1. UNCHANGED <<cursor, batch, todo, forwarded>>
      BY <1>7, <2>5 DEF KeepsCursor, Connect, Dial, Backoff, Check, Wake,
                        ConnectionLost, Register, Seed
    <3>2. QED BY <1>2, <2>3, <3>1 DEF Unread, cursor
  <2>6. QED BY <2>1, <2>2, <2>4, <2>5
<1>8. ASSUME NEW i \in Instances, TakesTail(i) \/ Advance(i) PROVE ListenerInv(j)'
  <2>1. CASE i = j
    BY <1>1, <1>8, <2>1, TailStep, AdvanceStep
  <2>2. CASE i # j
    <3>1. TableStill
      BY <1>8 DEF TakesTail, Register, Seed, Advance, table, TableStill
    <3>2. UNCHANGED <<todo, forwarded>> /\ batch'[j] = batch[j]
      BY <1>1, <1>8, <2>2 DEF TakesTail, Register, Seed, Advance, VarTypes
    <3>3. UNCHANGED <<cursorCreated[j], cursorId[j], seedCreated[j], seedId[j]>>
      BY <1>1, <1>8, <2>2 DEF TakesTail, SeedFromTail, Advance, SetCursor, VarTypes
    <3>4. QED BY <1>2, <3>1, <3>2, <3>3 DEF Unread
  <2>3. QED BY <2>1, <2>2
<1>9. ASSUME NEW i \in Instances, Stop(i) \/ ResetBootstrapState(i) PROVE ListenerInv(j)'
  BY <1>2, <1>9 DEF Stop, ResetBootstrapState, table, cursor, Unread, TableStill
<1>10. QED BY <1>3, <1>4, <1>5, <1>6, <1>7, <1>8, <1>9, NextCases

LEMMA NextIInv == IInv /\ [Next]_vars => IInv'
<1>1. CASE IInv /\ Next
  <2>1. TypeOK'
    BY <1>1, VarTypesStep, CursorsStep, BatchesStep DEF IInv, TypeOK
  <2>2. InFlightRecent'
    BY <1>1, InFlightStep DEF IInv
  <2>3. QED BY <1>1, <2>1, <2>2, ListenersStep DEF IInv
<1>2. CASE IInv /\ UNCHANGED vars
  <2>1. TypeOK'
    BY <1>2, StutterType DEF IInv
  <2>2. InFlightRecent'
    BY <1>2 DEF vars, table, IInv, InFlightRecent
  <2>3. ASSUME NEW i \in Instances PROVE ListenerInv(i)'
    <3>1. TypeOK /\ ListenerInv(i) /\ Unread(i) /\ TableStill
      BY <1>2 DEF vars, table, cursor, IInv, Unread, TableStill
    <3>2. now <= now' /\ Visible' = Visible
      BY <3>1 DEF TypeOK, VarTypes, TableStill, Visible
    <3>3. QED BY <2>1, <3>1, <3>2, FewerRowsStep DEF TableStill
  <2>4. QED BY <2>1, <2>2, <2>3 DEF IInv
<1>3. QED BY <1>1, <1>2

LEMMA Invariance == Spec => []IInv
  BY InitIInv, NextIInv, PTL DEF Spec

\* No committed row of another instance that lies after the point a listener was
\* seeded at is ever behind the listener's cursor without having been handed to
\* processEvent: the high-water mark with its stability lag loses nothing, for
\* any number of instances and rows, provided that an INSERT commits within
\* less than the lag.
THEOREM NothingSkipped == Spec => []NoSkip
<1>1. IInv => NoSkip
  BY DEF IInv, ListenerInv, NoSkipAt, NoSkip
<1>2. QED BY <1>1, Invariance, PTL

\* Every instance broadcasts foreign events in key order and each at most once.
THEOREM BroadcastInOrder == Spec => []InOrder
<1>1. IInv => InOrder
  BY DEF IInv, ListenerInv, InOrderAt, InOrder
<1>2. QED BY <1>1, Invariance, PTL

-----------------------------------------------------------------------------
(***************************************************************************)
(* The outbox implements BroadcastLog.  A row is published in the log when *)
(* it becomes visible: at that moment it lies after everything any         *)
(* listener has heard.  Besides the invariant above this needs that a      *)
(* cursor never falls behind its seed.                                     *)
(***************************************************************************)

\* A listener that has not been registered has no cursor.
OffIsNotReady == \A i \in Instances : pc[i] = "off" => ~cursorReady[i]

\* A cursor only moves on from where it was seeded.
SeedBehind(i) ==
  AtSeed(i) \/ KeyLess(seedCreated[i], seedId[i], cursorCreated[i], cursorId[i])

SeedsBehind == \A i \in Instances : SeedBehind(i)

\* Where a step of the listener of i leaves its goroutine.
LEMMA GoesOn ==
  ASSUME NEW i \in Instances,
         KeepsCursor(i) \/ TakesTail(i) \/ Advance(i) \/ Stop(i) \/ ResetBootstrapState(i)
  PROVE  UNCHANGED <<pc, cursorReady>> \/ \E l \in Labels \ {"off"} : Goto(i, l)
<1> USE DEF Labels
<1>1. CASE Stop(i) \/ ResetBootstrapState(i) \/ Process(i)
  BY <1>1 DEF Stop, ResetBootstrapState, Process, cursor
<1>2. CASE Register(i) \/ Seed(i)
  BY <1>2 DEF Register, Seed
<1>3. CASE Dial(i) \/ Wake(i) \/ ConnectionLost(i)
  BY <1>3 DEF Dial, Wake, ConnectionLost
<1>4. CASE Connect(i)
  BY <1>4 DEF Connect
<1>5. CASE Backoff(i)
  BY <1>5 DEF Backoff
<1>6. CASE Check(i)
  BY <1>6 DEF Check
<1>7. CASE Advance(i)
  BY <1>7 DEF Advance
<1>8. CASE Read(i)
  <2>1. CASE \E B \in SUBSET Pending(i) : Goto(i, IF B = {} THEN "wait" ELSE "process")
    BY <2>1
  <2>2. CASE Goto(i, "wait") \/ Goto(i, "panicked")
    BY <2>2
  <2>3. QED BY <1>8, <2>1, <2>2 DEF Read
<1>9. QED BY <1>1, <1>2, <1>3, <1>4, <1>5, <1>6, <1>7, <1>8 DEF KeepsCursor, TakesTail

\* Whose cursor it may set.
LEMMA SetsOwn ==
  ASSUME VarTypes, NEW i \in Instances, NEW j \in Instances \ {i},
         KeepsCursor(i) \/ TakesTail(i) \/ Advance(i) \/ Stop(i) \/ ResetBootstrapState(i)
  PROVE  cursorReady'[j] = cursorReady[j]
<1>1. CASE TakesTail(i)
  BY <1>1 DEF TakesTail, SeedFromTail, VarTypes
<1>2. CASE ~TakesTail(i)
  <2>1. UNCHANGED cursorReady
    BY <1>2 DEF KeepsCursor, Connect, Dial, Backoff, Check, Read, Process, Wake,
                ConnectionLost, Advance, Stop, ResetBootstrapState, cursor
  <2>2. QED BY <2>1
<1>3. QED BY <1>1, <1>2

\* Only a registered listener takes a cursor.
LEMMA OffStep ==
  ASSUME TypeOK, OffIsNotReady, Next
  PROVE  OffIsNotReady'
<1>0. VarTypes
  BY DEF TypeOK
<1>1. ASSUME NEW e \in Events, BeginPublish(e) \/ EndPublish(e) PROVE OffIsNotReady'
  BY <1>1 DEF BeginPublish, EndPublish, cursor, OffIsNotReady
<1>2. CASE CleanupStaleRealtimeEvents \/ Tick
  BY <1>2 DEF CleanupStaleRealtimeEvents, Tick, cursor, OffIsNotReady
<1>3. ASSUME NEW i \in Instances,
             KeepsCursor(i) \/ TakesTail(i) \/ Advance(i) \/ Stop(i) \/ ResetBootstrapState(i)
      PROVE  OffIsNotReady'
  <2>1. CASE UNCHANGED <<pc, cursorReady>>
    BY <2>1 DEF OffIsNotReady
  <2>2. ASSUME NEW l \in Labels \ {"off"}, Goto(i, l) PROVE OffIsNotReady'
    <3>1. pc'[i] # "off" /\ \A j \in Instances \ {i} : pc'[j] = pc[j]
      BY <1>0, <2>2 DEF Goto, VarTypes
    <3>2. \A j \in Instances \ {i} : cursorReady'[j] = cursorReady[j]
      BY <1>0, <1>3, SetsOwn
    <3>3. QED BY <3>1, <3>2 DEF OffIsNotReady
  <2>3. QED BY <1>3, <2>1, <2>2, GoesOn
<1>4. QED BY <1>1, <1>2, <1>3, NextCases

\* A cursor moves to a row of its batch, which lies after it, and so after the seed.
LEMMA SeedsStep ==
  ASSUME IInv, SeedsBehind, Next
  PROVE  SeedsBehind'
<1>0. VarTypes
  BY DEF IInv, TypeOK
<1>1. ASSUME UNCHANGED cursor PROVE SeedsBehind'
  BY <1>1 DEF cursor, SeedsBehind, SeedBehind, AtSeed
<1>2. ASSUME NEW i \in Instances, TakesTail(i) PROVE SeedsBehind'
  <2>1. PICK m \in Events \cup {0}, c \in Time :
          /\ SetCursor(i, c, m)
          /\ seedCreated' = [seedCreated EXCEPT ![i] = c]
          /\ seedId'      = [seedId      EXCEPT ![i] = m]
    BY <1>2 DEF TakesTail, SeedFromTail
  <2>2. QED BY <1>0, <2>1 DEF SetCursor, SeedsBehind, SeedBehind, AtSeed, VarTypes
<1>3. ASSUME NEW i \in Instances, Advance(i) PROVE SeedsBehind'
  <2>1. PICK m \in batch[i] : SetCursor(i, created[m], m)
    BY <1>3 DEF Advance
  <2>2. m \in Events /\ PastCursor(i, m)
    BY <1>0 DEF IInv, ListenerInv, BatchIsPrefix, VarTypes
  <2>3. UNCHANGED <<seedCreated, seedId>>
    BY <1>3 DEF Advance
  <2>4. KeyLess(seedCreated[i], seedId[i], created[m], m)
    <3>1. CASE AtSeed(i)
      BY <2>2, <3>1 DEF AtSeed, PastCursor
    <3>2. CASE ~AtSeed(i)
      <4>1. /\ seedCreated[i] \in Nat /\ seedId[i] \in Nat
            /\ cursorCreated[i] \in Nat /\ cursorId[i] \in Nat
        BY <1>0 DEF VarTypes
      <4>2. KeyLess(seedCreated[i], seedId[i], cursorCreated[i], cursorId[i])
        BY <3>2 DEF SeedsBehind, SeedBehind
      <4>3. QED BY <1>0, <2>2, <4>1, <4>2, EventKeyType, KeyLessTransitive DEF PastCursor
    <3>3. QED BY <3>1, <3>2
  <2>5. QED BY <1>0, <2>1, <2>3, <2>4 DEF SetCursor, SeedsBehind, SeedBehind, AtSeed, VarTypes
<1>4. ASSUME NEW e \in Events, BeginPublish(e) \/ EndPublish(e) PROVE UNCHANGED cursor
  BY <1>4 DEF BeginPublish, EndPublish
<1>5. CASE CleanupStaleRealtimeEvents \/ Tick
  BY <1>1, <1>5 DEF CleanupStaleRealtimeEvents, Tick
<1>6. ASSUME NEW i \in Instances, KeepsCursor(i) \/ Stop(i) \/ ResetBootstrapState(i)
      PROVE  UNCHANGED cursor
  BY <1>6 DEF KeepsCursor, Connect, Dial, Backoff, Check, Read, Process, Wake,
              ConnectionLost, Stop, ResetBootstrapState
<1>7. QED BY <1>1, <1>2, <1>3, <1>4, <1>5, <1>6, NextCases

-----------------------------------------------------------------------------
(* The steps of the table, seen in the log. *)

InLog(e) == status[e] \in {"visible", "deleted"}

\* What has been heard stands in the log under its row's key.
LEMMA HeardInLog ==
  ASSUME IInv, NEW i \in Instances, NEW f \in Forwarded(i)
  PROVE  f \in Events /\ Settled(f) /\ InLog(f)
  BY DEF IInv, ListenerInv, HeardBehind, InLog

\* What a listener of the log has heard is what the outbox's has forwarded.
LEMMA HeardIsForwarded == ASSUME NEW i \in Instances PROVE Log!Heard(i) = Forwarded(i)
  BY DEF Log!Heard, Forwarded

\* An empty table is an empty log.
LEMMA InitLog == Init => Log!Init
  BY DEF Init, Log!Init, Events, Log!Events

\* An INSERT that is not committed is not in the log.
LEMMA BeginIsStutter ==
  ASSUME VarTypes, NEW e \in Events, BeginPublish(e)
  PROVE  UNCHANGED Log!vars
<1>1. UNCHANGED <<origin, cursorReady, seedCreated, seedId, forwarded>>
  BY DEF BeginPublish, cursor
<1>2. \A f \in Events : status'[f] = status[f] \/ (status[f] = "none" /\ status'[f] = "inflight")
  BY DEF BeginPublish, VarTypes
<1>3. \A f \in Events : InLog(f) => created'[f] = created[f]
  BY DEF BeginPublish, VarTypes, InLog
<1>4. QED BY <1>1, <1>2, <1>3 DEF Log!vars, InLog

\* A commit publishes: by the lag, everything heard lies before the new row.
LEMMA EndIsPublish ==
  ASSUME IInv, NEW e \in Events, EndPublish(e)
  PROVE  Log!Publish(e) \/ UNCHANGED Log!vars
<1>1. VarTypes /\ InFlightRecent
  BY DEF IInv, TypeOK
<1>2. UNCHANGED <<created, origin, cursorReady, seedCreated, seedId, forwarded>>
  BY DEF EndPublish, cursor
<1>3. status[e] = "inflight"
  BY DEF EndPublish
<1>4. CASE status' = [status EXCEPT ![e] = "aborted"]
  <2>1. \A f \in Events : status'[f] = status[f] \/ (f = e /\ status'[f] = "aborted")
    BY <1>1, <1>4 DEF VarTypes
  <2>2. QED BY <1>2, <1>3, <2>1 DEF Log!vars
<1>5. CASE status' = [status EXCEPT ![e] = "visible"]
  <2>1. status'[e] = "visible" /\ \A f \in Events \ {e} : status'[f] = status[f]
    BY <1>1, <1>5 DEF VarTypes
  <2>2. \A i \in Instances : \A f \in Forwarded(i) :
          InLog(f) /\ f # e /\ f \in Events /\ RowLess(f, e)
    BY <1>1, <1>3, HeardInLog, InFlightAfterSettled DEF InLog
  <2>3. QED BY <1>2, <1>3, <2>1, <2>2, HeardIsForwarded
    DEF Log!Publish, Log!Before, Log!AfterBase, Log!Events, Events, InLog, RowLess, KeyLess
<1>6. QED BY <1>4, <1>5 DEF EndPublish

\* The cleanup takes rows that are visible.
LEMMA CleanupIsExpire ==
  ASSUME VarTypes, CleanupStaleRealtimeEvents
  PROVE  Log!Expire
<1>1. UNCHANGED <<created, origin, cursorReady, seedCreated, seedId, forwarded>>
  BY DEF CleanupStaleRealtimeEvents, cursor
<1>2. \A f \in Events : status'[f] = status[f] \/ (status[f] = "visible" /\ status'[f] = "deleted")
  BY DEF CleanupStaleRealtimeEvents, Expired, Visible
<1>3. QED BY <1>1, <1>2 DEF Log!Expire, Log!Events, Events

-----------------------------------------------------------------------------
(* The steps of a listener, seen in the log. *)

\* The next row of the batch is the next event of the log.
LEMMA ProcessIsHear ==
  ASSUME IInv, SeedsBehind, NEW i \in Instances, Process(i)
  PROVE  \E e \in Log!Events : Log!Hear(i, e)
<1>1. PICK e \in todo[i] :
        /\ IsFirst(e, todo[i])
        /\ forwarded' = [forwarded EXCEPT ![i] = Append(@, e)]
  BY DEF Process
<1>2. VarTypes /\ ListenerInv(i)
  BY DEF IInv, TypeOK
<1>3. UNCHANGED <<status, created, origin, cursorReady, seedCreated, seedId>>
  BY DEF Process, table, cursor
<1>4. /\ e \in Events /\ e \in batch[i] /\ InLog(e) /\ origin[e] # i /\ PastCursor(i, e)
      /\ todo[i] \subseteq batch[i] /\ batch[i] \subseteq Events
  BY <1>2 DEF IInv, TypeOK, VarTypes, BatchesInProcess, ListenerInv, BatchIsPrefix, InLog
<1>5. \A f \in Events : PastCursor(i, f) => PastSeed(i, f)
  <2>1. /\ seedCreated[i] \in Nat /\ seedId[i] \in Nat
        /\ cursorCreated[i] \in Nat /\ cursorId[i] \in Nat
    BY <1>2 DEF VarTypes
  <2>2. SeedBehind(i)
    BY DEF SeedsBehind
  <2>3. ASSUME NEW f \in Events, PastCursor(i, f) PROVE PastSeed(i, f)
    <3>1. CASE AtSeed(i)
      BY <2>3, <3>1 DEF AtSeed, PastCursor, PastSeed
    <3>2. CASE KeyLess(seedCreated[i], seedId[i], cursorCreated[i], cursorId[i])
      BY <1>2, <2>1, <2>3, <3>2, EventKeyType, KeyLessTransitive DEF PastCursor, PastSeed
    <3>3. QED BY <2>2, <3>1, <3>2 DEF SeedBehind
  <2>4. QED BY <2>3
<1>6. \A f \in Forwarded(i) : f \in Events /\ InLog(f) /\ RowLess(f, e)
  BY <1>2, HeardInLog DEF ListenerInv, HeardBehind
<1>7. ASSUME NEW f \in Visible \ Forwarded(i), origin[f] # i, PastSeed(i, f)
      PROVE  f = e \/ RowLess(e, f)
  <2>1. f \in Events /\ PastCursor(i, f)
    BY <1>2, <1>7 DEF ListenerInv, NoSkipAt, Visible
  <2>2. CASE f \in batch[i]
    BY <1>1, <1>2, <1>7, <2>2 DEF ListenerInv, BatchIsPrefix, IsFirst
  <2>3. CASE f \notin batch[i]
    BY <1>2, <1>4, <1>7, <2>1, <2>3 DEF ListenerInv, BatchIsPrefix
  <2>4. QED BY <2>2, <2>3
<1>8. Log!Hear(i, e)
  <2>1. \A f, g \in Events : InLog(f) /\ InLog(g) => (Log!Before(f, g) <=> RowLess(f, g))
    BY DEF Log!Before, RowLess, KeyLess, InLog
  <2>2. \A f \in Events : InLog(f) => (Log!AfterBase(i, f) <=> PastSeed(i, f))
    BY DEF Log!AfterBase, PastSeed, KeyLess, InLog
  <2>3. \A f \in Log!Heard(i) : Log!Before(f, e)
    BY <1>4, <1>6, <2>1, HeardIsForwarded
  <2>4. Log!AfterBase(i, e)
    BY <1>4, <1>5, <2>2
  <2>5. \A f \in Visible \ Log!Heard(i) :
          origin[f] # i /\ Log!AfterBase(i, f) => f = e \/ Log!Before(e, f)
    BY <1>4, <1>7, <2>1, <2>2, HeardIsForwarded DEF Visible, InLog
  <2>6. QED BY <1>1, <1>3, <1>4, <2>3, <2>4, <2>5
            DEF Log!Hear, Log!Events, Events, Visible, InLog
<1>9. QED BY <1>4, <1>8 DEF Events, Log!Events

\* A cursor taken from the tail lies behind no event that is still there.
LEMMA TailIsAttach ==
  ASSUME IInv, NEW i \in Instances, TakesTail(i), ~cursorReady[i]
  PROVE  Log!Attach(i)
<1>1. VarTypes
  BY DEF IInv, TypeOK
<1>3. PICK m \in Events \cup {0}, c \in Time :
        /\ IsTail(c, m)
        /\ cursorReady' = [cursorReady EXCEPT ![i] = TRUE]
        /\ seedCreated' = [seedCreated EXCEPT ![i] = c]
        /\ seedId'      = [seedId      EXCEPT ![i] = m]
  BY DEF TakesTail, SeedFromTail
<1>4. UNCHANGED <<status, created, origin, forwarded>>
  BY DEF TakesTail, Register, Seed, table
<1>5. \A f \in Visible : ~KeyLess(c, m, created[f], f)
  <2>1. CASE Visible = {}
    BY <2>1
  <2>2. CASE IsLast(m, Visible) /\ c = created[m]
    <3>1. ASSUME NEW f \in Visible PROVE ~KeyLess(c, m, created[f], f)
      <4>1. m \in Events /\ f \in Events
        BY <2>2 DEF IsLast, Visible
      <4>2. created[m] \in Nat /\ m \in Nat /\ created[f] \in Nat /\ f \in Nat
        BY <1>1, <4>1, EventKeyType
      <4>3. QED BY <2>2, <4>2 DEF IsLast, RowLess, KeyLess
    <3>2. QED BY <3>1
  <2>3. QED BY <1>3, <2>1, <2>2 DEF IsTail
<1>6. seedCreated'[i] = c /\ seedId'[i] = m
  BY <1>1, <1>3 DEF VarTypes
<1>7. \A f \in Forwarded(i) : f \in Events /\ (status[f] = "visible" => f \in Visible)
  BY HeardInLog DEF Visible
<1>8. QED BY <1>1, <1>3, <1>4, <1>5, <1>6, <1>7, HeardIsForwarded
  DEF Log!Attach, Log!AfterBase, Log!Events, VarTypes, KeyLess, Visible, Events

-----------------------------------------------------------------------------
\* The inductive invariant of the refinement.
RInv == IInv /\ OffIsNotReady /\ SeedsBehind

\* The invariant under which steps are mapped.
LEMMA RefinementInvariant == Spec => []RInv
<1>1. Init => RInv
  BY InitIInv DEF Init, RInv, OffIsNotReady, SeedsBehind, SeedBehind, AtSeed
<1>2. RInv /\ [Next]_vars => RInv'
  <2>1. CASE RInv /\ Next
    BY <2>1, NextIInv, OffStep, SeedsStep DEF RInv, IInv
  <2>2. CASE RInv /\ UNCHANGED vars
    <3>1. OffIsNotReady' /\ SeedsBehind'
      BY <2>2 DEF vars, cursor, RInv, OffIsNotReady, SeedsBehind, SeedBehind, AtSeed
    <3>2. QED BY <2>2, <3>1, NextIInv DEF RInv
  <2>3. QED BY <2>1, <2>2
<1>3. QED BY <1>1, <1>2, PTL DEF Spec

\* Every step of the outbox is a step of the log or a stutter.
LEMMA StepInLog == RInv /\ [Next]_vars => [Log!Next]_Log!vars
<1> SUFFICES ASSUME RInv, [Next]_vars PROVE [Log!Next]_Log!vars
  OBVIOUS
<1>1. VarTypes /\ IInv /\ OffIsNotReady /\ SeedsBehind
  BY DEF RInv, IInv, TypeOK
<1>2. ASSUME UNCHANGED <<status, created, origin, cursorReady, seedCreated, seedId, forwarded>>
      PROVE  UNCHANGED Log!vars
  BY <1>2 DEF Log!vars
<1>3. CASE UNCHANGED vars
  BY <1>2, <1>3 DEF vars, table, cursor
<1>4. ASSUME NEW e \in Events, BeginPublish(e) \/ EndPublish(e) PROVE [Log!Next]_Log!vars
  <2>1. e \in Log!Events
    BY DEF Events, Log!Events
  <2>2. QED BY <1>1, <1>4, <2>1, BeginIsStutter, EndIsPublish DEF Log!Next
<1>5. CASE CleanupStaleRealtimeEvents
  BY <1>1, <1>5, CleanupIsExpire DEF Log!Next
<1>6. CASE Tick
  BY <1>2, <1>6 DEF Tick, cursor
<1>7. ASSUME NEW i \in Instances, KeepsCursor(i) PROVE [Log!Next]_Log!vars
  <2>1. CASE Process(i)
    BY <1>1, <2>1, ProcessIsHear DEF Log!Next
  <2>2. CASE ~Process(i)
    BY <1>2, <1>7, <2>2 DEF KeepsCursor, Connect, Dial, Backoff, Check, Read, Wake,
                            ConnectionLost, Register, Seed, table, cursor
  <2>3. QED BY <2>1, <2>2
<1>8. ASSUME NEW i \in Instances, TakesTail(i) PROVE [Log!Next]_Log!vars
  <2>1. CASE cursorReady[i]
    <3>1. UNCHANGED <<table, cursor, forwarded>>
      BY <1>1, <1>8, <2>1 DEF TakesTail, Register, Seed, OffIsNotReady
    <3>2. QED BY <1>2, <3>1 DEF table, cursor
  <2>2. CASE ~cursorReady[i]
    BY <1>1, <1>8, <2>2, TailIsAttach DEF Log!Next
  <2>3. QED BY <2>1, <2>2
<1>9. ASSUME NEW i \in Instances, Advance(i) \/ Stop(i) \/ ResetBootstrapState(i)
      PROVE  [Log!Next]_Log!vars
  BY <1>2, <1>9 DEF Advance, Stop, ResetBootstrapState, table, cursor
<1>10. QED BY <1>3, <1>4, <1>5, <1>6, <1>7, <1>8, <1>9, NextCases

\* The table with its commits out of order, its cleanup and its listeners with
\* their faults and restarts behave, through the mapping of RealtimeOutbox, as an
\* ordered log from which every listener hears the next event, for any number of
\* instances and rows.
THEOREM OutboxIsLog == Spec => ImplementsLog
<1>1. Init => Log!Init
  BY InitLog
<1>2. RInv /\ [Next]_vars => [Log!Next]_Log!vars
  BY StepInLog
<1>3. QED BY <1>1, <1>2, RefinementInvariant, PTL DEF Spec, ImplementsLog, Log!Spec

=============================================================================
