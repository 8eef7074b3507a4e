-------------------------- MODULE MigrationsProofs --------------------------
(***************************************************************************)
(* Proofs about the migrations runner, for any number of processes,        *)
(* versions and migrations.                                                *)
(***************************************************************************)
EXTENDS Migrations, TLAPS

Inside(p) == pc[p] \in {"naming", "running"}

VarTypes ==
  /\ db \in Database /\ work \in [Procs -> Database]
  /\ lockedBy \in Procs \cup {NoProc}
  /\ pc \in [Procs -> {"idle", "locking", "naming", "running"}] /\ job \in [Procs -> Jobs]
  /\ plan \in [Procs -> [Files -> Nat]]
  /\ clock \in Nat /\ runs \in Nat

LockHeld == \A p \in Procs : Inside(p) <=> lockedBy = p

\* Two rows have different stamps, none from the future.
Stamped(d, now) ==
  \A f \in Files : /\ d.rows[f] <= now
                   /\ \A g \in Files \ {f} : d.rows[f] # 0 => d.rows[f] # d.rows[g]

\* The history and the schema of d agree.
Match(d) ==
  \A f \in Files : /\ d.rows[f] # 0 => f \in d.schema \cup Conditional
                   /\ f \in d.schema => d.rows[f] # 0 \/ f \in d.left

\* A run of Up, which reads d and has made w of it: it has removed nothing, what
\* it has added is not in d, and what its loop has passed is recorded.
UpInv(d, w, todo, L) ==
  /\ d.schema \subseteq w.schema
  /\ \A f \in Files : d.rows[f] # 0 => w.rows[f] # 0
  /\ \A f \in Files \ Conditional :
       w.rows[f] \notin {0, d.rows[f]} => d.rows[f] = 0 /\ f \notin d.schema
  /\ \A f \in L : todo[f] = 0 => w.rows[f] # 0 \/ f \in w.left

\* A run of Down: it has only removed rows, the ones it will still remove are
\* those that were the newest, and what it has removed is newer than what it kept.
DownInv(d, w, todo, L) ==
  /\ \A f \in Files : w.rows[f] \in {0, d.rows[f]}
  /\ \A f \in Files : todo[f] # 0 => f \in L /\ d.rows[f] \in {0, todo[f]}
  /\ \A f \in Files : todo[f] # 0 => \A g \in Files \ {f} : todo[f] # todo[g]
  /\ \A f, g \in L : todo[f] # 0 /\ todo[g] = 0 /\ w.rows[g] # 0 => w.rows[g] < todo[f]
  /\ \A f, g \in L : d.rows[f] # 0 /\ w.rows[f] = 0 /\ w.rows[g] # 0 => w.rows[g] < d.rows[f]

NamingInv(d, w) == \A f \in Files : w.rows[f] = d.rows[f]

RunInv(p) ==
  /\ Stamped(work[p], clock) /\ Match(work[p])
  /\ pc[p] = "naming" => job[p] = "down" /\ NamingInv(db, work[p])
  /\ pc[p] = "running" /\ job[p] # "down" => UpInv(db, work[p], plan[p], List(p))
  /\ pc[p] = "running" /\ job[p] = "down" => DownInv(db, work[p], plan[p], List(p))

RunsInv == \A p \in Procs : Inside(p) => RunInv(p)

\* The inductive invariant.
IInv ==
  /\ VarTypes /\ LockHeld
  /\ Stamped(db, clock) /\ Match(db)
  /\ RunsInv

-----------------------------------------------------------------------------
LEMMA ListIsFiles ==
  ASSUME VarTypes, NEW p \in Procs
  PROVE  List(p) \subseteq Files
  BY ConstantsAssumption DEF List, VarTypes

LEMMA InitIInv == Init => IInv
<1> SUFFICES ASSUME Init PROVE IInv
  OBVIOUS
<1>1. VarTypes
  BY DEF Init, VarTypes, Empty, Nothing, Database, Jobs
<1>2. LockHeld /\ RunsInv
  BY ConstantsAssumption DEF Init, LockHeld, RunsInv, Inside
<1>3. Stamped(db, clock) /\ Match(db)
  BY DEF Init, Stamped, Match, Empty, Nothing
<1>4. QED BY <1>1, <1>2, <1>3 DEF IInv

-----------------------------------------------------------------------------
(* Types and the lock. *)

LEMMA EndTypes ==
  ASSUME VarTypes, NEW p \in Procs, End(p)
  PROVE  /\ lockedBy' \in Procs \cup {NoProc}
         /\ pc' \in [Procs -> {"idle", "locking", "naming", "running"}]
         /\ job' \in [Procs -> Jobs]
         /\ plan' \in [Procs -> [Files -> Nat]] /\ work' \in [Procs -> Database]
<1>1. Nothing \in [Files -> Nat] /\ Empty \in Database
  BY DEF Nothing, Empty, Database
<1>2. QED BY <1>1 DEF End, RunnerGone, GoTo, VarTypes, Jobs

LEMMA EnterTypes ==
  ASSUME VarTypes, NEW p \in Procs, Lock(p)
  PROVE  VarTypes'
<1>1. InFileOrder(List(p)) \in [Files -> Nat]
  BY ConstantsAssumption DEF InFileOrder, Files
<1>2. work' \in [Procs -> Database] /\ lockedBy' \in Procs \cup {NoProc}
  BY DEF Lock, Enter, VarTypes
<1>3. /\ pc' \in [Procs -> {"idle", "locking", "naming", "running"}]
      /\ plan' \in [Procs -> [Files -> Nat]]
  BY <1>1 DEF Lock, Enter, GoTo, VarTypes
<1>4. QED BY <1>2, <1>3 DEF Lock, Enter, VarTypes

LEMMA VisitedTypes ==
  ASSUME VarTypes, NEW p \in Procs, NEW f \in Files, Visited(p, f)
  PROVE  plan' \in [Procs -> [Files -> Nat]]
  BY DEF Visited, VarTypes

LEMMA ForgetTypes ==
  ASSUME NEW d \in Database, NEW S \in SUBSET Files
  PROVE  /\ Forget(d, S) \in Database
         /\ Forget(d, S).schema = d.schema /\ Forget(d, S).left = d.left \cup S
         /\ \A f \in Files : Forget(d, S).rows[f] = IF f \in S THEN 0 ELSE d.rows[f]
  BY DEF Forget, Database

\* What Apply and Revert make of the run's view.
LEMMA ApplyWork ==
  ASSUME VarTypes, NEW p \in Procs, NEW f \in Files, Apply(p, f)
  PROVE  /\ work' \in [Procs -> Database]
         /\ work'[p].rows = [work[p].rows EXCEPT ![f] = clock + 1]
         /\ work'[p].schema = work[p].schema \cup {f}
         /\ work'[p].left = work[p].left \ {f}
  BY DEF Apply, VarTypes, Database

LEMMA RevertWork ==
  ASSUME VarTypes, NEW p \in Procs, NEW f \in Files, Revert(p, f)
  PROVE  /\ work' \in [Procs -> Database]
         /\ work'[p].rows = [work[p].rows EXCEPT ![f] = 0]
         /\ f \notin Reversible => work'[p].schema = work[p].schema /\ f \in work'[p].left
         /\ f \in Reversible => work'[p].schema = work[p].schema \ {f}
         /\ work[p].left \subseteq work'[p].left
  BY DEF Revert, VarTypes, Database

LEMMA NamesTypes ==
  ASSUME VarTypes, NEW p \in Procs, NEW S \in SUBSET Files, Names(p, S)
  PROVE  VarTypes'
<1>1. [f \in Files |-> IF f \in S THEN work[p].rows[f] ELSE 0] \in [Files -> Nat]
  BY DEF VarTypes, Database
<1>2. plan' \in [Procs -> [Files -> Nat]]
  BY <1>1 DEF Names, VarTypes
<1>3. pc' \in [Procs -> {"idle", "locking", "naming", "running"}]
  BY DEF Names, GoTo, VarTypes
<1>4. QED BY <1>2, <1>3 DEF Names, VarTypes

LEMMA SyncTypes ==
  ASSUME VarTypes, NEW p \in Procs, HistorySync(p)
  PROVE  VarTypes'
<1> DEFINE gone == {f \in Files \ Known[p] : db.rows[f] # 0}
           open == {q \in Procs : pc[q] \in {"naming", "running"}}
<1>1. gone \in SUBSET Files
  OBVIOUS
<1>2. \A d \in Database : Forget(d, gone) \in Database
  BY <1>1, ForgetTypes
<1>3. db' = Forget(db, gone)
      /\ work' = [q \in Procs |-> IF q \in open THEN Forget(work[q], gone) ELSE work[q]]
  BY DEF HistorySync
<1> HIDE DEF gone, open
<1>4. db' \in Database /\ work' \in [Procs -> Database]
  BY <1>2, <1>3 DEF VarTypes
<1>5. QED BY <1>4 DEF HistorySync, VarTypes

LEMMA TypesStep ==
  ASSUME VarTypes, Next
  PROVE  VarTypes'
<1>1. ASSUME NEW p \in Procs, NEW j \in Jobs, Begin(p, j) PROVE VarTypes'
  BY <1>1 DEF Begin, GoTo, VarTypes
<1>2. ASSUME NEW p \in Procs, Lock(p) PROVE VarTypes'
  BY <1>2, EnterTypes
<1>3. ASSUME NEW p \in Procs, NEW f \in Files, Skip(p, f) PROVE VarTypes'
<2>1. plan' \in [Procs -> [Files -> Nat]]
  BY <1>3, VisitedTypes DEF Skip
<2>2. QED BY <1>3, <2>1 DEF Skip, VarTypes
<1>4. ASSUME NEW p \in Procs, NEW f \in Files, Apply(p, f) PROVE VarTypes'
<2>1. plan' \in [Procs -> [Files -> Nat]]
  BY <1>4, VisitedTypes DEF Apply
<2>2. work' \in [Procs -> Database]
  BY <1>4, ApplyWork
<2>3. QED BY <1>4, <2>1, <2>2 DEF Apply, VarTypes
<1>5. ASSUME NEW p \in Procs, NEW f \in Files, Revert(p, f) PROVE VarTypes'
<2>1. plan' \in [Procs -> [Files -> Nat]]
  BY <1>5, VisitedTypes DEF Revert
<2>2. work' \in [Procs -> Database]
  BY <1>5, RevertWork
<2>3. QED BY <1>5, <2>1, <2>2 DEF Revert, VarTypes
<1>6. ASSUME NEW p \in Procs, NEW f \in Files, MigrationFails(p, f) PROVE VarTypes'
  BY <1>6, EndTypes DEF MigrationFails, VarTypes
<1>7. ASSUME NEW p \in Procs, NEW S \in SUBSET Files, Names(p, S) PROVE VarTypes'
  BY <1>7, NamesTypes
<1>8. ASSUME NEW p \in Procs, Commit(p) PROVE VarTypes'
<2>1. db' \in Database
  BY <1>8 DEF Commit, VarTypes
<2>2. QED BY <1>8, <2>1, EndTypes DEF Commit, VarTypes
<1>9. ASSUME NEW p \in Procs, Abort(p) PROVE VarTypes'
  BY <1>9, EndTypes DEF Abort, VarTypes
<1>10. ASSUME NEW p \in Procs, HistorySync(p) PROVE VarTypes'
  BY <1>10, SyncTypes
<1>11. ASSUME NEW f \in Files, LoseTable(f) PROVE VarTypes'
  BY <1>11 DEF LoseTable, VarTypes, Database
<1>12. QED
  BY <1>1, <1>2, <1>3, <1>4, <1>5, <1>6, <1>7, <1>8, <1>9, <1>10, <1>11 DEF Next, Step

LEMMA LockStep ==
  ASSUME VarTypes, LockHeld, Next
  PROVE  LockHeld'
<1> USE DEF LockHeld, Inside, VarTypes
<1>1. ASSUME NEW p \in Procs, NEW j \in Jobs, Begin(p, j) PROVE LockHeld'
  BY <1>1 DEF Begin, GoTo
<1>2. ASSUME NEW p \in Procs, Lock(p) PROVE LockHeld'
  BY <1>2, ConstantsAssumption DEF Lock, Enter, GoTo
<1>3. ASSUME NEW p \in Procs, End(p) PROVE LockHeld'
  BY <1>3, ConstantsAssumption DEF End, RunnerGone, GoTo
<1>4. ASSUME UNCHANGED <<lockedBy, pc>> PROVE LockHeld'
  BY <1>4
<1>5. ASSUME NEW p \in Procs, NEW S \in SUBSET Files, Names(p, S) PROVE LockHeld'
  BY <1>5 DEF Names, GoTo
<1>6. ASSUME NEW p \in Procs, NEW f \in Files,
             Skip(p, f) \/ Apply(p, f) \/ Revert(p, f) \/ HistorySync(p) \/ LoseTable(f)
      PROVE  UNCHANGED <<lockedBy, pc>>
  BY <1>6 DEF Skip, Apply, Revert, HistorySync, LoseTable
<1>7. ASSUME NEW p \in Procs, NEW f \in Files,
             MigrationFails(p, f) \/ Commit(p) \/ Abort(p)
      PROVE  End(p)
  BY <1>7 DEF MigrationFails, Commit, Abort
<1> HIDE DEF LockHeld, Inside, VarTypes
<1>8. ASSUME NEW p \in Procs, Commit(p) \/ Abort(p) PROVE End(p)
  BY <1>8 DEF Commit, Abort
<1>9. ASSUME NEW p \in Procs, HistorySync(p) PROVE UNCHANGED <<lockedBy, pc>>
  BY <1>9 DEF HistorySync
<1>10. ASSUME NEW f \in Files, LoseTable(f) PROVE UNCHANGED <<lockedBy, pc>>
  BY <1>10 DEF LoseTable
<1>11. QED
  BY <1>1, <1>2, <1>3, <1>4, <1>5, <1>6, <1>7, <1>8, <1>9, <1>10 DEF Next, Step

LEMMA OneInside ==
  ASSUME LockHeld, NEW p \in Procs, NEW q \in Procs, Inside(p), Inside(q)
  PROVE  p = q
  BY DEF LockHeld

-----------------------------------------------------------------------------
(* What one step does to the database a run reads, d, the database it has made *)
(* of it, w, and the files it has still to visit. *)

LEMMA ForgetKeeps ==
  ASSUME NEW d \in Database, NEW S \in SUBSET Files, NEW now \in Nat
  PROVE  /\ Stamped(d, now) => Stamped(Forget(d, S), now)
         /\ Match(d) => Match(Forget(d, S))
  BY ForgetTypes DEF Stamped, Match, Database

LEMMA ForgetRun ==
  ASSUME NEW d \in Database, NEW w \in Database, NEW S \in SUBSET Files,
         NEW todo \in [Files -> Nat], NEW L \in SUBSET Files
  PROVE  /\ NamingInv(d, w) => NamingInv(Forget(d, S), Forget(w, S))
         /\ UpInv(d, w, todo, L) => UpInv(Forget(d, S), Forget(w, S), todo, L)
         /\ DownInv(d, w, todo, L) => DownInv(Forget(d, S), Forget(w, S), todo, L)
<1> DEFINE d2 == Forget(d, S)
           w2 == Forget(w, S)
<1>1. /\ d2.schema = d.schema /\ w2.schema = w.schema /\ w2.left = w.left \cup S
      /\ \A f \in Files : d2.rows[f] = IF f \in S THEN 0 ELSE d.rows[f]
      /\ \A f \in Files : w2.rows[f] = IF f \in S THEN 0 ELSE w.rows[f]
  BY ForgetTypes
<1> HIDE DEF d2, w2
<1>2. NamingInv(d, w) => NamingInv(d2, w2)
  BY <1>1 DEF NamingInv
<1>3. UpInv(d, w, todo, L) => UpInv(d2, w2, todo, L)
  BY <1>1 DEF UpInv
<1>4. DownInv(d, w, todo, L) => DownInv(d2, w2, todo, L)
  BY <1>1 DEF DownInv
<1>5. QED BY <1>2, <1>3, <1>4 DEF d2, w2

LEMMA EnterRun ==
  ASSUME NEW d \in Database, NEW L \in SUBSET Files
  PROVE  NamingInv(d, d) /\ UpInv(d, d, InFileOrder(L), L)
<1>1. \A f \in L : InFileOrder(L)[f] # 0
  BY ConstantsAssumption DEF InFileOrder, Files
<1>2. QED BY <1>1 DEF NamingInv, UpInv

LEMMA SkipRun ==
  ASSUME NEW d \in Database, NEW w \in Database, NEW todo \in [Files -> Nat],
         NEW L \in SUBSET Files, NEW f \in Files,
         UpInv(d, w, todo, L), w.rows[f] # 0
  PROVE  UpInv(d, w, [todo EXCEPT ![f] = 0], L)
  BY DEF UpInv

LEMMA ApplyRun ==
  ASSUME NEW d \in Database, NEW w \in Database, NEW w2 \in Database,
         NEW todo \in [Files -> Nat], NEW L \in SUBSET Files, NEW f \in Files,
         NEW now \in Nat, Stamped(d, now), UpInv(d, w, todo, L),
         w2.rows = [w.rows EXCEPT ![f] = now + 1],
         w2.schema = w.schema \cup {f}, w2.left = w.left \ {f},
         f \notin Conditional => w.rows[f] = 0 /\ f \notin w.schema
  PROVE  UpInv(d, w2, [todo EXCEPT ![f] = 0], L)
<1>1. w2.rows[f] = now + 1 /\ \A g \in Files \ {f} : w2.rows[g] = w.rows[g]
  BY DEF Database
<1>2. d.schema \subseteq w2.schema
  BY DEF UpInv
<1>3. \A g \in Files : d.rows[g] # 0 => w2.rows[g] # 0
  BY <1>1 DEF UpInv
<1>4. ASSUME NEW g \in Files \ Conditional, w2.rows[g] \notin {0, d.rows[g]}
      PROVE  d.rows[g] = 0 /\ g \notin d.schema
<2>1. CASE g = f
  BY <2>1 DEF UpInv
<2>2. CASE g # f
  BY <2>2, <1>1, <1>4 DEF UpInv
<2>3. QED BY <2>1, <2>2
<1>5. ASSUME NEW g \in L, [todo EXCEPT ![f] = 0][g] = 0
      PROVE  w2.rows[g] # 0 \/ g \in w2.left
<2>1. CASE g = f
  BY <2>1, <1>1
<2>2. CASE g # f
  BY <2>2, <1>1, <1>5 DEF UpInv
<2>3. QED BY <2>1, <2>2
<1>6. QED BY <1>2, <1>3, <1>4, <1>5 DEF UpInv

LEMMA ApplyKeeps ==
  ASSUME NEW w \in Database, NEW w2 \in Database, NEW f \in Files, NEW now \in Nat,
         w2.rows = [w.rows EXCEPT ![f] = now + 1],
         w2.schema = w.schema \cup {f}, w2.left = w.left \ {f},
         Stamped(w, now), Match(w)
  PROVE  Stamped(w2, now + 1) /\ Match(w2)
<1>1. w2.rows[f] = now + 1 /\ \A g \in Files \ {f} : w2.rows[g] = w.rows[g]
  BY DEF Database
<1>2. \A g \in Files : w.rows[g] \in Nat /\ w.rows[g] <= now
  BY DEF Stamped, Database
<1>3. Stamped(w2, now + 1)
  BY <1>1, <1>2 DEF Stamped
<1>4. Match(w2)
  BY <1>1 DEF Match
<1>5. QED BY <1>3, <1>4

LEMMA RevertKeeps ==
  ASSUME NEW w \in Database, NEW w2 \in Database, NEW f \in Files, NEW now \in Nat,
         w2.rows = [w.rows EXCEPT ![f] = 0],
         f \notin Reversible => w2.schema = w.schema /\ f \in w2.left,
         f \in Reversible => w2.schema = w.schema \ {f},
         w.left \subseteq w2.left,
         Stamped(w, now), Match(w)
  PROVE  Stamped(w2, now) /\ Match(w2)
<1>1. w2.rows[f] = 0 /\ \A g \in Files \ {f} : w2.rows[g] = w.rows[g]
  BY DEF Database
<1>2. Stamped(w2, now)
  BY <1>1 DEF Stamped
<1>3. Match(w2)
  BY <1>1 DEF Match
<1>4. QED BY <1>2, <1>3

LEMMA RevertRun ==
  ASSUME NEW d \in Database, NEW w \in Database, NEW w2 \in Database,
         NEW todo \in [Files -> Nat], NEW L \in SUBSET Files, NEW f \in Files,
         DownInv(d, w, todo, L), w2.rows = [w.rows EXCEPT ![f] = 0],
         todo[f] # 0, \A g \in Files : todo[g] <= todo[f]
  PROVE  DownInv(d, w2, [todo EXCEPT ![f] = 0], L)
<1> DEFINE rest == [todo EXCEPT ![f] = 0]
<1>1. /\ w2.rows[f] = 0 /\ \A g \in Files \ {f} : w2.rows[g] = w.rows[g]
      /\ rest[f] = 0 /\ \A g \in Files \ {f} : rest[g] = todo[g]
  BY DEF Database
<1>2. \A g \in Files : w.rows[g] \in Nat /\ d.rows[g] \in Nat /\ todo[g] \in Nat
  BY DEF Database
<1> HIDE DEF rest
<1>3. \A g \in L : w.rows[g] # 0 /\ g # f => w.rows[g] < todo[f]
  BY <1>2 DEF DownInv
<1>4. \A g, h \in L : d.rows[g] # 0 /\ w2.rows[g] = 0 /\ w2.rows[h] # 0 => w2.rows[h] < d.rows[g]
  BY <1>1, <1>3 DEF DownInv
<1>5. \A g, h \in L : rest[g] # 0 /\ rest[h] = 0 /\ w2.rows[h] # 0 => w2.rows[h] < rest[g]
  BY <1>1 DEF DownInv
<1>6. QED BY <1>1, <1>4, <1>5 DEF DownInv, rest

LEMMA NamesRun ==
  ASSUME NEW d \in Database, NEW w \in Database, NEW L \in SUBSET Files,
         NEW S \in SUBSET L, NEW now \in Nat,
         NamingInv(d, w), Stamped(w, now), \A f \in S : w.rows[f] # 0,
         \A f \in S : {g \in L : w.rows[g] > w.rows[f]} \subseteq S
  PROVE  DownInv(d, w, [f \in Files |-> IF f \in S THEN w.rows[f] ELSE 0], L)
<1> DEFINE todo == [f \in Files |-> IF f \in S THEN w.rows[f] ELSE 0]
<1>1. \A f \in Files : w.rows[f] \in Nat /\ w.rows[f] = d.rows[f]
  BY DEF Database, NamingInv
<1>2. \A f \in Files : todo[f] = IF f \in S THEN w.rows[f] ELSE 0
  OBVIOUS
<1> HIDE DEF todo
<1>3. \A f \in Files : todo[f] # 0 => \A g \in Files \ {f} : todo[f] # todo[g]
  BY <1>2 DEF Stamped
<1>4. ASSUME NEW f \in L, NEW g \in L, todo[f] # 0, todo[g] = 0, w.rows[g] # 0
      PROVE  w.rows[g] < todo[f]
<2>1. f \in S /\ g \notin S /\ f # g /\ todo[f] = w.rows[f]
  BY <1>4, <1>2
<2>2. ~(w.rows[g] > w.rows[f])
  BY <2>1
<2>3. w.rows[g] # w.rows[f]
  BY <2>1, <1>4 DEF Stamped
<2>4. QED BY <2>1, <2>2, <2>3, <1>1
<1>5. QED BY <1>1, <1>2, <1>3, <1>4 DEF DownInv, todo

-----------------------------------------------------------------------------
(* What the steps keep of the invariant, but for VarTypes and LockHeld. *)

RestInv == Stamped(db, clock) /\ Match(db) /\ RunsInv

\* A process whose own state and whose view of the table stay.
LEMMA Untouched ==
  ASSUME VarTypes, NEW q \in Procs, RunInv(q), clock' \in Nat, clock <= clock',
         UNCHANGED <<db, pc[q], job[q], plan[q], work[q]>>
  PROVE  RunInv(q)'
<1>1. List(q)' = List(q)
  BY DEF List
<1>2. Stamped(work[q], clock)' /\ Match(work[q])'
<2>1. \A f \in Files : work[q].rows[f] \in Nat
  BY DEF VarTypes, Database
<2>2. Stamped(work[q], clock)'
  BY <2>1 DEF RunInv, Stamped, VarTypes
<2>3. QED BY <2>2 DEF RunInv, Match
<1>3. pc'[q] = "naming" => job'[q] = "down" /\ NamingInv(db, work[q])'
  BY DEF RunInv, NamingInv
<1>4. pc'[q] = "running" /\ job'[q] # "down" => UpInv(db', work'[q], plan'[q], List(q)')
  BY <1>1 DEF RunInv
<1>5. pc'[q] = "running" /\ job'[q] = "down" => DownInv(db', work'[q], plan'[q], List(q)')
  BY <1>1 DEF RunInv
<1>6. QED BY <1>2, <1>3, <1>4, <1>5 DEF RunInv, NamingInv

\* A step of p, which is inside, that leaves the committed state alone.
LEMMA InsideStep ==
  ASSUME VarTypes, LockHeld, RestInv, NEW p \in Procs, Inside(p),
         clock' \in Nat, clock <= clock', UNCHANGED db,
         \A q \in Procs \ {p} : UNCHANGED <<pc[q], job[q], plan[q], work[q]>>,
         RunInv(p)'
  PROVE  RestInv'
<1>1. Stamped(db, clock)' /\ Match(db)'
<2>1. \A f \in Files : db.rows[f] \in Nat
  BY DEF VarTypes, Database
<2>2. QED BY <2>1 DEF RestInv, Stamped, Match, VarTypes
<1>2. ASSUME NEW q \in Procs, Inside(q)' PROVE RunInv(q)'
<2>1. CASE q = p
  BY <2>1
<2>2. CASE q # p
<3>1. pc'[q] = pc[q]
  BY <2>2
<3>2. Inside(q)
  BY <1>2, <3>1 DEF Inside
<3>3. QED BY <3>2, <2>2, OneInside
<2>3. QED BY <2>1, <2>2
<1>3. QED BY <1>1, <1>2 DEF RestInv, RunsInv

\* A process comes or goes and the committed state stays.
LEMMA OutsideStep ==
  ASSUME VarTypes, RestInv, NEW p \in Procs, ~Inside(p)', UNCHANGED <<db, clock>>,
         \A q \in Procs \ {p} : UNCHANGED <<pc[q], job[q], plan[q], work[q]>>
  PROVE  RestInv'
<1>1. ASSUME NEW q \in Procs, Inside(q)' PROVE RunInv(q)'
<2>1. q # p
  BY <1>1
<2>2. pc'[q] = pc[q]
  BY <2>1
<2>3. Inside(q)
  BY <1>1, <2>2 DEF Inside
<2>4. RunInv(q)
  BY <2>3 DEF RestInv, RunsInv
<2>5. clock' \in Nat /\ clock <= clock'
  BY DEF VarTypes
<2>6. QED BY <2>1, <2>4, <2>5, Untouched
<1>2. QED BY <1>1 DEF RestInv, RunsInv, Stamped, Match

LEMMA EndFrame ==
  ASSUME VarTypes, NEW p \in Procs, End(p)
  PROVE  /\ ~Inside(p)'
         /\ \A q \in Procs \ {p} : UNCHANGED <<pc[q], job[q], plan[q], work[q]>>
  BY DEF End, RunnerGone, GoTo, Inside, VarTypes

LEMMA BeginStep ==
  ASSUME VarTypes, RestInv, NEW p \in Procs, NEW j \in Jobs, Begin(p, j)
  PROVE  RestInv'
<1>1. /\ ~Inside(p)' /\ UNCHANGED <<db, clock>>
      /\ \A q \in Procs \ {p} : UNCHANGED <<pc[q], job[q], plan[q], work[q]>>
  BY DEF Begin, GoTo, Inside, VarTypes
<1>2. QED BY <1>1, OutsideStep

LEMMA AbortStep ==
  ASSUME VarTypes, RestInv, NEW p \in Procs, End(p), UNCHANGED <<db, clock>>
  PROVE  RestInv'
  BY EndFrame, OutsideStep

LEMMA LockEnters ==
  ASSUME VarTypes, LockHeld, RestInv, NEW p \in Procs, Lock(p)
  PROVE  RestInv'
<1>1. /\ UNCHANGED <<db, clock, job>> /\ work'[p] = db
      /\ \A q \in Procs \ {p} : UNCHANGED <<pc[q], plan[q], work[q]>>
      /\ \A q \in Procs : ~Inside(q)
  BY ConstantsAssumption DEF Lock, Enter, GoTo, VarTypes, LockHeld
<1>2. /\ job[p] = "down" => pc'[p] = "naming"
      /\ job[p] # "down" => pc'[p] = "running" /\ plan'[p] = InFileOrder(List(p))
  BY DEF Lock, Enter, GoTo, VarTypes
<1>3. List(p)' = List(p) /\ List(p) \in SUBSET Files /\ db \in Database
  BY <1>1, ListIsFiles DEF List, VarTypes
<1>4. RunInv(p)'
<2>1. Stamped(work[p], clock)' /\ Match(work[p])'
  BY <1>1 DEF RestInv, Stamped, Match
<2>2. NamingInv(db, db) /\ UpInv(db, db, InFileOrder(List(p)), List(p))
  BY <1>3, EnterRun
<2>3. QED BY <2>1, <2>2, <1>1, <1>2, <1>3 DEF RunInv, NamingInv
<1>5. ASSUME NEW q \in Procs, Inside(q)' PROVE RunInv(q)'
<2>1. CASE q = p
  BY <2>1, <1>4
<2>2. CASE q # p
  BY <2>2, <1>1, <1>5 DEF Inside
<2>3. QED BY <2>1, <2>2
<1>6. QED BY <1>1, <1>5 DEF RestInv, RunsInv, Stamped, Match

\* The facts a step of an open run starts from.
LEMMA OpenRun ==
  ASSUME VarTypes, RestInv, NEW p \in Procs, Inside(p)
  PROVE  /\ db \in Database /\ work[p] \in Database /\ plan[p] \in [Files -> Nat]
         /\ List(p) \in SUBSET Files /\ clock \in Nat
         /\ RunInv(p) /\ Stamped(db, clock) /\ Match(db)
  BY ListIsFiles DEF VarTypes, RestInv, RunsInv

LEMMA SkipStep ==
  ASSUME VarTypes, LockHeld, RestInv, NEW p \in Procs, NEW f \in Files, Skip(p, f)
  PROVE  RestInv'
<1>1. /\ Inside(p) /\ pc[p] = "running" /\ job[p] # "down" /\ work[p].rows[f] # 0
      /\ UNCHANGED <<db, clock, pc, job, work>>
      /\ plan'[p] = [plan[p] EXCEPT ![f] = 0]
      /\ \A q \in Procs \ {p} : UNCHANGED plan[q]
  BY DEF Skip, Inside, IsApplied, Visited, VarTypes
<1>2. List(p)' = List(p)
  BY <1>1 DEF List
<1>3. UpInv(db, work[p], plan'[p], List(p))
<2>1. UpInv(db, work[p], plan[p], List(p))
  BY <1>1, OpenRun DEF RunInv
<2>2. QED BY <1>1, <2>1, OpenRun, SkipRun
<1>4. Stamped(work[p], clock)' /\ Match(work[p])'
  BY <1>1, OpenRun DEF RunInv, Stamped, Match
<1>5. RunInv(p)'
  BY <1>1, <1>2, <1>3, <1>4 DEF RunInv
<1>6. clock' \in Nat /\ clock <= clock'
  BY <1>1 DEF VarTypes
<1>7. QED BY <1>1, <1>5, <1>6, InsideStep

LEMMA ApplyStep ==
  ASSUME VarTypes, LockHeld, RestInv, NEW p \in Procs, NEW f \in Files, Apply(p, f)
  PROVE  RestInv'
<1>1. /\ Inside(p) /\ pc[p] = "running" /\ job[p] # "down"
      /\ UNCHANGED <<db, pc, job>> /\ clock' = clock + 1
      /\ plan'[p] = [plan[p] EXCEPT ![f] = 0]
      /\ \A q \in Procs \ {p} : UNCHANGED <<plan[q], work[q]>>
  BY DEF Apply, Inside, Visited, VarTypes
<1>2. List(p)' = List(p)
  BY <1>1 DEF List
<1>3. f \notin Conditional => work[p].rows[f] = 0 /\ f \notin work[p].schema
  BY DEF Apply, IsApplied, ShouldReapply
<1>4. /\ work'[p] \in Database
      /\ work'[p].rows = [work[p].rows EXCEPT ![f] = clock + 1]
      /\ work'[p].schema = work[p].schema \cup {f} /\ work'[p].left = work[p].left \ {f}
  BY ApplyWork
<1>5. /\ UpInv(db, work[p], plan[p], List(p))
      /\ Stamped(work[p], clock) /\ Match(work[p])
  BY <1>1, OpenRun DEF RunInv
<1>6. UpInv(db, work'[p], plan'[p], List(p))
<2>1. /\ db \in Database /\ work[p] \in Database /\ plan[p] \in [Files -> Nat]
      /\ List(p) \in SUBSET Files /\ clock \in Nat /\ Stamped(db, clock)
  BY <1>1, OpenRun
<2>2. UpInv(db, work'[p], [plan[p] EXCEPT ![f] = 0], List(p))
  BY <1>3, <1>4, <1>5, <2>1, ApplyRun
<2>3. QED BY <1>1, <2>2
<1>7. Stamped(work'[p], clock + 1) /\ Match(work'[p])
  BY <1>1, <1>4, <1>5, OpenRun, ApplyKeeps
<1>8. RunInv(p)'
<2>1. Stamped(work[p], clock)' /\ Match(work[p])'
  BY <1>1, <1>7 DEF Stamped, Match
<2>2. QED BY <2>1, <1>1, <1>2, <1>6 DEF RunInv
<1>9. clock' \in Nat /\ clock <= clock'
  BY <1>1 DEF VarTypes
<1>10. QED BY <1>1, <1>8, <1>9, InsideStep

LEMMA RevertStep ==
  ASSUME VarTypes, LockHeld, RestInv, NEW p \in Procs, NEW f \in Files, Revert(p, f)
  PROVE  RestInv'
<1>1. /\ Inside(p) /\ pc[p] = "running" /\ job[p] = "down"
      /\ UNCHANGED <<db, clock, pc, job>>
      /\ plan'[p] = [plan[p] EXCEPT ![f] = 0]
      /\ \A q \in Procs \ {p} : UNCHANGED <<plan[q], work[q]>>
  BY DEF Revert, Inside, Visited, VarTypes
<1>2. List(p)' = List(p)
  BY <1>1 DEF List
<1>3. plan[p][f] # 0 /\ \A g \in Files : plan[p][g] <= plan[p][f]
  BY DEF Revert, At
<1>4. /\ work'[p] \in Database
      /\ work'[p].rows = [work[p].rows EXCEPT ![f] = 0]
      /\ f \notin Reversible => work'[p].schema = work[p].schema /\ f \in work'[p].left
      /\ f \in Reversible => work'[p].schema = work[p].schema \ {f}
      /\ work[p].left \subseteq work'[p].left
  BY RevertWork
<1>5. /\ DownInv(db, work[p], plan[p], List(p))
      /\ Stamped(work[p], clock) /\ Match(work[p])
  BY <1>1, OpenRun DEF RunInv
<1>6. DownInv(db, work'[p], plan'[p], List(p))
<2>1. /\ db \in Database /\ work[p] \in Database /\ plan[p] \in [Files -> Nat]
      /\ List(p) \in SUBSET Files
  BY <1>1, OpenRun
<2>2. DownInv(db, work'[p], [plan[p] EXCEPT ![f] = 0], List(p))
  BY <1>3, <1>4, <1>5, <2>1, RevertRun
<2>3. QED BY <1>1, <2>2
<1>7. Stamped(work'[p], clock) /\ Match(work'[p])
  BY <1>1, <1>4, <1>5, OpenRun, RevertKeeps
<1>8. RunInv(p)'
<2>1. Stamped(work[p], clock)' /\ Match(work[p])'
  BY <1>1, <1>7 DEF Stamped, Match
<2>2. QED BY <2>1, <1>1, <1>2, <1>6 DEF RunInv
<1>9. clock' \in Nat /\ clock <= clock'
  BY <1>1 DEF VarTypes
<1>10. QED BY <1>1, <1>8, <1>9, InsideStep

LEMMA NamesStep ==
  ASSUME VarTypes, LockHeld, RestInv, NEW p \in Procs, NEW S \in SUBSET Files, Names(p, S)
  PROVE  RestInv'
<1> DEFINE todo == [f \in Files |-> IF f \in S THEN work[p].rows[f] ELSE 0]
<1>1. /\ Inside(p) /\ pc[p] = "naming" /\ pc'[p] = "running" /\ plan'[p] = todo
      /\ UNCHANGED <<db, clock, job, work>>
      /\ \A q \in Procs \ {p} : UNCHANGED <<pc[q], plan[q]>>
  BY DEF Names, Inside, GoTo, VarTypes
<1> HIDE DEF todo
<1>2. List(p)' = List(p)
  BY <1>1 DEF List
<1>3. /\ S \in SUBSET List(p) /\ \A f \in S : work[p].rows[f] # 0
      /\ \A f \in S : {g \in List(p) : work[p].rows[g] > work[p].rows[f]} \subseteq S
  BY DEF Names, LastApplied, Newer
<1>4. /\ NamingInv(db, work[p]) /\ job[p] = "down"
      /\ Stamped(work[p], clock) /\ Match(work[p])
  BY <1>1, OpenRun DEF RunInv
<1>5. DownInv(db, work[p], plan'[p], List(p))
<2>1. /\ db \in Database /\ work[p] \in Database /\ List(p) \in SUBSET Files
      /\ clock \in Nat
  BY <1>1, OpenRun
<2>2. DownInv(db, work[p], todo, List(p))
  BY <2>1, <1>3, <1>4, NamesRun, Zenon DEF todo
<2>3. QED BY <1>1, <2>2
<1>6. Stamped(work[p], clock)' /\ Match(work[p])'
  BY <1>1, <1>4 DEF Stamped, Match
<1>7. RunInv(p)'
  BY <1>1, <1>2, <1>4, <1>5, <1>6 DEF RunInv
<1>8. clock' \in Nat /\ clock <= clock'
  BY <1>1 DEF VarTypes
<1>9. QED BY <1>1, <1>7, <1>8, InsideStep

LEMMA CommitStep ==
  ASSUME VarTypes, LockHeld, RestInv, NEW p \in Procs, Commit(p)
  PROVE  RestInv'
<1>1. End(p) /\ Inside(p) /\ db' = work[p] /\ UNCHANGED clock
  BY DEF Commit, Inside
<1>2. Stamped(db, clock)' /\ Match(db)'
  BY <1>1, OpenRun DEF RunInv, Stamped, Match
<1>3. \A q \in Procs : ~Inside(q)'
<2>1. ASSUME NEW q \in Procs \ {p} PROVE Inside(q)' <=> Inside(q)
  BY <1>1, EndFrame DEF Inside
<2>2. QED BY <2>1, <1>1, EndFrame, OneInside
<1>4. QED BY <1>2, <1>3 DEF RestInv, RunsInv

LEMMA LoseStep ==
  ASSUME VarTypes, LockHeld, RestInv, NEW f \in Files, LoseTable(f)
  PROVE  RestInv'
<1>1. /\ lockedBy = NoProc /\ UNCHANGED <<pc, clock>> /\ f \in Conditional
      /\ db'.rows = db.rows /\ db'.left = db.left /\ db'.schema = db.schema \ {f}
  BY DEF LoseTable, VarTypes, Database
<1>2. \A q \in Procs : ~Inside(q)'
  BY <1>1, ConstantsAssumption DEF LockHeld, Inside
<1>3. Stamped(db, clock)' /\ Match(db)'
  BY <1>1 DEF RestInv, Stamped, Match
<1>4. QED BY <1>2, <1>3 DEF RestInv, RunsInv

LEMMA SyncStep ==
  ASSUME VarTypes, RestInv, NEW p \in Procs, HistorySync(p)
  PROVE  RestInv'
<1> DEFINE gone == {f \in Files \ Known[p] : db.rows[f] # 0}
           open == {q \in Procs : pc[q] \in {"naming", "running"}}
<1>1. gone \in SUBSET Files /\ \A q \in Procs : Inside(q) <=> q \in open
  BY DEF Inside
<1>2. /\ db' = Forget(db, gone) /\ UNCHANGED <<pc, job, plan, clock>>
      /\ work' = [q \in Procs |-> IF q \in open THEN Forget(work[q], gone) ELSE work[q]]
  BY DEF HistorySync
<1> HIDE DEF gone, open
<1>3. Stamped(db, clock)' /\ Match(db)'
<2>1. Stamped(Forget(db, gone), clock) /\ Match(Forget(db, gone))
  BY <1>1, ForgetKeeps DEF RestInv, VarTypes
<2>2. QED BY <1>2, <2>1 DEF Stamped, Match
<1>4. ASSUME NEW q \in Procs, Inside(q)' PROVE RunInv(q)'
<2>1. Inside(q) /\ work'[q] = Forget(work[q], gone) /\ List(q)' = List(q)
  BY <1>1, <1>2, <1>4 DEF Inside, List
<2>2. RunInv(q) /\ work[q] \in Database /\ db \in Database /\ plan[q] \in [Files -> Nat]
      /\ List(q) \in SUBSET Files /\ clock \in Nat
  BY <2>1, OpenRun
<2>3. Stamped(work'[q], clock) /\ Match(work'[q])
  BY <1>1, <2>1, <2>2, ForgetKeeps DEF RunInv
<2>4. /\ NamingInv(db, work[q]) => NamingInv(db', work'[q])
      /\ UpInv(db, work[q], plan[q], List(q)) => UpInv(db', work'[q], plan[q], List(q))
      /\ DownInv(db, work[q], plan[q], List(q)) => DownInv(db', work'[q], plan[q], List(q))
  BY <1>1, <1>2, <2>1, <2>2, ForgetRun
<2>5. Stamped(work[q], clock)' /\ Match(work[q])' /\ NamingInv(db, work[q])' = NamingInv(db', work'[q])
  BY <1>2, <2>3 DEF Stamped, Match, NamingInv
<2>6. QED BY <1>2, <2>1, <2>2, <2>4, <2>5 DEF RunInv
<1>5. QED BY <1>3, <1>4 DEF RestInv, RunsInv

\* Every step keeps RestInv.
LEMMA RestStep ==
  ASSUME VarTypes, LockHeld, RestInv, Next
  PROVE  RestInv'
<1>1. ASSUME NEW p \in Procs, NEW f \in Files, MigrationFails(p, f) PROVE RestInv'
  BY <1>1, AbortStep DEF MigrationFails
<1>2. ASSUME NEW p \in Procs, Abort(p) PROVE RestInv'
  BY <1>2, AbortStep DEF Abort
<1>3. ASSUME NEW p \in Procs, Step(p) PROVE RestInv'
  BY <1>3, <1>1, SkipStep, ApplyStep, RevertStep, NamesStep, CommitStep DEF Step
<1>4. QED
  BY <1>2, <1>3, BeginStep, LockEnters, SyncStep, LoseStep DEF Next

LEMMA IInvIsRest == IInv <=> VarTypes /\ LockHeld /\ RestInv
  BY DEF IInv, RestInv

LEMMA StutterIInv == IInv /\ UNCHANGED vars => IInv'
<1> SUFFICES ASSUME IInv, UNCHANGED vars PROVE IInv'
  OBVIOUS
<1>1. VarTypes' /\ LockHeld'
  BY DEF IInv, VarTypes, LockHeld, Inside, vars
<1>2. Stamped(db, clock)' /\ Match(db)'
  BY DEF IInv, Stamped, Match, vars
<1>3. ASSUME NEW q \in Procs, Inside(q)' PROVE RunInv(q)'
<2>1. RunInv(q) /\ VarTypes /\ clock' \in Nat /\ clock <= clock'
  BY <1>3 DEF IInv, RunsInv, Inside, vars, VarTypes
<2>2. UNCHANGED <<db, pc[q], job[q], plan[q], work[q]>>
  BY DEF vars
<2>3. QED BY <2>1, <2>2, Untouched
<1>4. QED BY <1>1, <1>2, <1>3 DEF IInv, RunsInv

\* The invariant is inductive: it is what every run of the runner keeps.
THEOREM Inductive == Spec => []IInv
<1>1. IInv /\ Next => IInv'
  BY IInvIsRest, TypesStep, LockStep, RestStep DEF IInv, RestInv
<1>2. QED BY <1>1, InitIInv, StutterIInv, PTL DEF Spec

-----------------------------------------------------------------------------
LEMMA IInvGives == IInv => TypeOK /\ ChangesOnce /\ RowsMatchSchema
<1> SUFFICES ASSUME IInv PROVE TypeOK /\ ChangesOnce /\ RowsMatchSchema
  OBVIOUS
<1>1. TypeOK
  BY DEF IInv, VarTypes, LockHeld, Inside, TypeOK
<1>2. RowsMatchSchema
  BY DEF IInv, Match, RowsMatchSchema
<1>3. ASSUME NEW p \in Procs, pc[p] = "running", NEW f \in Files \ Conditional,
             work[p].rows[f] \notin {0, db.rows[f]}
      PROVE  db.rows[f] = 0 /\ f \notin db.schema
<2>1. RunInv(p)
  BY <1>3 DEF IInv, RunsInv, Inside
<2>2. CASE job[p] = "down"
  BY <2>1, <2>2, <1>3 DEF RunInv, DownInv
<2>3. CASE job[p] # "down"
  BY <2>1, <2>3, <1>3 DEF RunInv, UpInv
<2>4. QED BY <2>2, <2>3
<1>4. QED BY <1>1, <1>2, <1>3 DEF ChangesOnce

\* The types, and that the advisory lock is held exactly while a run is inside it.
THEOREM TypeCorrect == Spec => []TypeOK
  BY Inductive, IInvGives, PTL

\* Two processes that start at the same time do not both apply a migration.
THEOREM AppliedByOne == Spec => []ChangesOnce
  BY Inductive, IInvGives, PTL

\* The history and the schema agree whatever runs fail, die or are reverted.
THEOREM HistoryIsSchema == Spec => []RowsMatchSchema
  BY Inductive, IInvGives, PTL

\* A successful Up has recorded every migration of its list.
THEOREM UpRecordsAll == Spec => UpCompletes
<1>1. ASSUME IInv, [Next]_vars, NEW p \in Procs, Commit(p), job[p] # "down",
             NEW f \in List(p)
      PROVE  db'.rows[f] # 0 \/ f \in db'.left
<2>1. /\ pc[p] = "running" /\ db' = work[p] /\ plan[p] = Nothing
      /\ UpInv(db, work[p], plan[p], List(p))
  BY <1>1 DEF Commit, Done, IInv, RunsInv, RunInv, Inside
<2>2. f \in Files
  BY <1>1, ListIsFiles DEF IInv
<2>3. plan[p][f] = 0
  BY <2>1, <2>2 DEF Nothing
<2>4. QED BY <2>1, <2>3, <1>1 DEF UpInv
<1>2. IInv /\ [Next]_vars =>
        [\A p \in Procs : Commit(p) /\ job[p] # "down" =>
           \A f \in List(p) : db'.rows[f] # 0 \/ f \in db'.left]_vars
  BY <1>1
<1>3. QED BY <1>2, Inductive, PTL DEF Spec, UpCompletes

\* A successful Down has reverted what was applied last.
THEOREM DownRevertsNewest == Spec => NewestReverted
<1>1. ASSUME IInv, [Next]_vars, NEW p \in Procs, Commit(p), job[p] = "down",
             NEW f \in List(p), NEW g \in List(p),
             db.rows[f] # 0, db'.rows[f] = 0, db'.rows[g] # 0
      PROVE  db.rows[g] < db.rows[f]
<2>1. /\ pc[p] = "running" /\ db' = work[p]
      /\ DownInv(db, work[p], plan[p], List(p))
  BY <1>1 DEF Commit, IInv, RunsInv, RunInv, Inside
<2>2. g \in Files
  BY <1>1, ListIsFiles DEF IInv
<2>3. work[p].rows[g] = db.rows[g]
  BY <2>1, <2>2, <1>1 DEF DownInv
<2>4. QED BY <2>1, <2>3, <1>1 DEF DownInv
<1>2. IInv /\ [Next]_vars =>
        [\A p \in Procs : Commit(p) /\ job[p] = "down" =>
           \A f, g \in List(p) :
             db.rows[f] # 0 /\ db'.rows[f] = 0 /\ db'.rows[g] # 0
               => db.rows[g] < db.rows[f]]_vars
  BY <1>1
<1>3. QED BY <1>2, Inductive, PTL DEF Spec, NewestReverted

=============================================================================
