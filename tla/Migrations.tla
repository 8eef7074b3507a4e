----------------------------- MODULE Migrations -----------------------------
(***************************************************************************)
(* The migrations runner (core/migrations_runner.go): processes of one     *)
(* application, which may be of different versions, apply and revert       *)
(* migrations of the database they share.                                  *)
(*                                                                         *)
(* A run is one transaction that takes an advisory lock first; Postgres    *)
(* releases the lock when the transaction ends, also when the process      *)
(* dies.  history-sync is one statement outside that lock.  Transactions   *)
(* are READ COMMITTED: each statement of a run sees what is committed and  *)
(* what the run itself has written, here work[p].                          *)
(***************************************************************************)
EXTENDS Naturals

CONSTANTS
  Procs,        \* the processes
  NoProc,       \* not a process
  FileCount,    \* number of migrations; they are ordered by their file name
  Known,        \* the migrations of each process: its version
  System,       \* core.SystemMigrations, the others are application migrations
  Conditional,  \* migrations with a ReapplyCondition: their table is missing
  Reversible,   \* migrations with a Down function
  MaxRuns       \* bound: runs begun

Files == 1..FileCount

ASSUME ConstantsAssumption ==
  /\ NoProc \notin Procs
  /\ FileCount \in Nat /\ MaxRuns \in Nat
  /\ Known \in [Procs -> SUBSET Files]
  /\ Conditional \subseteq System

\* What a transaction sees of the database: rows is the applied column of the
\* _migrations table (0: no row), schema the migrations whose tables exist, left
\* (a history variable) those whose row was removed while their tables stayed.
Database == [rows : [Files -> Nat], schema : SUBSET Files, left : SUBSET Files]
Jobs == {"system", "all", "down"}

VARIABLES
  db,        \* the committed state
  lockedBy,  \* the process that holds the advisory lock
  pc,        \* each process: idle, locking, naming or running
  job,       \* what its run does: RunSystemMigrations, RunAllMigrations or Down
  plan,      \* the files still to visit, the one with the greatest value next
  work,      \* the database as the run sees it
  clock,     \* time.Now() of the last row saved
  runs       \* history: the runs begun

vars == <<db, lockedBy, pc, job, plan, work, clock, runs>>

Nothing == [f \in Files |-> 0]
Empty   == [rows |-> Nothing, schema |-> {}, left |-> {}]

Init ==
  /\ db = Empty /\ lockedBy = NoProc
  /\ pc = [p \in Procs |-> "idle"] /\ job = [p \in Procs |-> "all"]
  /\ plan = [p \in Procs |-> Nothing]
  /\ work = [p \in Procs |-> Empty]
  /\ clock = 0 /\ runs = 0

-----------------------------------------------------------------------------
\* The list the runner was given.
List(p) == IF job[p] = "system" THEN Known[p] \cap System ELSE Known[p]

ShortOfLast(S) ==  \* mutant: the loop ends before the last file
  [f \in Files |-> IF f \in S THEN FileCount - f ELSE 0]

\* Items() is sorted by file name.
InFileOrder(S) == [f \in Files |-> IF f \in S THEN FileCount + 1 - f ELSE 0]

\* f is the file the loop of p stands at.
At(p, f) == plan[p][f] # 0 /\ \A g \in Files : plan[p][g] <= plan[p][f]

Done(p) == plan[p] = Nothing

GoTo(p, s) == pc' = [pc EXCEPT ![p] = s]
Visited(p, f) == plan' = [plan EXCEPT ![p][f] = 0]

(***************************************************************************)
(* runMigrationTx                                                          *)
(***************************************************************************)
Begin(p, j) ==
  /\ pc[p] = "idle" /\ runs < MaxRuns
  /\ GoTo(p, "locking")
  /\ job' = [job EXCEPT ![p] = j]
  /\ runs' = runs + 1
  /\ UNCHANGED <<db, lockedBy, plan, work, clock>>

\* What the run does first once the lock query has returned.
Enter(p) ==
  /\ work' = [work EXCEPT ![p] = db]
  /\ IF job[p] = "down" THEN GoTo(p, "naming") /\ UNCHANGED plan
     ELSE GoTo(p, "running") /\ plan' = [plan EXCEPT ![p] = InFileOrder(List(p))]
  /\ UNCHANGED <<db, job, clock, runs>>

LockSkipped(p) ==  \* mutant: lockMigrations does not lock
  pc[p] = "locking" /\ Enter(p) /\ UNCHANGED lockedBy

\* lockMigrations: pg_advisory_xact_lock waits for the transaction that has it.
Lock(p) ==
  /\ pc[p] = "locking" /\ lockedBy = NoProc
  /\ lockedBy' = p
  /\ Enter(p)

\* The runner is gone; the next run starts afresh.
RunnerGone(p) ==
  /\ GoTo(p, "idle") /\ job' = [job EXCEPT ![p] = "all"]
  /\ plan' = [plan EXCEPT ![p] = Nothing] /\ work' = [work EXCEPT ![p] = Empty]

EndKeepsLock(p) ==  \* mutant: a session lock that nobody releases
  RunnerGone(p) /\ UNCHANGED lockedBy

\* The transaction ends: the lock is free.
End(p) ==
  /\ lockedBy' = IF lockedBy = p THEN NoProc ELSE lockedBy
  /\ RunnerGone(p)

\* Every migration of the list has been visited.
Commit(p) ==
  /\ pc[p] = "running" /\ Done(p)
  /\ db' = work[p]
  /\ End(p)
  /\ UNCHANGED <<clock, runs>>

\* A lost connection, a lock_timeout, an error inside a migration or the death of
\* the process: the transaction is rolled back.
Abort(p) ==
  /\ pc[p] # "idle"
  /\ End(p)
  /\ UNCHANGED <<db, clock, runs>>

(***************************************************************************)
(* Up                                                                      *)
(***************************************************************************)
\* shouldReapply.  MigrationsList.Copy, which RunAllMigrations uses, registers
\* the migrations without their condition.
ShouldReapply(p, f) ==
  job[p] = "system" /\ f \in Conditional /\ f \notin work[p].schema

IsApplied(p, f) == work[p].rows[f] # 0 /\ ~ShouldReapply(p, f)

Skip(p, f) ==
  /\ pc[p] = "running" /\ job[p] # "down" /\ At(p, f)
  /\ IsApplied(p, f)
  /\ Visited(p, f)
  /\ UNCHANGED <<db, lockedBy, pc, job, work, clock, runs>>

ApplyOutsideTx(p, f) ==  \* mutant: Up is given the app and not txApp
  /\ pc[p] = "running" /\ job[p] # "down" /\ At(p, f) /\ ~IsApplied(p, f)
  /\ f \notin work[p].schema \/ f \in Conditional
  /\ clock' = clock + 1
  /\ work' = [work EXCEPT ![p] = [rows |-> [@.rows EXCEPT ![f] = clock + 1],
                                  schema |-> @.schema \cup {f}, left |-> @.left \ {f}]]
  /\ db' = [db EXCEPT !.schema = @ \cup {f}]
  /\ Visited(p, f)
  /\ UNCHANGED <<lockedBy, pc, job, runs>>

\* m.Up and saveAppliedMigration; a migration without a condition creates its
\* tables plainly, so it fails when they are there.
Apply(p, f) ==
  /\ pc[p] = "running" /\ job[p] # "down" /\ At(p, f) /\ ~IsApplied(p, f)
  /\ f \notin work[p].schema \/ f \in Conditional
  /\ clock' = clock + 1
  /\ work' = [work EXCEPT ![p] = [rows |-> [@.rows EXCEPT ![f] = clock + 1],
                                  schema |-> @.schema \cup {f}, left |-> @.left \ {f}]]
  /\ Visited(p, f)
  /\ UNCHANGED <<db, lockedBy, pc, job, runs>>

(***************************************************************************)
(* Down                                                                    *)
(***************************************************************************)
\* lastAppliedMigrations: of the rows of the runner's list the last ones, newest
\* first; toRevertCount says how many.
Newer(p, f) == {g \in List(p) : work[p].rows[g] > work[p].rows[f]}
LastApplied(p, S) ==
  /\ S \subseteq {f \in List(p) : work[p].rows[f] # 0}
  /\ \A f \in S : Newer(p, f) \subseteq S

NamesByFile(p, S) ==  \* mutant: the names are those with the greatest file names
  /\ pc[p] = "naming"
  /\ S \subseteq {f \in List(p) : work[p].rows[f] # 0}
  /\ \A f \in S, g \in List(p) \ S : work[p].rows[g] = 0 \/ g < f
  /\ plan' = [plan EXCEPT ![p] = [f \in Files |-> IF f \in S THEN work[p].rows[f] ELSE 0]]
  /\ GoTo(p, "running")
  /\ UNCHANGED <<db, lockedBy, job, work, clock, runs>>

Names(p, S) ==
  /\ pc[p] = "naming"
  /\ LastApplied(p, S)
  /\ plan' = [plan EXCEPT ![p] = [f \in Files |-> IF f \in S THEN work[p].rows[f] ELSE 0]]
  /\ GoTo(p, "running")
  /\ UNCHANGED <<db, lockedBy, job, work, clock, runs>>

\* m.Down, which drops the tables, and saveRevertedMigration.
Revert(p, f) ==
  /\ pc[p] = "running" /\ job[p] = "down" /\ At(p, f)
  /\ f \in work[p].schema \/ f \notin Reversible
  /\ work' = [work EXCEPT ![p] =
       [rows   |-> [@.rows EXCEPT ![f] = 0],
        schema |-> IF f \in Reversible THEN @.schema \ {f} ELSE @.schema,
        left   |-> IF f \in Reversible THEN @.left ELSE @.left \cup {f}]]
  /\ Visited(p, f)
  /\ UNCHANGED <<db, lockedBy, pc, job, clock, runs>>

\* Up creates a table that is there, or Down drops one that is not.
MigrationFails(p, f) ==
  /\ pc[p] = "running" /\ At(p, f)
  /\ IF job[p] = "down" THEN f \in Reversible \ work[p].schema
     ELSE ~IsApplied(p, f) /\ f \in work[p].schema \ Conditional
  /\ End(p)
  /\ UNCHANGED <<db, clock, runs>>

(***************************************************************************)
(* RemoveMissingAppliedMigrations and the world outside                    *)
(***************************************************************************)
Forget(d, S) == [d EXCEPT !.rows = [f \in Files |-> IF f \in S THEN 0 ELSE @[f]],
                          !.left = @ \cup S]

\* The DELETE of history-sync waits for rows a run has deleted or replaced.  A
\* run in progress sees the rows go.
HistorySync(p) ==
  LET gone == {f \in Files \ Known[p] : db.rows[f] # 0}
      open == {q \in Procs : pc[q] \in {"naming", "running"}}
  IN /\ pc[p] = "idle" /\ gone # {}
     /\ \A q \in open, f \in gone : work[q].rows[f] = db.rows[f]
     /\ db' = Forget(db, gone)
     /\ work' = [q \in Procs |-> IF q \in open THEN Forget(work[q], gone) ELSE work[q]]
     /\ UNCHANGED <<lockedBy, pc, job, plan, clock, runs>>

\* A table a condition asks for disappears: the database was restored from a
\* copy that does not have it.
LoseTable(f) ==
  /\ lockedBy = NoProc /\ f \in Conditional \cap db.schema
  /\ db' = [db EXCEPT !.schema = @ \ {f}]
  /\ UNCHANGED <<lockedBy, pc, job, plan, work, clock, runs>>

-----------------------------------------------------------------------------
Step(p) ==
  \/ \E f \in Files : Skip(p, f) \/ Apply(p, f) \/ Revert(p, f) \/ MigrationFails(p, f)
  \/ \E S \in SUBSET Files : Names(p, S)
  \/ Commit(p)

Next ==
  \/ \E p \in Procs :
       \/ \E j \in Jobs : Begin(p, j)
       \/ Lock(p) \/ Step(p) \/ Abort(p) \/ HistorySync(p)
  \/ \E f \in Files : LoseTable(f)

Spec == Init /\ [][Next]_vars

\* A run that has the lock goes on, and Postgres hands the lock to those who wait
\* in turn; nobody has to begin a run.
Fairness == \A p \in Procs : WF_vars(Step(p)) /\ SF_vars(Lock(p))

FairSpec == Spec /\ Fairness

-----------------------------------------------------------------------------
\* The type invariant; the advisory lock is held exactly while a run is inside.
TypeOK ==
  /\ db \in Database /\ work \in [Procs -> Database]
  /\ lockedBy \in Procs \cup {NoProc}
  /\ pc \in [Procs -> {"idle", "locking", "naming", "running"}] /\ job \in [Procs -> Jobs]
  /\ plan \in [Procs -> [Files -> Nat]]
  /\ clock \in Nat /\ runs \in Nat
  /\ \A p \in Procs : pc[p] \in {"naming", "running"} <=> lockedBy = p

\* migrations_runner.go:25-28: two processes must not both pass the applied check.
\* What a run is about to commit as applied has not been applied by another run
\* since: it has no row, and its tables are not there to collide with.
ChangesOnce ==
  \A p \in Procs : pc[p] = "running" =>
    \A f \in Files \ Conditional :
      work[p].rows[f] \notin {0, db.rows[f]} => db.rows[f] = 0 /\ f \notin db.schema

\* However runs fail, die or are reverted, the history and the schema agree: a
\* recorded migration has its tables, and tables without a record are those of a
\* migration that history-sync forgot or that has no Down.
RowsMatchSchema ==
  \A f \in Files :
    /\ db.rows[f] # 0 => f \in db.schema \cup Conditional
    /\ f \in db.schema => db.rows[f] # 0 \/ f \in db.left

\* When an Up succeeds every migration of its list is recorded, but for those
\* whose row a history-sync took away under it.
UpCompletes ==
  [][\A p \in Procs : Commit(p) /\ job[p] # "down" =>
       \A f \in List(p) : db'.rows[f] # 0 \/ f \in db'.left]_vars

\* A Down reverts what was applied last, also when others have applied or
\* forgotten migrations since the user asked: nothing of its list stays that is
\* newer than something it reverted.
NewestReverted ==
  [][\A p \in Procs : Commit(p) /\ job[p] = "down" =>
       \A f, g \in List(p) :
         db.rows[f] # 0 /\ db'.rows[f] = 0 /\ db'.rows[g] # 0 => db.rows[g] < db.rows[f]]_vars

\* A run ends, whatever the others do while it waits for the lock.
EveryRunEnds == \A p \in Procs : pc[p] # "idle" ~> pc[p] = "idle"

=============================================================================
