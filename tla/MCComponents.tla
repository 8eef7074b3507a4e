---------------------------- MODULE MCComponents ----------------------------
(***************************************************************************)
(* Eight components that share no state, checked in one run: the initial   *)
(* state says which one a behaviour is about, and only that one takes      *)
(* steps.  The state graph is the union of the graphs of the components,   *)
(* not their product.                                                      *)
(*                                                                         *)
(* Migrations is extended; the others are instances, on the variables they *)
(* declare, with constants of this module.                                 *)
(***************************************************************************)
EXTENDS MCMigrations

CONSTANTS
  CronStarts, CallsOnceOvertaken,           \* CronTicker
  Writers, Kind, Debounce, RemoveAfter, MaxChanges,  \* NotifyWatcher
  Entries, Old,                             \* RestoreSwap
  Count,                                    \* Batch
  Workers, First, MaxChunks,                \* Uploader
  BeatStarts, Terminations,                 \* Heartbeat
  Attempts, NoAttempt, Clients, NoClient, Topics, Capacity, Overlap, MaxPanics  \* RealtimeDelete

VARIABLES
  focus,
  \* CronTicker
  call, step, startTimer, ticker, cronPc, chan, ticking, ticks, cronRuns, wanted, overtaken,
  calm,
  \* NotifyWatcher
  version, loaded, sentinel, removals, events, debounce, age,
  \* RestoreSwap
  at, restorePc, undoing, left, hasTemp, alive, restart,
  \* Batch
  batchPc, cur, raised, failed, results, written, after, reported, tx, stopCh, errCh, main,
  outcome,
  \* Uploader
  size, phase, pos, lastPartNumber, uploadPc, part, uploadedParts, stored, object, result,
  \* Heartbeat
  current, started, beatPc, closed, initWait, endWait, crashed,
  \* RealtimeDelete
  rowExists, rowLock, deletePc, checks, todo, visited, got, cache, stash, flight, gone, queue,
  dropped, received, published, overlapped, unprepared, panics

cronVars    == <<call, step, startTimer, ticker, cronPc, chan, ticking, ticks, cronRuns, wanted,
                 overtaken, calm>>
notifyVars  == <<version, loaded, sentinel, removals, events, debounce, age>>
restoreVars == <<at, restorePc, undoing, left, hasTemp, alive, restart>>
batchVars   == <<batchPc, cur, raised, failed, results, written, after, reported, tx, stopCh,
                 errCh, main, outcome>>
uploadVars  == <<size, phase, pos, lastPartNumber, uploadPc, part, uploadedParts, stored,
                 object, result>>
beatVars    == <<current, started, beatPc, closed, initWait, endWait, crashed>>
deleteVars  == <<rowExists, rowLock, deletePc, checks, todo, visited, got, cache, stash, flight,
                 gone, queue, dropped, received, published, overlapped, unprepared, panics>>
allVars     == <<focus, vars, cronVars, notifyVars, restoreVars, batchVars, uploadVars, beatVars,
                 deleteVars>>

Cron == INSTANCE CronTicker WITH
  StartCount <- CronStarts, pc <- cronPc, runs <- cronRuns

\* What it does with changes of one kind; changes of both kinds miss reloads.
Notify == INSTANCE NotifyWatcher WITH Kinds <- {Kind}

Restore == INSTANCE RestoreSwap WITH pc <- restorePc

Batch == INSTANCE Batch WITH pc <- batchPc

Upload == INSTANCE Uploader WITH pc <- uploadPc

Beat == INSTANCE Heartbeat WITH StartCount <- BeatStarts, pc <- beatPc

\* For what it must do in the end; what it must never do is checked in MCRequests.
Deletion == INSTANCE RealtimeDelete WITH lockedBy <- rowLock, pc <- deletePc, cur <- visited

ASSUME InstancesAssumption ==
  /\ Cron!ConstantsAssumption /\ Notify!ConstantsAssumption
  /\ Batch!ConstantsAssumption /\ Upload!ConstantsAssumption
  /\ Beat!ConstantsAssumption /\ Deletion!ConstantsAssumption

-----------------------------------------------------------------------------
ComponentsInit ==
  /\ focus \in {"migrations", "cron", "notify", "restore", "batch", "upload", "beat",
               "delete"}
  /\ Init /\ Notify!Init /\ Batch!Init /\ Beat!Init /\ Deletion!Init
  /\ Cron!Init /\ (focus # "cron" => calm = TRUE)
  /\ Restore!Init /\ (focus # "restore" => restart = FALSE)
  /\ Upload!Init /\ (focus # "upload" => size = 0)

OnlyMigrations ==
  UNCHANGED <<focus, cronVars, notifyVars, restoreVars, batchVars, uploadVars, beatVars, deleteVars>>
OnlyCron ==
  UNCHANGED <<focus, vars, notifyVars, restoreVars, batchVars, uploadVars, beatVars, deleteVars>>
OnlyNotify ==
  UNCHANGED <<focus, vars, cronVars, restoreVars, batchVars, uploadVars, beatVars, deleteVars>>
OnlyRestore ==
  UNCHANGED <<focus, vars, cronVars, notifyVars, batchVars, uploadVars, beatVars, deleteVars>>
OnlyBatch ==
  UNCHANGED <<focus, vars, cronVars, notifyVars, restoreVars, uploadVars, beatVars, deleteVars>>
OnlyUpload ==
  UNCHANGED <<focus, vars, cronVars, notifyVars, restoreVars, batchVars, beatVars, deleteVars>>
OnlyBeat ==
  UNCHANGED <<focus, vars, cronVars, notifyVars, restoreVars, batchVars, uploadVars, deleteVars>>
OnlyDelete ==
  UNCHANGED <<focus, vars, cronVars, notifyVars, restoreVars, batchVars, uploadVars, beatVars>>

ComponentsNext ==
  \/ focus = "migrations" /\ Next /\ OnlyMigrations
  \/ focus = "cron" /\ Cron!Next /\ OnlyCron
  \/ focus = "notify" /\ Notify!Next /\ OnlyNotify
  \/ focus = "restore" /\ Restore!Next /\ OnlyRestore
  \/ focus = "batch" /\ Batch!Next /\ OnlyBatch
  \/ focus = "upload" /\ Upload!Next /\ OnlyUpload
  \/ focus = "beat" /\ Beat!Next /\ OnlyBeat
  \/ focus = "delete" /\ Deletion!Next /\ OnlyDelete

\* The fairness of each component.  A batch could begin in the initial state, so
\* its fairness is that of the behaviours about it; the others have nothing to do
\* there unless something is begun.
ComponentsSpec ==
  /\ ComponentsInit /\ [][ComponentsNext]_allVars
  /\ Fairness
  /\ Cron!Fairness
  /\ WF_allVars(focus = "batch" /\ Batch!Routine /\ OnlyBatch)
  /\ WF_allVars(focus = "batch" /\ Batch!Handler /\ OnlyBatch)
  /\ Deletion!Fairness

-----------------------------------------------------------------------------
\* The type invariants of the components, but for that of RealtimeDelete.
TypesOK ==
  /\ TypeOK /\ Cron!TypeOK /\ Notify!TypeOK /\ Restore!TypeOK
  /\ Batch!TypeOK /\ Upload!TypeOK /\ Beat!TypeOK

\* Once the last call of the cron is a Stop that has returned, nothing is left that
\* could run jobs, unless a Stop came between a timer that fired and its callback.
StopHalts == Cron!StopHalts

\* However calls of the cron follow each other, and whenever timer and ticker fire, one
\* start at most is in effect, with the same exception.
OneStartInEffect == Cron!OneStartInEffect

\* Every call of the cron's Start, Stop and SetInterval returns, if timer and ticker do
\* not fire during the calls.
QuietCallsReturn == Cron!QuietCallsReturn

\* A started cron runs the due jobs, again after every such call.
JobsKeepRunning == Cron!JobsKeepRunning

\* A goroutine of the cron that has run the due jobs takes the next tick too.
TicksAreTaken == Cron!TicksAreTaken

\* As long as what the notified instance has loaded is out of date, a reload is due.
ReloadIsDue == Notify!ReloadIsDue

\* Nothing is reloaded in the middle of a burst of changes.
ReloadsAfterBurst == Notify!ReloadsAfterBurst

\* Whatever fails, the restored directory never holds entries of both contents.
NeverMixed == Restore!NeverMixed

\* Until a bootstrap has succeeded after a restore, the old content is on the disk.
OldIsKept == Restore!OldIsKept

\* A batch answers success for what is committed, and names the request that failed.
AnswersTruly == Batch!AnswersTruly

\* The After hooks of what a batch has written learn how its transaction ended.
WritesReported == Batch!WritesReported

\* A batch is answered and its goroutine ends.
BatchEnds == focus = "batch" => Batch!BatchEnds

\* An upload that is completed is the whole payload, in its order.
UploadIsWhole == Upload!UploadIsWhole

\* An upload that is over has left no parts behind, unless its abort failed.
NothingLeftAtS3 == Upload!NothingLeftAtS3

\* Bootstraps and terminations leave one heartbeat, or none, and close no channel
\* twice.
OneHeartbeat == Beat!OneHeartbeat

\* A delete message that waits for a client is received once its delete has committed,
\* unless it finds the channel full, the client leaves or requests overlap.
EventuallyReceived == Deletion!EventuallyReceived

=============================================================================
