---------------------------- MODULE RestoreSwap ----------------------------
(***************************************************************************)
(* Restoring a backup of the data directory (restoreBackup of              *)
(* core/base_backup.go): the content of pb_data is moved aside, entry by   *)
(* entry, the extracted content is moved in, and the process replaces      *)
(* itself; the next bootstrap removes what was moved aside.  Renames fail, *)
(* also those that undo others, and the process dies anywhere.             *)
(*                                                                         *)
(* This is the branch for a backup without a database dump.  With one, the *)
(* import of the dump takes the place of the moves.                        *)
(***************************************************************************)
CONSTANTS
  Entries,  \* what pb_data and the backup contain
  Old       \* of these the entries of pb_data

New == Entries \ Old
Places == {"data", "extracted", "aside", "backup", "removed"}
Moves == {"moveOut", "moveIn", "revertOut", "revertIn"}
Steps == {"extract", "commit", "restart", "done", "failed", "panic", "booted"} \cup Moves

VARIABLES
  at,       \* where each entry is
  pc,       \* the step of restoreBackup
  undoing,  \* MoveDirContent is taking back its renames
  left,     \* of those the ones it has not tried yet
  hasTemp,  \* the temporary directory exists
  alive,    \* the process that restores lives
  restart   \* restartAfter: false for the CLI

vars == <<at, pc, undoing, left, hasTemp, alive, restart>>

Init ==
  /\ at = [e \in Entries |-> IF e \in Old THEN "data" ELSE "backup"]
  /\ pc = "extract" /\ undoing = FALSE /\ left = {}
  /\ hasTemp = TRUE /\ alive = TRUE /\ restart \in BOOLEAN

In(place) == {e \in Entries : at[e] = place}

Put(S, place) == [e \in Entries |-> IF e \in S THEN place ELSE at[e]]

ReturnAndClean ==  \* mutant: the old content is removed too
  /\ at' = Put(In("extracted") \cup In("aside"), "removed")
  /\ undoing' = FALSE /\ left' = {}

\* A return, also one by a panic, removes the extracted directory.
Return ==
  /\ at' = Put(In("extracted"), "removed")
  /\ undoing' = FALSE /\ left' = {}

-----------------------------------------------------------------------------
(* MoveDirContent *)

Src(m) == CASE m = "moveOut" -> "data" [] m = "moveIn" -> "extracted"
            [] m = "revertOut" -> "data" [] m = "revertIn" -> "aside"
Dest(m) == CASE m = "moveOut" -> "aside" [] m = "revertOut" -> "extracted"
             [] m \in {"moveIn", "revertIn"} -> "data"

Moving(m) == alive /\ pc = m /\ hasTemp /\ ~undoing

Rename(m, e) ==
  /\ Moving(m) /\ at[e] = Src(m)
  /\ at' = [at EXCEPT ![e] = Dest(m)]
  /\ UNCHANGED <<pc, undoing, left, hasTemp, alive, restart>>

\* tryRollback: what this call has moved is moved back.
RenameFails(m) ==
  /\ Moving(m) /\ In(Src(m)) # {}
  /\ undoing' = TRUE /\ left' = In(Dest(m))
  /\ UNCHANGED <<at, pc, hasTemp, alive, restart>>

Undo(m, e, ok) ==
  /\ alive /\ pc = m /\ undoing /\ e \in left
  /\ at' = IF ok THEN [at EXCEPT ![e] = Src(m)] ELSE at
  /\ left' = left \ {e}
  /\ UNCHANGED <<pc, undoing, hasTemp, alive, restart>>

Then(m) == CASE m = "moveOut" -> "moveIn" [] m = "moveIn" -> "commit"
             [] m = "revertOut" -> "revertIn"

Moved(m) ==
  /\ Moving(m) /\ m # "revertIn" /\ In(Src(m)) = {}
  /\ pc' = Then(m)
  /\ UNCHANGED <<at, undoing, left, hasTemp, alive, restart>>

MoveFailsGoesOn(m) ==  \* mutant: the error of the first move is not returned
  /\ alive /\ pc = m /\ undoing /\ left = {}
  /\ pc' = IF m = "moveOut" THEN "moveIn" ELSE "panic"
  /\ undoing' = FALSE
  /\ UNCHANGED <<at, left, hasTemp, alive, restart>>

\* A move has failed: the restore fails, and a revert panics.
MoveFails(m) ==
  /\ alive /\ pc = m /\ undoing /\ left = {}
  /\ pc' = IF m \in {"moveOut", "moveIn"} THEN "failed" ELSE "panic"
  /\ Return
  /\ UNCHANGED <<hasTemp, alive, restart>>

-----------------------------------------------------------------------------
(* restoreBackup *)

Extract(ok) ==
  /\ alive /\ pc = "extract"
  /\ at' = IF ok THEN Put(New, "extracted") ELSE at
  /\ pc' = IF ok THEN "moveOut" ELSE "failed"
  /\ UNCHANGED <<undoing, left, hasTemp, alive, restart>>

\* The moves are inside a transaction, which is committed after them.
Commit(ok) ==
  /\ alive /\ pc = "commit"
  /\ IF ok /\ restart THEN pc' = "restart" /\ UNCHANGED <<at, undoing, left>>
     ELSE pc' = (IF ok THEN "done" ELSE "failed") /\ Return
  /\ UNCHANGED <<hasTemp, alive, restart>>

\* The end of a successful bootstrap.
RemoveTemp ==
  at' = Put(In("extracted") \cup In("aside"), "removed") /\ hasTemp' = FALSE

\* execve: the process is another one, and no deferred call runs.
Execve ==
  /\ alive /\ pc = "restart"
  /\ alive' = FALSE
  /\ UNCHANGED <<at, pc, undoing, left, hasTemp, restart>>

\* Restart fails before execve, or execve fails and a deferred Bootstrap follows,
\* which fails or succeeds.
RestartFails(booted) ==
  /\ alive /\ pc = "restart"
  /\ pc' = "revertOut"
  /\ IF booted THEN RemoveTemp ELSE UNCHANGED <<at, hasTemp>>
  /\ UNCHANGED <<undoing, left, alive, restart>>

\* The transaction cannot be begun, or the directory to move into cannot be made
\* any more: the error of revertDataDirChanges is a panic.
RevertFails ==
  /\ alive /\ pc = "revertOut" /\ In("extracted") = {} /\ ~undoing
  /\ pc' = "panic"
  /\ Return
  /\ UNCHANGED <<hasTemp, alive, restart>>

\* The transaction around the revert is committed, or not: another panic.
Reverted(ok) ==
  /\ Moving("revertIn") /\ In("aside") = {}
  /\ pc' = IF ok THEN "failed" ELSE "panic"
  /\ Return
  /\ UNCHANGED <<hasTemp, alive, restart>>

\* A panic, a kill, a lost machine, or the end of the CLI command.
Die ==
  /\ alive /\ pc # "booted"
  /\ alive' = FALSE
  /\ UNCHANGED <<at, pc, undoing, left, hasTemp, restart>>

\* The next process bootstraps.
Bootstrap ==
  /\ ~alive
  /\ RemoveTemp
  /\ pc' = "booted" /\ undoing' = FALSE /\ left' = {} /\ alive' = TRUE
  /\ UNCHANGED restart

-----------------------------------------------------------------------------
Next ==
  \/ \E ok \in BOOLEAN : Extract(ok) \/ Commit(ok) \/ RestartFails(ok) \/ Reverted(ok)
  \/ \E m \in Moves :
       \/ \E e \in Entries : Rename(m, e) \/ (\E ok \in BOOLEAN : Undo(m, e, ok))
       \/ RenameFails(m) \/ Moved(m) \/ MoveFails(m)
  \/ Execve \/ RevertFails \/ Die \/ Bootstrap

Spec == Init /\ [][Next]_vars

-----------------------------------------------------------------------------
\* The type invariant.
TypeOK ==
  /\ at \in [Entries -> Places] /\ pc \in Steps
  /\ undoing \in BOOLEAN /\ left \subseteq Entries
  /\ hasTemp \in BOOLEAN /\ alive \in BOOLEAN /\ restart \in BOOLEAN

\* base_backup.go:225-233: whatever fails or dies, pb_data never holds entries of
\* both contents, and when the restore succeeds it holds all of the backup.
NeverMixed ==
  /\ In("data") \subseteq Old \/ In("data") \subseteq New
  /\ pc \in {"restart", "done"} => In("data") = New

\* base_backup.go:228-235: what was in pb_data is only moved; until a bootstrap has
\* succeeded every old entry is still on the disk.
OldIsKept == hasTemp => \A e \in Old \cap Entries : at[e] \in {"data", "aside"}

\* base_backup.go:237: if a failure occurs during the restore process the dir
\* changes are reverted.
FailureIsReverted == alive /\ pc = "failed" => \A e \in Old \cap Entries : at[e] = "data"

=============================================================================
