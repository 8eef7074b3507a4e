------------------------- MODULE RestoreSwapProofs -------------------------
(***************************************************************************)
(* A restore never mixes two contents of pb_data and never destroys the    *)
(* old one, for any entries.  The invariant says for each step where the   *)
(* old and the new entries can be; a restore that has ended, failed or     *)
(* been replaced by another process keeps only what the properties say.    *)
(***************************************************************************)
EXTENDS RestoreSwap, TLAPS

OldIn(places) == \A e \in Old \cap Entries : at[e] \in places
NewIn(places) == \A e \in New : at[e] \in places

\* Where the entries are at each step of a restore that is under way.
Whereabouts ==
  /\ pc = "extract" => OldIn({"data"}) /\ NewIn({"backup"}) /\ hasTemp
  /\ pc = "moveOut" => OldIn({"data", "aside"}) /\ NewIn({"extracted"}) /\ hasTemp
  /\ pc = "moveIn" => OldIn({"aside"}) /\ NewIn({"data", "extracted"}) /\ hasTemp
  /\ pc \in {"commit", "restart"} => OldIn({"aside"}) /\ NewIn({"data"}) /\ hasTemp
  /\ pc = "done" => OldIn({"aside"}) /\ NewIn({"data"}) /\ hasTemp
  /\ pc = "revertOut" => (IF hasTemp THEN OldIn({"aside"}) /\ NewIn({"data", "extracted"})
                          ELSE OldIn({"removed"}) /\ NewIn({"data"}))
  /\ pc = "revertIn" => OldIn({"data", "aside"}) /\ NewIn({"extracted"}) /\ hasTemp

\* What MoveDirContent takes back is what its call has moved.
UndoIsOwn ==
  /\ undoing => pc \in Moves /\ hasTemp
  /\ undoing => left \subseteq In(Dest(pc))

\* At all times.
NotMixed ==
  \/ \A e \in Old \cap Entries : at[e] # "data"
  \/ \A e \in New : at[e] # "data"

IInv == TypeOK /\ Whereabouts /\ UndoIsOwn /\ NotMixed /\ OldIsKept

-----------------------------------------------------------------------------
\* The invariant holds at the start.
LEMMA InitInv == Init => IInv
  BY DEF Init, IInv, TypeOK, Steps, Places, Moves, Whereabouts, UndoIsOwn, NotMixed,
         OldIsKept, OldIn, NewIn, New

\* A rename of MoveDirContent, where the entries are known.
LEMMA RenameInv ==
  ASSUME NEW m \in Moves, NEW e \in Entries, IInv, Rename(m, e)
  PROVE  IInv'
  <1> USE DEF Rename, Moving, IInv
  <1>1. TypeOK'
    BY DEF TypeOK, Dest, Moves, Places
  <1>2. Whereabouts' /\ UndoIsOwn' /\ NotMixed' /\ OldIsKept'
    <2>1. CASE m = "moveOut"
      BY <2>1 DEF TypeOK, Whereabouts, UndoIsOwn, NotMixed, OldIsKept, OldIn, NewIn, New, Src, Dest, Moves
    <2>2. CASE m = "moveIn"
      BY <2>2 DEF TypeOK, Whereabouts, UndoIsOwn, NotMixed, OldIsKept, OldIn, NewIn, New, Src, Dest, Moves
    <2>3. CASE m = "revertOut"
      BY <2>3 DEF TypeOK, Whereabouts, UndoIsOwn, NotMixed, OldIsKept, OldIn, NewIn, New, Src, Dest, Moves
    <2>4. CASE m = "revertIn"
      BY <2>4 DEF TypeOK, Whereabouts, UndoIsOwn, NotMixed, OldIsKept, OldIn, NewIn, New, Src, Dest, Moves
    <2> QED BY <2>1, <2>2, <2>3, <2>4 DEF Moves
  <1> QED BY <1>1, <1>2

\* What is taken back returns to where its call found it.
LEMMA UndoInv ==
  ASSUME NEW m \in Moves, NEW e \in Entries, NEW ok \in BOOLEAN, IInv, Undo(m, e, ok)
  PROVE  IInv'
  <1> USE DEF Undo, IInv
  <1>1. TypeOK'
    BY DEF TypeOK, Src, Moves, Places
  <1>2. at[e] = Dest(m) /\ hasTemp
    BY DEF UndoIsOwn, In
  <1>3. Whereabouts' /\ UndoIsOwn' /\ NotMixed' /\ OldIsKept'
    <2>1. CASE m = "moveOut"
      BY <1>2, <2>1 DEF TypeOK, Whereabouts, UndoIsOwn, NotMixed, OldIsKept, OldIn, NewIn, New, Src, Dest, Moves, In
    <2>2. CASE m = "moveIn"
      BY <1>2, <2>2 DEF TypeOK, Whereabouts, UndoIsOwn, NotMixed, OldIsKept, OldIn, NewIn, New, Src, Dest, Moves, In
    <2>3. CASE m = "revertOut"
      BY <1>2, <2>3 DEF TypeOK, Whereabouts, UndoIsOwn, NotMixed, OldIsKept, OldIn, NewIn, New, Src, Dest, Moves, In
    <2>4. CASE m = "revertIn"
      BY <1>2, <2>4 DEF TypeOK, Whereabouts, UndoIsOwn, NotMixed, OldIsKept, OldIn, NewIn, New, Src, Dest, Moves, In
    <2> QED BY <2>1, <2>2, <2>3, <2>4 DEF Moves
  <1> QED BY <1>1, <1>3

\* The other steps of MoveDirContent move nothing.
LEMMA MoveInv ==
  ASSUME NEW m \in Moves, IInv, RenameFails(m) \/ Moved(m)
  PROVE  IInv'
  <1> USE DEF IInv, Moving
  <1>1. CASE RenameFails(m)
    BY <1>1 DEF RenameFails, TypeOK, Whereabouts, UndoIsOwn, NotMixed, OldIsKept, OldIn, NewIn, In, New
  <1>2. CASE Moved(m)
    <2>1. TypeOK'
      BY <1>2 DEF Moved, TypeOK, Then, Moves, Steps
    <2>2. Whereabouts'
      <3>1. CASE m = "moveOut"
        BY <1>2, <3>1 DEF Moved, Then, Src, In, Whereabouts, OldIn, NewIn, New
      <3>2. CASE m = "moveIn"
        BY <1>2, <3>2 DEF Moved, Then, Src, In, Whereabouts, OldIn, NewIn, New
      <3>3. CASE m = "revertOut"
        BY <1>2, <3>3 DEF Moved, Then, Src, In, Whereabouts, OldIn, NewIn, New
      <3> QED BY <1>2, <3>1, <3>2, <3>3 DEF Moved, Moves
    <2>3. UndoIsOwn' /\ NotMixed' /\ OldIsKept'
      BY <1>2 DEF Moved, UndoIsOwn, NotMixed, OldIsKept, New
    <2> QED BY <2>1, <2>2, <2>3
  <1> QED BY <1>1, <1>2

\* A restore that ends, whatever its outcome, removes nothing old.
LEMMA ReturnKeeps ==
  ASSUME TypeOK, NotMixed, OldIsKept, Return, UNCHANGED <<hasTemp, alive, restart>>,
         pc' \in {"failed", "panic"}
  PROVE  IInv'
  <1>1. TypeOK'
    BY DEF TypeOK, Return, Put, Places, Steps, Moves
  <1>2. Whereabouts' /\ UndoIsOwn'
    BY DEF Return, Whereabouts, UndoIsOwn
  <1>3. NotMixed' /\ OldIsKept'
    BY DEF Return, Put, In, TypeOK, NotMixed, OldIsKept, New
  <1> QED BY <1>1, <1>2, <1>3 DEF IInv

\* The steps of restoreBackup, and of the processes around it.
LEMMA RestoreInv ==
  ASSUME IInv, NEW ok \in BOOLEAN,
         Extract(ok) \/ Commit(ok) \/ RestartFails(ok) \/ Reverted(ok)
  PROVE  IInv'
  <1> USE DEF IInv
  <1>1. CASE Extract(ok)
    <2>1. TypeOK'
      BY <1>1 DEF Extract, TypeOK, Put, Places, Steps, Moves
    <2>2. Whereabouts' /\ UndoIsOwn'
      BY <1>1 DEF Extract, TypeOK, Whereabouts, UndoIsOwn, OldIn, NewIn, Put, In, New, Moves
    <2>3. NotMixed' /\ OldIsKept'
      BY <1>1 DEF Extract, TypeOK, Whereabouts, NotMixed, OldIsKept, OldIn, NewIn, Put, New
    <2> QED BY <2>1, <2>2, <2>3
  <1>2. CASE Commit(ok)
    <2>1. CASE ok /\ restart
      BY <1>2, <2>1 DEF Commit, TypeOK, Steps, Whereabouts, UndoIsOwn, NotMixed, OldIsKept, OldIn, NewIn, New, In, Moves
    <2>2. CASE ~(ok /\ restart)
      <3>1. Return /\ pc' \in {"done", "failed"} /\ UNCHANGED <<hasTemp, alive, restart>>
        BY <1>2, <2>2 DEF Commit
      <3>2. CASE pc' = "failed"
        BY <3>1, <3>2, ReturnKeeps
      <3>3. CASE pc' = "done"
        <4>1. at' = at
          BY <1>2, <3>1 DEF Commit, Return, Put, In, Whereabouts, OldIn, NewIn, New, TypeOK
        <4>2. TypeOK'
          BY <3>1, <3>3, <4>1 DEF TypeOK, Steps, Return
        <4>3. Whereabouts' /\ UndoIsOwn' /\ NotMixed' /\ OldIsKept'
          BY <1>2, <3>1, <3>3, <4>1 DEF Commit, Return, Whereabouts, UndoIsOwn, NotMixed, OldIsKept, OldIn, NewIn
        <4> QED BY <4>2, <4>3
      <3> QED BY <3>1, <3>2, <3>3
    <2> QED BY <2>1, <2>2
  <1>3. CASE RestartFails(ok)
    <2>1. TypeOK'
      BY <1>3 DEF RestartFails, RemoveTemp, Put, TypeOK, Steps, Moves, Places
    <2>2. Whereabouts' /\ UndoIsOwn'
      BY <1>3 DEF RestartFails, RemoveTemp, Put, In, TypeOK, Whereabouts, UndoIsOwn, OldIn, NewIn, New, Moves
    <2>3. NotMixed' /\ OldIsKept'
      BY <1>3 DEF RestartFails, RemoveTemp, Put, In, TypeOK, Whereabouts, NotMixed, OldIsKept, OldIn, NewIn, New
    <2> QED BY <2>1, <2>2, <2>3
  <1>4. CASE Reverted(ok)
    BY <1>4, ReturnKeeps DEF Reverted
  <1> QED BY <1>1, <1>2, <1>3, <1>4

\* The invariant is inductive.
LEMMA StepInv == IInv /\ [Next]_vars => IInv'
  <1> SUFFICES ASSUME IInv, [Next]_vars PROVE IInv'
    OBVIOUS
  <1>1. CASE \E ok \in BOOLEAN : Extract(ok) \/ Commit(ok) \/ RestartFails(ok) \/ Reverted(ok)
    BY <1>1, RestoreInv
  <1>2. CASE \E m \in Moves, e \in Entries :
               Rename(m, e) \/ (\E ok \in BOOLEAN : Undo(m, e, ok))
    BY <1>2, RenameInv, UndoInv
  <1>3. CASE \E m \in Moves : RenameFails(m) \/ Moved(m)
    BY <1>3, MoveInv
  <1>4. CASE (\E m \in Moves : MoveFails(m)) \/ RevertFails
    BY <1>4, ReturnKeeps DEF MoveFails, RevertFails, IInv
  <1>5. CASE Execve \/ Die
    <2>1. UNCHANGED <<at, pc, undoing, left, hasTemp, restart>> /\ alive' = FALSE
      BY <1>5 DEF Execve, Die
    <2>2. TypeOK'
      BY <2>1 DEF IInv, TypeOK
    <2>3. Whereabouts' /\ NotMixed' /\ OldIsKept'
      BY <2>1 DEF IInv, Whereabouts, NotMixed, OldIsKept, OldIn, NewIn
    <2>4. UndoIsOwn'
      BY <2>1 DEF IInv, UndoIsOwn, In
    <2> QED BY <2>2, <2>3, <2>4 DEF IInv
  <1>6. CASE Bootstrap
    <2>1. TypeOK'
      BY <1>6 DEF Bootstrap, RemoveTemp, Put, IInv, TypeOK, Steps, Places
    <2>2. Whereabouts' /\ UndoIsOwn' /\ OldIsKept'
      BY <1>6 DEF Bootstrap, RemoveTemp, Whereabouts, UndoIsOwn, OldIsKept
    <2>3. NotMixed'
      BY <1>6 DEF Bootstrap, RemoveTemp, Put, IInv, TypeOK, NotMixed, New
    <2> QED BY <2>1, <2>2, <2>3 DEF IInv
  <1>7. CASE UNCHANGED vars
    BY <1>7 DEF vars, IInv, TypeOK, Whereabouts, UndoIsOwn, NotMixed, OldIsKept, OldIn, NewIn, In
  <1> QED BY <1>1, <1>2, <1>3, <1>4, <1>5, <1>6, <1>7 DEF Next

\* Every reachable state satisfies the invariant (restoreBackup, MoveDirContent).
THEOREM Inductive == Spec => []IInv
  BY InitInv, StepInv, PTL DEF Spec

\* Type correctness.
THEOREM TypeCorrect == Spec => []TypeOK
  <1>1. IInv => TypeOK
    BY DEF IInv
  <1> QED BY Inductive, <1>1, PTL

\* pb_data never holds entries of both contents, and holds all of the backup, and
\* only that, when a restore has succeeded (base_backup.go:225-233).
THEOREM ContentsNotMixed == Spec => []NeverMixed
  <1>1. IInv => NeverMixed
    BY DEF IInv, TypeOK, Whereabouts, NotMixed, NeverMixed, OldIn, NewIn, In, New
  <1> QED BY Inductive, <1>1, PTL

\* Until a bootstrap has succeeded every old entry is on the disk
\* (base_backup.go:228-235).
THEOREM OldContentKept == Spec => []OldIsKept
  <1>1. IInv => OldIsKept
    BY DEF IInv
  <1> QED BY Inductive, <1>1, PTL

=============================================================================
