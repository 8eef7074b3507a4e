----------------------------- MODULE MCRequests -----------------------------
(***************************************************************************)
(* What a write request goes through, in three components that share no    *)
(* state in the models: its model operations and their hooks (ModelTx),    *)
(* the files of its record and the broadcast of its delete.  The initial   *)
(* state says which one a behaviour is about, and only that one takes      *)
(* steps: the state graph is the union of the three.                       *)
(*                                                                         *)
(* ModelTx is extended; the others are instances, on the variables they    *)
(* declare.  The operations of ModelTx differ only in their names.         *)
(***************************************************************************)
EXTENDS ModelTx, TLC

OpSymmetry == Permutations(Ops)

CONSTANTS
  FileNames, MaxSaves,                                   \* RecordFiles
  Attempts, NoAttempt, Clients, NoClient, Topics,        \* RealtimeDelete
  Capacity, Overlap, DeletePanics

VARIABLES
  focus,
  \* RecordFiles
  savedRow, view, stored, rec, savePc, uploads, old, tx, reports, deleted, sweeping, mishap,
  \* RealtimeDelete
  rowExists, lockedBy, deletePc, checks, todo, cur, got, cache, stash, flight, gone, queue,
  dropped, received, published, overlapped, unprepared, deletePanics

fileVars    == <<savedRow, view, stored, rec, savePc, uploads, old, tx, reports, deleted,
                 sweeping, mishap>>
deleteVars  == <<rowExists, lockedBy, deletePc, checks, todo, cur, got, cache, stash, flight,
                 gone, queue, dropped, received, published, overlapped, unprepared,
                 deletePanics>>
requestVars == <<focus, vars, fileVars, deleteVars>>

File == INSTANCE RecordFiles WITH
  Files <- FileNames, db <- savedRow, pc <- savePc, todo <- uploads, gone <- deleted

Deletion == INSTANCE RealtimeDelete WITH
  MaxPanics <- DeletePanics, pc <- deletePc, panics <- deletePanics

ASSUME RequestsAssumption == File!ConstantsAssumption /\ Deletion!ConstantsAssumption

-----------------------------------------------------------------------------
RequestsInit ==
  /\ focus \in {"hooks", "files", "delete"}
  /\ Init /\ (focus # "hooks" => \A o \in Ops : opKind[o] = "create")
  /\ File!Init /\ Deletion!Init

RequestsNext ==
  \/ focus = "hooks" /\ Next /\ UNCHANGED <<focus, fileVars, deleteVars>>
  \/ focus = "files" /\ File!Next /\ UNCHANGED <<focus, vars, deleteVars>>
  \/ focus = "delete" /\ Deletion!Next /\ UNCHANGED <<focus, vars, fileVars>>

RequestsSpec == RequestsInit /\ [][RequestsNext]_requestVars

-----------------------------------------------------------------------------
\* The type invariants of the three.
TypesOK == TypeOK /\ File!TypeOK /\ Deletion!TypeOK

\* Every file that the committed row, or the open transaction's view of it, names
\* is stored.
NoDangling == File!NoDangling

\* When all is done nothing is stored that no row names, mishaps excepted.
NoLeftovers == File!NoLeftovers

\* While the record exists, no client has been sent its delete and nothing is published.
NoDeleteBeforeCommit == Deletion!NoDeleteBeforeCommit

\* When all deletes of a record are over, no message and no snapshot of them is left.
NothingLeftBehind == Deletion!NothingLeftBehind

\* A client gets the delete at most once for each of its subscriptions, unless delete
\* requests of the record overlap or a hook panics around one.
DeletedOnce == Deletion!DeletedOnce

\* A committed delete has been published, unless delete requests of the record overlap.
CommitIsPublished == Deletion!CommitIsPublished

=============================================================================
