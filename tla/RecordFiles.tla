---------------------------- MODULE RecordFiles ----------------------------
(***************************************************************************)
(* The files of a record (core/field_file.go, and the file manager hook of *)
(* core/base.go).  Files are uploaded before the row that names them is    *)
(* written and the replaced ones are deleted after it is committed; the    *)
(* storage has no transactions, so every failure has its own cleanup.      *)
(*                                                                         *)
(* One file field of one record.  Its saves follow each other, alone or    *)
(* several in a transaction, through one record object that may be saved   *)
(* again after a failure, and that may have been loaded long ago: the row  *)
(* has changed since, or is gone, or has been created by somebody else.    *)
(* Uploaded names have a random suffix: a name is not used twice.          *)
(***************************************************************************)
EXTENDS Naturals

CONSTANTS Files, MaxSaves  \* file names; bound: saves in a transaction

ConstantsAssumption == MaxSaves \in Nat

VARIABLES
  db,       \* the committed row: whether it exists and the files it names
  view,     \* the row as the open transaction sees it
  stored,   \* the files in the record's directory
  rec,      \* the record object: names, File objects, the names it was loaded with,
            \* the two lists of names it carries to its After hooks (uploaded and
            \* toDelete), and whether the open transaction has created it
  pc,       \* of the save in progress: idle, upload, after
  todo,     \* the uploads still to do
  old,      \* oldValue of Intercept
  tx,       \* none, open, aborted, committed or rolledBack
  reports,  \* saves (and a delete) of the transaction to be reported at its end
  gone,     \* the transaction has deleted the record
  sweeping, \* the goroutine that removes the directory of the deleted record runs
  mishap    \* history: a file could not be deleted or was left half uploaded, a row
            \* that is gone was updated, or the process died

vars == <<db, view, stored, rec, pc, todo, old, tx, reports, gone, sweeping, mishap>>

Rows == [exists : BOOLEAN, files : SUBSET Files]
NoRow == [exists |-> FALSE, files |-> {}]
Records == [names : SUBSET Files, unsaved : SUBSET Files, original : SUBSET Files,
            uploaded : SUBSET Files, toDelete : SUBSET Files,
            isNew : BOOLEAN, created : BOOLEAN]

\* A record object as it is loaded, or made for a row that does not exist.
Loaded(row) == [names |-> row.files, unsaved |-> {}, original |-> row.files,
                uploaded |-> {}, toDelete |-> {},
                isNew |-> ~row.exists, created |-> FALSE]

Init ==
  /\ db = NoRow /\ view = NoRow /\ stored = {}
  /\ rec = Loaded(NoRow) /\ pc = "idle" /\ todo = {} /\ old = {}
  /\ tx = "none" /\ reports = 0 /\ gone = FALSE /\ sweeping = FALSE /\ mishap = FALSE

-----------------------------------------------------------------------------
\* deleteFilesByNamesList, of which the deletions of kept fail, after an upload that
\* failed and has left torn.
CleanUp(names, kept, torn) ==
  /\ kept \subseteq names
  /\ stored' = (stored \cup torn) \ (names \ kept)
  /\ mishap' = (mishap \/ kept # {} \/ torn # {})

DeleteFiles(names, kept) == CleanUp(names, kept, {})

InTx == tx \in {"open", "aborted"}
Idle == pc = "idle" /\ tx \in {"none", "open"} /\ ~gone

LatestOriginal == IF rec.isNew THEN {} ELSE rec.names  \* mutant: the record's own value

\* getLatestOldValue: the row as it is now; as the record was loaded, if there is none.
LatestOldValue == IF ~rec.isNew /\ view.exists THEN view.files ELSE rec.original

\* Names that nothing has used.
NewName(f) == f \notin stored \cup db.files \cup view.files \cup rec.names
                       \cup rec.original \cup rec.uploaded \cup rec.toDelete

\* The After...Error hook of a save that failed itself.  In a transaction it
\* leaves the files alone; otherwise it drops what the record carries.
AfterError(r, files, kept, torn) ==
  /\ pc' = "idle" /\ todo' = {} /\ old' = {}
  /\ rec' = IF InTx THEN r
            ELSE [r EXCEPT !.uploaded = IF kept \cap @ = {} THEN {} ELSE @, !.toDelete = {}]
  /\ CleanUp(IF InTx THEN files ELSE files \cup r.uploaded, kept, torn)

-----------------------------------------------------------------------------
(* A save: the user has set the field to some of its names and new files. *)

\* ValidateValue: plain names must be in the row.
Invalid(keep, add) ==
  /\ Idle /\ ~(keep \subseteq LatestOldValue)
  /\ \E kept \in SUBSET rec.uploaded :
       AfterError([rec EXCEPT !.names = keep, !.unsaved = add], {}, kept, {})
  /\ UNCHANGED <<db, view, tx, reports, gone, sweeping>>

\* A deleted record is not created again with its id while its directory is
\* being removed.
Save(keep, add) ==
  /\ Idle /\ reports < MaxSaves
  /\ rec.isNew => ~sweeping
  /\ keep \subseteq LatestOldValue
  /\ rec' = [rec EXCEPT !.names = keep, !.unsaved = add]
  /\ pc' = "upload" /\ todo' = add /\ old' = LatestOldValue
  /\ UNCHANGED <<db, view, stored, tx, reports, gone, sweeping, mishap>>

\* processFilesToUpload
Upload(f) ==
  /\ pc = "upload" /\ f \in todo
  /\ stored' = stored \cup {f} /\ todo' = todo \ {f}
  /\ UNCHANGED <<db, view, rec, pc, old, tx, reports, gone, sweeping, mishap>>

\* The uploads that succeeded are removed; what there is of the one that failed is not.
UploadFails ==
  /\ pc = "upload"
  /\ \E f \in todo, kept \in SUBSET Files : \E torn \in {{}, {f}} :
       AfterError(rec, rec.unsaved \ todo, kept, torn)
  /\ UNCHANGED <<db, view, tx, reports, gone, sweeping>>

\* afterRecordExecuteFailure; a failed statement aborts its transaction.
WriteFails ==
  /\ pc = "upload" /\ todo = {}
  /\ \E kept \in SUBSET Files : AfterError(rec, rec.unsaved, kept, {})
  /\ tx' = IF tx = "open" THEN "aborted" ELSE tx
  /\ UNCHANGED <<db, view, reports, gone, sweeping>>

RememberLast(r) ==  \* mutant: uploaded is replaced and not appended to
  [r EXCEPT !.names = @ \cup r.unsaved, !.unsaved = {}, !.isNew = FALSE,
            !.uploaded = r.unsaved, !.toDelete = @ \cup (old \ r.names),
            !.created = InTx /\ (@ \/ r.isNew)]

\* rememberFilesToDelete and afterRecordExecuteSuccess
Remember(r) == [r EXCEPT !.names = @ \cup r.unsaved, !.unsaved = {}, !.isNew = FALSE,
                         !.uploaded = @ \cup r.unsaved,
                         !.toDelete = @ \cup (old \ r.names),
                         !.created = InTx /\ (@ \/ r.isNew)]

\* A row that is there already is not inserted; an update of a row that is gone
\* affects no row, which is not an error.
RowIsWritten == rec.isNew \/ view.exists

Write ==
  /\ pc = "upload" /\ todo = {} /\ (rec.isNew => ~view.exists)
  /\ view' = IF RowIsWritten THEN [exists |-> TRUE, files |-> rec.names \cup rec.unsaved]
             ELSE view
  /\ mishap' = (mishap \/ ~RowIsWritten)
  /\ rec' = Remember(rec)
  /\ IF InTx THEN /\ pc' = "idle" /\ old' = {} /\ reports' = reports + 1
                  /\ UNCHANGED db
     ELSE /\ pc' = "after" /\ db' = view' /\ UNCHANGED <<old, reports>>
  /\ UNCHANGED <<stored, todo, tx, gone, sweeping>>

\* processFilesToDelete: what failed to be deleted stays on the list.
ProcessFilesToDelete ==
  \E kept \in SUBSET Files :
    /\ DeleteFiles(rec.toDelete \ rec.names, kept)
    /\ rec' = [rec EXCEPT !.uploaded = {}, !.toDelete = kept, !.created = FALSE]

AfterSuccess ==
  /\ pc = "after"
  /\ ProcessFilesToDelete
  /\ pc' = "idle" /\ old' = {}
  /\ UNCHANGED <<db, view, todo, tx, reports, gone, sweeping>>

-----------------------------------------------------------------------------
(* Transactions, whose saves are reported when they have ended. *)

BeginTx ==
  /\ Idle /\ tx = "none" /\ tx' = "open"
  /\ UNCHANGED <<db, view, stored, rec, pc, todo, old, reports, gone, sweeping, mishap>>

EndTx(committed) ==
  /\ pc = "idle" /\ InTx
  /\ IF committed THEN tx = "open" /\ db' = view /\ UNCHANGED view
     ELSE view' = db /\ UNCHANGED db
  /\ tx' = IF reports = 0 THEN "none" ELSE IF committed THEN "committed" ELSE "rolledBack"
  /\ UNCHANGED <<stored, rec, pc, todo, old, reports, gone, sweeping, mishap>>

Reported ==
  /\ reports' = reports - 1
  /\ tx' = IF reports = 1 THEN "none" ELSE tx
  /\ gone' = (gone /\ reports # 1)

\* Of the reports the one of a delete comes last.
SaveReported == reports > (IF gone THEN 1 ELSE 0)

ReportCommitted ==
  /\ tx = "committed" /\ SaveReported
  /\ ProcessFilesToDelete
  /\ Reported
  /\ UNCHANGED <<db, view, pc, todo, old, sweeping>>

\* deleteNewlyUploadedFiles, now outside the transaction; MarkAsNew for a create.
ReportRolledBack ==
  /\ tx = "rolledBack" /\ SaveReported
  /\ \E kept \in SUBSET Files :
       /\ DeleteFiles(rec.uploaded, kept)
       /\ rec' = [rec EXCEPT !.uploaded = IF kept = {} THEN {} ELSE @, !.toDelete = {},
                             !.isNew = @ \/ rec.created, !.created = FALSE]
  /\ Reported
  /\ UNCHANGED <<db, view, pc, todo, old, sweeping>>

-----------------------------------------------------------------------------
(* The end of the record, and of the process. *)

\* The row may be gone already, which is not an error either.
Delete ==
  /\ Idle /\ ~rec.isNew
  /\ view' = NoRow
  /\ IF InTx THEN gone' = TRUE /\ reports' = reports + 1 /\ UNCHANGED <<db, sweeping>>
     ELSE db' = NoRow /\ sweeping' = TRUE /\ UNCHANGED <<gone, reports>>
  /\ UNCHANGED <<stored, rec, pc, todo, old, tx, mishap>>

ReportDelete ==
  /\ tx \in {"committed", "rolledBack"} /\ gone /\ reports = 1
  /\ sweeping' = (sweeping \/ tx = "committed")
  /\ Reported
  /\ UNCHANGED <<db, view, stored, rec, pc, todo, old, mishap>>

\* __pbFilesManagerDelete__ removes the directory in the background.
Sweep ==
  /\ sweeping /\ sweeping' = FALSE
  /\ \E kept \in SUBSET Files : DeleteFiles(stored, kept)
  /\ UNCHANGED <<db, view, rec, pc, todo, old, tx, reports, gone>>

\* Another request goes on, with the record as it loaded it some time ago or with a
\* new one of the same id.
Load ==
  /\ Idle /\ tx = "none"
  /\ \E row \in Rows : (row.exists \/ row = NoRow) /\ rec' = Loaded(row)
  /\ UNCHANGED <<db, view, stored, pc, todo, old, tx, reports, gone, sweeping, mishap>>

Crash ==
  /\ view' = db /\ rec' = Loaded(db) /\ pc' = "idle" /\ todo' = {} /\ old' = {}
  /\ tx' = "none" /\ reports' = 0 /\ gone' = FALSE /\ sweeping' = FALSE /\ mishap' = TRUE
  /\ UNCHANGED <<db, stored>>

-----------------------------------------------------------------------------
Next ==
  \/ \E keep \in SUBSET rec.names, add \in SUBSET {f \in Files : NewName(f)} :
       Save(keep, add) \/ Invalid(keep, add)
  \/ \E f \in Files : Upload(f)
  \/ UploadFails \/ WriteFails \/ Write \/ AfterSuccess
  \/ BeginTx \/ (\E c \in BOOLEAN : EndTx(c)) \/ ReportCommitted \/ ReportRolledBack
  \/ Delete \/ ReportDelete \/ Sweep \/ Load \/ Crash

Spec == Init /\ [][Next]_vars

-----------------------------------------------------------------------------
\* The type invariant; a view of its own exists in a transaction only.
TypeOK ==
  /\ db \in Rows /\ view \in Rows /\ stored \subseteq Files /\ rec \in Records
  /\ pc \in {"idle", "upload", "after"} /\ todo \subseteq Files /\ old \subseteq Files
  /\ tx \in {"none", "open", "aborted", "committed", "rolledBack"} /\ reports \in Nat
  /\ gone \in BOOLEAN /\ sweeping \in BOOLEAN /\ mishap \in BOOLEAN
  /\ ~InTx => view = db

\* field_file.go:352-399: every file that the committed row names is stored, and
\* so is every file the transaction's view names, through failed uploads, writes,
\* commits and deletions, crashes, and saves repeated after any of these.
NoDangling == db.files \cup view.files \subseteq stored

\* When all is done and nothing is left by a mishap, nothing is stored that no row
\* names: each way a save can fail removes exactly what it has uploaded.
NoLeftovers ==
  pc = "idle" /\ tx = "none" /\ ~sweeping /\ ~mishap => stored \subseteq db.files

=============================================================================
