------------------------- MODULE RecordFilesProofs -------------------------
(***************************************************************************)
(* Proof that a record names no file that is not stored, for any set of    *)
(* file names and any number of saves in a transaction.                    *)
(***************************************************************************)
EXTENDS RecordFiles, TLAPS

\* What the record object will delete is not named: by the view while its saves
\* may still be committed, by the committed row when no save of it is pending.
MarkedAreReplaced ==
  /\ tx # "rolledBack" => rec.toDelete \cap view.files = {}
  /\ ~SaveReported => rec.toDelete \cap db.files = {}

\* What a rollback will delete is not in the row that stays.
UploadedAreNew ==
  pc # "after" /\ tx # "committed" => rec.uploaded \cap db.files = {}

\* A save in progress adds names of its own and, if it will find what it expects,
\* keeps names of the row.
SaveInProgress ==
  pc = "upload" =>
    /\ tx \in {"none", "open"} /\ ~gone
    /\ rec.isNew => ~sweeping
    /\ rec.unsaved \cap (db.files \cup view.files \cup rec.toDelete \cup rec.uploaded) = {}
    /\ (rec.isNew <=> ~view.exists) =>
         /\ rec.names \subseteq view.files /\ old \subseteq view.files
         /\ rec.unsaved \ todo \subseteq stored

\* A row that does not exist names nothing, and so does the original of a new record.
Blanks ==
  /\ ~db.exists => db.files = {}
  /\ ~view.exists => view.files = {}
  /\ rec.isNew \/ rec.created => rec.original = {}

\* Where the record stands when its transaction or its life is over.
Phases ==
  /\ pc = "after" => tx = "none"
  /\ reports = 0 => view = db /\ ~gone
  /\ tx = "none" => reports = 0
  /\ gone /\ tx # "rolledBack" => view = NoRow
  /\ sweeping => db = NoRow /\ view = NoRow

\* The inductive invariant.
IInv ==
  /\ TypeOK /\ NoDangling
  /\ MarkedAreReplaced /\ UploadedAreNew /\ SaveInProgress /\ Phases /\ Blanks

-----------------------------------------------------------------------------
LEMMA LoadedType ==
  ASSUME NEW row \in Rows
  PROVE  /\ Loaded(row) \in Records
         /\ Loaded(row).toDelete = {} /\ Loaded(row).uploaded = {}
         /\ Loaded(row).names = row.files /\ Loaded(row).unsaved = {}
         /\ Loaded(row).original = row.files /\ Loaded(row).isNew = ~row.exists
         /\ ~Loaded(row).created
  BY DEF Loaded, Records, Rows

LEMMA NoRowType == NoRow \in Rows /\ NoRow.files = {} /\ ~NoRow.exists
  BY DEF NoRow, Rows

LEMMA InitIInv == Init => IInv
<1> SUFFICES ASSUME Init PROVE IInv
  OBVIOUS
<1>1. TypeOK
  BY LoadedType, NoRowType DEF Init, TypeOK, InTx
<1>2. NoDangling /\ SaveInProgress /\ Phases /\ Blanks
  BY NoRowType, LoadedType DEF Init, NoDangling, SaveInProgress, Phases, Blanks
<1>3. MarkedAreReplaced /\ UploadedAreNew
  BY LoadedType, NoRowType DEF Init, MarkedAreReplaced, UploadedAreNew
<1>4. QED BY <1>1, <1>2, <1>3 DEF IInv

-----------------------------------------------------------------------------
LEMMA AfterErrorKeeps ==
  ASSUME IInv, NEW r \in Records, NEW files \in SUBSET Files, NEW kept \in SUBSET Files,
         NEW torn \in SUBSET Files, AfterError(r, files, kept, torn), Idle \/ pc = "upload",
         r.toDelete = rec.toDelete, r.uploaded = rec.uploaded, r.original = rec.original,
         r.isNew = rec.isNew, r.created = rec.created,
         files \cap (db.files \cup view.files) = {},
         UNCHANGED <<db, view, reports, gone, sweeping>>,
         (tx' = tx) \/ (tx = "open" /\ tx' = "aborted")
  PROVE  IInv'
<1>1. TypeOK'
  BY DEF IInv, TypeOK, AfterError, CleanUp, InTx, Records, Phases
<1>2. tx \in {"none", "open"} /\ (tx = "none" => view = db)
  BY DEF IInv, Idle, SaveInProgress, TypeOK, InTx
<1>3. /\ InTx => rec'.toDelete = rec.toDelete /\ rec'.uploaded = rec.uploaded
      /\ ~InTx => rec'.toDelete = {} /\ rec'.uploaded \subseteq rec.uploaded
  BY DEF AfterError, Records
<1>4. NoDangling'
<2>1. ~InTx => rec.uploaded \cap db.files = {} /\ view = db
  BY <1>2 DEF IInv, UploadedAreNew, Idle, InTx
<2>2. CASE InTx
  BY <2>2 DEF IInv, NoDangling, AfterError, CleanUp
<2>3. CASE ~InTx
  BY <2>1, <2>3 DEF IInv, NoDangling, AfterError, CleanUp
<2>4. QED BY <2>2, <2>3
<1>5. MarkedAreReplaced'
  BY <1>2, <1>3 DEF IInv, MarkedAreReplaced, SaveReported, InTx
<1>6. UploadedAreNew'
  BY <1>2, <1>3 DEF IInv, UploadedAreNew, AfterError, Idle, InTx
<1>7. SaveInProgress' /\ Phases'
  BY <1>2 DEF IInv, SaveInProgress, Phases, AfterError, Idle
<1>8. Blanks'
<2>1. rec'.original = r.original /\ rec'.isNew = r.isNew /\ rec'.created = r.created
  BY DEF AfterError, Records
<2>2. QED BY <2>1 DEF IInv, Blanks
<1>9. QED BY <1>1, <1>4, <1>5, <1>6, <1>7, <1>8 DEF IInv

LEMMA InvalidKeeps ==
  ASSUME IInv, NEW keep \in SUBSET rec.names, NEW add \in SUBSET Files, Invalid(keep, add)
  PROVE  IInv'
<1> DEFINE r == [rec EXCEPT !.names = keep, !.unsaved = add]
<1>1. rec.names \subseteq Files /\ rec.uploaded \subseteq Files /\ rec \in Records
  BY DEF IInv, TypeOK, Records
<1>2. /\ r \in Records /\ r.toDelete = rec.toDelete /\ r.uploaded = rec.uploaded
      /\ r.original = rec.original /\ r.isNew = rec.isNew /\ r.created = rec.created
  BY <1>1 DEF Records
<1>3. PICK kept \in SUBSET rec.uploaded : AfterError(r, {}, kept, {})
  BY DEF Invalid
<1> HIDE DEF r
<1>4. Idle /\ UNCHANGED <<db, view, reports, gone, sweeping>> /\ tx' = tx
  BY DEF Invalid
<1>5. kept \in SUBSET Files /\ {} \in SUBSET Files /\ {} \cap (db.files \cup view.files) = {}
  BY <1>1
<1>6. QED BY <1>2, <1>3, <1>4, <1>5, AfterErrorKeeps

LEMMA SaveFails ==
  ASSUME IInv, UploadFails \/ WriteFails
  PROVE  IInv'
<1>1. pc = "upload" /\ rec \in Records /\ rec.unsaved \subseteq Files
  BY DEF UploadFails, WriteFails, IInv, TypeOK, Records
<1>2. rec.unsaved \cap (db.files \cup view.files) = {}
  BY <1>1 DEF IInv, SaveInProgress
<1>3. PICK kept \in SUBSET Files, files \in SUBSET rec.unsaved, torn \in SUBSET Files :
        AfterError(rec, files, kept, torn)
<2>1. CASE UploadFails
  BY <1>1, <2>1 DEF UploadFails, IInv, TypeOK
<2>2. CASE WriteFails
  BY <1>1, <2>2 DEF WriteFails
<2>3. QED BY <2>1, <2>2
<1>4. /\ UNCHANGED <<db, view, reports, gone, sweeping>>
      /\ tx' = tx \/ (tx = "open" /\ tx' = "aborted")
<2>1. CASE UploadFails
  BY <2>1 DEF UploadFails
<2>2. CASE WriteFails
  BY <2>2 DEF WriteFails
<2>3. QED BY <2>1, <2>2
<1>5. files \in SUBSET Files /\ files \cap (db.files \cup view.files) = {}
  BY <1>1, <1>2
<1>6. QED BY <1>1, <1>3, <1>4, <1>5, AfterErrorKeeps

LEMMA SaveKeeps ==
  ASSUME IInv, NEW keep \in SUBSET rec.names,
         NEW add \in SUBSET {f \in Files : NewName(f)}, Save(keep, add)
  PROVE  IInv'
<1>1. rec.names \subseteq Files /\ rec \in Records /\ view.files \subseteq Files
  BY DEF IInv, TypeOK, Records, Rows
<1>2. /\ rec' \in Records /\ rec'.names = keep /\ rec'.unsaved = add
      /\ rec'.toDelete = rec.toDelete /\ rec'.uploaded = rec.uploaded
      /\ rec'.original = rec.original /\ rec'.isNew = rec.isNew /\ rec'.created = rec.created
  BY <1>1 DEF Save, Records
<1>3. /\ (rec.isNew <=> ~view.exists) => keep \subseteq view.files /\ old' \subseteq view.files
      /\ old' \subseteq Files
  BY <1>1 DEF Save, LatestOldValue, IInv, Blanks, TypeOK, Records
<1>4. add \cap (db.files \cup view.files \cup rec.toDelete \cup rec.uploaded) = {}
  BY DEF NewName
<1>5. TypeOK'
  BY <1>1, <1>2, <1>3 DEF IInv, TypeOK, Save, InTx
<1>6. NoDangling' /\ Phases' /\ Blanks'
  BY <1>2 DEF IInv, NoDangling, Phases, Blanks, Save
<1>7. MarkedAreReplaced' /\ UploadedAreNew'
  BY <1>2 DEF IInv, MarkedAreReplaced, UploadedAreNew, SaveReported, Save, Idle
<1>8. SaveInProgress'
  BY <1>2, <1>3, <1>4 DEF SaveInProgress, Save, Idle
<1>9. QED BY <1>5, <1>6, <1>7, <1>8 DEF IInv

LEMMA UploadKeeps ==
  ASSUME IInv, NEW f \in Files, Upload(f)
  PROVE  IInv'
<1>1. TypeOK' /\ NoDangling' /\ Phases' /\ UploadedAreNew' /\ SaveInProgress' /\ Blanks'
  BY DEF IInv, TypeOK, NoDangling, Phases, UploadedAreNew, SaveInProgress, Blanks, Upload, InTx
<1>2. MarkedAreReplaced'
  BY DEF IInv, MarkedAreReplaced, SaveReported, Upload
<1>3. QED BY <1>1, <1>2 DEF IInv

LEMMA WriteKeeps ==
  ASSUME IInv, Write
  PROVE  IInv'
<1> DEFINE names == rec.names \cup rec.unsaved
<1>1. /\ rec \in Records /\ rec.names \subseteq Files /\ rec.unsaved \subseteq Files
      /\ rec.uploaded \subseteq Files /\ rec.toDelete \subseteq Files /\ old \subseteq Files
      /\ rec.original \subseteq Files
  BY DEF IInv, TypeOK, Records
<1>2. /\ rec' \in Records /\ rec'.toDelete = rec.toDelete \cup (old \ rec.names)
      /\ rec'.uploaded = rec.uploaded \cup rec.unsaved /\ rec'.original = rec.original
      /\ ~rec'.isNew /\ (rec'.created => rec.created \/ rec.isNew)
  BY <1>1 DEF Write, Remember, Records, InTx
<1>3. /\ view' \in Rows /\ (view'.exists => view'.files = names \/ view' = view)
      /\ RowIsWritten => view'.files = names /\ view'.exists
      /\ ~RowIsWritten => view' = view /\ ~view.exists
  BY <1>1 DEF Write, RowIsWritten, Rows, IInv, TypeOK
<1>4. /\ tx \in {"none", "open"} /\ ~gone
      /\ rec.unsaved \cap (db.files \cup view.files \cup rec.toDelete \cup rec.uploaded) = {}
      /\ rec.toDelete \cap view.files = {} /\ rec.uploaded \cap db.files = {}
      /\ reports \in Nat /\ pc = "upload" /\ db.files \subseteq stored
      /\ view.files \subseteq stored
  BY DEF IInv, SaveInProgress, NoDangling, MarkedAreReplaced, UploadedAreNew, Write, TypeOK
<1>5. RowIsWritten => /\ ~sweeping /\ names \subseteq stored
                      /\ rec.names \subseteq view.files /\ old \subseteq view.files
  <2> SUFFICES ASSUME RowIsWritten
               PROVE  /\ ~sweeping /\ names \subseteq stored
                      /\ rec.names \subseteq view.files /\ old \subseteq view.files
    OBVIOUS
  <2>1. rec.isNew <=> ~view.exists
    BY DEF RowIsWritten, Write
  <2>2. ~sweeping
    BY <1>4, <2>1, NoRowType DEF IInv, SaveInProgress, Phases
  <2>3. todo = {} /\ view.files \subseteq stored
    BY DEF Write, IInv, NoDangling
  <2>4. QED BY <1>4, <2>1, <2>2, <2>3 DEF IInv, SaveInProgress
<1> HIDE DEF names
<1>6. /\ tx' = tx /\ gone' = gone /\ sweeping' = sweeping /\ stored' = stored
      /\ InTx => pc' = "idle" /\ old' = {} /\ reports' = reports + 1 /\ db' = db
      /\ ~InTx => pc' = "after" /\ db' = view' /\ old' = old /\ reports' = reports
  BY DEF Write
<1>7. TypeOK'
<2>1. todo' = todo /\ mishap' \in BOOLEAN
  BY DEF Write, IInv, TypeOK
<2>2. /\ db' \in Rows /\ old' \in SUBSET Files /\ reports' \in Nat
      /\ pc' \in {"idle", "after"} /\ (~InTx => view' = db')
  BY <1>1, <1>3, <1>4, <1>6 DEF IInv, TypeOK
<2>3. QED BY <1>2, <1>3, <1>6, <2>1, <2>2 DEF IInv, TypeOK, InTx
<1>8. Blanks' /\ (~RowIsWritten => view.files = {})
  BY <1>2, <1>3, <1>6 DEF IInv, Blanks
<1>9. NoDangling'
  BY <1>3, <1>4, <1>5, <1>6 DEF NoDangling
<1>10. RowIsWritten => rec'.toDelete \cap names = {}
  BY <1>2, <1>4, <1>5 DEF names
<1>11. rec'.toDelete \cap view'.files = {}
  BY <1>3, <1>8, <1>10
<1>12. MarkedAreReplaced'
  BY <1>4, <1>6, <1>11 DEF MarkedAreReplaced, SaveReported, InTx
<1>13. UploadedAreNew' /\ SaveInProgress'
  BY <1>2, <1>4, <1>6 DEF UploadedAreNew, SaveInProgress, InTx
<1>14. Phases'
  BY <1>3, <1>4, <1>5, <1>6 DEF IInv, Phases, InTx
<1>15. QED BY <1>7, <1>8, <1>9, <1>12, <1>13, <1>14 DEF IInv

LEMMA CleanupKeeps ==
  ASSUME IInv, pc # "upload", ProcessFilesToDelete, AfterSuccess \/ ReportCommitted
  PROVE  IInv'
<1>1. PICK kept \in SUBSET Files :
        /\ DeleteFiles(rec.toDelete \ rec.names, kept)
        /\ rec' = [rec EXCEPT !.uploaded = {}, !.toDelete = kept, !.created = FALSE]
  BY DEF ProcessFilesToDelete
<1>2. kept \subseteq rec.toDelete /\ rec \in Records
  BY <1>1 DEF DeleteFiles, CleanUp, IInv, TypeOK
<1>3. /\ rec' \in Records /\ rec'.uploaded = {} /\ rec'.toDelete = kept /\ ~rec'.created
      /\ rec'.original = rec.original /\ rec'.isNew = rec.isNew
  BY <1>1, <1>2 DEF Records
<1>4. /\ view = db /\ rec.toDelete \cap view.files = {}
      /\ tx \in {"none", "committed"} /\ pc' = "idle"
  BY DEF IInv, TypeOK, InTx, Phases, MarkedAreReplaced, AfterSuccess, ReportCommitted, SaveReported
<1>5. /\ UNCHANGED <<db, view, sweeping, todo>>
      /\ tx' \in {"none", "committed"} /\ reports' \in Nat /\ gone' \in BOOLEAN
      /\ tx' = "none" => reports' = 0
      /\ reports' = 0 => ~gone' 
      /\ gone' => gone
      /\ old' \subseteq Files
  BY DEF AfterSuccess, ReportCommitted, Reported, SaveReported, IInv, TypeOK, Phases
<1>6. TypeOK'
  BY <1>1, <1>3, <1>4, <1>5 DEF IInv, TypeOK, DeleteFiles, CleanUp, InTx
<1>7. NoDangling'
  BY <1>1, <1>4, <1>5 DEF IInv, NoDangling, DeleteFiles, CleanUp
<1>8. MarkedAreReplaced' /\ UploadedAreNew' /\ SaveInProgress'
  BY <1>2, <1>3, <1>4, <1>5 DEF MarkedAreReplaced, UploadedAreNew, SaveInProgress
<1>9. Phases' /\ Blanks'
  BY <1>3, <1>4, <1>5 DEF IInv, Phases, Blanks
<1>10. QED BY <1>6, <1>7, <1>8, <1>9 DEF IInv

LEMMA EndTxKeeps ==
  ASSUME IInv, NEW c \in BOOLEAN, EndTx(c)
  PROVE  IInv'
<1>1. /\ pc' = "idle" /\ pc = "idle" /\ InTx /\ reports \in Nat
      /\ UNCHANGED <<stored, rec, todo, old, reports, gone, sweeping, mishap>>
  BY DEF EndTx, IInv, TypeOK
<1>2. /\ view' = db' /\ db' \in {db, view}
      /\ tx' \in {"none", "committed", "rolledBack"}
      /\ tx' = "none" <=> reports = 0
      /\ tx' = "committed" => db' = view /\ tx = "open"
      /\ tx' = "rolledBack" => db' = db
      /\ reports = 0 => db' = db
  BY DEF EndTx, IInv, Phases
<1>3. TypeOK'
  BY <1>1, <1>2 DEF IInv, TypeOK, InTx
<1>4. NoDangling' /\ SaveInProgress' /\ UploadedAreNew'
  BY <1>1, <1>2 DEF IInv, NoDangling, SaveInProgress, UploadedAreNew, InTx
<1>5. Phases' /\ Blanks'
  BY <1>1, <1>2 DEF IInv, Phases, Blanks, InTx, EndTx
<1>6. MarkedAreReplaced'
<2>1. rec.toDelete \cap view.files = {}
  BY <1>1 DEF IInv, MarkedAreReplaced, InTx
<2>2. ~SaveReported => rec.toDelete \cap db.files = {}
  BY DEF IInv, MarkedAreReplaced
<2>3. SaveReported' = SaveReported /\ (reports = 0 => ~SaveReported)
  BY <1>1 DEF SaveReported
<2>4. QED BY <1>1, <1>2, <2>1, <2>2, <2>3 DEF MarkedAreReplaced
<1>7. QED BY <1>3, <1>4, <1>5, <1>6 DEF IInv

LEMMA RolledBackKeeps ==
  ASSUME IInv, ReportRolledBack
  PROVE  IInv'
<1>1. PICK kept \in SUBSET Files :
        /\ DeleteFiles(rec.uploaded, kept)
        /\ rec' = [rec EXCEPT !.uploaded = IF kept = {} THEN {} ELSE @, !.toDelete = {},
                              !.isNew = @ \/ rec.created, !.created = FALSE]
  BY DEF ReportRolledBack
<1>2. rec \in Records /\ db \in Rows /\ tx = "rolledBack" /\ view = db /\ pc # "after"
  BY DEF IInv, TypeOK, InTx, ReportRolledBack, Phases
<1>3. /\ rec' \in Records /\ rec'.toDelete = {} /\ rec'.uploaded \subseteq rec.uploaded
      /\ rec'.original = rec.original /\ ~rec'.created
      /\ rec'.isNew => rec.isNew \/ rec.created
  BY <1>1, <1>2 DEF Records, Rows
<1>4. rec.uploaded \cap db.files = {}
  BY <1>2 DEF IInv, UploadedAreNew
<1>5. /\ UNCHANGED <<db, view, pc, todo, old, sweeping>>
      /\ tx' \in {"none", "rolledBack"} /\ reports' \in Nat /\ gone' \in BOOLEAN
      /\ tx' = "none" => reports' = 0
      /\ reports' = 0 => ~gone'
  BY DEF ReportRolledBack, Reported, SaveReported, IInv, TypeOK
<1>6. TypeOK'
  BY <1>1, <1>2, <1>3, <1>5 DEF IInv, TypeOK, DeleteFiles, CleanUp, InTx
<1>7. NoDangling'
  BY <1>1, <1>2, <1>4, <1>5 DEF IInv, NoDangling, DeleteFiles, CleanUp
<1>8. MarkedAreReplaced' /\ UploadedAreNew'
  BY <1>2, <1>3, <1>4, <1>5 DEF MarkedAreReplaced, UploadedAreNew
<1>9. SaveInProgress'
  BY <1>2, <1>5 DEF IInv, SaveInProgress
<1>10. Phases' /\ Blanks'
  BY <1>2, <1>3, <1>5 DEF IInv, Phases, Blanks, ReportRolledBack, Reported
<1>11. QED BY <1>6, <1>7, <1>8, <1>9, <1>10 DEF IInv

LEMMA DeleteKeeps ==
  ASSUME IInv, Delete
  PROVE  IInv'
<1>1. /\ pc = "idle" /\ pc' = "idle" /\ ~gone /\ view' = NoRow
      /\ tx \in {"none", "open"} /\ tx' = tx /\ reports \in Nat
      /\ UNCHANGED <<stored, rec, todo, old, mishap>>
  BY DEF Delete, Idle, IInv, TypeOK
<1>2. rec.toDelete \cap view.files = {} /\ rec.uploaded \cap db.files = {}
  BY <1>1 DEF IInv, MarkedAreReplaced, UploadedAreNew
<1>3. CASE InTx
<2>1. gone' = TRUE /\ reports' = reports + 1 /\ UNCHANGED <<db, sweeping>>
  BY <1>3 DEF Delete
<2>2. TypeOK' /\ NoDangling' /\ Phases' /\ SaveInProgress' /\ UploadedAreNew' /\ Blanks'
  BY <1>1, <1>2, <1>3, <2>1, NoRowType
     DEF IInv, TypeOK, NoDangling, Phases, SaveInProgress, UploadedAreNew, Blanks, InTx
<2>3. SaveReported' <=> SaveReported
  BY <1>1, <2>1 DEF SaveReported
<2>4. MarkedAreReplaced'
  BY <1>1, <2>1, <2>3, NoRowType DEF IInv, MarkedAreReplaced
<2>5. QED BY <2>2, <2>4 DEF IInv
<1>4. CASE ~InTx
<2>1. db' = NoRow /\ sweeping' = TRUE /\ UNCHANGED <<gone, reports>>
  BY <1>4 DEF Delete
<2>2. TypeOK' /\ NoDangling' /\ SaveInProgress' /\ Blanks'
  BY <1>1, <2>1, NoRowType DEF IInv, TypeOK, NoDangling, SaveInProgress, Blanks
<2>3. MarkedAreReplaced' /\ UploadedAreNew'
  BY <1>1, <2>1, NoRowType DEF MarkedAreReplaced, UploadedAreNew
<2>4. Phases'
  BY <1>1, <1>4, <2>1 DEF IInv, Phases, InTx
<2>5. QED BY <2>2, <2>3, <2>4 DEF IInv
<1>5. QED BY <1>3, <1>4

LEMMA ReportDeleteKeeps ==
  ASSUME IInv, ReportDelete
  PROVE  IInv'
<1>1. /\ tx \in {"committed", "rolledBack"} /\ gone /\ reports = 1
      /\ tx' = "none" /\ reports' = 0 /\ gone' \in BOOLEAN /\ ~gone' /\ view = db
      /\ UNCHANGED <<db, view, stored, pc, todo, old, mishap>> /\ pc = "idle"
<2>1. tx \in {"committed", "rolledBack"} /\ gone /\ reports = 1 /\ Reported
  BY DEF ReportDelete
<2>2. UNCHANGED <<db, view, stored, pc, todo, old, mishap>>
  BY DEF ReportDelete
<2>3. pc = "idle" /\ view = db
  BY <2>1 DEF IInv, TypeOK, InTx, Phases, SaveInProgress
<2>4. gone' \in BOOLEAN /\ ~gone'
  BY <2>1 DEF Reported
<2>5. tx' = "none" /\ reports' = 0
  BY <2>1 DEF Reported
<2>6. QED BY <2>1, <2>2, <2>3, <2>4, <2>5
<1>2. rec.toDelete \cap db.files = {} /\ rec' = rec
  BY <1>1 DEF IInv, MarkedAreReplaced, SaveReported, ReportDelete
<1>3. sweeping' \in BOOLEAN /\ (sweeping' => db = NoRow)
  BY <1>1 DEF IInv, Phases, ReportDelete, TypeOK
<1>4. TypeOK' /\ NoDangling' /\ SaveInProgress' /\ Blanks'
  BY <1>1, <1>2, <1>3 DEF IInv, TypeOK, NoDangling, SaveInProgress, Blanks, InTx
<1>5. MarkedAreReplaced' /\ Phases'
  BY <1>1, <1>2, <1>3 DEF MarkedAreReplaced, Phases
<1>6. rec.uploaded \cap db.files = {}
  BY <1>1, NoRowType DEF IInv, UploadedAreNew, Phases
<1>7. UploadedAreNew'
  BY <1>1, <1>2, <1>6 DEF UploadedAreNew
<1>8. QED BY <1>4, <1>5, <1>7 DEF IInv

LEMMA SweepKeeps ==
  ASSUME IInv, Sweep
  PROVE  IInv'
<1>1. TypeOK' /\ UploadedAreNew' /\ Phases' /\ Blanks'
  BY DEF IInv, TypeOK, UploadedAreNew, Phases, Blanks, Sweep, DeleteFiles, CleanUp, InTx
<1>2. NoDangling' /\ SaveInProgress'
  BY NoRowType DEF IInv, NoDangling, Phases, SaveInProgress, Sweep, DeleteFiles, CleanUp
<1>3. MarkedAreReplaced'
  BY DEF IInv, MarkedAreReplaced, SaveReported, Sweep
<1>4. QED BY <1>1, <1>2, <1>3 DEF IInv

LEMMA LoadKeeps ==
  ASSUME IInv, Load
  PROVE  IInv'
<1>1. /\ rec' \in Records /\ rec'.toDelete = {} /\ rec'.uploaded = {}
      /\ rec'.isNew \/ rec'.created => rec'.original = {}
  BY LoadedType, NoRowType DEF Load
<1>2. TypeOK' /\ NoDangling' /\ Phases' /\ Blanks'
  BY <1>1 DEF IInv, TypeOK, NoDangling, Phases, Blanks, Load, InTx
<1>3. MarkedAreReplaced' /\ UploadedAreNew' /\ SaveInProgress'
  BY <1>1 DEF MarkedAreReplaced, UploadedAreNew, SaveInProgress, Load, Idle
<1>4. QED BY <1>2, <1>3 DEF IInv

LEMMA CrashKeeps ==
  ASSUME IInv, Crash
  PROVE  IInv'
<1>1. /\ rec' \in Records /\ rec'.toDelete = {} /\ rec'.uploaded = {}
      /\ rec'.isNew \/ rec'.created => rec'.original = {}
  BY LoadedType DEF Crash, IInv, TypeOK, Blanks
<1>2. TypeOK' /\ NoDangling' /\ Phases' /\ Blanks'
  BY <1>1 DEF IInv, TypeOK, NoDangling, Phases, Blanks, Crash, InTx
<1>3. MarkedAreReplaced' /\ UploadedAreNew' /\ SaveInProgress'
  BY <1>1 DEF MarkedAreReplaced, UploadedAreNew, SaveInProgress, Crash
<1>4. QED BY <1>2, <1>3 DEF IInv

LEMMA BeginTxKeeps ==
  ASSUME IInv, BeginTx
  PROVE  IInv'
<1>1. TypeOK' /\ NoDangling' /\ Phases' /\ UploadedAreNew' /\ SaveInProgress' /\ Blanks'
  BY DEF IInv, TypeOK, NoDangling, Phases, UploadedAreNew, SaveInProgress, Blanks, BeginTx, Idle, InTx
<1>2. MarkedAreReplaced'
  BY DEF IInv, MarkedAreReplaced, SaveReported, BeginTx
<1>3. QED BY <1>1, <1>2 DEF IInv

LEMMA StutterKeeps == IInv /\ UNCHANGED vars => IInv'
  BY DEF IInv, TypeOK, NoDangling, MarkedAreReplaced, UploadedAreNew, SaveInProgress, Phases,
         Blanks, SaveReported, InTx, vars

LEMMA NextKeeps ==
  ASSUME IInv, Next
  PROVE  IInv'
<1>1. rec.names \subseteq Files
  BY DEF IInv, TypeOK, Records
<1>2. ASSUME NEW keep \in SUBSET rec.names, NEW add \in SUBSET {f \in Files : NewName(f)},
             Save(keep, add) \/ Invalid(keep, add)
      PROVE  IInv'
  BY <1>2, SaveKeeps, InvalidKeeps
<1>3. AfterSuccess \/ ReportCommitted => IInv'
<2>1. AfterSuccess \/ ReportCommitted => ProcessFilesToDelete /\ pc # "upload"
  BY DEF AfterSuccess, ReportCommitted, IInv, SaveInProgress
<2>2. QED BY <2>1, CleanupKeeps
<1>4. QED
  BY <1>2, <1>3, UploadKeeps, SaveFails, WriteKeeps, BeginTxKeeps, EndTxKeeps, RolledBackKeeps,
     DeleteKeeps, ReportDeleteKeeps, SweepKeeps, LoadKeeps, CrashKeeps
  DEF Next

\* The invariant is inductive.
THEOREM Inductive == Spec => []IInv
  BY InitIInv, NextKeeps, StutterKeeps, PTL DEF Spec

\* The types, and that a transaction's view differs from the row only while it is open.
THEOREM TypeCorrect == Spec => []TypeOK
  BY Inductive, PTL DEF IInv

\* A row never names a file that is not stored.
THEOREM FilesAreStored == Spec => []NoDangling
  BY Inductive, PTL DEF IInv

-----------------------------------------------------------------------------
(***************************************************************************)
(* Nothing else is stored.  As long as no deletion fails, every stored     *)
(* file is named by a row or on one of the lists the record carries, and   *)
(* the lists are empty when no save is left to be reported.                *)
(***************************************************************************)

\* What the save in progress has uploaded.
Fresh == IF pc = "upload" THEN rec.unsaved \ todo ELSE {}

\* What the lists and the values of a save are made of.
ListsMatch ==
  /\ rec.names \cap rec.toDelete = {}
  /\ pc = "upload" =>
       old = LatestOldValue /\ todo \subseteq rec.unsaved /\ rec.unsaved \cap old = {}

ListsAreUsed == pc # "after" /\ ~SaveReported => rec.uploaded = {} /\ rec.toDelete = {}

\* A rollback will delete what the row does not name, and a commit what the view
\* does not name.
RollbackCleans ==
  ~sweeping /\ pc # "after" /\ tx # "committed" => stored \subseteq db.files \cup rec.uploaded \cup Fresh
CommitCleans ==
  ~sweeping /\ ~gone /\ tx # "rolledBack" => stored \subseteq view.files \cup rec.toDelete \cup Fresh

Accounted == ListsAreUsed /\ RollbackCleans /\ CommitCleans

LInv == ListsMatch /\ (~mishap => Accounted)

LEMMA InitLInv == Init => LInv
  BY LoadedType, NoRowType
  DEF Init, LInv, ListsMatch, Accounted, ListsAreUsed, RollbackCleans, CommitCleans

\* Deletions of which none fails.
LEMMA NothingKept ==
  ASSUME NEW names, NEW kept, NEW torn, CleanUp(names, kept, torn), ~mishap'
  PROVE  ~mishap /\ kept = {} /\ stored' = stored \ names
<1>1. ~mishap /\ kept = {} /\ torn = {}
  BY Zenon DEF CleanUp
<1>2. QED BY <1>1 DEF CleanUp

\* A save that fails takes back what it has uploaded, and the lists with it outside
\* a transaction.
LEMMA AfterErrorCleans ==
  ASSUME IInv, LInv, NEW r \in Records, NEW files, NEW kept, NEW torn,
         AfterError(r, files, kept, torn), Idle \/ pc = "upload", Fresh \subseteq files,
         r.toDelete = rec.toDelete, r.uploaded = rec.uploaded, r.names \subseteq rec.names,
         UNCHANGED <<db, view, reports, gone, sweeping>>,
         (tx' = tx) \/ (tx = "open" /\ tx' = "aborted")
  PROVE  LInv'
<1>1. /\ tx \in {"none", "open"} /\ pc # "after" /\ pc' = "idle" /\ (tx = "none" => view = db)
      /\ CleanUp(IF InTx THEN files ELSE files \cup r.uploaded, kept, torn)
  BY DEF IInv, Idle, SaveInProgress, TypeOK, InTx, AfterError
<1>2. /\ rec'.names = r.names
      /\ InTx => rec'.toDelete = rec.toDelete /\ rec'.uploaded = rec.uploaded
      /\ ~InTx => rec'.toDelete = {} /\ (kept = {} => rec'.uploaded = {})
  BY DEF AfterError, Records
<1>3. ListsMatch'
  BY <1>1, <1>2 DEF LInv, ListsMatch
<1>4. ASSUME ~mishap' PROVE Accounted'
  <2>1. ~mishap /\ kept = {} /\ stored' = stored \ (IF InTx THEN files ELSE files \cup r.uploaded)
    BY <1>1, <1>4, NothingKept
  <2>2. ListsAreUsed /\ RollbackCleans /\ CommitCleans
    BY <2>1 DEF LInv, Accounted
  <2>3. ListsAreUsed' /\ Fresh' = {}
    BY <1>1, <1>2, <2>1, <2>2 DEF ListsAreUsed, SaveReported, InTx, Fresh
  <2>4. CASE InTx
    <3>1. tx = "open" /\ tx' # "committed" /\ tx' # "rolledBack"
      BY <1>1, <2>4 DEF InTx
    <3>2. QED BY <1>1, <1>2, <2>1, <2>2, <2>3, <2>4, <3>1 DEF Accounted, RollbackCleans, CommitCleans
  <2>5. CASE ~InTx
    <3>1. tx = "none" /\ tx' = "none" /\ db = view
      BY <1>1, <2>5 DEF InTx
    <3>2. rec'.uploaded = {} /\ rec'.toDelete = {}
      BY <1>2, <2>1, <2>5
    <3>3. ~sweeping => stored' \subseteq db.files
      BY <1>1, <2>1, <2>2, <2>5, <3>1 DEF RollbackCleans
    <3>4. QED BY <2>3, <3>1, <3>2, <3>3 DEF Accounted, RollbackCleans, CommitCleans
  <2>6. QED BY <2>4, <2>5
<1>5. QED BY <1>3, <1>4 DEF LInv

LEMMA InvalidCleans ==
  ASSUME IInv, LInv, NEW keep \in SUBSET rec.names, NEW add \in SUBSET Files, Invalid(keep, add)
  PROVE  LInv'
<1> DEFINE r == [rec EXCEPT !.names = keep, !.unsaved = add]
<1>1. rec.names \subseteq Files /\ rec \in Records
  BY DEF IInv, TypeOK, Records
<1>2. r \in Records /\ r.toDelete = rec.toDelete /\ r.uploaded = rec.uploaded /\ r.names = keep
  BY <1>1 DEF Records
<1>3. PICK kept \in SUBSET rec.uploaded : AfterError(r, {}, kept, {})
  BY DEF Invalid
<1> HIDE DEF r
<1>4. Idle /\ UNCHANGED <<db, view, reports, gone, sweeping>> /\ tx' = tx /\ Fresh = {}
  BY DEF Invalid, Idle, Fresh
<1>5. QED BY <1>2, <1>3, <1>4, AfterErrorCleans

LEMMA SaveFailsCleans ==
  ASSUME IInv, LInv, UploadFails \/ WriteFails
  PROVE  LInv'
<1>1. pc = "upload" /\ rec \in Records
  BY DEF UploadFails, WriteFails, IInv, TypeOK
<1>2. PICK kept \in SUBSET Files, files \in SUBSET rec.unsaved,
            torn \in SUBSET Files : AfterError(rec, files, kept, torn) /\ Fresh \subseteq files
<2>1. CASE UploadFails
<3>1. PICK f \in todo, kept \in SUBSET Files : \E torn \in {{}, {f}} :
        AfterError(rec, rec.unsaved \ todo, kept, torn)
  BY <2>1 DEF UploadFails
<3>2. {} \in SUBSET Files /\ {f} \in SUBSET Files
  BY <3>1 DEF IInv, TypeOK
<3>3. \E torn \in SUBSET Files : AfterError(rec, rec.unsaved \ todo, kept, torn)
  BY <3>1, <3>2
<3>4. rec.unsaved \ todo \in SUBSET rec.unsaved /\ Fresh = rec.unsaved \ todo
  BY <1>1 DEF Fresh
<3>5. QED BY <3>3, <3>4
<2>2. CASE WriteFails
<3>1. PICK kept \in SUBSET Files : AfterError(rec, rec.unsaved, kept, {})
  BY <2>2 DEF WriteFails
<3>2. rec.unsaved \in SUBSET rec.unsaved /\ {} \in SUBSET Files /\ Fresh \subseteq rec.unsaved
  BY DEF Fresh
<3>3. QED BY <3>1, <3>2
<2>3. QED BY <2>1, <2>2
<1>3. /\ UNCHANGED <<db, view, reports, gone, sweeping>>
      /\ tx' = tx \/ (tx = "open" /\ tx' = "aborted")
<2>1. CASE UploadFails
  BY <2>1 DEF UploadFails
<2>2. CASE WriteFails
  BY <2>2 DEF WriteFails
<2>3. QED BY <2>1, <2>2
<1>4. QED BY <1>1, <1>2, <1>3, AfterErrorCleans

\* A save keeps names that are in the row, so none that is to be deleted.
LEMMA SaveCleans ==
  ASSUME IInv, LInv, NEW keep \in SUBSET rec.names,
         NEW add \in SUBSET {f \in Files : NewName(f)}, Save(keep, add)
  PROVE  LInv'
<1>1. /\ rec'.names = keep /\ rec'.unsaved = add
      /\ rec'.toDelete = rec.toDelete /\ rec'.uploaded = rec.uploaded
      /\ rec'.original = rec.original /\ rec'.isNew = rec.isNew
  BY DEF Save, IInv, TypeOK, Records
<1>2. /\ pc = "idle" /\ pc' = "upload" /\ todo' = add
      /\ UNCHANGED <<db, view, stored, tx, reports, gone, sweeping, mishap>>
  BY DEF Save, Idle
<1>3. /\ old' = LatestOldValue /\ LatestOldValue' = LatestOldValue
      /\ add \cap old' = {}
  BY <1>1, <1>2 DEF Save, LatestOldValue, NewName
<1>4. ListsMatch' /\ Fresh' = {} /\ Fresh = {}
  BY <1>1, <1>2, <1>3 DEF LInv, ListsMatch, Fresh
<1>5. Accounted => Accounted'
  BY <1>1, <1>2, <1>4 DEF Accounted, ListsAreUsed, SaveReported, RollbackCleans, CommitCleans
<1>6. QED BY <1>2, <1>4, <1>5 DEF LInv

LEMMA UploadCleans ==
  ASSUME IInv, LInv, NEW f \in Files, Upload(f)
  PROVE  LInv'
<1>1. /\ pc = "upload" /\ f \in todo /\ stored' = stored \cup {f} /\ todo' = todo \ {f}
      /\ UNCHANGED <<db, view, rec, pc, old, tx, reports, gone, sweeping, mishap>>
  BY DEF Upload
<1>2. ListsMatch' /\ Fresh' = Fresh \cup {f}
  BY <1>1 DEF LInv, ListsMatch, LatestOldValue, Fresh
<1>3. Accounted => Accounted'
  BY <1>1, <1>2 DEF Accounted, ListsAreUsed, SaveReported, RollbackCleans, CommitCleans
<1>4. QED BY <1>1, <1>2, <1>3 DEF LInv

\* A row that is written names what was uploaded for it, and what it no longer names
\* goes on the list.
LEMMA WriteCleans ==
  ASSUME IInv, LInv, Write
  PROVE  LInv'
<1>1. /\ rec'.names = rec.names \cup rec.unsaved
      /\ rec'.toDelete = rec.toDelete \cup (old \ rec.names)
      /\ rec'.uploaded = rec.uploaded \cup rec.unsaved
  BY DEF Write, Remember, IInv, TypeOK, Records
<1>2. /\ pc = "upload" /\ tx \in {"none", "open"} /\ ~gone /\ reports \in Nat
      /\ rec.unsaved \cap (view.files \cup rec.toDelete) = {}
      /\ rec.names \cap rec.toDelete = {}
  BY DEF IInv, SaveInProgress, Write, TypeOK, LInv, ListsMatch
<1>3. /\ UNCHANGED <<tx, gone, sweeping, stored>>
      /\ InTx => pc' = "idle" /\ reports' = reports + 1 /\ db' = db
      /\ ~InTx => pc' = "after" /\ db' = view' /\ reports' = reports
  BY DEF Write
<1>4. Fresh = rec.unsaved /\ Fresh' = {}
  BY <1>2, <1>3 DEF Fresh, Write
<1>5. ASSUME RowIsWritten
      PROVE  ~sweeping /\ old = view.files /\ view'.files = rec.names \cup rec.unsaved
  <2>1. rec.isNew <=> ~view.exists
    BY <1>5 DEF RowIsWritten, Write
  <2>2. old = view.files
    BY <1>2, <2>1 DEF LInv, ListsMatch, LatestOldValue, IInv, Blanks
  <2>3. ~sweeping
    BY <1>2, <2>1, NoRowType DEF IInv, SaveInProgress, Phases
  <2>4. QED BY <1>5, <2>2, <2>3 DEF Write
<1>6. ListsMatch'
  <2>1. rec.unsaved \cap old = {}
    BY <1>2 DEF LInv, ListsMatch
  <2>2. QED BY <1>1, <1>2, <1>3, <2>1 DEF ListsMatch
<1>7. ASSUME ~mishap' PROVE Accounted'
  <2>1. RowIsWritten /\ Accounted
    BY <1>7 DEF Write, LInv
  <2>2. ListsAreUsed'
    BY <1>2, <1>3 DEF ListsAreUsed, SaveReported, InTx
  <2>3. RollbackCleans'
    <3>1. CASE InTx
      BY <1>1, <1>2, <1>3, <1>4, <2>1, <3>1 DEF Accounted, RollbackCleans
    <3>2. CASE ~InTx
      BY <1>3, <3>2 DEF RollbackCleans
    <3>3. QED BY <3>1, <3>2
  <2>4. CommitCleans'
    <3>1. stored \subseteq view.files \cup rec.toDelete \cup rec.unsaved
      BY <1>2, <1>4, <1>5, <2>1 DEF Accounted, CommitCleans
    <3>2. stored \subseteq view'.files \cup rec'.toDelete
      BY <1>1, <1>5, <2>1, <3>1
    <3>3. QED BY <1>3, <1>4, <3>2 DEF CommitCleans
  <2>5. QED BY <2>2, <2>3, <2>4 DEF Accounted
<1>8. QED BY <1>6, <1>7 DEF LInv

\* After a commit all that is on the list is deleted.
LEMMA CleanupCleans ==
  ASSUME IInv, LInv, ProcessFilesToDelete, AfterSuccess \/ ReportCommitted
  PROVE  LInv'
<1>1. PICK kept \in SUBSET Files :
        /\ DeleteFiles(rec.toDelete \ rec.names, kept)
        /\ rec' = [rec EXCEPT !.uploaded = {}, !.toDelete = kept, !.created = FALSE]
  BY DEF ProcessFilesToDelete
<1>2. kept \subseteq rec.toDelete \ rec.names
  BY <1>1 DEF DeleteFiles, CleanUp
<1>3. rec'.names = rec.names /\ rec'.uploaded = {} /\ rec'.toDelete = kept
  BY <1>1 DEF IInv, TypeOK, Records
<1>4. /\ view = db /\ tx \in {"none", "committed"} /\ pc # "upload" /\ pc' = "idle"
      /\ UNCHANGED <<db, view, sweeping, todo>> /\ tx' \in {"none", "committed"}
  BY DEF AfterSuccess, ReportCommitted, Reported, IInv, TypeOK, InTx, Phases, SaveInProgress
<1>5. ListsMatch'
  BY <1>2, <1>3, <1>4 DEF LInv, ListsMatch
<1>6. tx' = "none" \/ ~gone' => ~gone
  BY DEF AfterSuccess, ReportCommitted, Reported, SaveReported, IInv, TypeOK, Phases
<1>7. ASSUME ~mishap' PROVE Accounted'
  <2>1. ~mishap /\ kept = {} /\ stored' = stored \ (rec.toDelete \ rec.names)
    BY <1>1, <1>7, NothingKept DEF DeleteFiles
  <2>2. ~sweeping /\ ~gone => stored' \subseteq db.files
    BY <1>4, <2>1 DEF LInv, ListsMatch, Accounted, CommitCleans, Fresh
  <2>3. QED BY <1>3, <1>4, <1>6, <2>1, <2>2 DEF Accounted, ListsAreUsed, RollbackCleans, CommitCleans
<1>8. QED BY <1>5, <1>7 DEF LInv

LEMMA BeginTxCleans ==
  ASSUME IInv, LInv, BeginTx
  PROVE  LInv'
<1>1. /\ pc = "idle" /\ tx = "none" /\ tx' = "open" 
      /\ UNCHANGED <<db, view, stored, rec, pc, todo, old, reports, gone, sweeping, mishap>>
  BY DEF BeginTx, Idle
<1>2. QED
  BY <1>1 DEF LInv, ListsMatch, Accounted, ListsAreUsed, SaveReported, RollbackCleans, CommitCleans, Fresh

LEMMA EndTxCleans ==
  ASSUME IInv, LInv, NEW c \in BOOLEAN, EndTx(c)
  PROVE  LInv'
<1>1. /\ pc = "idle" /\ InTx /\ tx \in {"open", "aborted"} /\ reports \in Nat
      /\ UNCHANGED <<stored, rec, pc, todo, old, reports, gone, sweeping, mishap>>
  BY DEF EndTx, IInv, TypeOK, InTx
<1>2. /\ view' = db'
      /\ tx' \in {"none", "committed", "rolledBack"} /\ (tx' = "none" <=> reports = 0)
      /\ tx' = "committed" => db' = view
      /\ tx' = "rolledBack" => db' = db
      /\ reports = 0 => db' = db /\ db = view /\ ~gone
  BY DEF EndTx, IInv, Phases
<1>3. db' \in {db, view}
  BY DEF EndTx
<1>4. ListsMatch'
  BY <1>1, <1>2, <1>3 DEF LInv, ListsMatch
<1>5. ASSUME Accounted PROVE Accounted'
  <2>1. ListsAreUsed' /\ Fresh = {} /\ Fresh' = {}
    BY <1>1, <1>5 DEF Accounted, ListsAreUsed, SaveReported, Fresh
  <2>2. reports = 0 => rec.uploaded = {} /\ rec.toDelete = {}
    BY <1>1, <1>2, <1>5 DEF Accounted, ListsAreUsed, SaveReported
  <2>3. QED BY <1>1, <1>2, <1>5, <2>1, <2>2 DEF Accounted, RollbackCleans, CommitCleans
<1>6. QED BY <1>1, <1>4, <1>5 DEF LInv

\* After a rollback all that was uploaded in the transaction is deleted.
LEMMA RolledBackCleans ==
  ASSUME IInv, LInv, ReportRolledBack
  PROVE  LInv'
<1>1. PICK kept \in SUBSET Files :
        /\ DeleteFiles(rec.uploaded, kept)
        /\ rec' = [rec EXCEPT !.uploaded = IF kept = {} THEN {} ELSE @, !.toDelete = {},
                              !.isNew = @ \/ rec.created, !.created = FALSE]
  BY DEF ReportRolledBack
<1>2. rec'.names = rec.names /\ rec'.toDelete = {} /\ (kept = {} => rec'.uploaded = {})
  BY <1>1 DEF IInv, TypeOK, Records
<1>3. /\ view = db /\ tx = "rolledBack" /\ pc \notin {"after", "upload"}
      /\ UNCHANGED <<db, view, sweeping, pc, todo, old>>
  BY DEF ReportRolledBack, IInv, TypeOK, InTx, Phases, SaveInProgress
<1>4. ListsMatch'
  BY <1>2, <1>3 DEF LInv, ListsMatch
<1>5. ASSUME ~mishap' PROVE Accounted'
  <2>1. ~mishap /\ kept = {} /\ stored' = stored \ rec.uploaded
    BY <1>1, <1>5, NothingKept DEF DeleteFiles
  <2>2. ~sweeping => stored' \subseteq db.files
    BY <1>3, <2>1 DEF LInv, Accounted, RollbackCleans, Fresh
  <2>3. QED BY <1>2, <1>3, <2>1, <2>2 DEF Accounted, ListsAreUsed, RollbackCleans, CommitCleans
<1>6. QED BY <1>4, <1>5 DEF LInv

LEMMA DeleteCleans ==
  ASSUME IInv, LInv, Delete
  PROVE  LInv'
<1>1. /\ pc = "idle" /\ ~gone /\ view' = NoRow /\ tx \in {"none", "open"} /\ tx' = tx
      /\ reports \in Nat /\ UNCHANGED <<stored, rec, pc, todo, old, mishap>>
  BY DEF Delete, Idle, IInv, TypeOK
<1>2. CASE InTx
  <2>1. gone' = TRUE /\ reports' = reports + 1 /\ UNCHANGED <<db, sweeping>>
    BY <1>2 DEF Delete
  <2>2. ListsMatch' /\ Fresh = {} /\ Fresh' = {}
    BY <1>1, <2>1, NoRowType DEF LInv, ListsMatch, Fresh
  <2>3. SaveReported' <=> SaveReported
    BY <1>1, <2>1 DEF SaveReported
  <2>4. Accounted => Accounted'
    BY <1>1, <2>1, <2>2, <2>3 DEF Accounted, ListsAreUsed, RollbackCleans, CommitCleans
  <2>5. QED BY <1>1, <2>2, <2>4 DEF LInv
<1>3. CASE ~InTx
  <2>1. db' = NoRow /\ sweeping' = TRUE /\ UNCHANGED <<gone, reports>> /\ tx = "none"
    BY <1>1, <1>3 DEF Delete, InTx
  <2>2. ListsMatch'
    BY <1>1, <2>1 DEF LInv, ListsMatch
  <2>3. Accounted => Accounted'
    BY <1>1, <2>1 DEF Accounted, ListsAreUsed, SaveReported, RollbackCleans, CommitCleans
  <2>4. QED BY <1>1, <2>2, <2>3 DEF LInv
<1>4. QED BY <1>2, <1>3

LEMMA ReportDeleteCleans ==
  ASSUME IInv, LInv, ReportDelete
  PROVE  LInv'
<1>1. /\ tx \in {"committed", "rolledBack"} /\ gone /\ reports = 1 /\ tx' = "none"
      /\ UNCHANGED <<db, view, stored, rec, pc, todo, old, mishap>>
      /\ sweeping' = (sweeping \/ tx = "committed")
  BY DEF ReportDelete, Reported
<1>2. pc = "idle" /\ view = db
  BY <1>1 DEF IInv, TypeOK, InTx, Phases, SaveInProgress
<1>3. ListsMatch' /\ Fresh = {} /\ Fresh' = {}
  BY <1>1, <1>2 DEF LInv, ListsMatch, Fresh
<1>4. ASSUME Accounted PROVE Accounted'
  <2>1. rec.uploaded = {} /\ rec.toDelete = {}
    BY <1>1, <1>2, <1>4 DEF Accounted, ListsAreUsed, SaveReported
  <2>2. ~sweeping' => stored \subseteq db.files
    BY <1>1, <1>2, <1>3, <1>4, <2>1 DEF Accounted, RollbackCleans, IInv, TypeOK
  <2>3. QED BY <1>1, <1>2, <1>3, <2>1, <2>2 DEF Accounted, ListsAreUsed, RollbackCleans, CommitCleans
<1>5. QED BY <1>1, <1>3, <1>4 DEF LInv

LEMMA SweepCleans ==
  ASSUME IInv, LInv, Sweep
  PROVE  LInv'
<1>1. UNCHANGED <<db, view, rec, pc, todo, old, tx, reports, gone>>
  BY DEF Sweep
<1>2. PICK kept \in SUBSET Files : DeleteFiles(stored, kept)
  BY DEF Sweep
<1>3. ListsMatch'
  BY <1>1 DEF LInv, ListsMatch, LatestOldValue
<1>4. ASSUME ~mishap' PROVE Accounted'
  <2>1. ~mishap /\ stored' = {}
    BY <1>2, <1>4, NothingKept DEF DeleteFiles
  <2>2. QED BY <1>1, <2>1 DEF LInv, Accounted, ListsAreUsed, SaveReported, RollbackCleans, CommitCleans
<1>5. QED BY <1>3, <1>4 DEF LInv

LEMMA LoadCleans ==
  ASSUME IInv, LInv, Load
  PROVE  LInv'
<1>1. rec'.toDelete = {} /\ rec'.uploaded = {}
  BY LoadedType DEF Load
<1>2. /\ pc = "idle" /\ tx = "none" /\ view = db
      /\ UNCHANGED <<db, view, stored, pc, todo, old, tx, reports, gone, sweeping, mishap>>
  BY DEF Load, Idle, IInv, TypeOK, InTx
<1>3. ListsMatch' /\ Fresh = {} /\ Fresh' = {}
  BY <1>1, <1>2 DEF LInv, ListsMatch, Fresh
<1>4. ASSUME Accounted PROVE Accounted'
  <2>1. ~SaveReported
    BY <1>2 DEF SaveReported, IInv, Phases
  <2>2. ~sweeping => stored \subseteq db.files
    BY <1>2, <1>3, <1>4, <2>1 DEF Accounted, ListsAreUsed, RollbackCleans
  <2>3. QED BY <1>1, <1>2, <1>3, <2>2 DEF Accounted, ListsAreUsed, RollbackCleans, CommitCleans
<1>5. QED BY <1>2, <1>3, <1>4 DEF LInv

LEMMA CrashCleans ==
  ASSUME IInv, LInv, Crash
  PROVE  LInv'
<1>1. rec'.toDelete = {}
  BY LoadedType DEF Crash, IInv, TypeOK
<1>2. pc' = "idle" /\ view' = db /\ db' = db /\ mishap' = TRUE
  BY DEF Crash
<1>3. QED BY <1>1, <1>2 DEF LInv, ListsMatch

LEMMA LInvStep == IInv /\ LInv /\ [Next]_vars => LInv'
<1> SUFFICES ASSUME IInv, LInv, [Next]_vars PROVE LInv'
  OBVIOUS
<1>1. ASSUME NEW keep \in SUBSET rec.names, NEW add \in SUBSET {f \in Files : NewName(f)},
             Save(keep, add) \/ Invalid(keep, add)
      PROVE  LInv'
  BY <1>1, SaveCleans, InvalidCleans
<1>2. CASE AfterSuccess \/ ReportCommitted
<2>1. ProcessFilesToDelete
  BY <1>2 DEF AfterSuccess, ReportCommitted
<2>2. QED BY <1>2, <2>1, CleanupCleans
<1>3. CASE UNCHANGED vars
  BY <1>3 DEF vars, LInv, ListsMatch, LatestOldValue, Accounted, ListsAreUsed, SaveReported, RollbackCleans,
              CommitCleans, Fresh
<1>4. QED
  BY <1>1, <1>2, <1>3, UploadCleans, SaveFailsCleans, WriteCleans, BeginTxCleans, EndTxCleans,
     RolledBackCleans, DeleteCleans, ReportDeleteCleans, SweepCleans, LoadCleans, CrashCleans
  DEF Next

\* So nothing is left when all is done.
LEMMA InvLeaves == IInv /\ LInv => NoLeftovers
<1> SUFFICES ASSUME IInv, LInv, pc = "idle", tx = "none", ~sweeping, ~mishap
             PROVE  stored \subseteq db.files
  BY DEF NoLeftovers
<1>1. ~SaveReported
  BY DEF SaveReported, IInv, Phases
<1>2. QED BY <1>1 DEF LInv, Accounted, ListsAreUsed, RollbackCleans, Fresh

\* When all is done and there was no mishap, nothing is stored that the row does not
\* name: every way a save, a transaction or a deletion can end removes exactly what it
\* has uploaded or replaced (field_file.go:352-470).
THEOREM NothingIsLeft == Spec => []NoLeftovers
<1>1. IInv /\ [Next]_vars => IInv'
  BY NextKeeps, StutterKeeps
<1>2. QED BY InitIInv, InitLInv, <1>1, LInvStep, InvLeaves, PTL DEF Spec

=============================================================================
