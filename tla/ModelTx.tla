------------------------------ MODULE ModelTx ------------------------------
(***************************************************************************)
(* Saving and deleting models, and transactions: create, update and delete *)
(* of core/db.go with runInTransaction, RunInSingleTx and the completion   *)
(* callbacks of core/db_tx.go.                                             *)
(*                                                                         *)
(* One goroutine runs user code.  Its stack holds the calls in progress:   *)
(* the transaction scopes it has opened and the model operations whose     *)
(* hooks it is inside of.  A hook may open a scope and write through it    *)
(* (swapping e.App), and may start further operations.  An operation       *)
(* reports its outcome through an After...Success or After...Error hook,   *)
(* at once, or when the scope its app belongs to has ended.                *)
(*                                                                         *)
(* A nested RunInTransaction on a handle that is a transaction already     *)
(* only calls its argument, so it is not a step.                           *)
(***************************************************************************)
EXTENDS Naturals, Sequences, FiniteSets

CONSTANTS
  Ops,            \* the create, update and delete calls made
  Databases,      \* the databases used: data, aux or both
  ScopeCount,     \* transactions that are opened at most
  MaxDepth,       \* bound: calls in progress at a time
  MaxPanics,      \* bound: panics of user code
  CrossDB         \* whether scopes and operations of both databases are mixed

Scopes == 1..ScopeCount
NoScope == 0
Kinds == {"create", "change"}  \* an update and a delete behave alike here

ASSUME ConstantsAssumption ==
  /\ ScopeCount \in Nat /\ MaxDepth \in Nat /\ MaxPanics \in Nat
  /\ Databases \subseteq {"data", "aux"}
  /\ CrossDB \in BOOLEAN
  /\ Ops \cap (Scopes \cup {NoScope}) = {}

VARIABLES
  stack,     \* the calls in progress, innermost last
  scopeDB,   \* the database of each scope: data, aux or single (both)
  txState,   \* unused, open, aborted, committed or rolledback
  after,     \* each scope's afterFuncs: operations to report when it ends
  opKind, opDB,  \* what each operation does, and to which database
  opState,   \* new, started, written, failed, finished or panicked
  row,       \* the operation's write: none, pending, committed or rolledback
  owner,     \* the scope the pending write belongs to
  isNew,     \* the model's IsNew() flag
  late,      \* operations with a hook that failed after the write
  hooks,     \* history: After... hooks fired, in order
  panics     \* history: panics so far

txVars == <<scopeDB, txState>>
opVars == <<opKind, opDB>>
vars == <<stack, txVars, after, opVars, opState, row, owner, isNew, late, hooks, panics>>

-----------------------------------------------------------------------------
Top == IF stack = <<>> THEN NoScope ELSE stack[Len(stack)]
Pop == SubSeq(stack, 1, Len(stack) - 1)
InStack(x) == \E k \in DOMAIN stack : stack[k] = x
IsLive(s) == InStack(s) /\ txState[s] \in {"open", "aborted"}

Covers(s) == IF scopeDB[s] = "single" THEN {"data", "aux"} ELSE {scopeDB[s]}

\* The innermost live scope of a set of scopes that satisfies In.
Innermost(In) ==
  LET K == {k \in DOMAIN stack : stack[k] \in In}
  IN  IF K = {} THEN NoScope ELSE stack[CHOOSE k \in K : \A l \in K : l <= k]

\* The handle the innermost app holds for a database: a transaction or the pool.
LiveScopes == {s \in Scopes : IsLive(s)}
HandleOf(db) == Innermost({s \in LiveScopes : db \in Covers(s)})

TxInfoIgnored == NoScope  \* mutant: every operation reports at once

\* txInfo of the app an operation on top of the stack was called on.
TxInfo == Innermost(LiveScopes)

\* A failed create makes its model new again.
MarkAsNew(o) == isNew' = [isNew EXCEPT ![o] = @ \/ opKind[o] = "create"]

Fire(s) == hooks' = hooks \o s

-----------------------------------------------------------------------------
Init ==
  /\ stack = <<>>
  /\ scopeDB = [s \in Scopes |-> "data"]
  /\ txState = [s \in Scopes |-> "unused"]
  /\ after   = [s \in Scopes |-> <<>>]
  /\ opKind \in [Ops -> Kinds]
  /\ opDB \in [Ops -> Databases]
  /\ opState = [o \in Ops |-> "new"]
  /\ row     = [o \in Ops |-> "none"]
  /\ owner   = [o \in Ops |-> NoScope]
  /\ isNew   = [o \in Ops |-> opKind[o] = "create"]
  /\ late = {}
  /\ hooks = <<>>
  /\ panics = 0

(***************************************************************************)
(* Transaction scopes.                                                     *)
(***************************************************************************)
\* runInTransaction on a pool handle, or RunInSingleTx at the top level.
Open(s, db) ==
  /\ txState[s] = "unused" /\ \A t \in Scopes : t < s => txState[t] # "unused"
  /\ Len(stack) < MaxDepth
  /\ IF db = "single" THEN stack = <<>> ELSE HandleOf(db) = NoScope
  /\ ~CrossDB => LiveScopes = {}
  /\ stack'   = Append(stack, s)
  /\ scopeDB' = [scopeDB EXCEPT ![s] = db]
  /\ txState' = [txState EXCEPT ![s] = "open"]
  /\ UNCHANGED <<after, opVars, opState, row, owner, isNew, late, hooks, panics>>

SettleNothing(s, outcome) == UNCHANGED row  \* mutant: the transaction is never ended

\* The writes of scope s get their outcome.
Settle(s, outcome) ==
  row' = [o \in Ops |-> IF owner[o] = s /\ row[o] = "pending" THEN outcome ELSE row[o]]

\* The scope's function returns: nil commits, which may still fail and always
\* fails after a failed statement; an error rolls back.
Close(s) ==
  /\ Top = s /\ txState[s] \in {"open", "aborted"}
  /\ \/ /\ txState[s] = "open"
        /\ txState' = [txState EXCEPT ![s] = "committed"]
        /\ Settle(s, "committed")
     \/ /\ txState' = [txState EXCEPT ![s] = "rolledback"]
        /\ Settle(s, "rolledback")
  /\ UNCHANGED <<stack, scopeDB, after, opVars, opState, owner, isNew, late, hooks, panics>>

\* runAfterFuncs, given what is left of the queue after one call.
RunHeadOf(s, rest) ==
  /\ Top = s /\ txState[s] \in {"committed", "rolledback"} /\ after[s] # <<>>
  /\ LET o == Head(after[s]) IN
       IF txState[s] = "committed"
       THEN Fire(<< <<o, "success">> >>) /\ UNCHANGED isNew
       ELSE /\ Fire(<< <<o, "error">> >>)
            /\ MarkAsNew(o)
  /\ after' = [after EXCEPT ![s] = rest]
  /\ UNCHANGED <<stack, txVars, opVars, opState, row, owner, late, panics>>

RunFirstAfterFunc(s) == RunHeadOf(s, <<>>)  \* mutant: the loop stops after one call

\* The next completion callback.
RunAfterFunc(s) == RunHeadOf(s, Tail(after[s]))

EndScope(s) ==
  /\ Top = s /\ txState[s] \in {"committed", "rolledback"} /\ after[s] = <<>>
  /\ stack' = Pop
  /\ UNCHANGED <<txVars, after, opVars, opState, row, owner, isNew, late, hooks, panics>>

(***************************************************************************)
(* Model operations.                                                       *)
(***************************************************************************)
\* save or delete is called, on the innermost app.
Begin(o) ==
  /\ opState[o] = "new" /\ Len(stack) < MaxDepth
  /\ ~CrossDB => \A s \in LiveScopes : opDB[o] \in Covers(s)
  /\ stack'   = Append(stack, o)
  /\ opState' = [opState EXCEPT ![o] = "started"]
  /\ UNCHANGED <<txVars, after, opVars, row, owner, isNew, late, hooks, panics>>

\* The innermost operation, with only scopes its own hooks opened above it.
IsCurrent(o) ==
  \E k \in DOMAIN stack :
    /\ stack[k] = o
    /\ \A l \in DOMAIN stack : l > k => stack[l] \in LiveScopes

\* The execute step: the statement runs through the innermost app's handle.
Write(o) ==
  /\ IsCurrent(o) /\ opState[o] = "started"
  /\ LET h == HandleOf(opDB[o]) IN
       \/ /\ h # NoScope => txState[h] = "open"
          /\ opState' = [opState EXCEPT ![o] = "written"]
          /\ row'     = [row EXCEPT ![o] = IF h = NoScope THEN "committed" ELSE "pending"]
          /\ owner'   = [owner EXCEPT ![o] = h]
          /\ isNew'   = [isNew EXCEPT ![o] = FALSE]
          /\ UNCHANGED txState
       \/ /\ opState' = [opState EXCEPT ![o] = "failed"]
          /\ txState' = [s \in Scopes |-> IF s = h THEN "aborted" ELSE txState[s]]
          /\ UNCHANGED <<row, owner, isNew>>
  /\ UNCHANGED <<stack, scopeDB, after, opVars, late, hooks, panics>>

\* A hook of the operation fails after the write.
FailLate(o) ==
  /\ IsCurrent(o) /\ opState[o] = "written" /\ o \notin late
  /\ late' = late \cup {o}
  /\ UNCHANGED <<stack, txVars, after, opVars, opState, row, owner, isNew, hooks, panics>>

Failed(o) == opState[o] # "written" \/ row[o] = "rolledback" \/ o \in late

ReportErrorKeepsFlag(o) ==  \* mutant: no MarkAsNew
  /\ Failed(o) /\ Fire(<< <<o, "error">> >>) /\ UNCHANGED <<isNew, after>>

\* saveErr or deleteErr: validation failed, the statement failed, the scope a
\* hook wrapped around the write rolled back, or a hook failed afterwards.
ReportError(o) ==
  Failed(o) /\ Fire(<< <<o, "error">> >>) /\ MarkAsNew(o) /\ UNCHANGED after

ReportLater(o) ==
  /\ ~Failed(o)
  /\ TxInfo # NoScope
  /\ after' = [after EXCEPT ![TxInfo] = Append(@, o)]
  /\ UNCHANGED <<hooks, isNew>>

ReportNow(o) ==
  /\ ~Failed(o)
  /\ TxInfo = NoScope
  /\ Fire(<< <<o, "success">> >>)
  /\ UNCHANGED <<after, isNew>>

Finish(o) ==
  /\ Top = o
  /\ ReportError(o) \/ ReportLater(o) \/ ReportNow(o)
  /\ stack'   = Pop
  /\ opState' = [opState EXCEPT ![o] = "finished"]
  /\ UNCHANGED <<txVars, opVars, row, owner, late, panics>>

\* A panic unwinds everything: Transactional rolls back and panics again, so
\* no completion callback runs.
Panic ==
  /\ stack # <<>> /\ panics < MaxPanics
  /\ panics' = panics + 1
  /\ stack' = <<>>
  /\ txState' = [s \in Scopes |-> IF IsLive(s) THEN "rolledback" ELSE txState[s]]
  /\ row' = [o \in Ops |-> IF row[o] = "pending" THEN "rolledback" ELSE row[o]]
  /\ opState' = [o \in Ops |-> IF InStack(o) THEN "panicked" ELSE opState[o]]
  /\ UNCHANGED <<scopeDB, after, opVars, owner, isNew, late, hooks>>

-----------------------------------------------------------------------------
Next ==
  \/ \E s \in Scopes :
       \/ \E db \in Databases \cup {"single"} : Open(s, db)
       \/ Close(s) \/ RunAfterFunc(s) \/ EndScope(s)
  \/ \E o \in Ops : Begin(o) \/ Write(o) \/ FailLate(o) \/ Finish(o)
  \/ Panic

Spec == Init /\ [][Next]_vars

-----------------------------------------------------------------------------
\* The type invariant; besides the types, no call is on the stack twice and a
\* pending write belongs to a transaction that has not ended.
TypeOK ==
  /\ stack \in Seq(Ops \cup Scopes)
  /\ scopeDB \in [Scopes -> {"data", "aux", "single"}]
  /\ txState \in [Scopes -> {"unused", "open", "aborted", "committed", "rolledback"}]
  /\ after \in [Scopes -> Seq(Ops)]
  /\ opKind \in [Ops -> Kinds] /\ opDB \in [Ops -> Databases]
  /\ opState \in [Ops -> {"new", "started", "written", "failed", "finished", "panicked"}]
  /\ row \in [Ops -> {"none", "pending", "committed", "rolledback"}]
  /\ owner \in [Ops -> Scopes \cup {NoScope}]
  /\ isNew \in [Ops -> BOOLEAN] /\ late \in SUBSET Ops
  /\ hooks \in Seq(Ops \X {"success", "error"}) /\ panics \in 0..MaxPanics
  /\ \A k, l \in DOMAIN stack : stack[k] = stack[l] => k = l
  /\ \A o \in Ops : row[o] = "pending" => owner[o] \in LiveScopes

Reports(o) == {k \in DOMAIN hooks : hooks[k][1] = o}

\* app.go:860-866: an After...Success hook has fired only for a write that is
\* committed.
SuccessMeansCommitted ==
  \A k \in DOMAIN hooks : hooks[k][2] = "success" => row[hooks[k][1]] = "committed"

\* However operations, hooks and transactions are nested, no success is reported
\* for a write that is not committed, and an error for one that is, or may be,
\* only when one of its own hooks failed after the write.
HooksTellTheTruth ==
  /\ SuccessMeansCommitted
  /\ \A k \in DOMAIN hooks :
       hooks[k][2] = "error" => row[hooks[k][1]] \in {"none", "rolledback"} \/ hooks[k][1] \in late

\* When the user code has returned, a model whose create is not in the database
\* is new again, so that saving it again inserts it, and one that is, is not,
\* unless a hook failed after the write.
NewAgreesWithRow ==
  stack = <<>> /\ panics = 0 =>
    \A o \in Ops : opKind[o] = "create" /\ o \notin late => (isNew[o] <=> row[o] # "committed")

\* No operation reports twice, and when the user code has returned every
\* operation it made has reported, unless it panicked.
EveryOpReported ==
  \A o \in Ops :
    /\ Cardinality(Reports(o)) <= 1
    /\ stack = <<>> /\ panics = 0 /\ opState[o] = "finished" => Reports(o) # {}

=============================================================================
