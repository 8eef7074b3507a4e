---------------------------- MODULE RequestsProofs ---------------------------
(***************************************************************************)
(* Proofs about write requests.  First model operations and transactions,  *)
(* for any number of operations and scopes nested in any way: every        *)
(* operation reports once, and, while the two databases are not mixed,     *)
(* reports the truth.  At the end the theorems about the run, for which    *)
(* the files of a record and the broadcast of its delete have proof        *)
(* modules of their own.                                                   *)
(***************************************************************************)
EXTENDS MCRequests, Integers, FiniteSetTheorems, WellFoundedInduction, TLAPS

\* A call is pushed.
LEMMA PushType ==
  ASSUME NEW S, NEW q \in Seq(S), NEW x \in S
  PROVE  /\ Append(q, x) \in Seq(S) /\ Len(q) \in Nat /\ Len(Append(q, x)) = Len(q) + 1
         /\ DOMAIN q = 1..Len(q) /\ DOMAIN Append(q, x) = 1..(Len(q) + 1)
         /\ \A k \in 1..Len(q) : Append(q, x)[k] = q[k]
         /\ Append(q, x)[Len(q) + 1] = x
  OBVIOUS

\* The innermost call returns.
LEMMA PopType ==
  ASSUME NEW S, NEW q \in Seq(S), q # <<>>
  PROVE  LET p == SubSeq(q, 1, Len(q) - 1) IN
           /\ p \in Seq(S) /\ Len(q) \in Nat \ {0} /\ Len(p) = Len(q) - 1
           /\ DOMAIN q = 1..Len(q) /\ DOMAIN p = 1..(Len(q) - 1)
           /\ \A k \in 1..(Len(q) - 1) : p[k] = q[k]
           /\ q[Len(q)] \in S
<1>1. Len(q) \in Nat \ {0} /\ DOMAIN q = 1..Len(q) /\ q[Len(q)] \in S
  OBVIOUS
<1>2. /\ SubSeq(q, 1, Len(q) - 1) \in Seq(S) /\ Len(SubSeq(q, 1, Len(q) - 1)) = Len(q) - 1
      /\ \A k \in 1..(Len(q) - 1) : SubSeq(q, 1, Len(q) - 1)[k] = q[k]
  BY <1>1
<1>3. DOMAIN SubSeq(q, 1, Len(q) - 1) = 1..(Len(q) - 1)
  BY <1>2
<1>4. QED BY <1>1, <1>2, <1>3

\* A queue gives up its head.
LEMMA TailType ==
  ASSUME NEW S, NEW q \in Seq(S), q # <<>>
  PROVE  /\ Tail(q) \in Seq(S) /\ Len(q) \in Nat \ {0}
         /\ Head(q) = q[1] /\ Head(q) \in S
         /\ DOMAIN q = 1..Len(q) /\ DOMAIN Tail(q) = 1..(Len(q) - 1)
         /\ \A k \in 1..(Len(q) - 1) : Tail(q)[k] = q[k + 1]
  OBVIOUS

\* A set of positions has a last one.
LEMMA LastExists ==
  ASSUME NEW n \in Nat, NEW K \in SUBSET (1..n), K # {}
  PROVE  \E k \in K : \A l \in K : l <= k
<1> DEFINE T == {j \in Nat : n - j \in K}
<1>1. \A k \in K : k \in Nat /\ n - k \in Nat /\ n - (n - k) = k
  <2>1. \A k \in 1..n : k \in Nat /\ n - k \in Nat /\ n - (n - k) = k
    OBVIOUS
  <2>2. QED BY <2>1
<1>2. T \subseteq Nat /\ T # {}
  BY <1>1
<1>3. PICK x \in T : \A y \in T : ~(<<y, x>> \in OpToRel(<, Nat))
  <2>1. IsWellFoundedOn(OpToRel(<, Nat), Nat)
    BY NatLessThanWellFounded
  <2>2. QED BY <1>2, <2>1, WFMin
<1>4. \A y \in T : ~(y < x)
  BY <1>2, <1>3 DEF OpToRel
<1>5. ASSUME NEW l \in K PROVE l <= n - x
  <2>1. n - l \in T
    BY <1>1
  <2>2. ~(n - l < x)
    BY <1>4, <2>1
  <2>3. l \in Nat /\ x \in Nat
    BY <1>1, <1>2
  <2>4. QED BY <2>2, <2>3
<1>6. n - x \in K
  OBVIOUS
<1>7. QED BY <1>5, <1>6

\* The innermost of a set of scopes is one of them, if any of them is on the stack.
LEMMA InnermostIn ==
  ASSUME stack \in Seq(Ops \cup Scopes), NEW In
  PROVE  /\ (\E x \in In : InStack(x)) => Innermost(In) \in In /\ InStack(Innermost(In))
         /\ ~(\E x \in In : InStack(x)) => Innermost(In) = NoScope
<1> DEFINE K == {k \in DOMAIN stack : stack[k] \in In}
<1>1. K \in SUBSET (1..Len(stack)) /\ Len(stack) \in Nat
  OBVIOUS
<1>2. K = {} <=> ~ \E x \in In : InStack(x)
  BY DEF InStack
<1>3. CASE K = {}
  BY <1>2, <1>3 DEF Innermost
<1>4. CASE K # {}
  <2>1. (CHOOSE k \in K : \A l \in K : l <= k) \in K
    BY <1>1, <1>4, LastExists
  <2>2. Innermost(In) = stack[CHOOSE k \in K : \A l \in K : l <= k]
    BY <1>4 DEF Innermost
  <2>3. QED BY <1>2, <1>4, <2>1, <2>2 DEF InStack
<1>5. QED BY <1>3, <1>4

-----------------------------------------------------------------------------
(* The stack. *)

Running == {s \in Scopes : txState[s] \in {"open", "aborted"}}

StackTypes ==
  /\ stack \in Seq(Ops \cup Scopes)
  /\ txState \in [Scopes -> {"unused", "open", "aborted", "committed", "rolledback"}]
  /\ opState \in [Ops -> {"new", "started", "written", "failed", "finished", "panicked"}]
  /\ \A k, l \in DOMAIN stack : stack[k] = stack[l] => k = l

\* The calls in progress are the operations that have begun and not returned; an open
\* scope is on the stack, and no scope is there before it is opened.
OnStack ==
  /\ \A o \in Ops : InStack(o) <=> opState[o] \in {"started", "written", "failed"}
  /\ \A s \in Running : InStack(s)
  /\ \A s \in Scopes : InStack(s) => txState[s] # "unused"

StackInv == StackTypes /\ OnStack

\* The model's set of live scopes.
LEMMA LiveIsRunning == ASSUME OnStack PROVE LiveScopes = Running
  BY DEF OnStack, LiveScopes, IsLive, Running

\* The steps that push a call, pop one, or leave the stack alone.
LEMMA Pushed ==
  ASSUME StackTypes, NEW x \in Ops \cup Scopes, ~InStack(x), stack' = Append(stack, x)
  PROVE  /\ stack' \in Seq(Ops \cup Scopes)
         /\ \A k, l \in DOMAIN stack' : stack'[k] = stack'[l] => k = l
         /\ \A y : InStack(y)' <=> InStack(y) \/ y = x
<1>1. /\ stack' \in Seq(Ops \cup Scopes) /\ Len(stack) \in Nat
      /\ DOMAIN stack = 1..Len(stack) /\ DOMAIN stack' = 1..(Len(stack) + 1)
      /\ \A k \in 1..Len(stack) : stack'[k] = stack[k]
      /\ stack'[Len(stack) + 1] = x
  BY PushType DEF StackTypes
<1>2. \A k, l \in DOMAIN stack' : stack'[k] = stack'[l] => k = l
  BY <1>1 DEF InStack, StackTypes
<1>3. ASSUME NEW y PROVE InStack(y)' <=> InStack(y) \/ y = x
  BY <1>1 DEF InStack
<1>4. QED BY <1>1, <1>2, <1>3

\* The innermost call leaves the stack.
LEMMA Popped ==
  ASSUME StackTypes, NEW x \in Ops \cup Scopes, Top = x, x # NoScope, stack' = Pop
  PROVE  /\ stack' \in Seq(Ops \cup Scopes) /\ InStack(x)
         /\ \A k, l \in DOMAIN stack' : stack'[k] = stack'[l] => k = l
         /\ \A y : InStack(y)' <=> InStack(y) /\ y # x
<1>0. stack # <<>> /\ stack[Len(stack)] = x
  BY DEF Top
<1>1. /\ stack' \in Seq(Ops \cup Scopes) /\ Len(stack) \in Nat \ {0}
      /\ DOMAIN stack = 1..Len(stack) /\ DOMAIN stack' = 1..(Len(stack) - 1)
      /\ \A k \in 1..(Len(stack) - 1) : stack'[k] = stack[k]
  BY <1>0, PopType DEF StackTypes, Pop
<1>2. \A k, l \in DOMAIN stack' : stack'[k] = stack'[l] => k = l
  BY <1>1 DEF StackTypes
<1>3. ASSUME NEW y PROVE InStack(y)' <=> InStack(y) /\ y # x
  BY <1>0, <1>1 DEF InStack, StackTypes
<1>4. QED BY <1>0, <1>1, <1>2, <1>3 DEF InStack

\* The stack and the states of its calls agree after every step.
LEMMA StackStep == ASSUME StackInv, Next PROVE StackInv'
<1> USE ConstantsAssumption DEF StackInv
<1> NoScope \notin Scopes /\ NoScope \notin Ops /\ Ops \cap Scopes = {}
  BY DEF NoScope, Scopes
<1>1. ASSUME NEW s \in Scopes, NEW db, Open(s, db) PROVE StackInv'
  <2>1. /\ stack' = Append(stack, s) /\ txState' = [txState EXCEPT ![s] = "open"]
        /\ UNCHANGED opState /\ txState[s] = "unused"
    BY <1>1 DEF Open
  <2>2. ~InStack(s)
    BY <2>1 DEF OnStack
  <2>3. /\ stack' \in Seq(Ops \cup Scopes)
        /\ \A k, l \in DOMAIN stack' : stack'[k] = stack'[l] => k = l
        /\ \A y : InStack(y)' <=> InStack(y) \/ y = s
    BY <2>1, <2>2, Pushed
  <2>4. StackTypes'
    BY <2>1, <2>3 DEF StackTypes
  <2>5. OnStack'
    BY <2>1, <2>3 DEF OnStack, StackTypes, Running
  <2>6. QED BY <2>4, <2>5
<1>2. ASSUME NEW s \in Scopes, Close(s) PROVE StackInv'
  <2>1. /\ UNCHANGED <<stack, opState>> /\ txState[s] \in {"open", "aborted"}
        /\ \/ txState' = [txState EXCEPT ![s] = "committed"]
           \/ txState' = [txState EXCEPT ![s] = "rolledback"]
    BY <1>2 DEF Close
  <2>2. QED BY <2>1 DEF StackTypes, OnStack, InStack, Running
<1>3. ASSUME NEW s \in Scopes, EndScope(s) PROVE StackInv'
  <2>1. /\ Top = s /\ stack' = Pop /\ UNCHANGED <<txState, opState>>
        /\ txState[s] \in {"committed", "rolledback"}
    BY <1>3 DEF EndScope, txVars
  <2>2. /\ stack' \in Seq(Ops \cup Scopes)
        /\ \A k, l \in DOMAIN stack' : stack'[k] = stack'[l] => k = l
        /\ \A y : InStack(y)' <=> InStack(y) /\ y # s
    BY <2>1, Popped
  <2>3. QED BY <2>1, <2>2 DEF StackTypes, OnStack, Running
<1>4. ASSUME NEW o \in Ops, Begin(o) PROVE StackInv'
  <2>1. /\ stack' = Append(stack, o) /\ opState' = [opState EXCEPT ![o] = "started"]
        /\ UNCHANGED txState /\ opState[o] = "new"
    BY <1>4 DEF Begin, txVars
  <2>2. ~InStack(o)
    BY <2>1 DEF OnStack
  <2>3. /\ stack' \in Seq(Ops \cup Scopes)
        /\ \A k, l \in DOMAIN stack' : stack'[k] = stack'[l] => k = l
        /\ \A y : InStack(y)' <=> InStack(y) \/ y = o
    BY <2>1, <2>2, Pushed
  <2>4. QED BY <2>1, <2>3 DEF StackTypes, OnStack, Running
<1>5. ASSUME NEW o \in Ops, Write(o) PROVE StackInv'
  <2>1. PICK h : /\ h = HandleOf(opDB[o])
                 /\ \/ opState' = [opState EXCEPT ![o] = "written"] /\ UNCHANGED txState
                    \/ /\ opState' = [opState EXCEPT ![o] = "failed"]
                       /\ txState' = [s \in Scopes |-> IF s = h THEN "aborted" ELSE txState[s]]
    BY <1>5 DEF Write
  <2>2. UNCHANGED stack /\ opState[o] = "started"
    BY <1>5 DEF Write
  <2>3. h \in LiveScopes \/ h = NoScope
    <3>1. {s \in LiveScopes : opDB[o] \in Covers(s)} \subseteq LiveScopes
      OBVIOUS
    <3>2. QED BY <2>1, <3>1, InnermostIn DEF HandleOf, StackTypes
  <2>4. h \in Running \/ h = NoScope
    BY <2>3, LiveIsRunning
  <2>5. /\ Running' = Running
        /\ \A s \in Scopes : txState'[s] = "unused" <=> txState[s] = "unused"
        /\ txState' \in [Scopes -> {"unused", "open", "aborted", "committed", "rolledback"}]
    BY <2>1, <2>4 DEF Running, StackTypes
  <2>6. StackTypes'
    BY <2>1, <2>2, <2>5 DEF StackTypes
  <2>7. OnStack'
    BY <2>1, <2>2, <2>5 DEF OnStack, InStack, StackTypes
  <2>8. QED BY <2>6, <2>7
<1>6. ASSUME NEW o \in Ops, Finish(o) PROVE StackInv'
  <2>1. /\ Top = o /\ stack' = Pop /\ opState' = [opState EXCEPT ![o] = "finished"]
        /\ UNCHANGED txState
    BY <1>6 DEF Finish, txVars
  <2>3. /\ stack' \in Seq(Ops \cup Scopes)
        /\ \A k, l \in DOMAIN stack' : stack'[k] = stack'[l] => k = l
        /\ \A y : InStack(y)' <=> InStack(y) /\ y # o
    BY <2>1, Popped
  <2>4. QED BY <2>1, <2>3 DEF StackTypes, OnStack, Running
<1>7. CASE Panic
  <2>1. /\ stack' = <<>>
        /\ txState' = [s \in Scopes |-> IF IsLive(s) THEN "rolledback" ELSE txState[s]]
        /\ opState' = [o \in Ops |-> IF InStack(o) THEN "panicked" ELSE opState[o]]
    BY <1>7 DEF Panic
  <2>2. \A y : ~InStack(y)'
    BY <2>1 DEF InStack
  <2>3. \A s \in Scopes : IsLive(s) <=> s \in Running
    BY LiveIsRunning DEF LiveScopes, Running
  <2>4. StackTypes'
    BY <2>1 DEF StackTypes
  <2>5. Running' = {}
    BY <2>1, <2>3 DEF Running
  <2>6. OnStack'
    BY <2>1, <2>2, <2>5 DEF OnStack, StackTypes
  <2>7. QED BY <2>4, <2>6
<1>8. ASSUME NEW s \in Scopes, RunAfterFunc(s) PROVE StackInv'
  BY <1>8 DEF RunAfterFunc, RunHeadOf, txVars, StackTypes, OnStack, InStack, Running
<1>9. ASSUME NEW o \in Ops, FailLate(o) PROVE StackInv'
  BY <1>9 DEF FailLate, txVars, StackTypes, OnStack, InStack, Running
<1>10. QED BY <1>1, <1>2, <1>3, <1>4, <1>5, <1>6, <1>7, <1>8, <1>9 DEF Next

\* The scope a statement runs in, and the one an operation is reported by, is open.
LEMMA ScopesOfApp ==
  ASSUME StackInv
  PROVE  /\ TxInfo \in Running \cup {NoScope}
         /\ TxInfo = NoScope <=> Running = {}
         /\ \A db : HandleOf(db) \in Running \cup {NoScope}
<1>1. LiveScopes = Running /\ stack \in Seq(Ops \cup Scopes) /\ \A s \in Running : InStack(s)
  BY LiveIsRunning DEF StackInv, StackTypes, OnStack
<1>2. NoScope \notin Running
  BY DEF NoScope, Scopes, Running
<1>3. TxInfo \in Running \cup {NoScope} /\ (TxInfo = NoScope <=> Running = {})
  BY <1>1, <1>2, InnermostIn DEF TxInfo
<1>4. ASSUME NEW db PROVE HandleOf(db) \in Running \cup {NoScope}
  <2>1. {s \in LiveScopes : db \in Covers(s)} \subseteq Running
    BY <1>1
  <2>2. QED BY <1>1, <2>1, InnermostIn DEF HandleOf
<1>5. QED BY <1>3, <1>4

-----------------------------------------------------------------------------
(* Types of the rest. *)

DataTypes ==
  /\ scopeDB \in [Scopes -> {"data", "aux", "single"}]
  /\ after \in [Scopes -> Seq(Ops)]
  /\ opKind \in [Ops -> Kinds] /\ opDB \in [Ops -> Databases]
  /\ row \in [Ops -> {"none", "pending", "committed", "rolledback"}]
  /\ owner \in [Ops -> Scopes \cup {NoScope}]
  /\ isNew \in [Ops -> BOOLEAN] /\ late \in SUBSET Ops
  /\ hooks \in Seq(Ops \X {"success", "error"}) /\ panics \in 0..MaxPanics

PendingInOpen == \A o \in Ops : row[o] = "pending" => owner[o] \in Running

\* What firing a hook adds to the history.
LEMMA Fired ==
  ASSUME DataTypes, NEW o \in Ops, NEW r \in {"success", "error"}, Fire(<< <<o, r>> >>)
  PROVE  /\ hooks' \in Seq(Ops \X {"success", "error"}) /\ Len(hooks) \in Nat
         /\ DOMAIN hooks = 1..Len(hooks) /\ DOMAIN hooks' = 1..(Len(hooks) + 1)
         /\ \A k \in 1..Len(hooks) : hooks'[k] = hooks[k]
         /\ hooks'[Len(hooks) + 1] = <<o, r>>
<1> DEFINE S == Ops \X {"success", "error"}
<1>1. hooks \in Seq(S) /\ <<o, r>> \in S
  BY DEF DataTypes
<1>2. \A q \in Seq(S), e \in S : q \o <<e>> = Append(q, e)
  OBVIOUS
<1>3. hooks' = Append(hooks, <<o, r>>)
  BY <1>1, <1>2 DEF Fire
<1>4. QED BY <1>1, <1>3, PushType

\* A write that is not settled always belongs to an open scope.
LEMMA DataStep == ASSUME StackInv, DataTypes, PendingInOpen, Next PROVE DataTypes' /\ PendingInOpen'
<1> USE ConstantsAssumption
<1>0. NoScope \notin Scopes /\ Running \subseteq Scopes
  BY DEF NoScope, Scopes, Running
<1>1. ASSUME NEW s \in Scopes, NEW db \in Databases \cup {"single"}, Open(s, db)
      PROVE  DataTypes' /\ PendingInOpen'
  <2>1. /\ scopeDB' = [scopeDB EXCEPT ![s] = db] /\ txState' = [txState EXCEPT ![s] = "open"]
        /\ UNCHANGED <<after, opKind, opDB, row, owner, isNew, late, hooks, panics>>
    BY <1>1 DEF Open, opVars
  <2>2. Running \subseteq Running'
    BY <2>1 DEF Running, StackInv, StackTypes
  <2>3. QED BY <2>1, <2>2 DEF DataTypes, PendingInOpen
<1>2. ASSUME NEW s \in Scopes, Close(s) PROVE DataTypes' /\ PendingInOpen'
  <2>1. /\ UNCHANGED <<scopeDB, after, opKind, opDB, owner, isNew, late, hooks, panics>>
        /\ Settle(s, "committed") \/ Settle(s, "rolledback")
        /\ \A t \in Scopes \ {s} : txState'[t] = txState[t]
    BY <1>2 DEF Close, opVars, StackInv, StackTypes
  <2>2. DataTypes'
    BY <2>1 DEF DataTypes, Settle
  <2>3. ASSUME NEW o \in Ops, row'[o] = "pending" PROVE row[o] = "pending" /\ owner[o] # s
    BY <2>1, <2>3 DEF Settle
  <2>4. Running \ {s} \subseteq Running'
    BY <2>1 DEF Running
  <2>5. QED BY <2>1, <2>2, <2>3, <2>4 DEF PendingInOpen
<1>3. ASSUME NEW s \in Scopes, RunAfterFunc(s) PROVE DataTypes' /\ PendingInOpen'
  <2>1. /\ UNCHANGED <<scopeDB, txState, opKind, opDB, row, owner, late, panics>>
        /\ after[s] # <<>> /\ after' = [after EXCEPT ![s] = Tail(after[s])]
        /\ \/ Fire(<< <<Head(after[s]), "success">> >>) /\ UNCHANGED isNew
           \/ /\ Fire(<< <<Head(after[s]), "error">> >>)
              /\ isNew' = [isNew EXCEPT ![Head(after[s])] = @ \/ opKind[Head(after[s])] = "create"]
    BY <1>3 DEF RunAfterFunc, RunHeadOf, MarkAsNew, txVars, opVars
  <2>2. Tail(after[s]) \in Seq(Ops) /\ Head(after[s]) \in Ops
    BY <2>1, TailType DEF DataTypes
  <2>3. hooks' \in Seq(Ops \X {"success", "error"})
    BY <2>1, <2>2, Fired
  <2>4. isNew' \in [Ops -> BOOLEAN]
    BY <2>1, <2>2, Zenon DEF DataTypes
  <2>5. QED BY <2>1, <2>2, <2>3, <2>4 DEF DataTypes, PendingInOpen, Running
<1>4. ASSUME NEW s \in Scopes, EndScope(s) PROVE DataTypes' /\ PendingInOpen'
  BY <1>4 DEF EndScope, txVars, opVars, DataTypes, PendingInOpen, Running
<1>5. ASSUME NEW o \in Ops, Begin(o) \/ FailLate(o) PROVE DataTypes' /\ PendingInOpen'
  BY <1>5 DEF Begin, FailLate, txVars, opVars, DataTypes, PendingInOpen, Running
<1>6. ASSUME NEW o \in Ops, Write(o) PROVE DataTypes' /\ PendingInOpen'
  <2>1. PICK h : /\ h = HandleOf(opDB[o])
                 /\ \/ /\ row' = [row EXCEPT ![o] = IF h = NoScope THEN "committed" ELSE "pending"]
                       /\ owner' = [owner EXCEPT ![o] = h]
                       /\ isNew' = [isNew EXCEPT ![o] = FALSE] /\ UNCHANGED txState
                    \/ /\ txState' = [s \in Scopes |-> IF s = h THEN "aborted" ELSE txState[s]]
                       /\ UNCHANGED <<row, owner, isNew>>
    BY <1>6 DEF Write
  <2>2. UNCHANGED <<scopeDB, after, opKind, opDB, late, hooks, panics>>
    BY <1>6 DEF Write, opVars
  <2>3. h \in Running \cup {NoScope}
    BY <2>1, ScopesOfApp
  <2>4. Running' = Running
    BY <2>1, <2>3, <1>0 DEF Running, StackInv, StackTypes
  <2>5. isNew' \in [Ops -> BOOLEAN]
    <3>1. isNew' = isNew \/ isNew' = [isNew EXCEPT ![o] = FALSE]
      BY <2>1
    <3>2. QED BY <3>1 DEF DataTypes
  <2>6. PendingInOpen' /\ row' \in [Ops -> {"none", "pending", "committed", "rolledback"}]
        /\ owner' \in [Ops -> Scopes \cup {NoScope}]
    <3>1. \/ UNCHANGED <<row, owner>>
          \/ /\ row' = [row EXCEPT ![o] = IF h = NoScope THEN "committed" ELSE "pending"]
             /\ owner' = [owner EXCEPT ![o] = h]
      BY <2>1
    <3>2. CASE UNCHANGED <<row, owner>>
      BY <2>4, <3>2 DEF DataTypes, PendingInOpen
    <3>3. ASSUME NEW r \in {"committed", "pending"}, r = "pending" => h \in Running,
                 row' = [row EXCEPT ![o] = r], owner' = [owner EXCEPT ![o] = h]
          PROVE  /\ PendingInOpen'
                 /\ row' \in [Ops -> {"none", "pending", "committed", "rolledback"}]
                 /\ owner' \in [Ops -> Scopes \cup {NoScope}]
      <4>1. h \in Scopes \cup {NoScope}
        BY <1>0, <2>3
      <4>2. QED BY <2>4, <3>3, <4>1 DEF DataTypes, PendingInOpen
    <3>4. QED BY <2>3, <3>1, <3>2, <3>3
  <2>7. QED BY <2>2, <2>5, <2>6 DEF DataTypes
<1>7. ASSUME NEW o \in Ops, Finish(o) PROVE DataTypes' /\ PendingInOpen'
  <2>1. /\ UNCHANGED <<scopeDB, txState, opKind, opDB, row, owner, late, panics>>
        /\ ReportError(o) \/ ReportLater(o) \/ ReportNow(o)
    BY <1>7 DEF Finish, txVars, opVars
  <2>2. /\ \/ UNCHANGED isNew
           \/ isNew' = [isNew EXCEPT ![o] = @ \/ opKind[o] = "create"]
        /\ \/ UNCHANGED hooks
           \/ Fire(<< <<o, "error">> >>) \/ Fire(<< <<o, "success">> >>)
        /\ \/ UNCHANGED after
           \/ \E t \in Running : after' = [after EXCEPT ![t] = Append(@, o)]
    BY <2>1, ScopesOfApp DEF ReportError, ReportLater, ReportNow, MarkAsNew
  <2>3. isNew' \in [Ops -> BOOLEAN]
    BY <2>2, Zenon DEF DataTypes
  <2>4. hooks' \in Seq(Ops \X {"success", "error"})
    BY <2>2, Fired DEF DataTypes
  <2>5. after' \in [Scopes -> Seq(Ops)]
    <3>1. ASSUME NEW t \in Running, after' = [after EXCEPT ![t] = Append(@, o)]
          PROVE  after' \in [Scopes -> Seq(Ops)]
      <4>1. t \in Scopes /\ Append(after[t], o) \in Seq(Ops)
        BY <1>0, PushType DEF DataTypes
      <4>2. QED BY <3>1, <4>1 DEF DataTypes
    <3>2. QED BY <2>2, <3>1 DEF DataTypes
  <2>6. QED BY <2>1, <2>3, <2>4, <2>5 DEF DataTypes, PendingInOpen, Running
<1>8. CASE Panic
  <2>1. /\ row' = [o \in Ops |-> IF row[o] = "pending" THEN "rolledback" ELSE row[o]]
        /\ panics' = panics + 1 /\ panics < MaxPanics
        /\ UNCHANGED <<scopeDB, after, opKind, opDB, owner, isNew, late, hooks>>
    BY <1>8 DEF Panic, opVars
  <2>2. QED BY <2>1 DEF DataTypes, PendingInOpen
<1>9. QED BY <1>1, <1>2, <1>3, <1>4, <1>5, <1>6, <1>7, <1>8 DEF Next

-----------------------------------------------------------------------------
(* Every operation reports once. *)

Reported(o) == \E k \in DOMAIN hooks : hooks[k][1] = o
QueuedIn(s, o) == \E k \in DOMAIN after[s] : after[s][k] = o
Queued(o) == \E s \in Scopes : QueuedIn(s, o)

HooksOnce  == \A k, l \in DOMAIN hooks : hooks[k][1] = hooks[l][1] => k = l
QueuedOnce == \A s, t \in Scopes : \A k \in DOMAIN after[s], l \in DOMAIN after[t] :
                after[s][k] = after[t][l] => s = t /\ k = l

\* An operation that has not returned is neither reported nor queued, and one that is
\* queued is not reported.
ReportedAtEnd ==
  \A o \in Ops : /\ opState[o] # "finished" => ~Queued(o) /\ ~Reported(o)
                 /\ Queued(o) => ~Reported(o)

\* Without panics, an operation that has returned is one of the two, and a scope with a
\* queue is still to run it.
Answered ==
  panics = 0 => /\ \A o \in Ops : opState[o] # "panicked"
                /\ \A o \in Ops : opState[o] = "finished" => Reported(o) \/ Queued(o)
                /\ \A s \in Scopes : after[s] # <<>> => InStack(s)

ReportInv == HooksOnce /\ QueuedOnce /\ ReportedAtEnd /\ Answered

\* A hook of an operation that has not reported.
LEMMA FiredOnce ==
  ASSUME DataTypes, HooksOnce, NEW o \in Ops, NEW r \in {"success", "error"},
         ~Reported(o), Fire(<< <<o, r>> >>)
  PROVE  HooksOnce' /\ \A x : Reported(x)' <=> Reported(x) \/ x = o
<1>1. /\ Len(hooks) \in Nat
      /\ DOMAIN hooks = 1..Len(hooks) /\ DOMAIN hooks' = 1..(Len(hooks) + 1)
      /\ \A k \in 1..Len(hooks) : hooks'[k] = hooks[k]
      /\ hooks'[Len(hooks) + 1][1] = o
  <2>1. <<o, r>>[1] = o
    OBVIOUS
  <2>2. QED BY <2>1, Fired
<1>2. HooksOnce'
  BY <1>1 DEF HooksOnce, Reported
<1>3. ASSUME NEW x PROVE Reported(x)' <=> Reported(x) \/ x = o
  BY <1>1 DEF Reported
<1>4. QED BY <1>2, <1>3

\* An operation joins the queue of a scope.
LEMMA Enqueued ==
  ASSUME DataTypes, QueuedOnce, NEW s \in Scopes, NEW o \in Ops, ~Queued(o),
         after' = [after EXCEPT ![s] = Append(@, o)]
  PROVE  /\ QueuedOnce' /\ \A x : Queued(x)' <=> Queued(x) \/ x = o
         /\ \A t \in Scopes, x \in Ops : QueuedIn(t, x)' => QueuedIn(t, x) \/ (t = s /\ x = o)
<1>1. /\ Len(after[s]) \in Nat
      /\ DOMAIN after[s] = 1..Len(after[s]) /\ DOMAIN after'[s] = 1..(Len(after[s]) + 1)
      /\ \A k \in 1..Len(after[s]) : after'[s][k] = after[s][k]
      /\ after'[s][Len(after[s]) + 1] = o
  <2>1. after'[s] = Append(after[s], o) /\ after[s] \in Seq(Ops)
    BY DEF DataTypes
  <2>2. QED BY <2>1, PushType
<1>2. \A t \in Scopes \ {s} : after'[t] = after[t]
  BY DEF DataTypes
<1>3. ASSUME NEW x PROVE Queued(x)' <=> Queued(x) \/ x = o
  BY <1>1, <1>2 DEF Queued, QueuedIn
<1>4. QueuedOnce'
  BY <1>1, <1>2 DEF QueuedOnce, Queued, QueuedIn
<1>5. \A t \in Scopes, x \in Ops : QueuedIn(t, x)' => QueuedIn(t, x) \/ (t = s /\ x = o)
  BY <1>1, <1>2 DEF QueuedIn
<1>6. QED BY <1>3, <1>4, <1>5

\* A completion callback leaves its queue, and no other.
LEMMA Dequeued ==
  ASSUME DataTypes, QueuedOnce, NEW s \in Scopes, after[s] # <<>>,
         after' = [after EXCEPT ![s] = Tail(after[s])]
  PROVE  /\ QueuedOnce' /\ Head(after[s]) \in Ops
         /\ Queued(Head(after[s])) /\ QueuedIn(s, Head(after[s]))
         /\ \A t \in Scopes, x \in Ops : QueuedIn(t, x)' => QueuedIn(t, x)
         /\ \A x : Queued(x)' <=> Queued(x) /\ x # Head(after[s])
<1>1. /\ Len(after[s]) \in Nat \ {0}
      /\ DOMAIN after[s] = 1..Len(after[s]) /\ DOMAIN after'[s] = 1..(Len(after[s]) - 1)
      /\ \A k \in 1..(Len(after[s]) - 1) : after'[s][k] = after[s][k + 1]
      /\ Head(after[s]) = after[s][1] /\ Head(after[s]) \in Ops
  <2>1. after'[s] = Tail(after[s]) /\ after[s] \in Seq(Ops)
    BY DEF DataTypes
  <2>2. QED BY <2>1, TailType
<1>2. \A t \in Scopes \ {s} : after'[t] = after[t]
  BY DEF DataTypes
<1>3. Queued(Head(after[s])) /\ QueuedIn(s, Head(after[s]))
  BY <1>1 DEF Queued, QueuedIn
<1>4. ASSUME NEW x PROVE Queued(x)' <=> Queued(x) /\ x # Head(after[s])
  <2>1. ASSUME Queued(x)' PROVE Queued(x) /\ x # Head(after[s])
    <3>1. PICK t \in Scopes : \E k \in DOMAIN after'[t] : after'[t][k] = x
      BY <2>1 DEF Queued, QueuedIn
    <3>2. PICK l \in DOMAIN after[t] : after[t][l] = x /\ (t = s => l # 1)
      <4>1. CASE t = s
        <5>1. PICK k \in 1..(Len(after[s]) - 1) : after'[s][k] = x
          BY <1>1, <3>1, <4>1
        <5>2. k + 1 \in 1..Len(after[s]) /\ k + 1 # 1
          BY <1>1
        <5>3. QED BY <1>1, <4>1, <5>1, <5>2
      <4>2. CASE t # s
        BY <1>2, <3>1, <4>2
      <4>3. QED BY <4>1, <4>2
    <3>3. QED BY <1>1, <3>2 DEF Queued, QueuedIn, QueuedOnce
  <2>2. ASSUME Queued(x), x # Head(after[s]) PROVE Queued(x)'
    <3>1. PICK t \in Scopes : \E k \in DOMAIN after[t] : after[t][k] = x
      BY <2>2 DEF Queued, QueuedIn
    <3>2. CASE t = s
      <4>1. PICK k \in 1..Len(after[s]) : after[s][k] = x
        BY <1>1, <3>1, <3>2
      <4>2. k # 1
        BY <1>1, <2>2, <4>1
      <4>3. k - 1 \in 1..(Len(after[s]) - 1) /\ (k - 1) + 1 = k
        BY <1>1, <4>2
      <4>4. QED BY <1>1, <4>1, <4>3 DEF Queued, QueuedIn
    <3>3. CASE t # s
      BY <1>2, <3>1, <3>3 DEF Queued, QueuedIn
    <3>4. QED BY <3>2, <3>3
  <2>3. QED BY <2>1, <2>2
<1>5. QueuedOnce'
  <2>1. SUFFICES ASSUME NEW t \in Scopes, NEW u \in Scopes,
                        NEW k \in DOMAIN after'[t], NEW l \in DOMAIN after'[u],
                        after'[t][k] = after'[u][l]
                 PROVE  t = u /\ k = l
    BY DEF QueuedOnce
  <2>2. \A v \in Scopes : \A m \in DOMAIN after'[v] :
          LET n == IF v = s THEN m + 1 ELSE m IN n \in DOMAIN after[v] /\ after'[v][m] = after[v][n]
    BY <1>1, <1>2
  <2>3. t = u /\ (IF t = s THEN k + 1 ELSE k) = (IF u = s THEN l + 1 ELSE l)
    BY <2>1, <2>2 DEF QueuedOnce
  <2>4. t = s => k \in Nat /\ l \in Nat
    BY <1>1, <2>3
  <2>5. QED BY <2>3, <2>4
<1>6. ASSUME NEW t \in Scopes, NEW x \in Ops, QueuedIn(t, x)' PROVE QueuedIn(t, x)
  <2>1. PICK k \in DOMAIN after'[t] : after'[t][k] = x
    BY <1>6 DEF QueuedIn
  <2>2. CASE t = s
    <3>1. k + 1 \in DOMAIN after[s] /\ after[s][k + 1] = x
      BY <1>1, <2>1, <2>2
    <3>2. QED BY <2>2, <3>1 DEF QueuedIn
  <2>3. CASE t # s
    BY <1>2, <2>1, <2>3 DEF QueuedIn
  <2>4. QED BY <2>2, <2>3
<1>7. QED BY <1>1, <1>3, <1>4, <1>5, <1>6

\* Reports are neither lost nor doubled.
LEMMA ReportStep ==
  ASSUME StackInv, StackInv', DataTypes, DataTypes', ReportInv, Next
  PROVE  ReportInv'
<1> USE ConstantsAssumption
<1>1. ASSUME UNCHANGED <<after, hooks>>,
             \A o \in Ops : opState'[o] = "finished" <=> opState[o] = "finished",
             panics' = 0 => /\ panics = 0
                            /\ \A o \in Ops : opState'[o] = "panicked" => opState[o] = "panicked"
                            /\ \A s \in Scopes : after[s] # <<>> /\ InStack(s) => InStack(s)'
      PROVE  ReportInv'
  <2>1. \A o : (Reported(o)' <=> Reported(o)) /\ (Queued(o)' <=> Queued(o))
    BY <1>1 DEF Reported, Queued, QueuedIn
  <2>2. HooksOnce' /\ QueuedOnce'
    BY <1>1 DEF ReportInv, HooksOnce, QueuedOnce
  <2>3. ReportedAtEnd' /\ Answered'
    BY <1>1, <2>1 DEF ReportInv, ReportedAtEnd, Answered
  <2>4. QED BY <2>2, <2>3 DEF ReportInv
<1>2. ASSUME NEW s \in Scopes, NEW db, Open(s, db) PROVE ReportInv'
  <2>1. stack' = Append(stack, s) /\ UNCHANGED <<after, hooks, opState, panics>> /\ ~InStack(s)
    BY <1>2 DEF Open, StackInv, OnStack
  <2>2. \A y : InStack(y)' <=> InStack(y) \/ y = s
    BY <2>1, Pushed DEF StackInv
  <2>3. QED BY <1>1, <2>1, <2>2
<1>3. ASSUME NEW s \in Scopes, Close(s) PROVE ReportInv'
  BY <1>1, <1>3 DEF Close, InStack
<1>4. ASSUME NEW s \in Scopes, EndScope(s) PROVE ReportInv'
  <2>1. /\ Top = s /\ s # NoScope /\ stack' = Pop /\ after[s] = <<>>
        /\ UNCHANGED <<after, hooks, opState, panics>>
    BY <1>4 DEF EndScope, NoScope, Scopes
  <2>2. \A y : InStack(y)' <=> InStack(y) /\ y # s
    BY <2>1, Popped DEF StackInv
  <2>3. QED BY <1>1, <2>1, <2>2
<1>5. ASSUME NEW o \in Ops, Begin(o) PROVE ReportInv'
  <2>1. /\ stack' = Append(stack, o) /\ UNCHANGED <<after, hooks, panics>> /\ ~InStack(o)
        /\ opState[o] = "new" /\ opState' = [opState EXCEPT ![o] = "started"]
    BY <1>5 DEF Begin, StackInv, OnStack
  <2>2. \A y : InStack(y)' <=> InStack(y) \/ y = o
    BY <2>1, Pushed DEF StackInv
  <2>3. \A x \in Ops, l \in {"finished", "panicked"} : opState'[x] = l <=> opState[x] = l
    BY <2>1 DEF StackInv, StackTypes
  <2>4. QED BY <1>1, <2>1, <2>2, <2>3
<1>6. ASSUME NEW o \in Ops, Write(o) PROVE ReportInv'
  <2>1. /\ UNCHANGED <<stack, after, hooks, panics>> /\ opState[o] = "started"
        /\ \/ opState' = [opState EXCEPT ![o] = "written"]
           \/ opState' = [opState EXCEPT ![o] = "failed"]
    BY <1>6 DEF Write
  <2>2. \A x \in Ops, l \in {"finished", "panicked"} : opState'[x] = l <=> opState[x] = l
    BY <2>1 DEF StackInv, StackTypes
  <2>3. QED BY <1>1, <2>1, <2>2 DEF InStack
<1>7. ASSUME NEW o \in Ops, FailLate(o) PROVE ReportInv'
  BY <1>1, <1>7 DEF FailLate, InStack
<1>8. CASE Panic
  <2>1. UNCHANGED <<after, hooks>> /\ panics' = panics + 1
    BY <1>8 DEF Panic
  <2>2. panics' # 0
    BY <2>1 DEF DataTypes
  <2>3. \A o \in Ops : opState'[o] = "finished" <=> opState[o] = "finished"
    <3>1. opState' = [o \in Ops |-> IF InStack(o) THEN "panicked" ELSE opState[o]]
      BY <1>8 DEF Panic
    <3>2. QED BY <3>1 DEF StackInv, OnStack
  <2>4. QED BY <1>1, <2>1, <2>2, <2>3
<1>9. ASSUME NEW s \in Scopes, RunAfterFunc(s) PROVE ReportInv'
  <2>1. /\ after[s] # <<>> /\ after' = [after EXCEPT ![s] = Tail(after[s])]
        /\ \E r \in {"success", "error"} : Fire(<< <<Head(after[s]), r>> >>)
        /\ UNCHANGED <<stack, opState, panics>>
    BY <1>9 DEF RunAfterFunc, RunHeadOf
  <2> DEFINE h == Head(after[s])
  <2>2. /\ QueuedOnce' /\ h \in Ops /\ Queued(h)
        /\ \A x : Queued(x)' <=> Queued(x) /\ x # h
    BY <2>1, Dequeued DEF ReportInv
  <2>3. ~Reported(h) /\ opState[h] = "finished"
    BY <2>2 DEF ReportInv, ReportedAtEnd
  <2>4. HooksOnce' /\ \A x : Reported(x)' <=> Reported(x) \/ x = h
    BY <2>1, <2>2, <2>3, FiredOnce DEF ReportInv
  <2>5. ReportedAtEnd'
    BY <2>1, <2>2, <2>3, <2>4 DEF ReportInv, ReportedAtEnd
  <2>6. Answered'
    <3>1. \A t \in Scopes : after'[t] # <<>> => after[t] # <<>>
      BY <2>1 DEF DataTypes
    <3>2. \A y : InStack(y)' <=> InStack(y)
      BY <2>1 DEF InStack
    <3>3. QED BY <2>1, <2>2, <2>4, <3>1, <3>2 DEF ReportInv, Answered
  <2>7. QED BY <2>2, <2>4, <2>5, <2>6 DEF ReportInv
<1>10. ASSUME NEW o \in Ops, Finish(o) PROVE ReportInv'
  <2>1. /\ Top = o /\ stack' = Pop /\ opState' = [opState EXCEPT ![o] = "finished"]
        /\ UNCHANGED panics
    BY <1>10 DEF Finish
  <2>2. InStack(o) /\ \A y : InStack(y)' <=> InStack(y) /\ y # o
    BY <2>1, Popped DEF StackInv
  <2>3. opState[o] # "finished" /\ ~Queued(o) /\ ~Reported(o)
    BY <2>2 DEF StackInv, OnStack, ReportInv, ReportedAtEnd
  <2>4. /\ opState'[o] = "finished" /\ \A x \in Ops \ {o} : opState'[x] = opState[x]
    BY <2>1 DEF StackInv, StackTypes
  <2>5. \A s \in Scopes : s # o
    OBVIOUS
  <2>6. CASE ReportError(o) \/ ReportNow(o)
    <3>1. UNCHANGED after /\ \E r \in {"success", "error"} : Fire(<< <<o, r>> >>)
      BY <2>6 DEF ReportError, ReportNow
    <3>2. HooksOnce' /\ \A x : Reported(x)' <=> Reported(x) \/ x = o
      BY <2>3, <3>1, FiredOnce DEF ReportInv
    <3>3. QueuedOnce' /\ \A x : Queued(x)' <=> Queued(x)
      BY <3>1 DEF ReportInv, QueuedOnce, Queued, QueuedIn
    <3>4. ReportedAtEnd'
      BY <2>3, <2>4, <3>2, <3>3 DEF ReportInv, ReportedAtEnd
    <3>5. Answered'
      BY <2>1, <2>2, <2>4, <2>5, <3>1, <3>2, <3>3 DEF ReportInv, Answered
    <3>6. QED BY <3>2, <3>3, <3>4, <3>5 DEF ReportInv
  <2>7. CASE ReportLater(o)
    <3>1. UNCHANGED hooks
      BY <2>7 DEF ReportLater
    <3>2. PICK s \in Running : after' = [after EXCEPT ![s] = Append(@, o)]
      BY <2>7, ScopesOfApp DEF ReportLater
    <3>3. s \in Scopes /\ InStack(s)
      BY DEF Running, StackInv, OnStack
    <3>4. QueuedOnce' /\ \A x : Queued(x)' <=> Queued(x) \/ x = o
      BY <2>3, <3>2, <3>3, Enqueued DEF ReportInv
    <3>5. HooksOnce' /\ \A x : Reported(x)' <=> Reported(x)
      BY <3>1 DEF ReportInv, HooksOnce, Reported
    <3>6. ReportedAtEnd'
      BY <2>3, <2>4, <3>4, <3>5 DEF ReportInv, ReportedAtEnd
    <3>7. Answered'
      <4>1. \A t \in Scopes : after'[t] # <<>> => t = s \/ after[t] # <<>>
        BY <3>2, <3>3 DEF DataTypes
      <4>2. QED BY <2>1, <2>2, <2>4, <2>5, <3>3, <3>4, <3>5, <4>1 DEF ReportInv, Answered
    <3>8. QED BY <3>4, <3>5, <3>6, <3>7 DEF ReportInv
  <2>8. QED BY <1>10, <2>6, <2>7 DEF Finish
<1>11. QED BY <1>2, <1>3, <1>4, <1>5, <1>6, <1>7, <1>8, <1>9, <1>10 DEF Next

-----------------------------------------------------------------------------
(* The flag of the model agrees with what has been reported. *)

Told(o, r) == \E k \in DOMAIN hooks : hooks[k] = <<o, r>>

Flags ==
  \A o \in Ops :
    /\ opState[o] \in {"new", "started", "failed"} =>
         row[o] = "none" /\ (isNew[o] <=> opKind[o] = "create")
    /\ opState[o] = "written" => row[o] # "none" /\ ~isNew[o]
    /\ Queued(o) \/ Told(o, "success") => ~isNew[o]
    /\ Told(o, "error") /\ opKind[o] = "create" => isNew[o]

\* What firing a hook tells.
LEMMA FiredTold ==
  ASSUME DataTypes, NEW o \in Ops, NEW r \in {"success", "error"}, Fire(<< <<o, r>> >>)
  PROVE  \A x, q : Told(x, q)' <=> Told(x, q) \/ (x = o /\ q = r)
<1>1. /\ Len(hooks) \in Nat
      /\ DOMAIN hooks = 1..Len(hooks) /\ DOMAIN hooks' = 1..(Len(hooks) + 1)
      /\ \A k \in 1..Len(hooks) : hooks'[k] = hooks[k]
      /\ hooks'[Len(hooks) + 1] = <<o, r>>
  BY Fired
<1>2. \A x, q : <<x, q>> = <<o, r>> <=> x = o /\ q = r
  OBVIOUS
<1>3. ASSUME NEW x, NEW q PROVE Told(x, q)' <=> Told(x, q) \/ <<x, q>> = <<o, r>>
  <2> DEFINE e == <<x, q>>
             f == <<o, r>>
  <2>1. (\E k \in DOMAIN hooks' : hooks'[k] = e) <=> (\E k \in DOMAIN hooks : hooks[k] = e) \/ e = f
    <3> HIDE DEF e, f
    <3>1. hooks'[Len(hooks) + 1] = f
      BY <1>1 DEF f
    <3>2. QED BY <1>1, <3>1
  <2>2. QED BY <2>1 DEF Told
<1>4. QED BY <1>2, <1>3

\* Who is told of has reported.
LEMMA ToldReported == DataTypes => \A o \in Ops : \A r : Told(o, r) => Reported(o)
<1> SUFFICES ASSUME DataTypes, NEW o \in Ops, NEW r, Told(o, r) PROVE Reported(o)
  OBVIOUS
<1>1. PICK k \in DOMAIN hooks : hooks[k] = <<o, r>>
  BY DEF Told
<1>2. hooks[k][1] = o
  BY <1>1
<1>3. QED BY <1>2 DEF Reported

\* A report is a success or an error.
LEMMA ReportedTold ==
  ASSUME DataTypes, NEW o \in Ops, Reported(o) PROVE Told(o, "success") \/ Told(o, "error")
<1>1. PICK k \in DOMAIN hooks : hooks[k][1] = o
  BY DEF Reported
<1>2. hooks[k] \in Ops \X {"success", "error"}
  BY DEF DataTypes
<1>3. hooks[k] = <<o, "success">> \/ hooks[k] = <<o, "error">>
  BY <1>1, <1>2
<1>4. QED BY <1>3 DEF Told

\* The flag follows the write and the report.
LEMMA FlagStep ==
  ASSUME StackInv, DataTypes, PendingInOpen, ReportInv, Flags, Next
  PROVE  Flags'
<1> USE ConstantsAssumption
<1>1. ASSUME UNCHANGED <<after, hooks>>
      PROVE  \A o, r : (Queued(o)' <=> Queued(o)) /\ (Told(o, r)' <=> Told(o, r))
  BY <1>1 DEF Queued, QueuedIn, Told
<1>2. ASSUME UNCHANGED <<after, hooks, isNew, opKind>>,
             \A o \in Ops : /\ opState'[o] \in {"new", "started", "failed"} =>
                                 opState[o] \in {"new", "started", "failed"}
                            /\ opState'[o] = "written" => opState[o] = "written"
                            /\ row'[o] = "none" <=> row[o] = "none"
      PROVE  Flags'
  BY <1>1, <1>2, Zenon DEF Flags
<1>3. ASSUME NEW s \in Scopes,
             Close(s) \/ EndScope(s) \/ \E db \in Databases \cup {"single"} : Open(s, db)
      PROVE  Flags'
  <2>1. UNCHANGED <<after, hooks, isNew, opKind, opState>>
    BY <1>3 DEF Close, EndScope, Open, opVars
  <2>2. UNCHANGED row \/ Settle(s, "committed") \/ Settle(s, "rolledback")
    BY <1>3 DEF Close, EndScope, Open
  <2>3. \A o \in Ops : row'[o] = "none" <=> row[o] = "none"
    BY <2>2 DEF Settle
  <2>4. QED BY <1>2, <2>1, <2>3
<1>4. ASSUME NEW o \in Ops, Begin(o) \/ FailLate(o) PROVE Flags'
  <2>1. /\ UNCHANGED <<after, hooks, isNew, opKind, row>>
        /\ \/ UNCHANGED opState
           \/ opState[o] = "new" /\ opState' = [opState EXCEPT ![o] = "started"]
    BY <1>4 DEF Begin, FailLate, opVars
  <2>2. QED BY <1>2, <2>1 DEF StackInv, StackTypes
<1>5. CASE Panic
  <2>1. /\ UNCHANGED <<after, hooks, isNew, opKind>>
        /\ row' = [o \in Ops |-> IF row[o] = "pending" THEN "rolledback" ELSE row[o]]
        /\ opState' = [o \in Ops |-> IF InStack(o) THEN "panicked" ELSE opState[o]]
    BY <1>5 DEF Panic, opVars
  <2>2. QED BY <1>2, <2>1
<1>6. ASSUME NEW o \in Ops, Write(o) PROVE Flags'
  <2>1. UNCHANGED <<after, hooks, opKind>> /\ opState[o] = "started"
    BY <1>6 DEF Write, opVars
  <2>2. ~Queued(o) /\ \A r : ~Told(o, r)
    BY <2>1, ToldReported DEF ReportInv, ReportedAtEnd
  <2>3. CASE opState' = [opState EXCEPT ![o] = "failed"] /\ UNCHANGED <<row, isNew>>
    BY <1>2, <2>1, <2>3 DEF StackInv, StackTypes
  <2>4. CASE /\ opState' = [opState EXCEPT ![o] = "written"]
             /\ \E v \in {"committed", "pending"} : row' = [row EXCEPT ![o] = v]
             /\ isNew' = [isNew EXCEPT ![o] = FALSE]
    <3>1. opState'[o] = "written" /\ row'[o] # "none" /\ isNew'[o] = FALSE
      BY <2>4 DEF StackInv, StackTypes, DataTypes
    <3>2. \A x \in Ops \ {o} : opState'[x] = opState[x] /\ row'[x] = row[x] /\ isNew'[x] = isNew[x]
      BY <2>4 DEF StackInv, StackTypes, DataTypes
    <3>3. \A x, r : (Queued(x)' <=> Queued(x)) /\ (Told(x, r)' <=> Told(x, r)) /\ opKind' = opKind
      BY <1>1, <2>1
    <3>4. ASSUME NEW x \in Ops \ {o}
          PROVE  /\ opState'[x] \in {"new", "started", "failed"} =>
                       row'[x] = "none" /\ (isNew'[x] <=> opKind'[x] = "create")
                 /\ opState'[x] = "written" => row'[x] # "none" /\ ~isNew'[x]
                 /\ Queued(x)' \/ Told(x, "success")' => ~isNew'[x]
                 /\ Told(x, "error")' /\ opKind'[x] = "create" => isNew'[x]
      BY <3>2, <3>3, Zenon DEF Flags
    <3>5. QED BY <2>2, <3>1, <3>3, <3>4 DEF Flags
  <2>5. QED BY <1>6, <2>3, <2>4 DEF Write
<1>7. ASSUME NEW s \in Scopes, RunAfterFunc(s) PROVE Flags'
  <2> DEFINE h == Head(after[s])
  <2>1. /\ UNCHANGED <<opState, row, opKind>> /\ after[s] # <<>>
        /\ after' = [after EXCEPT ![s] = Tail(after[s])]
    BY <1>7 DEF RunAfterFunc, RunHeadOf, opVars
  <2>2. h \in Ops /\ Queued(h) /\ \A x : Queued(x)' <=> Queued(x) /\ x # h
    BY <2>1, Dequeued DEF ReportInv
  <2>3. opState[h] = "finished" /\ ~isNew[h] /\ \A r : ~Told(h, r)
    BY <2>2, ToldReported DEF ReportInv, ReportedAtEnd, Flags
  <2>4. CASE Fire(<< <<h, "success">> >>) /\ UNCHANGED isNew
    <3>1. \A x, q : Told(x, q)' <=> Told(x, q) \/ (x = h /\ q = "success")
      BY <2>2, <2>4, FiredTold
    <3>2. ASSUME NEW x \in Ops
          PROVE  /\ Queued(x)' \/ Told(x, "success")' => ~isNew'[x]
                 /\ Told(x, "error")' /\ opKind'[x] = "create" => isNew'[x]
      <4>1. CASE x = h
        BY <2>2, <2>3, <2>4, <3>1, <4>1
      <4>2. CASE x # h
        BY <2>1, <2>2, <2>4, <3>1, <4>2, Zenon DEF Flags
      <4>3. QED BY <4>1, <4>2
    <3>3. QED BY <2>1, <2>4, <3>2, Zenon DEF Flags
  <2>5. CASE Fire(<< <<h, "error">> >>) /\ MarkAsNew(h)
    <3>1. \A x, q : Told(x, q)' <=> Told(x, q) \/ (x = h /\ q = "error")
      BY <2>2, <2>5, FiredTold
    <3>2. /\ opKind[h] = "create" => isNew'[h]
          /\ \A x \in Ops \ {h} : isNew'[x] = isNew[x]
      BY <2>2, <2>5, Zenon DEF MarkAsNew, DataTypes
    <3>3. ASSUME NEW x \in Ops
          PROVE  /\ opState'[x] \in {"new", "started", "failed"} =>
                       row'[x] = "none" /\ (isNew'[x] <=> opKind'[x] = "create")
                 /\ opState'[x] = "written" => row'[x] # "none" /\ ~isNew'[x]
                 /\ Queued(x)' \/ Told(x, "success")' => ~isNew'[x]
                 /\ Told(x, "error")' /\ opKind'[x] = "create" => isNew'[x]
      <4>1. CASE x = h
        BY <2>1, <2>2, <2>3, <3>1, <3>2, <4>1
      <4>2. CASE x # h
        <5>1. /\ isNew'[x] = isNew[x] /\ opState'[x] = opState[x]
              /\ row'[x] = row[x] /\ opKind'[x] = opKind[x]
          BY <2>1, <3>2, <4>2
        <5>2. (Queued(x)' <=> Queued(x)) /\ \A q : Told(x, q)' <=> Told(x, q)
          BY <2>2, <3>1, <4>2
        <5>3. QED BY <5>1, <5>2, Zenon DEF Flags
      <4>3. QED BY <4>1, <4>2
    <3>4. QED BY <3>3 DEF Flags
  <2>6. QED BY <1>7, <2>4, <2>5 DEF RunAfterFunc, RunHeadOf
<1>8. ASSUME NEW o \in Ops, Finish(o) PROVE Flags'
  <2>1. /\ Top = o /\ stack' = Pop /\ opState' = [opState EXCEPT ![o] = "finished"]
        /\ UNCHANGED <<row, opKind>>
    BY <1>8 DEF Finish, opVars
  <2>2. opState[o] \in {"started", "written", "failed"}
    BY <2>1, Popped DEF StackInv, OnStack
  <2>3. ~Queued(o) /\ \A r : ~Told(o, r)
    BY <2>2, ToldReported DEF ReportInv, ReportedAtEnd
  <2>4. opState'[o] = "finished" /\ \A x \in Ops \ {o} : opState'[x] = opState[x]
    BY <2>1 DEF StackInv, StackTypes
  <2>5. ASSUME \A x \in Ops \ {o} : isNew'[x] = isNew[x],
               \A x \in Ops \ {o} : \A q : (Queued(x)' <=> Queued(x)) /\ (Told(x, q)' <=> Told(x, q)),
               Queued(o)' \/ Told(o, "success")' => ~isNew'[o],
               Told(o, "error")' /\ opKind'[o] = "create" => isNew'[o]
        PROVE  Flags'
    <3>1. ASSUME NEW x \in Ops \ {o}
          PROVE  /\ opState'[x] \in {"new", "started", "failed"} =>
                       row'[x] = "none" /\ (isNew'[x] <=> opKind'[x] = "create")
                 /\ opState'[x] = "written" => row'[x] # "none" /\ ~isNew'[x]
                 /\ Queued(x)' \/ Told(x, "success")' => ~isNew'[x]
                 /\ Told(x, "error")' /\ opKind'[x] = "create" => isNew'[x]
      <4>1. /\ isNew'[x] = isNew[x] /\ opState'[x] = opState[x]
            /\ row'[x] = row[x] /\ opKind'[x] = opKind[x]
        BY <2>1, <2>4, <2>5
      <4>2. (Queued(x)' <=> Queued(x)) /\ \A q : Told(x, q)' <=> Told(x, q)
        BY <2>5
      <4>3. QED BY <4>1, <4>2, Zenon DEF Flags
    <3>2. QED BY <2>4, <2>5, <3>1 DEF Flags
  <2>6. CASE ReportError(o)
    <3>1. /\ UNCHANGED after /\ Fire(<< <<o, "error">> >>) /\ MarkAsNew(o)
      BY <2>6 DEF ReportError
    <3>2. /\ opKind[o] = "create" => isNew'[o]
          /\ \A x \in Ops \ {o} : isNew'[x] = isNew[x]
      BY <3>1, Zenon DEF MarkAsNew, DataTypes
    <3>3. \A x, q : Told(x, q)' <=> Told(x, q) \/ (x = o /\ q = "error")
      BY <3>1, FiredTold
    <3>4. \A x : Queued(x)' <=> Queued(x)
      BY <3>1 DEF Queued, QueuedIn
    <3>5. QED BY <2>1, <2>3, <2>5, <3>2, <3>3, <3>4
  <2>7. CASE ReportNow(o)
    <3>1. UNCHANGED <<after, isNew>> /\ Fire(<< <<o, "success">> >>) /\ opState[o] = "written"
      BY <2>7 DEF ReportNow, Failed
    <3>2. \A x, q : Told(x, q)' <=> Told(x, q) \/ (x = o /\ q = "success")
      BY <3>1, FiredTold
    <3>3. \A x : Queued(x)' <=> Queued(x)
      BY <3>1 DEF Queued, QueuedIn
    <3>4. ~isNew'[o]
      BY <3>1 DEF Flags
    <3>5. QED BY <2>3, <2>5, <3>1, <3>2, <3>3, <3>4
  <2>8. CASE ReportLater(o)
    <3>1. UNCHANGED <<hooks, isNew>> /\ opState[o] = "written"
      BY <2>8 DEF ReportLater, Failed
    <3>2. PICK s \in Running : after' = [after EXCEPT ![s] = Append(@, o)]
      BY <2>8, ScopesOfApp DEF ReportLater
    <3>3. \A x : Queued(x)' <=> Queued(x) \/ x = o
      <4>1. s \in Scopes
        BY DEF Running
      <4>2. QED BY <2>3, <3>2, <4>1, Enqueued DEF ReportInv
    <3>4. \A x, q : Told(x, q)' <=> Told(x, q)
      BY <3>1 DEF Told
    <3>5. ~isNew'[o]
      BY <3>1 DEF Flags
    <3>6. QED BY <2>3, <2>5, <3>1, <3>3, <3>4, <3>5
  <2>9. QED BY <1>8, <2>6, <2>7, <2>8 DEF Finish
<1>9. QED BY <1>3, <1>4, <1>5, <1>6, <1>7, <1>8 DEF Next

-----------------------------------------------------------------------------
(* While the two databases are not mixed, an operation reports to the scope   *)
(* that its write belongs to.                                                 *)

\* Operation o is inside of scope s.
Nested(s, o) == \E k, l \in DOMAIN stack : k < l /\ stack[k] = s /\ stack[l] = o

OneOpen == \A s, t \in Running : s = t

\* An operation inside of an open scope writes in its database, and has its write there.
Inside ==
  \A s \in Running, o \in Ops : Nested(s, o) =>
    /\ opDB[o] \in Covers(s)
    /\ opState[o] = "written" => row[o] = "pending" /\ owner[o] = s

\* What is queued has the outcome of the scope.
QueuedOutcome ==
  \A s \in Scopes, o \in Ops : QueuedIn(s, o) =>
    /\ txState[s] # "unused"
    /\ s \in Running => row[o] = "pending" /\ owner[o] = s
    /\ txState[s] \in {"committed", "rolledback"} => row[o] = txState[s]

ToldTruth ==
  \A o \in Ops : /\ Told(o, "success") => row[o] = "committed"
                 /\ Told(o, "error") => row[o] \in {"none", "rolledback"} \/ o \in late

OneDatabase == OneOpen /\ Inside /\ QueuedOutcome /\ ToldTruth

\* A call that begins is inside of all that are in progress.
LEMMA NestedPush ==
  ASSUME StackInv, NEW x \in Ops \cup Scopes, stack' = Append(stack, x)
  PROVE  \A s, o : Nested(s, o)' <=> Nested(s, o) \/ (o = x /\ InStack(s))
<1>1. /\ Len(stack) \in Nat
      /\ DOMAIN stack = 1..Len(stack) /\ DOMAIN stack' = 1..(Len(stack) + 1)
      /\ \A k \in 1..Len(stack) : stack'[k] = stack[k]
      /\ stack'[Len(stack) + 1] = x
  BY PushType DEF StackInv, StackTypes
<1>2. ASSUME NEW s, NEW o, Nested(s, o)' PROVE Nested(s, o) \/ (o = x /\ InStack(s))
  BY <1>1, <1>2 DEF Nested, InStack
<1>3. ASSUME NEW s, NEW o, Nested(s, o) PROVE Nested(s, o)'
  BY <1>1, <1>3 DEF Nested
<1>4. ASSUME NEW s, InStack(s) PROVE Nested(s, x)'
  <2>1. PICK k \in 1..Len(stack) : stack[k] = s
    BY <1>1, <1>4 DEF InStack
  <2>2. k < Len(stack) + 1 /\ stack'[k] = s
    BY <1>1, <2>1
  <2>3. QED BY <1>1, <2>2 DEF Nested
<1>5. QED BY <1>2, <1>3, <1>4

\* A call that returns was inside of all that remain.
LEMMA NestedPop ==
  ASSUME StackInv, NEW x \in Ops \cup Scopes, Top = x, x # NoScope, stack' = Pop
  PROVE  /\ \A s, o : Nested(s, o)' => Nested(s, o)
         /\ \A s : InStack(s) /\ s # x => Nested(s, x)
<1>0. stack # <<>> /\ stack[Len(stack)] = x
  BY DEF Top
<1>1. /\ Len(stack) \in Nat \ {0}
      /\ DOMAIN stack = 1..Len(stack) /\ DOMAIN stack' = 1..(Len(stack) - 1)
      /\ \A k \in 1..(Len(stack) - 1) : stack'[k] = stack[k]
  BY <1>0, PopType DEF StackInv, StackTypes, Pop
<1>2. ASSUME NEW s, NEW o, Nested(s, o)' PROVE Nested(s, o)
  BY <1>1, <1>2 DEF Nested
<1>3. ASSUME NEW s, InStack(s), s # x PROVE Nested(s, x)
  <2>1. PICK k \in 1..Len(stack) : stack[k] = s
    BY <1>1, <1>3 DEF InStack
  <2>2. k # Len(stack)
    BY <1>0, <1>3, <2>1
  <2>3. k < Len(stack) /\ Len(stack) \in DOMAIN stack /\ k \in DOMAIN stack
    <3>1. \A n \in Nat \ {0} : \A j \in 1..n : n \in 1..n /\ (j # n => j < n)
      OBVIOUS
    <3>2. QED BY <1>1, <2>2, <3>1
  <2>4. QED BY <1>0, <2>1, <2>3 DEF Nested
<1>4. QED BY <1>2, <1>3

\* A statement of an operation inside of an open scope runs in that scope.
LEMMA HandleIsScope ==
  ASSUME StackInv, OneOpen, Inside, NEW s \in Running, NEW o \in Ops, Nested(s, o)
  PROVE  HandleOf(opDB[o]) = s
<1> DEFINE In == {t \in LiveScopes : opDB[o] \in Covers(t)}
<1>1. LiveScopes = Running /\ opDB[o] \in Covers(s) /\ InStack(s)
  BY LiveIsRunning DEF StackInv, OnStack, Inside
<1>2. In = {s}
  BY <1>1 DEF OneOpen
<1>3. HandleOf(opDB[o]) \in In
  BY <1>1, <1>2, InnermostIn DEF HandleOf, StackInv, StackTypes
<1>4. QED BY <1>2, <1>3

\* There is one open scope at a time, and what is inside of it writes to it.
LEMMA InsideStep ==
  ASSUME ~CrossDB, StackInv, DataTypes, OneOpen, Inside, Next
  PROVE  OneOpen' /\ Inside'
<1> USE ConstantsAssumption
<1>0. LiveScopes = Running /\ Running \subseteq Scopes /\ NoScope \notin Scopes
      /\ NoScope \notin Ops /\ Ops \cap Scopes = {}
  BY LiveIsRunning DEF StackInv, Running, NoScope, Scopes
\* It is enough that open scopes and what is inside of them stay as they are.
<1>1. ASSUME Running' \subseteq Running, UNCHANGED <<scopeDB, opDB>>,
             \A s \in Running, o \in Ops : Nested(s, o)' =>
               /\ Nested(s, o)
               /\ opState'[o] = "written" =>
                    opState[o] = "written" /\ row'[o] = row[o] /\ owner'[o] = owner[o]
      PROVE  OneOpen' /\ Inside'
  BY <1>1 DEF OneOpen, Inside, Covers
<1>2. ASSUME UNCHANGED stack PROVE \A s, o : Nested(s, o)' <=> Nested(s, o)
  BY <1>2 DEF Nested
<1>3. ASSUME NEW s \in Scopes, NEW db, Open(s, db) PROVE OneOpen' /\ Inside'
  <2>1. /\ stack' = Append(stack, s) /\ txState' = [txState EXCEPT ![s] = "open"]
        /\ txState[s] = "unused" /\ Running = {}
    BY <1>0, <1>3 DEF Open
  <2>2. Running' = {s} /\ ~InStack(s)
    BY <2>1 DEF Running, StackInv, StackTypes, OnStack
  <2>3. ASSUME NEW o \in Ops PROVE ~Nested(s, o)'
    <3>1. o # s /\ ~Nested(s, o)
      BY <1>0, <2>2 DEF Nested, InStack
    <3>2. QED BY <2>1, <2>2, <3>1, NestedPush
  <2>4. QED BY <2>2, <2>3 DEF OneOpen, Inside
<1>4. ASSUME NEW s \in Scopes, Close(s) PROVE OneOpen' /\ Inside'
  <2>1. /\ s \in Running
        /\ \/ txState' = [txState EXCEPT ![s] = "committed"]
           \/ txState' = [txState EXCEPT ![s] = "rolledback"]
    BY <1>4 DEF Close, Running
  <2>2. Running' = {}
    BY <2>1 DEF OneOpen, Running, StackInv, StackTypes
  <2>3. QED BY <2>2 DEF OneOpen, Inside
<1>5. ASSUME NEW s \in Scopes, EndScope(s) PROVE OneOpen' /\ Inside'
  <2>1. /\ Top = s /\ stack' = Pop
        /\ UNCHANGED <<scopeDB, txState, opDB, opState, row, owner>>
    BY <1>5 DEF EndScope, txVars, opVars
  <2>2. \A t, o : Nested(t, o)' => Nested(t, o)
    BY <1>0, <2>1, NestedPop
  <2>3. Running' = Running
    BY <2>1 DEF Running
  <2>4. QED BY <1>1, <2>1, <2>2, <2>3
<1>6. ASSUME NEW s \in Scopes, RunAfterFunc(s) PROVE OneOpen' /\ Inside'
  <2>1. UNCHANGED <<stack, scopeDB, txState, opDB, opState, row, owner>>
    BY <1>6 DEF RunAfterFunc, RunHeadOf, txVars, opVars
  <2>2. Running' = Running
    BY <2>1 DEF Running
  <2>3. QED BY <1>1, <1>2, <2>1, <2>2
<1>7. ASSUME NEW o \in Ops, Begin(o) PROVE OneOpen' /\ Inside'
  <2>1. /\ stack' = Append(stack, o) /\ opState' = [opState EXCEPT ![o] = "started"]
        /\ \A s \in Running : opDB[o] \in Covers(s)
        /\ UNCHANGED <<scopeDB, txState, opDB, row, owner>>
    BY <1>0, <1>7 DEF Begin, txVars, opVars
  <2>2. /\ Running' = Running /\ opState'[o] = "started"
        /\ \A x \in Ops \ {o} : opState'[x] = opState[x]
    BY <2>1 DEF Running, StackInv, StackTypes
  <2>3. \A s, x : Nested(s, x)' => Nested(s, x) \/ x = o
    BY <2>1, NestedPush
  <2>4. OneOpen'
    BY <2>2 DEF OneOpen
  <2>5. ASSUME NEW s \in Running, NEW x \in Ops, Nested(s, x)'
        PROVE  /\ opDB[x] \in Covers(s)
               /\ opState'[x] = "written" => row[x] = "pending" /\ owner[x] = s
    <3>1. CASE x = o
      BY <2>1, <2>2, <3>1
    <3>2. CASE x # o
      BY <2>2, <2>3, <2>5, <3>2 DEF Inside
    <3>3. QED BY <3>1, <3>2
  <2>6. Inside'
    <3>1. \A s : Covers(s)' = Covers(s)
      BY <2>1 DEF Covers
    <3>2. UNCHANGED <<opDB, row, owner>>
      BY <2>1
    <3>3. QED BY <2>2, <2>5, <3>1, <3>2 DEF Inside
  <2>7. QED BY <2>4, <2>6
<1>8. ASSUME NEW o \in Ops, Write(o) PROVE OneOpen' /\ Inside'
  <2>1. PICK h : /\ h = HandleOf(opDB[o])
                 /\ \/ /\ row' = [row EXCEPT ![o] = IF h = NoScope THEN "committed" ELSE "pending"]
                       /\ owner' = [owner EXCEPT ![o] = h]
                       /\ opState' = [opState EXCEPT ![o] = "written"] /\ UNCHANGED txState
                    \/ /\ txState' = [s \in Scopes |-> IF s = h THEN "aborted" ELSE txState[s]]
                       /\ opState' = [opState EXCEPT ![o] = "failed"]
                       /\ UNCHANGED <<row, owner>>
    BY <1>8 DEF Write
  <2>2. UNCHANGED <<stack, scopeDB, opDB>>
    BY <1>8 DEF Write, opVars
  <2>3. h \in Running \cup {NoScope}
    BY <2>1, ScopesOfApp
  <2>4. Running' = Running
    BY <1>0, <2>1, <2>3 DEF Running, StackInv, StackTypes
  <2>5. \A x \in Ops \ {o} : opState'[x] = opState[x] /\ row'[x] = row[x] /\ owner'[x] = owner[x]
    BY <2>1 DEF StackInv, StackTypes, DataTypes
  <2>6. ASSUME NEW s \in Running, Nested(s, o), opState'[o] = "written"
        PROVE  row'[o] = "pending" /\ owner'[o] = s
    <3>1. h = s /\ h # NoScope
      BY <1>0, <2>1, <2>6, HandleIsScope
    <3>2. row' = [row EXCEPT ![o] = "pending"] /\ owner' = [owner EXCEPT ![o] = h]
      BY <2>1, <2>6, <3>1 DEF StackInv, StackTypes
    <3>3. QED BY <3>1, <3>2 DEF DataTypes
  <2>7. \A s, x : Nested(s, x)' <=> Nested(s, x)
    BY <1>2, <2>2
  <2>8. OneOpen'
    BY <2>4 DEF OneOpen
  <2>9. Inside'
    BY <2>2, <2>4, <2>5, <2>6, <2>7 DEF Inside, Covers
  <2>10. QED BY <2>8, <2>9
<1>9. ASSUME NEW o \in Ops, FailLate(o) PROVE OneOpen' /\ Inside'
  <2>1. UNCHANGED <<stack, scopeDB, txState, opDB, opState, row, owner>>
    BY <1>9 DEF FailLate, txVars, opVars
  <2>2. Running' = Running
    BY <2>1 DEF Running
  <2>3. QED BY <1>1, <1>2, <2>1, <2>2
<1>10. ASSUME NEW o \in Ops, Finish(o) PROVE OneOpen' /\ Inside'
  <2>1. /\ Top = o /\ stack' = Pop /\ opState' = [opState EXCEPT ![o] = "finished"]
        /\ UNCHANGED <<scopeDB, txState, opDB, row, owner>>
    BY <1>10 DEF Finish, txVars, opVars
  <2>2. \A s, x : Nested(s, x)' => Nested(s, x)
    BY <1>0, <2>1, NestedPop
  <2>3. Running' = Running /\ \A x \in Ops : opState'[x] = "written" => opState[x] = "written"
    BY <2>1 DEF Running, StackInv, StackTypes
  <2>4. QED BY <1>1, <2>1, <2>2, <2>3
<1>11. CASE Panic
  <2>1. txState' = [s \in Scopes |-> IF IsLive(s) THEN "rolledback" ELSE txState[s]]
    BY <1>11 DEF Panic
  <2>2. \A s \in Scopes : IsLive(s) <=> s \in Running
    BY <1>0 DEF LiveScopes
  <2>3. Running' = {}
    BY <2>1, <2>2 DEF Running
  <2>4. QED BY <2>3 DEF OneOpen, Inside
<1>12. QED BY <1>3, <1>4, <1>5, <1>6, <1>7, <1>8, <1>9, <1>10, <1>11 DEF Next

\* A queued operation has its write in the scope, and gets its outcome.
LEMMA OutcomeStep ==
  ASSUME ~CrossDB, StackInv, DataTypes, PendingInOpen, ReportInv, OneDatabase, Next
  PROVE  QueuedOutcome'
<1> USE ConstantsAssumption
<1>0. LiveScopes = Running /\ Running \subseteq Scopes /\ NoScope \notin Scopes
      /\ NoScope \notin Ops /\ Ops \cap Scopes = {}
  BY LiveIsRunning DEF StackInv, Running, NoScope, Scopes
\* It is enough that nothing is queued and no outcome changes.
<1>1. ASSUME \A s \in Scopes, o \in Ops : QueuedIn(s, o)' => QueuedIn(s, o),
             \A s \in Scopes : txState'[s] = txState[s]
                               \/ (s \in Running /\ txState'[s] = "aborted")
                               \/ (txState[s] = "unused" /\ txState'[s] = "open"),
             \A o \in Ops : Queued(o) => row'[o] = row[o] /\ owner'[o] = owner[o]
      PROVE  QueuedOutcome'
  <2>1. SUFFICES ASSUME NEW s \in Scopes, NEW o \in Ops, QueuedIn(s, o)'
                 PROVE  /\ txState'[s] # "unused"
                        /\ s \in Running' => row'[o] = "pending" /\ owner'[o] = s
                        /\ txState'[s] \in {"committed", "rolledback"} => row'[o] = txState'[s]
    BY DEF QueuedOutcome
  <2>2. QueuedIn(s, o) /\ row'[o] = row[o] /\ owner'[o] = owner[o]
    BY <1>1, <2>1 DEF Queued
  <2>3. /\ txState[s] # "unused"
        /\ s \in Running => row[o] = "pending" /\ owner[o] = s
        /\ txState[s] \in {"committed", "rolledback"} => row[o] = txState[s]
    BY <2>2 DEF OneDatabase, QueuedOutcome
  <2>4. QED BY <1>1, <2>2, <2>3 DEF Running
<1>2. ASSUME UNCHANGED after PROVE \A s, o : QueuedIn(s, o)' <=> QueuedIn(s, o)
  BY <1>2 DEF QueuedIn
<1>3. ASSUME NEW s \in Scopes, NEW db, Open(s, db) PROVE QueuedOutcome'
  <2>1. /\ txState' = [txState EXCEPT ![s] = "open"] /\ txState[s] = "unused"
        /\ UNCHANGED <<after, row, owner>>
    BY <1>3 DEF Open
  <2>2. QED BY <1>1, <1>2, <2>1 DEF StackInv, StackTypes
<1>4. ASSUME NEW s \in Scopes, Close(s) PROVE QueuedOutcome'
  <2>1. s \in Running /\ UNCHANGED <<after, owner>>
    BY <1>4 DEF Close, Running
  <2>2. PICK r \in {"committed", "rolledback"} :
          txState' = [txState EXCEPT ![s] = r] /\ Settle(s, r)
    BY <1>4 DEF Close
  <2>3. Running' = {}
    BY <2>1, <2>2 DEF OneDatabase, OneOpen, Running, StackInv, StackTypes
  <2>4. ASSUME NEW t \in Scopes, NEW o \in Ops, QueuedIn(t, o)
        PROVE  txState'[t] # "unused" /\ row'[o] = txState'[t]
    <3>1. /\ txState[t] # "unused"
          /\ t \in Running => row[o] = "pending" /\ owner[o] = t
          /\ txState[t] \in {"committed", "rolledback"} => row[o] = txState[t]
      BY <2>4 DEF OneDatabase, QueuedOutcome
    <3>2. CASE t = s
      BY <2>1, <2>2, <3>1, <3>2 DEF Settle, StackInv, StackTypes
    <3>3. CASE t # s
      <4>1. t \notin Running /\ txState'[t] = txState[t]
        BY <2>1, <2>2, <3>3 DEF OneDatabase, OneOpen, StackInv, StackTypes
      <4>2. txState[t] \in {"committed", "rolledback"}
        BY <3>1, <4>1 DEF Running, StackInv, StackTypes
      <4>3. QED BY <2>2, <3>1, <4>1, <4>2 DEF Settle
    <3>4. QED BY <3>2, <3>3
  <2>5. QED BY <1>2, <2>1, <2>3, <2>4 DEF QueuedOutcome
<1>5. ASSUME NEW s \in Scopes, RunAfterFunc(s) PROVE QueuedOutcome'
  <2>1. /\ UNCHANGED <<txState, row, owner>> /\ after[s] # <<>>
        /\ after' = [after EXCEPT ![s] = Tail(after[s])]
    BY <1>5 DEF RunAfterFunc, RunHeadOf, txVars
  <2>2. \A t \in Scopes, x \in Ops : QueuedIn(t, x)' => QueuedIn(t, x)
    BY <2>1, Dequeued DEF ReportInv
  <2>3. QED BY <1>1, <2>1, <2>2
<1>6. ASSUME NEW s \in Scopes, EndScope(s) PROVE QueuedOutcome'
  BY <1>1, <1>2, <1>6 DEF EndScope, txVars
<1>7. ASSUME NEW o \in Ops, Begin(o) \/ FailLate(o) PROVE QueuedOutcome'
  BY <1>1, <1>2, <1>7 DEF Begin, FailLate, txVars
<1>8. ASSUME NEW o \in Ops, Write(o) PROVE QueuedOutcome'
  <2>1. PICK h : /\ h = HandleOf(opDB[o])
                 /\ \/ /\ row' = [row EXCEPT ![o] = IF h = NoScope THEN "committed" ELSE "pending"]
                       /\ owner' = [owner EXCEPT ![o] = h] /\ UNCHANGED txState
                    \/ /\ txState' = [s \in Scopes |-> IF s = h THEN "aborted" ELSE txState[s]]
                       /\ UNCHANGED <<row, owner>>
    BY <1>8 DEF Write
  <2>2. UNCHANGED after /\ opState[o] = "started"
    BY <1>8 DEF Write
  <2>3. h \in Running \cup {NoScope} /\ ~Queued(o)
    BY <2>1, <2>2, ScopesOfApp DEF ReportInv, ReportedAtEnd
  <2>4. \A x \in Ops \ {o} : row'[x] = row[x] /\ owner'[x] = owner[x]
    BY <2>1 DEF DataTypes
  <2>5. \A s \in Scopes : txState'[s] = txState[s] \/ (s \in Running /\ txState'[s] = "aborted")
    BY <1>0, <2>1, <2>3
  <2>6. QED BY <1>1, <1>2, <2>2, <2>3, <2>4, <2>5
<1>9. ASSUME NEW o \in Ops, Finish(o) PROVE QueuedOutcome'
  <2>1. /\ Top = o /\ stack' = Pop /\ UNCHANGED <<txState, row, owner>>
    BY <1>9 DEF Finish, txVars
  <2>2. CASE ReportError(o) \/ ReportNow(o)
    BY <1>1, <1>2, <2>1, <2>2 DEF ReportError, ReportNow
  <2>3. CASE ReportLater(o)
    <3>1. PICK s \in Running : after' = [after EXCEPT ![s] = Append(@, o)]
      BY <2>3, ScopesOfApp DEF ReportLater
    <3>2. opState[o] = "written" /\ ~Queued(o)
      BY <2>3 DEF ReportLater, Failed, ReportInv, ReportedAtEnd
    <3>3. \A t \in Scopes, x \in Ops : QueuedIn(t, x)' => QueuedIn(t, x) \/ (t = s /\ x = o)
      BY <1>0, <3>1, <3>2, Enqueued DEF ReportInv
    <3>4. Nested(s, o)
      <4>1. InStack(s) /\ s # o
        BY <1>0 DEF StackInv, OnStack
      <4>2. QED BY <1>0, <2>1, <4>1, NestedPop
    <3>5. row[o] = "pending" /\ owner[o] = s /\ txState[s] \in {"open", "aborted"}
      BY <3>2, <3>4 DEF OneDatabase, Inside, Running
    <3>6. SUFFICES ASSUME NEW t \in Scopes, NEW x \in Ops, QueuedIn(t, x)'
                   PROVE  /\ txState[t] # "unused"
                          /\ t \in Running => row[x] = "pending" /\ owner[x] = t
                          /\ txState[t] \in {"committed", "rolledback"} => row[x] = txState[t]
      BY <2>1 DEF QueuedOutcome, Running
    <3>7. CASE QueuedIn(t, x)
      BY <3>7 DEF OneDatabase, QueuedOutcome
    <3>8. CASE t = s /\ x = o
      BY <3>5, <3>8
    <3>9. QED BY <3>3, <3>6, <3>7, <3>8
  <2>4. QED BY <1>9, <2>2, <2>3 DEF Finish
<1>10. CASE Panic
  <2>1. /\ txState' = [s \in Scopes |-> IF IsLive(s) THEN "rolledback" ELSE txState[s]]
        /\ row' = [o \in Ops |-> IF row[o] = "pending" THEN "rolledback" ELSE row[o]]
        /\ UNCHANGED <<after, owner>>
    BY <1>10 DEF Panic
  <2>2. \A s \in Scopes : IsLive(s) <=> s \in Running
    BY <1>0 DEF LiveScopes
  <2>3. Running' = {}
    BY <2>1, <2>2 DEF Running
  <2>4. ASSUME NEW t \in Scopes, NEW o \in Ops, QueuedIn(t, o)
        PROVE  txState'[t] # "unused" /\ row'[o] = txState'[t]
    <3>1. /\ txState[t] # "unused"
          /\ t \in Running => row[o] = "pending"
          /\ txState[t] \in {"committed", "rolledback"} => row[o] = txState[t]
      BY <2>4 DEF OneDatabase, QueuedOutcome
    <3>2. CASE t \in Running
      BY <2>1, <2>2, <3>1, <3>2
    <3>3. CASE t \notin Running
      <4>1. txState[t] \in {"committed", "rolledback"}
        BY <3>1, <3>3 DEF Running, StackInv, StackTypes
      <4>2. QED BY <2>1, <2>2, <3>1, <3>3, <4>1
    <3>4. QED BY <3>2, <3>3
  <2>5. QED BY <1>2, <2>1, <2>3, <2>4 DEF QueuedOutcome
<1>11. QED BY <1>3, <1>4, <1>5, <1>6, <1>7, <1>8, <1>9, <1>10 DEF Next

\* What has been reported is and stays true.
LEMMA TruthStep ==
  ASSUME StackInv, DataTypes, PendingInOpen, ReportInv, Flags, OneDatabase, Next
  PROVE  ToldTruth'
<1> USE ConstantsAssumption
<1>1. ASSUME UNCHANGED hooks PROVE \A o, r : Told(o, r)' <=> Told(o, r)
  BY <1>1 DEF Told
\* What has been told stays true: an outcome is final, and who has reported does not write.
<1>2. ASSUME UNCHANGED hooks, late \subseteq late',
             \A o \in Ops : Reported(o) /\ row[o] # "pending" => row'[o] = row[o]
      PROVE  ToldTruth'
  <2>1. SUFFICES ASSUME NEW o \in Ops
                 PROVE  /\ Told(o, "success") => row'[o] = "committed"
                        /\ Told(o, "error") => row'[o] \in {"none", "rolledback"} \/ o \in late'
    BY <1>1, <1>2 DEF ToldTruth
  <2>2. /\ Told(o, "success") => row[o] = "committed"
        /\ Told(o, "error") => row[o] \in {"none", "rolledback"} \/ o \in late
    BY DEF OneDatabase, ToldTruth
  <2>3. Told(o, "success") \/ Told(o, "error") => Reported(o)
    BY ToldReported
  <2>4. QED BY <1>2, <2>2, <2>3
<1>3. ASSUME NEW s \in Scopes,
             Close(s) \/ EndScope(s) \/ \E db \in Databases \cup {"single"} : Open(s, db)
      PROVE  ToldTruth'
  <2>1. UNCHANGED <<hooks, late>>
    BY <1>3 DEF Close, EndScope, Open
  <2>2. UNCHANGED row \/ Settle(s, "committed") \/ Settle(s, "rolledback")
    BY <1>3 DEF Close, EndScope, Open
  <2>3. \A o \in Ops : row[o] # "pending" => row'[o] = row[o]
    BY <2>2 DEF Settle
  <2>4. QED BY <1>2, <2>1, <2>3
<1>4. ASSUME NEW o \in Ops, Begin(o) \/ FailLate(o) PROVE ToldTruth'
  BY <1>2, <1>4 DEF Begin, FailLate
<1>5. ASSUME NEW o \in Ops, Write(o) PROVE ToldTruth'
  <2>1. UNCHANGED <<hooks, late>> /\ opState[o] = "started"
    BY <1>5 DEF Write
  <2>2. ~Reported(o)
    BY <2>1 DEF ReportInv, ReportedAtEnd
  <2>3. UNCHANGED row \/ \E v \in {"committed", "pending"} : row' = [row EXCEPT ![o] = v]
    BY <1>5 DEF Write
  <2>4. \A x \in Ops \ {o} : row'[x] = row[x]
    BY <2>3 DEF DataTypes
  <2>5. QED BY <1>2, <2>1, <2>2, <2>4
<1>6. CASE Panic
  BY <1>2, <1>6 DEF Panic
<1>7. ASSUME NEW s \in Scopes, RunAfterFunc(s) PROVE ToldTruth'
  <2> DEFINE h == Head(after[s])
  <2>1. /\ UNCHANGED <<row, late>> /\ after[s] # <<>>
        /\ after' = [after EXCEPT ![s] = Tail(after[s])]
        /\ txState[s] \in {"committed", "rolledback"}
    BY <1>7 DEF RunAfterFunc, RunHeadOf
  <2>2. h \in Ops /\ QueuedIn(s, h)
    BY <2>1, Dequeued DEF ReportInv
  <2>3. row[h] = txState[s]
    BY <2>1, <2>2 DEF OneDatabase, QueuedOutcome
  <2>4. PICK r \in {"success", "error"} :
          Fire(<< <<h, r>> >>) /\ (r = "success" <=> txState[s] = "committed")
    BY <1>7 DEF RunAfterFunc, RunHeadOf
  <2>5. \A x, q : Told(x, q)' <=> Told(x, q) \/ (x = h /\ q = r)
    BY <2>2, <2>4, FiredTold
  <2>6. r = "success" => row[h] = "committed"
    BY <2>3, <2>4
  <2>7. r = "error" => row[h] = "rolledback"
    BY <2>1, <2>3, <2>4
  <2>8. QED BY <2>1, <2>5, <2>6, <2>7 DEF OneDatabase, ToldTruth
<1>8. ASSUME NEW o \in Ops, Finish(o) PROVE ToldTruth'
  <2>1. /\ Top = o /\ stack' = Pop /\ UNCHANGED <<row, late>>
    BY <1>8 DEF Finish
  <2>2. opState[o] \in {"started", "written", "failed"}
    BY <2>1, Popped DEF StackInv, OnStack
  <2>3. CASE ReportLater(o)
    BY <1>2, <2>1, <2>3 DEF ReportLater
  <2>4. CASE ReportError(o)
    <3>1. \A x, q : Told(x, q)' <=> Told(x, q) \/ (x = o /\ q = "error")
      BY <2>4, FiredTold DEF ReportError
    <3>2. row[o] \in {"none", "rolledback"} \/ o \in late
      BY <2>2, <2>4 DEF ReportError, Failed, Flags
    <3>3. QED BY <2>1, <3>1, <3>2 DEF OneDatabase, ToldTruth
  <2>5. CASE ReportNow(o)
    <3>1. \A x, q : Told(x, q)' <=> Told(x, q) \/ (x = o /\ q = "success")
      BY <2>5, FiredTold DEF ReportNow
    <3>2. opState[o] = "written" /\ row[o] # "rolledback" /\ Running = {}
      BY <2>5, ScopesOfApp DEF ReportNow, Failed
    <3>3. row[o] = "committed"
      BY <3>2 DEF Flags, PendingInOpen, DataTypes
    <3>4. QED BY <2>1, <3>1, <3>3 DEF OneDatabase, ToldTruth
  <2>6. QED BY <1>8, <2>3, <2>4, <2>5 DEF Finish
<1>9. QED BY <1>3, <1>4, <1>5, <1>6, <1>7, <1>8 DEF Next

-----------------------------------------------------------------------------
\* The inductive invariant.
IInv ==
  /\ StackInv /\ DataTypes /\ PendingInOpen
  /\ ReportInv /\ Flags
  /\ ~CrossDB => OneDatabase

\* At the start nothing has been called.
LEMMA InitIInv == Init => IInv
<1> SUFFICES ASSUME Init PROVE IInv
  OBVIOUS
<1> USE ConstantsAssumption
<1>1. \A x : ~InStack(x)
  BY DEF Init, InStack
<1>2. Running = {}
  BY DEF Init, Running
<1>3. StackInv
  <2>1. StackTypes
    BY DEF Init, StackTypes
  <2>2. OnStack
    BY <1>1, <1>2 DEF Init, OnStack
  <2>3. QED BY <2>1, <2>2 DEF StackInv
<1>4. DataTypes /\ PendingInOpen
  <2>1. isNew \in [Ops -> BOOLEAN]
    BY DEF Init
  <2>2. /\ after \in [Scopes -> Seq(Ops)] /\ hooks \in Seq(Ops \X {"success", "error"})
        /\ panics \in 0..MaxPanics /\ late \in SUBSET Ops
    BY DEF Init
  <2>3. QED BY <2>1, <2>2 DEF Init, DataTypes, PendingInOpen
<1>5. \A o \in Ops : ~Reported(o) /\ ~Queued(o) /\ \A r : ~Told(o, r)
  BY DEF Init, Reported, Queued, QueuedIn, Told
<1>6. ReportInv
  BY <1>5 DEF Init, ReportInv, HooksOnce, QueuedOnce, ReportedAtEnd, Answered
<1>7. Flags
  BY <1>5 DEF Init, Flags
<1>8. OneDatabase
  <2>1. \A s \in Scopes, o \in Ops : ~QueuedIn(s, o)
    BY <1>5 DEF Queued
  <2>2. QED BY <1>2, <1>5, <2>1 DEF OneDatabase, OneOpen, Inside, QueuedOutcome, ToldTruth
<1>9. QED BY <1>3, <1>4, <1>6, <1>7, <1>8 DEF IInv

\* The invariant is inductive.
LEMMA NextIInv == IInv /\ [Next]_vars => IInv'
<1>1. CASE IInv /\ Next
  <2>1. StackInv' /\ DataTypes' /\ PendingInOpen'
    BY <1>1, StackStep, DataStep DEF IInv
  <2>2. ReportInv'
    BY <1>1, <2>1, ReportStep DEF IInv
  <2>3. Flags'
    BY <1>1, FlagStep DEF IInv
  <2>4. (~CrossDB => OneDatabase)'
    <3>1. ASSUME ~CrossDB PROVE OneDatabase'
      <4>1. OneDatabase
        BY <1>1, <3>1 DEF IInv
      <4>2. OneOpen' /\ Inside'
        BY <1>1, <3>1, <4>1, InsideStep DEF IInv, OneDatabase
      <4>3. QueuedOutcome' /\ ToldTruth'
        BY <1>1, <3>1, <4>1, OutcomeStep, TruthStep DEF IInv
      <4>4. QED BY <4>2, <4>3 DEF OneDatabase
    <3>2. QED BY <3>1
  <2>5. QED BY <2>1, <2>2, <2>3, <2>4 DEF IInv
<1>2. CASE IInv /\ UNCHANGED vars
  <2>1. StackInv' /\ DataTypes' /\ PendingInOpen'
    BY <1>2 DEF vars, txVars, opVars, IInv, StackInv, StackTypes, OnStack, InStack, Running,
                DataTypes, PendingInOpen
  <2>2. ReportInv'
    BY <1>2 DEF vars, IInv, ReportInv, HooksOnce, QueuedOnce, ReportedAtEnd, Answered,
                Reported, Queued, QueuedIn, InStack
  <2>3. Flags'
    <3>1. UNCHANGED <<after, hooks, opKind, opState, row, isNew>>
      BY <1>2 DEF vars, opVars
    <3>2. \A o, q : (Queued(o)' <=> Queued(o)) /\ (Told(o, q)' <=> Told(o, q))
      BY <3>1 DEF Queued, QueuedIn, Told
    <3>3. Flags
      BY <1>2 DEF IInv
    <3>4. QED BY <3>1, <3>2, <3>3, Zenon DEF Flags
  <2>4. (~CrossDB => OneDatabase)'
    BY <1>2 DEF vars, txVars, opVars, IInv, OneDatabase, OneOpen, Inside, QueuedOutcome,
                ToldTruth, Nested, Covers, QueuedIn, Told, Running
  <2>5. QED BY <2>1, <2>2, <2>3, <2>4 DEF IInv
<1>3. QED BY <1>1, <1>2

\* It holds in every state.
LEMMA Invariant == Spec => []IInv
  BY InitIInv, NextIInv, PTL DEF Spec

-----------------------------------------------------------------------------
\* The types, that no call is on the stack twice, and that a write that is not settled
\* belongs to an open transaction.
THEOREM TypeCorrect == Spec => []TypeOK
<1>1. IInv => TypeOK
  <2> SUFFICES ASSUME IInv PROVE TypeOK
    OBVIOUS
  <2>1. LiveScopes = Running
    BY LiveIsRunning DEF IInv, StackInv
  <2>2. QED BY <2>1 DEF IInv, StackInv, StackTypes, DataTypes, PendingInOpen, TypeOK
<1>2. QED BY <1>1, Invariant, PTL

\* However operations, hooks and transactions of any databases are nested, an operation
\* reports at most once, and has reported when all calls have returned.
THEOREM ReportedOnce == Spec => []EveryOpReported
<1>1. IInv => EveryOpReported
  <2> SUFFICES ASSUME IInv, NEW o \in Ops
               PROVE  /\ Cardinality(Reports(o)) <= 1
                      /\ stack = <<>> /\ panics = 0 /\ opState[o] = "finished" => Reports(o) # {}
    BY DEF EveryOpReported
  <2>1. Cardinality(Reports(o)) <= 1
    <3>1. CASE Reports(o) = {}
      BY <3>1, FS_EmptySet
    <3>2. ASSUME NEW k \in Reports(o) PROVE Cardinality(Reports(o)) <= 1
      <4>1. Reports(o) = {k}
        BY <3>2 DEF Reports, IInv, ReportInv, HooksOnce
      <4>2. QED BY <4>1, FS_Singleton
    <3>3. QED BY <3>1, <3>2
  <2>2. ASSUME stack = <<>>, panics = 0, opState[o] = "finished" PROVE Reports(o) # {}
    <3>1. \A s \in Scopes : after[s] = <<>>
      BY <2>2 DEF IInv, ReportInv, Answered, InStack
    <3>2. ~Queued(o)
      BY <3>1 DEF Queued, QueuedIn
    <3>3. Reported(o)
      BY <2>2, <3>2 DEF IInv, ReportInv, Answered
    <3>4. QED BY <3>3 DEF Reported, Reports
  <2>3. QED BY <2>1, <2>2
<1>2. QED BY <1>1, Invariant, PTL

\* While scopes and operations of the two databases are not mixed, a success is only
\* reported for a write that is committed, and an error for one that is only when a hook
\* failed after it.
THEOREM HooksAreTrue == Spec => [](~CrossDB => HooksTellTheTruth)
<1>1. IInv => (~CrossDB => HooksTellTheTruth)
  <2> SUFFICES ASSUME IInv, ~CrossDB, NEW k \in DOMAIN hooks
               PROVE  /\ hooks[k][2] = "success" => row[hooks[k][1]] = "committed"
                      /\ hooks[k][2] = "error" =>
                           row[hooks[k][1]] \in {"none", "rolledback"} \/ hooks[k][1] \in late
    BY DEF HooksTellTheTruth, SuccessMeansCommitted
  <2>1. PICK o \in Ops, r \in {"success", "error"} : hooks[k] = <<o, r>>
    <3>1. hooks[k] \in Ops \X {"success", "error"}
      BY DEF IInv, DataTypes
    <3>2. QED BY <3>1
  <2>2. hooks[k][1] = o /\ hooks[k][2] = r /\ Told(o, r)
    BY <2>1 DEF Told
  <2>3. QED BY <2>2 DEF IInv, OneDatabase, ToldTruth
<1>2. QED BY <1>1, Invariant, PTL

\* While they are not mixed, and once all calls have returned, a model is new again
\* exactly when its create is not in the database, unless a hook failed after the write.
THEOREM FlagIsRight == Spec => [](~CrossDB => NewAgreesWithRow)
<1>1. IInv => (~CrossDB => NewAgreesWithRow)
  <2> SUFFICES ASSUME IInv, ~CrossDB, stack = <<>>, panics = 0,
                      NEW o \in Ops, opKind[o] = "create", o \notin late
               PROVE  isNew[o] <=> row[o] # "committed"
    BY DEF NewAgreesWithRow
  <2>1. opState[o] \notin {"started", "written", "failed"}
    BY DEF IInv, StackInv, OnStack, InStack
  <2>2. CASE opState[o] = "new"
    BY <2>2, Zenon DEF IInv, Flags
  <2>3. CASE opState[o] = "finished"
    <3>1. ~Queued(o)
      BY DEF IInv, ReportInv, Answered, InStack, Queued, QueuedIn
    <3>2. Told(o, "success") \/ Told(o, "error")
      BY <2>3, <3>1, ReportedTold DEF IInv, ReportInv, Answered
    <3>3. CASE Told(o, "success")
      BY <3>3 DEF IInv, Flags, OneDatabase, ToldTruth
    <3>4. CASE Told(o, "error")
      BY <3>4 DEF IInv, Flags, OneDatabase, ToldTruth
    <3>5. QED BY <3>2, <3>3, <3>4
  <2>4. opState[o] # "panicked"
    BY DEF IInv, ReportInv, Answered
  <2>5. QED BY <2>1, <2>2, <2>3, <2>4 DEF IInv, StackInv, StackTypes
<1>2. QED BY <1>1, Invariant, PTL

-----------------------------------------------------------------------------
(***************************************************************************)
(* The run: the proofs of the other two components are used as instances,  *)
(* with the variables of this one.  A step of the run is a step of one     *)
(* component and leaves the others alone.                                  *)
(***************************************************************************)
FileP == INSTANCE RecordFilesProofs WITH
  Files <- FileNames, db <- savedRow, pc <- savePc, todo <- uploads, gone <- deleted

DeletionP == INSTANCE RealtimeDeleteProofs WITH
  MaxPanics <- DeletePanics, pc <- deletePc, panics <- deletePanics

\* The steps that are proved about are those of the run.
LEMMA FileSame == File!Next = FileP!Next
  BY DEF File!Next, FileP!Next, File!NewName, FileP!NewName, File!Save, FileP!Save, File!Invalid,
         FileP!Invalid, File!Upload, FileP!Upload, File!UploadFails, FileP!UploadFails,
         File!WriteFails, FileP!WriteFails, File!Write, FileP!Write, File!AfterSuccess,
         FileP!AfterSuccess, File!BeginTx, FileP!BeginTx, File!EndTx, FileP!EndTx,
         File!ReportCommitted, FileP!ReportCommitted, File!ReportRolledBack,
         FileP!ReportRolledBack, File!Delete, FileP!Delete, File!ReportDelete,
         FileP!ReportDelete, File!Sweep, FileP!Sweep, File!Load, FileP!Load, File!Crash,
         FileP!Crash, File!Idle, FileP!Idle, File!LatestOldValue, FileP!LatestOldValue,
         File!AfterError, FileP!AfterError, File!RowIsWritten, FileP!RowIsWritten, File!Remember,
         FileP!Remember, File!InTx, FileP!InTx, File!ProcessFilesToDelete,
         FileP!ProcessFilesToDelete, File!SaveReported, FileP!SaveReported, File!Reported,
         FileP!Reported, File!DeleteFiles, FileP!DeleteFiles, File!NoRow, FileP!NoRow, File!Rows,
         FileP!Rows, File!Loaded, FileP!Loaded, File!CleanUp, FileP!CleanUp

LEMMA DeletionSame == Deletion!Next = DeletionP!Next
  BY DEF Deletion!Next, DeletionP!Next, Deletion!Start, DeletionP!Start, Deletion!Request,
         DeletionP!Request, Deletion!Send, DeletionP!Send, Deletion!Receive, DeletionP!Receive,
         Deletion!Unregister, DeletionP!Unregister, Deletion!AllOver, DeletionP!AllOver,
         Deletion!GoTo, DeletionP!GoTo, Deletion!Registered, DeletionP!Registered,
         Deletion!dbVars, DeletionP!dbVars, Deletion!clientVars, DeletionP!clientVars,
         Deletion!FlushGet, DeletionP!FlushGet, Deletion!DropGet, DeletionP!DropGet,
         Deletion!DrySkip, DeletionP!DrySkip, Deletion!DryGet, DeletionP!DryGet, Deletion!DrySet,
         DeletionP!DrySet, Deletion!Stash, DeletionP!Stash, Deletion!DryError,
         DeletionP!DryError, Deletion!Write, DeletionP!Write, Deletion!Commit, DeletionP!Commit,
         Deletion!Rollback, DeletionP!Rollback, Deletion!Panic, DeletionP!Panic,
         Deletion!FlushUnset, DeletionP!FlushUnset, Deletion!Publish, DeletionP!Publish,
         Deletion!DropUnset, DeletionP!DropUnset, Deletion!DropStash, DeletionP!DropStash,
         Deletion!loopVars, DeletionP!loopVars, Deletion!historyVars, DeletionP!historyVars,
         Deletion!Visit, DeletionP!Visit, Deletion!Check, DeletionP!Check, Deletion!Leave,
         DeletionP!Leave, Deletion!Prepared, DeletionP!Prepared, Deletion!Unlock,
         DeletionP!Unlock, Deletion!GoToLoop, DeletionP!GoToLoop, Deletion!Visited,
         DeletionP!Visited

\* So are the initial states, and what is assumed of the constants.
LEMMA FileStart == (File!Init => FileP!Init) /\ FileP!ConstantsAssumption
  BY RequestsAssumption
  DEF File!ConstantsAssumption, FileP!ConstantsAssumption, File!Init, FileP!Init, File!NoRow,
      FileP!NoRow, File!Loaded, FileP!Loaded

LEMMA DeletionStart == (Deletion!Init => DeletionP!Init) /\ DeletionP!ConstantsAssumption
  BY RequestsAssumption
  DEF Deletion!ConstantsAssumption, DeletionP!ConstantsAssumption, Deletion!Init, DeletionP!Init

FilesInv == FileP!IInv /\ FileP!LInv
DeletionInv == DeletionP!IInv /\ DeletionP!SeqInv

LEMMA FilesStep == FilesInv /\ [File!Next]_fileVars => FilesInv'
<1> SUFFICES ASSUME FilesInv, [File!Next]_fileVars PROVE FilesInv'
  OBVIOUS
<1>1. [FileP!Next]_(FileP!vars)
  BY FileSame DEF fileVars, FileP!vars
<1>2. FileP!IInv'
  BY <1>1, FileStart, FileP!NextKeeps, FileP!StutterKeeps DEF FilesInv
<1>3. FileP!LInv'
  BY <1>1, FileStart, FileP!LInvStep DEF FilesInv
<1>4. QED BY <1>2, <1>3 DEF FilesInv

LEMMA DeletionStep == DeletionInv /\ [Deletion!Next]_deleteVars => DeletionInv'
<1> SUFFICES ASSUME DeletionInv, [Deletion!Next]_deleteVars PROVE DeletionInv'
  OBVIOUS
<1>1. [DeletionP!Next]_(DeletionP!vars)
  BY DeletionSame
  DEF deleteVars, DeletionP!vars, DeletionP!dbVars, DeletionP!loopVars, DeletionP!clientVars,
      DeletionP!historyVars
<1>2. DeletionP!IInv'
  BY <1>1, DeletionStart, DeletionP!NextIInv DEF DeletionInv
<1>3. DeletionP!SeqInv'
  BY <1>1, DeletionStart, DeletionP!NextSeqInv DEF DeletionInv
<1>4. QED BY <1>2, <1>3 DEF DeletionInv

RequestsInv == IInv /\ FilesInv /\ DeletionInv

\* Every reachable state satisfies the invariants of the three.
THEOREM RequestsInductive == RequestsSpec => []RequestsInv
<1>1. RequestsInit => RequestsInv
  <2> SUFFICES ASSUME RequestsInit PROVE RequestsInv
    OBVIOUS
  <2>1. IInv
    BY InitIInv DEF RequestsInit
  <2>2. FilesInv
    BY FileStart, FileP!InitIInv, FileP!InitLInv DEF RequestsInit, FilesInv
  <2>3. DeletionInv
    BY DeletionStart, DeletionP!InitIInv, DeletionP!InitSeqInv DEF RequestsInit, DeletionInv
  <2>4. QED BY <2>1, <2>2, <2>3 DEF RequestsInv
<1>2. RequestsInv /\ [RequestsNext]_requestVars => RequestsInv'
  <2> SUFFICES ASSUME RequestsInv, [RequestsNext]_requestVars PROVE RequestsInv'
    OBVIOUS
  <2>1. [Next]_vars /\ [File!Next]_fileVars /\ [Deletion!Next]_deleteVars
    BY DEF RequestsNext, requestVars
  <2>2. QED BY <2>1, NextIInv, FilesStep, DeletionStep DEF RequestsInv
<1>3. QED BY <1>1, <1>2, PTL DEF RequestsSpec

\* The types; that no call is on the stack twice and a write that is not settled belongs
\* to an open transaction; that a view of the row of its own exists only inside one; that
\* the row lock is held only inside one and a discarded client's channel stays empty.
THEOREM RequestsTypes == RequestsSpec => []TypesOK
<1>1. RequestsInv => TypesOK
  <2> SUFFICES ASSUME RequestsInv PROVE TypesOK
    OBVIOUS
  <2>1. TypeOK
    <3>1. LiveScopes = Running
      BY LiveIsRunning DEF RequestsInv, IInv, StackInv
    <3>2. QED BY <3>1 DEF RequestsInv, IInv, StackInv, StackTypes, DataTypes, PendingInOpen, TypeOK
  <2>2. File!TypeOK
    BY DEF RequestsInv, FilesInv, FileP!IInv, FileP!TypeOK, FileP!Rows, FileP!Records, FileP!InTx,
           File!TypeOK, File!Rows, File!Records, File!InTx
  <2>3. Deletion!TypeOK
    BY DEF RequestsInv, DeletionInv, DeletionP!IInv, DeletionP!TypeOK, DeletionP!Messages,
           Deletion!TypeOK, Deletion!Messages
  <2>4. QED BY <2>1, <2>2, <2>3 DEF TypesOK
<1>2. QED BY <1>1, RequestsInductive, PTL

\* A row never names a file that is not stored, through failed saves, rollbacks, crashes
\* and saves of a stale object (field_file.go:352-399).
THEOREM RowsNameStoredFiles == RequestsSpec => []NoDangling
<1>1. RequestsInv => NoDangling
  BY DEF RequestsInv, FilesInv, FileP!IInv, FileP!NoDangling, NoDangling, File!NoDangling
<1>2. QED BY <1>1, RequestsInductive, PTL

\* When all is done nothing is stored that the row does not name, unless a file could
\* not be deleted or was left half uploaded, a row that is gone was updated, or the
\* process died (field_file.go:352-470).
THEOREM NothingIsStoredInVain == RequestsSpec => []NoLeftovers
<1>1. RequestsInv => NoLeftovers
  <2> SUFFICES ASSUME RequestsInv PROVE NoLeftovers
    OBVIOUS
  <2>1. FileP!NoLeftovers
    BY FileStart, FileP!InvLeaves DEF RequestsInv, FilesInv
  <2>2. QED BY <2>1 DEF NoLeftovers, File!NoLeftovers, FileP!NoLeftovers
<1>2. QED BY <1>1, RequestsInductive, PTL

\* The W-01 rule for any number of overlapping requests and of clients: nothing is sent
\* or published while the record exists (api-contract.md section 5).
THEOREM DeleteAfterCommit == RequestsSpec => []NoDeleteBeforeCommit
<1>1. RequestsInv => NoDeleteBeforeCommit
  BY DEF RequestsInv, DeletionInv, DeletionP!IInv, DeletionP!NoDeleteBeforeCommit,
         NoDeleteBeforeCommit, Deletion!NoDeleteBeforeCommit
<1>2. QED BY <1>1, RequestsInductive, PTL

\* When all requests are over, however they shared the dry caches and the stash, both
\* are empty, unless a hook has panicked (realtime.go:485-560).
THEOREM CachesAreEmptied == RequestsSpec => []NothingLeftBehind
<1>1. RequestsInv => NothingLeftBehind
  <2> SUFFICES ASSUME RequestsInv PROVE NothingLeftBehind
    OBVIOUS
  <2>1. DeletionP!NothingLeftBehind
    BY DeletionStart, DeletionP!InvEmpties DEF RequestsInv, DeletionInv
  <2>2. QED BY <2>1 DEF NothingLeftBehind, Deletion!NothingLeftBehind, DeletionP!NothingLeftBehind, Deletion!AllOver, DeletionP!AllOver,
         Deletion!Registered, DeletionP!Registered
<1>2. QED BY <1>1, RequestsInductive, PTL

\* A client gets one message at most for each of its subscriptions, as long as no delete
\* requests of the record have overlapped and no hook around one has panicked, also when
\* earlier requests were rolled back or failed to prepare their messages.
THEOREM DeleteComesOnce == RequestsSpec => []DeletedOnce
<1>1. RequestsInv => DeletedOnce
  <2> SUFFICES ASSUME RequestsInv PROVE DeletedOnce
    OBVIOUS
  <2>1. DeletionP!DeletedOnce
    BY DeletionStart, DeletionP!InvOnce DEF RequestsInv, DeletionInv
  <2>2. QED BY <2>1 DEF DeletedOnce, Deletion!DeletedOnce, DeletionP!DeletedOnce, Deletion!AtMostOnce,
         DeletionP!AtMostOnce
<1>2. QED BY <1>1, RequestsInductive, PTL

\* As long as no delete requests of the record have overlapped, one that has committed is
\* published to the outbox, whatever the ones before it did, if its messages could be
\* prepared (realtime.go:523).
THEOREM CommittedIsPublished == RequestsSpec => []CommitIsPublished
<1>1. RequestsInv => CommitIsPublished
  <2> SUFFICES ASSUME RequestsInv PROVE CommitIsPublished
    OBVIOUS
  <2>1. DeletionP!CommitIsPublished
    BY DeletionStart, DeletionP!InvPublished DEF RequestsInv, DeletionInv
  <2>2. QED BY <2>1 DEF CommitIsPublished, Deletion!CommitIsPublished, DeletionP!CommitIsPublished, Deletion!AllOver,
         DeletionP!AllOver, Deletion!OutboxFollowsBroadcast, DeletionP!OutboxFollowsBroadcast
<1>2. QED BY <1>1, RequestsInductive, PTL

=============================================================================
