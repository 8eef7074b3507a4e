-------------------------------- MODULE Batch --------------------------------
(***************************************************************************)
(* The batch endpoint (apis/batch.go): requests 0..Count-1 in one          *)
(* transaction, with a timeout.                                            *)
(*                                                                         *)
(* A goroutine processes the requests recursively: each is finished inside *)
(* the one before it.  The handler waits for the goroutine's answer, for   *)
(* the timeout or for the client to go away, and ends the transaction,     *)
(* while the goroutine may still be inside a request.  Handlers fail and   *)
(* panic anywhere.                                                         *)
(***************************************************************************)
EXTENDS Naturals, Sequences, SequencesExt

CONSTANT Count  \* number of requests

ConstantsAssumption == Count \in Nat \ {0}
Requests == 0..(Count - 1)

VARIABLES
  pc,        \* the goroutine: enter, write, register, next, post, send or ended
  cur,       \* the request it is in
  raised,    \* the request whose error is being returned, if any
  failed,    \* failedIndex
  results,   \* the responses
  written,   \* requests that have written in the transaction
  after,     \* those whose completion callbacks are registered
  reported,  \* what the After hooks of each were told: none, success or error
  tx,        \* open, committed or rolledBack
  stopCh,    \* whether it holds a message
  errCh,     \* empty, ok or error
  main,      \* the handler: waiting, leaving, ending, reporting or done
  outcome    \* what it returns: none, ok, error, timeout or endError

routineVars == <<pc, cur, raised, failed, results, written>>
vars == <<routineVars, after, reported, tx, stopCh, errCh, main, outcome>>

Init ==
  /\ pc = "enter" /\ cur = 0 /\ raised = {} /\ failed = 0 /\ results = <<>>
  /\ written = {} /\ after = {} /\ reported = [i \in Requests |-> "none"]
  /\ tx = "open" /\ stopCh = FALSE /\ errCh = "empty"
  /\ main = "waiting" /\ outcome = "none"

mainVars == <<tx, main, outcome>>

-----------------------------------------------------------------------------
(* process *)

BackByOne(i, err) ==  \* mutant: the index of the caller's own request
  /\ failed' = IF i > 0 /\ err # {} /\ failed = 0 THEN i - 1 ELSE failed
  /\ raised' = err
  /\ IF i = 0 THEN pc' = "send" /\ UNCHANGED cur
     ELSE pc' = "post" /\ cur' = i - 1

\* The process call of request i returns to the request before it, or to the
\* goroutine; optNext updates the failed index if it is not set.
Back(i, err) ==
  /\ failed' = IF i > 0 /\ err # {} /\ failed = 0 THEN i ELSE failed
  /\ raised' = err
  /\ IF i = 0 THEN pc' = "send" /\ UNCHANGED cur
     ELSE pc' = "post" /\ cur' = i - 1

\* A request begins, unless there is a message to stop, which one call takes.
Enter ==
  /\ pc = "enter"
  /\ IF stopCh THEN stopCh' = FALSE /\ Back(cur, {})
     ELSE pc' = "write" /\ UNCHANGED <<stopCh, cur, raised, failed>>
  /\ UNCHANGED <<results, written, after, reported, errCh, mainVars>>

\* The handler of the request writes; a transaction that has ended takes no writes.
Write ==
  /\ pc = "write" /\ tx = "open"
  /\ written' = written \cup {cur} /\ pc' = "register"
  /\ UNCHANGED <<cur, raised, failed, results, after, reported, stopCh, errCh, mainVars>>

\* It fails before, or the write fails and its own After hook is told.
WriteFails ==
  /\ pc = "write"
  /\ Back(cur, {cur})
  /\ UNCHANGED <<results, written, after, reported, stopCh, errCh, mainVars>>

\* TxAppInfo.OnComplete
Register ==
  /\ pc = "register"
  /\ after' = after \cup {cur} /\ pc' = "next"
  /\ UNCHANGED <<cur, raised, failed, results, written, reported, stopCh, errCh, mainVars>>

\* optNext: the next request, if there is one.
NextRequest ==
  /\ pc = "next"
  /\ IF cur = Count - 1 THEN pc' = "post" /\ UNCHANGED cur
     ELSE pc' = "enter" /\ cur' = cur + 1
  /\ UNCHANGED <<raised, failed, results, written, after, reported, stopCh, errCh, mainVars>>

\* The record cannot be enriched, or a hook fails, before or after optNext.
Fails ==
  /\ pc \in {"next", "post"} /\ raised = {}
  /\ Back(cur, {cur})
  /\ UNCHANGED <<results, written, after, reported, stopCh, errCh, mainVars>>

RequestReturns ==
  /\ pc = "post"
  /\ Back(cur, raised)
  /\ results' = IF raised = {} THEN Append(results, cur) ELSE results
  /\ UNCHANGED <<written, after, reported, stopCh, errCh, mainVars>>

\* The first request has returned; the results are in reverse order.
Send ==
  /\ pc = "send"
  /\ errCh' = IF raised = {} THEN "ok" ELSE "error"
  /\ results' = IF raised = {} THEN Reverse(results) ELSE results
  /\ pc' = "ended"
  /\ UNCHANGED <<cur, raised, failed, written, after, reported, stopCh, mainVars>>

\* FireAndForget recovers; nothing is sent.
Panic ==
  /\ pc \notin {"send", "ended"}
  /\ pc' = "ended"
  /\ UNCHANGED <<cur, raised, failed, results, written, after, reported, stopCh, errCh, mainVars>>

-----------------------------------------------------------------------------
(* Process *)

Receive ==
  /\ main = "waiting" /\ errCh # "empty"
  /\ outcome' = errCh /\ errCh' = "empty"
  /\ main' = "leaving"
  /\ UNCHANGED <<routineVars, after, reported, tx, stopCh>>

\* The timeout, or the end of the request's context.
GiveUp ==
  /\ main = "waiting"
  /\ outcome' = "timeout" /\ main' = "leaving"
  /\ UNCHANGED <<routineVars, after, reported, tx, stopCh, errCh>>

LeaveUnbuffered ==  \* mutant: stopCh without a buffer
  /\ main = "leaving" /\ pc = "enter"
  /\ stopCh' = TRUE /\ main' = "ending"
  /\ UNCHANGED <<routineVars, after, reported, tx, errCh, outcome>>

\* The deferred message to stop; stopCh has room for one.
Leave ==
  /\ main = "leaving" /\ ~stopCh
  /\ stopCh' = TRUE /\ main' = "ending"
  /\ UNCHANGED <<routineVars, after, reported, tx, errCh, outcome>>

\* Transactional commits, which may fail, or rolls back.
EndTx ==
  /\ main = "ending"
  /\ \E ok \in BOOLEAN :
       /\ tx' = IF outcome = "ok" /\ ok THEN "committed" ELSE "rolledBack"
       /\ outcome' = IF outcome = "ok" /\ ~ok THEN "endError" ELSE outcome
  /\ main' = "reporting"
  /\ UNCHANGED <<routineVars, after, reported, stopCh, errCh>>

ReportCommitted ==  \* mutant: the callbacks of a rolled back transaction are dropped
  /\ main = "reporting"
  /\ reported' = [i \in Requests |-> IF i \in after /\ tx = "committed" THEN "success"
                                     ELSE reported[i]]
  /\ after' = {} /\ main' = "done"
  /\ UNCHANGED <<routineVars, tx, stopCh, errCh, outcome>>

\* runAfterFuncs; an error of an After hook is returned, also after a commit.
Report ==
  /\ main = "reporting"
  /\ reported' = [i \in Requests |-> IF i \notin after THEN reported[i]
                                     ELSE IF tx = "committed" THEN "success" ELSE "error"]
  /\ after' = {} /\ main' = "done"
  /\ outcome' \in {outcome, IF outcome = "ok" /\ after # {} THEN "endError" ELSE outcome}
  /\ UNCHANGED <<routineVars, tx, stopCh, errCh>>

-----------------------------------------------------------------------------
Routine ==
  Enter \/ Write \/ WriteFails \/ Register \/ NextRequest \/ Fails \/ RequestReturns \/ Send \/ Panic

Handler == Receive \/ GiveUp \/ Leave \/ EndTx \/ Report

Next == Routine \/ Handler

Spec == Init /\ [][Next]_vars

\* Handlers take their steps and the timer fires.
Fairness == WF_vars(Routine) /\ WF_vars(Handler)

FairSpec == Spec /\ Fairness

-----------------------------------------------------------------------------
\* The type invariant.
TypeOK ==
  /\ pc \in {"enter", "write", "register", "next", "post", "send", "ended"}
  /\ cur \in Requests /\ raised \subseteq Requests /\ failed \in Requests
  /\ results \in Seq(Requests) /\ written \subseteq Requests /\ after \subseteq written
  /\ reported \in [Requests -> {"none", "success", "error"}]
  /\ tx \in {"open", "committed", "rolledBack"}
  /\ stopCh \in BOOLEAN /\ errCh \in {"empty", "ok", "error"}
  /\ main \in {"waiting", "leaving", "ending", "reporting", "done"}
  /\ outcome \in {"none", "ok", "error", "timeout", "endError"}

\* batch.go:155-164: an answer of success means that every request has written in
\* a transaction that is committed, and the results are theirs, in their order; an
\* answer of failure names the first request that failed.  A transaction is
\* committed only with all of the requests in it.
AnswersTruly ==
  /\ tx = "committed" => written = Requests
  /\ main = "done" /\ outcome = "ok" =>
       tx = "committed" /\ results = [i \in 1..Count |-> i - 1]
  /\ outcome = "error" => raised = {failed}

\* The After hooks of every request that has written are told how the transaction
\* ended, when it ends by the goroutine's answer.  When it ends by the timeout one
\* request at most may have written and not registered yet: its hooks are never
\* told.
WritesReported ==
  main = "done" =>
    /\ \A i \in written :
         \/ reported[i] = IF tx = "committed" THEN "success" ELSE "error"
         \/ reported[i] = "none" /\ outcome = "timeout"
    /\ \A i, j \in written : reported[i] = "none" /\ reported[j] = "none" => i = j

\* Whatever the requests do, the handler returns and the goroutine ends: neither
\* channel blocks its sender, though the other side may have left.
BatchEnds == <>(main = "done" /\ pc = "ended")

=============================================================================
