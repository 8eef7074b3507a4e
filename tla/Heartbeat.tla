----------------------------- MODULE Heartbeat -----------------------------
(***************************************************************************)
(* The goroutine that reports the presence of an instance                  *)
(* (core/instance_heartbeat.go): every bootstrap starts one in place of    *)
(* the one before it, and terminating waits for its end.                   *)
(*                                                                         *)
(* Bootstraps follow each other; an application may be terminated at any   *)
(* time, also by a restart and a signal at once.  The g-th bootstrap gives *)
(* its number to the two channels and the goroutine it makes.              *)
(***************************************************************************)
EXTENDS Naturals

CONSTANTS
  StartCount,   \* bound: bootstraps
  Terminations  \* calls of cleanup that may be in progress at once

Gens == 1..StartCount
NoGen == 0
Idle == {}  \* of a call: not in progress

ConstantsAssumption == StartCount \in Nat

VARIABLES
  current,  \* whose stopCh and done the guard holds; NoGen: it is not running
  started,  \* bootstraps so far
  pc,       \* each goroutine: none, ticking, cycle or ended (its done is closed)
  closed,   \* the stop channels that are closed
  initWait, \* init: Idle, or the goroutine it waits for, {NoGen} for none
  endWait,  \* each cleanup: the same
  crashed   \* a closed channel was closed again

vars == <<current, started, pc, closed, initWait, endWait, crashed>>

Init ==
  /\ current = NoGen /\ started = 0 /\ crashed = FALSE
  /\ pc = [g \in Gens |-> "none"] /\ closed = {}
  /\ initWait = Idle /\ endWait = [t \in Terminations |-> Idle]

-----------------------------------------------------------------------------
\* close(guard.stopCh), if the guard is running.
CloseStop ==
  /\ closed' = IF current = NoGen THEN closed ELSE closed \cup {current}
  /\ crashed' = (crashed \/ current \in closed)

\* init, with the lock held: the goroutine that runs is stopped, the next one gets
\* its own channels.
Swap ==
  /\ initWait = Idle /\ started < StartCount
  /\ CloseStop
  /\ initWait' = {current}
  /\ started' = started + 1 /\ current' = started + 1
  /\ UNCHANGED <<pc, endWait>>

\* A receive from a done channel that may not exist.
Over(wait) == wait # Idle /\ \A g \in wait \cap Gens : pc[g] = "ended"

\* init goes on: the goroutine is started, though a cleanup may have stopped it.
Launch ==
  /\ Over(initWait)
  /\ initWait' = Idle
  /\ pc' = [pc EXCEPT ![started] = "ticking"]
  /\ UNCHANGED <<current, started, closed, endWait, crashed>>

CleanupLeavesRunning(t) ==  \* mutant: running and the channels are not reset
  /\ endWait[t] = Idle
  /\ CloseStop
  /\ endWait' = [endWait EXCEPT ![t] = {current}]
  /\ UNCHANGED <<current, started, pc, initWait>>

\* cleanup, with the lock held.
Cleanup(t) ==
  /\ endWait[t] = Idle
  /\ CloseStop
  /\ endWait' = [endWait EXCEPT ![t] = {current}]
  /\ current' = NoGen
  /\ UNCHANGED <<started, pc, initWait>>

CleanupReturns(t) ==
  /\ Over(endWait[t])
  /\ endWait' = [endWait EXCEPT ![t] = Idle]
  /\ UNCHANGED <<current, started, pc, closed, initWait, crashed>>

-----------------------------------------------------------------------------
\* The goroutine: the select takes a tick also when both are ready.
Tick(g) ==
  /\ pc[g] = "ticking"
  /\ pc' = [pc EXCEPT ![g] = "cycle"]
  /\ UNCHANGED <<current, started, closed, initWait, endWait, crashed>>

\* runCycle returns; if it panics, done is closed all the same.
Cycle(g) ==
  /\ pc[g] = "cycle"
  /\ \E s \in {"ticking", "ended"} : pc' = [pc EXCEPT ![g] = s]
  /\ UNCHANGED <<current, started, closed, initWait, endWait, crashed>>

Exit(g) ==
  /\ pc[g] = "ticking" /\ g \in closed
  /\ pc' = [pc EXCEPT ![g] = "ended"]
  /\ UNCHANGED <<current, started, closed, initWait, endWait, crashed>>

Next ==
  \/ Swap \/ Launch
  \/ \E t \in Terminations : Cleanup(t) \/ CleanupReturns(t)
  \/ \E g \in Gens : Tick(g) \/ Cycle(g) \/ Exit(g)

Spec == Init /\ [][Next]_vars

-----------------------------------------------------------------------------
\* The type invariant.
TypeOK ==
  /\ current \in Gens \cup {NoGen} /\ started \in 0..StartCount
  /\ pc \in [Gens -> {"none", "ticking", "cycle", "ended"}] /\ closed \subseteq Gens
  /\ initWait \subseteq Gens \cup {NoGen}
  /\ endWait \in [Terminations -> SUBSET (Gens \cup {NoGen})]
  /\ crashed \in BOOLEAN

Alive == {g \in Gens : pc[g] \in {"ticking", "cycle"}}

\* instance_heartbeat.go:100-108 and :152-154: however bootstraps and terminations
\* interleave, no channel is closed twice, one goroutine at most goes on, and
\* when the terminations have returned, and nothing was bootstrapped since, no
\* goroutine is left that could use the connections.
OneHeartbeat ==
  /\ ~crashed
  /\ Alive \ closed \subseteq {current}
  /\ current = NoGen /\ initWait = Idle /\ (\A t \in Terminations : endWait[t] = Idle)
       => Alive = {}

=============================================================================
