----------------------------- MODULE CronTicker -----------------------------
(***************************************************************************)
(* Starting and stopping the job ticker: Start, Stop, SetInterval and      *)
(* runDue of tools/cron/cron.go.                                           *)
(*                                                                         *)
(* Start arms a timer for the next full interval.  When it fires, its      *)
(* callback creates a ticker, runs the due jobs and starts a goroutine     *)
(* that runs them again at every tick until it receives from tickerDone.   *)
(* tickerDone has no buffer and Stop sends on it with the lock held, which *)
(* runDue wants too.  A timer that has fired cannot be stopped any more:   *)
(* its callback goes on, also when Stop has come before it.                *)
(*                                                                         *)
(* The g-th call of Start gives its number to the timer, the callback, the *)
(* ticker and the goroutine that come from it.  The calls follow each      *)
(* other, as they do in the application (bootstrap and reset).             *)
(***************************************************************************)
EXTENDS Naturals, FiniteSets

CONSTANTS
  StartCount,         \* bound: timers armed
  CallsOnceOvertaken  \* bound: whether calls begin once a Stop has overtaken a callback

Gens == 1..StartCount
NoGen == 0

ConstantsAssumption == StartCount \in Nat \ {0} /\ CallsOnceOvertaken \in BOOLEAN

VARIABLES
  call,        \* the call in progress, or none
  step,        \* where it is: check, stop, send, arm or none
  startTimer,  \* the timer in c.startTimer
  ticker,      \* the ticker in c.ticker
  pc,          \* each callback and goroutine: none, armed, stopped, fired, due,
               \* select, looping, tick, ended or crashed
  chan,        \* the ticker each goroutine's select waits for
  ticking,     \* the tickers that were created and not stopped
  ticks,       \* the tickers whose channel holds a tick
  runs,        \* whether due jobs have been run since the last call returned
  wanted,      \* history: started or stopped, by the last call that returned
  overtaken,   \* history: Stop has come between a timer that fired and its callback
  calm         \* rigid: in this behaviour timer and ticker fire between calls only

callVars   == <<call, step, wanted, overtaken, calm>>
tickerVars == <<startTimer, ticker, ticking, ticks>>
vars == <<callVars, tickerVars, pc, chan, runs>>

-----------------------------------------------------------------------------
\* The lock c.mux is held across steps only by a Stop that waits to send.
Unlocked == step # "send"

\* Callbacks and goroutines between two waits.
Busy == {g \in Gens : pc[g] \in {"fired", "due", "select", "tick"}}
Alive == Busy \cup {g \in Gens : pc[g] = "looping"}

\* What calm means for the steps of the clock and for those of the user.
ClockMayStep == calm => call = "none"
CallMayBegin == calm => Busy = {}

SetPc(g, s) == pc' = [pc EXCEPT ![g] = s]

Init ==
  /\ call = "none" /\ step = "none" /\ wanted = "stopped"
  /\ startTimer = NoGen /\ ticker = NoGen
  /\ ticking = {} /\ ticks = {}
  /\ pc   = [g \in Gens |-> "none"]
  /\ chan = [g \in Gens |-> NoGen]
  /\ runs = FALSE
  /\ overtaken = FALSE /\ calm \in BOOLEAN

(***************************************************************************)
(* The calls.  Start begins with Stop; SetInterval is followed by Start if *)
(* the ticker was running.                                                 *)
(***************************************************************************)
Begin(c) ==
  /\ call = "none" /\ CallMayBegin /\ (overtaken => CallsOnceOvertaken)
  /\ c \in {"Start", "SetInterval"} => \E g \in Gens : pc[g] = "none"
  /\ call' = c
  /\ step' = IF c = "SetInterval" THEN "check" ELSE "stop"
  /\ UNCHANGED <<wanted, overtaken, calm, tickerVars, pc, chan, runs>>

Return(w) == call' = "none" /\ step' = "none" /\ wanted' = w /\ runs' = FALSE

\* The call goes on to its next locked section.
GoOn(s) == step' = s /\ UNCHANGED <<call, wanted, runs>>

SetInterval ==
  /\ step = "check"
  /\ IF ticker = NoGen THEN Return(wanted)
     ELSE GoOn("stop")
  /\ UNCHANGED <<overtaken, calm, tickerVars, pc, chan>>

StopDoneForgetsRestart ==  \* mutant: SetInterval does not start again
  IF call # "Start" THEN Return(IF call = "Stop" THEN "stopped" ELSE wanted)
  ELSE GoOn("arm")

\* Stop has returned, to Start or to its caller.
StopDone ==
  IF call = "Stop" THEN Return("stopped") ELSE GoOn("arm")

\* startTimer.Stop() has an effect on a timer that has not fired.
StopStartTimer ==
  /\ startTimer' = NoGen
  /\ pc' = [g \in Gens |-> IF g = startTimer /\ pc[g] = "armed" THEN "stopped" ELSE pc[g]]
  /\ overtaken' = (overtaken \/ \E g \in Gens : pc[g] = "fired")
  /\ UNCHANGED calm

StopForgetsTimer ==  \* mutant: the start timer is forgotten, not stopped
  /\ step = "stop"
  /\ startTimer' = NoGen
  /\ IF ticker = NoGen THEN StopDone ELSE GoOn("send")
  /\ UNCHANGED <<overtaken, calm, ticker, ticking, ticks, pc, chan>>

StopAlwaysSends ==  \* mutant: no return for a ticker that is stopped already
  /\ step = "stop" /\ StopStartTimer
  /\ GoOn("send")
  /\ UNCHANGED <<ticker, ticking, ticks, chan>>

\* Stop up to the send.
StopTimer ==
  /\ step = "stop" /\ StopStartTimer
  /\ IF ticker = NoGen THEN StopDone ELSE GoOn("send")
  /\ UNCHANGED <<ticker, ticking, ticks, chan>>

StopWithoutEnd(g) ==  \* mutant: the goroutine does not return
  /\ step = "send" /\ pc[g] = "looping"
  /\ ticking' = ticking \ {ticker} /\ ticker' = NoGen
  /\ StopDone
  /\ UNCHANGED <<overtaken, calm, startTimer, ticks, pc, chan>>

\* tickerDone <- true meets a goroutine in its select, which returns.
StopTicker(g) ==
  /\ step = "send" /\ pc[g] = "looping"
  /\ SetPc(g, "ended")
  /\ ticking' = ticking \ {ticker} /\ ticker' = NoGen
  /\ StopDone
  /\ UNCHANGED <<overtaken, calm, startTimer, ticks, chan>>

\* Start after its Stop.
Arm(g) ==
  /\ step = "arm" /\ pc[g] = "none" /\ \A h \in Gens : h < g => pc[h] # "none"
  /\ startTimer' = g
  /\ SetPc(g, "armed")
  /\ Return("started")
  /\ UNCHANGED <<overtaken, calm, ticker, ticking, ticks, chan>>

(***************************************************************************)
(* The timer and its callback.                                             *)
(***************************************************************************)
Fire(g) ==
  /\ pc[g] = "armed" /\ ClockMayStep
  /\ SetPc(g, "fired")
  /\ UNCHANGED <<callVars, tickerVars, chan, runs>>

NewTicker(g) ==
  /\ pc[g] = "fired" /\ Unlocked
  /\ ticker' = g /\ ticking' = ticking \cup {g}
  /\ SetPc(g, "due")
  /\ UNCHANGED <<callVars, startTimer, ticks, chan, runs>>

\* runDue right after the start, then the goroutine is started.
FirstRun(g) ==
  /\ pc[g] = "due" /\ Unlocked
  /\ runs' = TRUE
  /\ SetPc(g, "select")
  /\ UNCHANGED <<callVars, tickerVars, chan>>

(***************************************************************************)
(* The ticker and its goroutine.                                           *)
(***************************************************************************)
\* A ticker drops the tick when its channel still holds one.
Tick(t) ==
  /\ t \in ticking /\ ClockMayStep
  /\ ticks' = ticks \cup {t}
  /\ UNCHANGED <<callVars, startTimer, ticker, ticking, pc, chan, runs>>

TakeTick(g) ==
  /\ pc[g] = "looping" /\ chan[g] \in ticks /\ ClockMayStep
  /\ ticks' = ticks \ {chan[g]}
  /\ SetPc(g, "tick")
  /\ UNCHANGED <<callVars, startTimer, ticker, ticking, chan, runs>>

\* The goroutine enters its select: it reads c.ticker without the lock, and fails
\* when there is none.
Select(g) ==
  /\ pc[g] = "select"
  /\ SetPc(g, IF ticker = NoGen THEN "crashed" ELSE "looping")
  /\ chan' = [chan EXCEPT ![g] = ticker]
  /\ UNCHANGED <<callVars, tickerVars, runs>>

RunDueOnce(g) ==  \* mutant: the goroutine returns after one tick
  /\ pc[g] = "tick" /\ Unlocked
  /\ runs' = TRUE
  /\ SetPc(g, "ended")
  /\ UNCHANGED <<callVars, tickerVars, chan>>

\* runDue needs the read lock; the goroutine goes round its loop.
RunDue(g) ==
  /\ pc[g] = "tick" /\ Unlocked
  /\ runs' = TRUE
  /\ SetPc(g, "select")
  /\ UNCHANGED <<callVars, tickerVars, chan>>

-----------------------------------------------------------------------------
CallStep ==
  \/ SetInterval \/ StopTimer
  \/ \E g \in Gens : StopTicker(g) \/ Arm(g)

GenStep(g) ==
  Fire(g) \/ NewTicker(g) \/ FirstRun(g) \/ Select(g) \/ TakeTick(g) \/ RunDue(g)

Next ==
  \/ \E c \in {"Start", "Stop", "SetInterval"} : Begin(c)
  \/ CallStep
  \/ \E g \in Gens : GenStep(g) \/ Tick(g)

Spec == Init /\ [][Next]_vars

\* Time passes and goroutines run; a call that can go on does.
Fairness ==
  /\ WF_vars(CallStep)
  /\ \A g \in Gens : WF_vars(GenStep(g)) /\ WF_vars(g \notin ticks /\ Tick(g))

FairSpec == Spec /\ Fairness

-----------------------------------------------------------------------------
\* The type invariant; besides the types, c.ticker is a ticker that is ticking,
\* at most one timer is armed, the one in c.startTimer, and none while Stop waits to
\* send or Start has not armed its own.
TypeOK ==
  /\ call \in {"none", "Start", "Stop", "SetInterval"}
  /\ step \in {"none", "check", "stop", "send", "arm"} /\ (call = "none" <=> step = "none")
  /\ wanted \in {"started", "stopped"} /\ runs \in BOOLEAN
  /\ overtaken \in BOOLEAN /\ calm \in BOOLEAN
  /\ startTimer \in Gens \cup {NoGen} /\ ticker \in Gens \cup {NoGen}
  /\ pc \in [Gens -> {"none", "armed", "stopped", "fired", "due", "select", "looping",
                      "tick", "ended", "crashed"}]
  /\ chan \in [Gens -> Gens \cup {NoGen}]
  /\ ticking \in SUBSET Gens /\ ticks \in SUBSET Gens
  /\ ticker # NoGen => ticker \in ticking
  /\ \A g \in Gens : pc[g] = "armed" => g = startTimer /\ step \notin {"send", "arm"}

\* "Stop stops the current cron ticker" (cron.go:154): once it has returned, and until
\* the next call, no ticker is ticking.  A callback that Stop has overtaken breaks it.
StopIsFinal == call = "none" /\ wanted = "stopped" => ticker = NoGen /\ ticking = {}

\* "Stop() actually halted the ticker" (cron_test.go:311): wherever the clock strikes
\* during the calls, once Stop has returned nothing is left that could run jobs, as
\* long as no Stop has come between a timer that fired and its callback.
StopHalts ==
  ~overtaken /\ call = "none" /\ wanted = "stopped" =>
    /\ ticker = NoGen /\ ticking = {} /\ Alive = {}
    /\ \A g \in Gens : pc[g] # "armed"

\* "Calling Start() on already started cron will restart the ticker" (cron.go:178):
\* however calls follow each other, and wherever the clock strikes during them, one
\* start is in effect at a time, and no goroutine has found c.ticker cleared by its
\* unlocked read; the exception is that of StopHalts.
OneStartInEffect ==
  ~overtaken =>
    /\ Cardinality(Alive \cup {g \in Gens : pc[g] = "armed"}) <= 1
    /\ Cardinality(ticking) <= 1
    /\ \A g \in Gens : pc[g] # "crashed"

\* Every call of Start, Stop and SetInterval returns.
CallsReturn == call # "none" ~> call = "none"

\* The same when the clock does not strike during the calls.
QuietCallsReturn == calm /\ call # "none" ~> call = "none"

\* As long as it is not stopped, a started cron runs the due jobs, again after
\* every quiet call.
JobsKeepRunning ==
  calm /\ wanted = "started" ~> runs \/ call # "none" \/ wanted = "stopped"

\* A goroutine that has run the due jobs takes the next tick too.
TicksAreTaken ==
  \A t \in Gens : calm /\ t \in ticks ~> t \notin ticks \/ t \notin ticking

=============================================================================
