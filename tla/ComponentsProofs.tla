-------------------------- MODULE ComponentsProofs --------------------------
(***************************************************************************)
(* Proofs about the components that are checked in one run, for any values *)
(* of their constants: for each an inductive invariant, with one lemma for *)
(* each of its actions, and at the end the theorems about the run.         *)
(*                                                                         *)
(* The names of a section's lemmas begin with its component's, because all *)
(* of them are about the variables of MCComponents.                        *)
(***************************************************************************)
EXTENDS MCComponents, MigrationsProofs, Integers, Sequences, FiniteSets, FiniteSetTheorems,
  TLAPS

-----------------------------------------------------------------------------
(***************************************************************************)
(* Heartbeat.  The channel that the guard holds is open.  A goroutine that *)
(* goes on, or is about to be started, is the guard's own or has been told *)
(* to end, and somebody who has not returned waits for it.                 *)
(***************************************************************************)

\* Bootstraps are numbered in their order, and one that still waits for the
\* goroutine before its own has not started its own.
BeatNumbers ==
  /\ current \in 0..started /\ closed \subseteq 1..started
  /\ \A g \in Beat!Gens : g > started => beatPc[g] = "none"
  /\ initWait # {} => started \in Beat!Gens /\ beatPc[started] = "none"

\* The goroutines there are and the one that a bootstrap is about to start.
BeatOn == {g \in Beat!Gens : beatPc[g] \in {"ticking", "cycle"} \/ (initWait # {} /\ g = started)}

BeatOthersStopped == BeatOn \subseteq closed \cup {current}

BeatAwaited ==
  \A g \in BeatOn : g = current \/ g \in initWait \/ \E t \in Terminations : g \in endWait[t]

BeatInv ==
  /\ Beat!TypeOK /\ ~crashed /\ current \notin closed
  /\ BeatNumbers /\ BeatOthersStopped /\ BeatAwaited

\* At the start there is no goroutine.
LEMMA BeatInit == Beat!Init => BeatInv
<1> SUFFICES ASSUME Beat!Init PROVE BeatInv
  OBVIOUS
<1>1. BeatStarts \in Nat
  BY InstancesAssumption DEF Beat!ConstantsAssumption
<1>2. BeatOn = {}
  BY DEF Beat!Init, Beat!Idle, BeatOn
<1>3. Beat!TypeOK
  <2>1. endWait \in [Terminations -> SUBSET (Beat!Gens \cup {Beat!NoGen})]
    BY DEF Beat!Init, Beat!Idle
  <2>2. beatPc \in [Beat!Gens -> {"none", "ticking", "cycle", "ended"}]
    BY DEF Beat!Init
  <2>3. crashed \in BOOLEAN
    BY Zenon DEF Beat!Init
  <2>4. QED BY <1>1, <2>1, <2>2, <2>3 DEF Beat!Init, Beat!TypeOK, Beat!Idle, Beat!NoGen
<1>4. ~crashed /\ current \notin closed /\ BeatNumbers
  BY <1>1 DEF Beat!Init, BeatNumbers, Beat!Gens, Beat!NoGen, Beat!Idle
<1>5. QED BY <1>2, <1>3, <1>4 DEF BeatInv, BeatOthersStopped, BeatAwaited

\* A bootstrap or a termination closes a channel that was open.
LEMMA BeatCloses ==
  ASSUME BeatInv, Beat!CloseStop
  PROVE  /\ crashed' \in BOOLEAN /\ ~crashed'
         /\ closed' = closed \cup ({current} \ {Beat!NoGen}) /\ closed' \subseteq Beat!Gens
<1>1. crashed' \in BOOLEAN
  BY Zenon DEF Beat!CloseStop
<1>2. QED BY <1>1 DEF BeatInv, Beat!CloseStop, Beat!TypeOK

\* A bootstrap stops the goroutine that runs and waits for it.
LEMMA BeatSwap ==
  ASSUME BeatInv, Beat!Swap
  PROVE  BeatInv'
<1> USE DEF BeatInv, Beat!Gens, Beat!NoGen, Beat!Idle
<1>1. BeatStarts \in Nat /\ started \in Nat /\ started + 1 \in Beat!Gens /\ beatPc[started + 1] = "none"
  BY InstancesAssumption DEF Beat!ConstantsAssumption, Beat!TypeOK, BeatNumbers, Beat!Swap
<1>2. Beat!TypeOK'
  <2>1. {current} \subseteq Beat!Gens \cup {Beat!NoGen}
    BY DEF Beat!TypeOK
  <2>2. started' \in 0..BeatStarts /\ current' \in Beat!Gens /\ initWait' = {current}
    BY <1>1 DEF Beat!Swap
  <2>3. QED BY <2>1, <2>2, BeatCloses DEF Beat!Swap, Beat!TypeOK
<1>3. ~crashed' /\ closed' = closed \cup ({current} \ {Beat!NoGen}) /\ current' = started + 1
  BY BeatCloses DEF Beat!Swap
<1>4. BeatNumbers' /\ current' \notin closed'
  BY <1>1, <1>3 DEF BeatNumbers, Beat!TypeOK, Beat!Swap
<1>5. BeatOn' = BeatOn \cup {started + 1}
  BY <1>1 DEF BeatOn, Beat!Swap
<1>6. BeatOthersStopped'
  BY <1>3, <1>5 DEF BeatOthersStopped, BeatOn
<1>7. BeatAwaited'
  BY <1>3, <1>5 DEF BeatAwaited, Beat!Swap
<1>8. QED BY <1>2, <1>3, <1>4, <1>6, <1>7

\* What it waited for has ended, and its own goroutine was already counted.
LEMMA BeatLaunch ==
  ASSUME BeatInv, Beat!Launch
  PROVE  BeatInv'
<1> USE DEF BeatInv, Beat!Gens, Beat!NoGen, Beat!Idle
<1>1. started \in Beat!Gens /\ beatPc[started] = "none" /\ started \in BeatOn
  BY DEF BeatNumbers, Beat!Launch, Beat!Over, BeatOn
<1>2. \A g \in initWait \cap Beat!Gens : beatPc[g] = "ended"
  BY DEF Beat!Launch, Beat!Over
<1>3. /\ beatPc' \in [Beat!Gens -> {"none", "ticking", "cycle", "ended"}]
      /\ beatPc'[started] = "ticking" /\ \A g \in Beat!Gens \ {started} : beatPc'[g] = beatPc[g]
      /\ initWait' = {} /\ UNCHANGED <<current, started, closed, endWait, crashed>>
  BY <1>1 DEF Beat!Launch, Beat!TypeOK
<1>4. Beat!TypeOK'
  BY <1>3 DEF Beat!TypeOK
<1>5. BeatNumbers'
  BY <1>1, <1>3 DEF BeatNumbers, Beat!TypeOK
<1>6. BeatOn' = BeatOn
  BY <1>1, <1>3 DEF BeatOn, Beat!Launch, Beat!Over
<1>7. \A g \in BeatOn : g \notin initWait
  BY <1>1, <1>2 DEF BeatOn
<1>8. BeatOthersStopped' /\ BeatAwaited'
  BY <1>3, <1>6, <1>7 DEF BeatOthersStopped, BeatAwaited
<1>9. QED BY <1>3, <1>4, <1>5, <1>8

\* A termination closes the channel, and waits as a bootstrap does.
LEMMA BeatCleanup ==
  ASSUME BeatInv, NEW t \in Terminations, Beat!Cleanup(t)
  PROVE  BeatInv'
<1> USE DEF BeatInv, Beat!Gens, Beat!NoGen, Beat!Idle
<1>1. /\ crashed' \in BOOLEAN /\ ~crashed' /\ current' = 0
      /\ closed' = closed \cup ({current} \ {0}) /\ closed' \subseteq Beat!Gens
  BY BeatCloses DEF Beat!Cleanup
<1>2. /\ UNCHANGED <<started, beatPc, initWait>> /\ endWait[t] = {} /\ endWait'[t] = {current}
      /\ \A s \in Terminations \ {t} : endWait'[s] = endWait[s]
  BY DEF Beat!Cleanup, Beat!TypeOK
<1>3. Beat!TypeOK'
  <2>1. {current} \in SUBSET (Beat!Gens \cup {Beat!NoGen})
    BY DEF Beat!TypeOK
  <2>2. endWait' \in [Terminations -> SUBSET (Beat!Gens \cup {Beat!NoGen})]
    BY <2>1 DEF Beat!Cleanup, Beat!TypeOK
  <2>3. QED BY <1>1, <1>2, <2>2 DEF Beat!TypeOK
<1>4. BeatNumbers' /\ current' \notin closed'
  <2>1. closed' \subseteq 1..started /\ started \in Nat
    BY <1>1 DEF BeatNumbers, Beat!TypeOK
  <2>2. QED BY <1>1, <1>2, <2>1 DEF BeatNumbers
<1>5. BeatOn' = BeatOn
  BY <1>2 DEF BeatOn
<1>6. BeatOthersStopped'
  BY <1>1, <1>5 DEF BeatOthersStopped, BeatOn
<1>7. BeatAwaited'
  BY <1>1, <1>2, <1>5 DEF BeatAwaited
<1>8. QED BY <1>1, <1>3, <1>4, <1>6, <1>7

\* A termination returns when what it waited for has ended.
LEMMA BeatCleanupReturns ==
  ASSUME BeatInv, NEW t \in Terminations, Beat!CleanupReturns(t)
  PROVE  BeatInv'
<1> USE DEF BeatInv, Beat!Gens, Beat!NoGen, Beat!Idle
<1>1. /\ UNCHANGED <<current, started, beatPc, closed, initWait, crashed>> /\ endWait'[t] = {}
      /\ \A s \in Terminations \ {t} : endWait'[s] = endWait[s]
  BY DEF Beat!CleanupReturns, Beat!TypeOK
<1>2. Beat!TypeOK' /\ BeatNumbers' /\ BeatOn' = BeatOn
  BY <1>1 DEF Beat!CleanupReturns, Beat!TypeOK, BeatNumbers, BeatOn
<1>3. \A g \in BeatOn : g \notin endWait[t]
  BY DEF Beat!CleanupReturns, Beat!Over, BeatOn, BeatNumbers
<1>4. BeatOthersStopped' /\ BeatAwaited'
  BY <1>1, <1>2, <1>3 DEF BeatOthersStopped, BeatAwaited
<1>5. QED BY <1>1, <1>2, <1>4

\* A goroutine goes on or ends.
LEMMA BeatGoroutine ==
  ASSUME BeatInv, NEW g \in Beat!Gens, Beat!Tick(g) \/ Beat!Cycle(g) \/ Beat!Exit(g)
  PROVE  BeatInv'
<1> USE DEF BeatInv, Beat!Gens
<1>1. beatPc[g] \in {"ticking", "cycle"} /\ UNCHANGED <<current, started, closed, initWait, endWait, crashed>>
  BY DEF Beat!Tick, Beat!Cycle, Beat!Exit
<1>2. PICK s \in {"ticking", "cycle", "ended"} : beatPc' = [beatPc EXCEPT ![g] = s]
  BY DEF Beat!Tick, Beat!Cycle, Beat!Exit
<1>3. /\ beatPc' \in [Beat!Gens -> {"none", "ticking", "cycle", "ended"}]
      /\ beatPc'[g] = s /\ \A h \in Beat!Gens \ {g} : beatPc'[h] = beatPc[h]
  BY <1>2 DEF Beat!TypeOK
<1>4. Beat!TypeOK' /\ BeatNumbers' /\ BeatOn' \subseteq BeatOn
  BY <1>1, <1>3 DEF Beat!TypeOK, BeatNumbers, BeatOn
<1>5. BeatOthersStopped' /\ BeatAwaited'
  BY <1>1, <1>4 DEF BeatOthersStopped, BeatAwaited
<1>6. QED BY <1>1, <1>4, <1>5

\* The invariant of the heartbeat is inductive.
LEMMA BeatStep == BeatInv /\ [Beat!Next]_beatVars => BeatInv'
<1>1. CASE BeatInv /\ Beat!Next
  BY <1>1, BeatSwap, BeatLaunch, BeatCleanup, BeatCleanupReturns, BeatGoroutine DEF Beat!Next
<1>2. CASE BeatInv /\ UNCHANGED beatVars
  BY <1>2 DEF beatVars, BeatInv, Beat!TypeOK, BeatNumbers, BeatOn, BeatOthersStopped, BeatAwaited
<1>3. QED BY <1>1, <1>2

\* What it says of the states.
LEMMA BeatSafe == BeatInv => Beat!OneHeartbeat
<1> SUFFICES ASSUME BeatInv PROVE Beat!OneHeartbeat
  OBVIOUS
<1>1. Beat!Alive \subseteq BeatOn
  BY DEF Beat!Alive, BeatOn
<1>2. ~crashed /\ Beat!Alive \ closed \subseteq {current}
  BY <1>1 DEF BeatInv, BeatOthersStopped
<1>3. ASSUME current = Beat!NoGen, initWait = Beat!Idle, \A t \in Terminations : endWait[t] = Beat!Idle
      PROVE  Beat!Alive = {}
  <2>1. ASSUME NEW g \in Beat!Alive PROVE FALSE
    <3>1. g \in BeatOn /\ g # Beat!NoGen
      BY <1>1, <2>1 DEF BeatOn, Beat!Gens, Beat!NoGen
    <3>2. QED BY <1>3, <3>1 DEF BeatInv, BeatAwaited, Beat!Idle
  <2>2. QED BY <2>1
<1>4. QED BY <1>2, <1>3 DEF Beat!OneHeartbeat

-----------------------------------------------------------------------------
(***************************************************************************)
(* NotifyWatcher.  The time since the last change that was read and the    *)
(* time left of the debounce timer together are at least the window.       *)
(***************************************************************************)
NotifyEvents == [kind : {Kind}, op : {"write", "remove"}]

NotifyWaits ==
  debounce # Notify!NoTimer => Notify!Unread(Kind) \/ age[Kind] + debounce.left >= Debounce

NotifyInv == Notify!TypeOK /\ Notify!ReloadIsDue /\ NotifyWaits

\* The constants of the watcher.
LEMMA NotifyConstants ==
  /\ Kind \in {"settings", "collections"} /\ Kind # "none"
  /\ Debounce \in Nat \ {0} /\ RemoveAfter \in Nat \ {0} /\ MaxChanges \in Nat
<1>1. Kind \in {"settings", "collections"}
  BY InstancesAssumption DEF Notify!ConstantsAssumption
<1>2. QED BY <1>1, InstancesAssumption DEF Notify!ConstantsAssumption

\* The watcher starts up to date.
LEMMA NotifyInit == Notify!Init => NotifyInv
<1> SUFFICES ASSUME Notify!Init PROVE NotifyInv
  OBVIOUS
<1> USE NotifyConstants
<1>1. /\ version \in [{Kind} -> 0..MaxChanges] /\ loaded \in [{Kind} -> 0..MaxChanges]
      /\ age \in [{Kind} -> 0..Debounce] /\ version[Kind] = loaded[Kind]
  BY DEF Notify!Init
<1>2. sentinel \in [Writers -> [{Kind} -> BOOLEAN]]
  BY DEF Notify!Init
<1>3. removals \in [Writers -> [{Kind} -> SUBSET (0..RemoveAfter)]]
  BY DEF Notify!Init
<1>4. \A w \in Writers, k \in {Kind} : sentinel[w][k] = FALSE
  BY DEF Notify!Init
<1>5. events = <<>> /\ events \in Seq(NotifyEvents) /\ debounce = Notify!NoTimer
  BY DEF Notify!Init
<1>6. Notify!TypeOK
  BY <1>1, <1>2, <1>3, <1>4, <1>5 DEF Notify!TypeOK, NotifyEvents
<1>7. QED BY <1>1, <1>5, <1>6 DEF NotifyInv, Notify!ReloadIsDue, NotifyWaits

\* A write that has not been read stays unread when an event is added, and when
\* another one is read.
LEMMA UnreadAppend ==
  ASSUME events \in Seq(NotifyEvents), NEW e \in NotifyEvents, events' = Append(events, e)
  PROVE  /\ events' \in Seq(NotifyEvents)
         /\ Notify!Unread(Kind) => Notify!Unread(Kind)'
         /\ e = [kind |-> Kind, op |-> "write"] => Notify!Unread(Kind)'
  BY DEF Notify!Unread

LEMMA UnreadTail ==
  ASSUME events \in Seq(NotifyEvents), events # <<>>, events' = Tail(events)
  PROVE  /\ events' \in Seq(NotifyEvents) /\ Head(events) \in NotifyEvents
         /\ Notify!Unread(Kind) /\ Head(events) # [kind |-> Kind, op |-> "write"] => Notify!Unread(Kind)'
<1>1. ASSUME NEW i \in DOMAIN events, i # 1
      PROVE  i - 1 \in DOMAIN Tail(events) /\ Tail(events)[i - 1] = events[i]
  BY <1>1
<1>2. events[1] = Head(events) /\ Head(events) \in NotifyEvents /\ Tail(events) \in Seq(NotifyEvents)
  OBVIOUS
<1>3. QED BY <1>1, <1>2 DEF Notify!Unread

\* The parts of the type invariant: what is known of a kind, the sentinels, and
\* the events with their timer.
NotifyVersions ==
  /\ version \in [{Kind} -> 0..MaxChanges] /\ loaded \in [{Kind} -> 0..MaxChanges]
  /\ age \in [{Kind} -> 0..Debounce]

NotifySentinels ==
  /\ sentinel \in [Writers -> [{Kind} -> BOOLEAN]]
  /\ removals \in [Writers -> [{Kind} -> SUBSET (0..RemoveAfter)]]
  /\ \A w \in Writers : \A k \in {Kind} : sentinel[w][k] => removals[w][k] # {}

NotifyTimer ==
  /\ events \in Seq(NotifyEvents)
  /\ debounce \in [left : 0..Debounce, kind : {Kind}] \cup {Notify!NoTimer}

LEMMA NotifyParts ==
  /\ Notify!TypeOK <=> NotifyVersions /\ NotifySentinels /\ NotifyTimer
  /\ Notify!TypeOK' <=> NotifyVersions' /\ NotifySentinels' /\ NotifyTimer'
  BY DEF Notify!TypeOK, NotifyVersions, NotifySentinels, NotifyTimer, NotifyEvents

\* A timer that runs is for the kind there is.
LEMMA NotifyKind ==
  ASSUME NotifyTimer, debounce # Notify!NoTimer
  PROVE  debounce.kind = Kind /\ debounce.left \in 0..Debounce
  BY DEF NotifyTimer

\* The sentinels of one kind and writer are set and removed together with what is
\* left to do for them.
LEMMA NotifySetsSentinel ==
  ASSUME NotifySentinels, NEW w \in Writers, NEW k \in {Kind},
         NEW b \in BOOLEAN, NEW R \in SUBSET (0..RemoveAfter), b => R # {},
         sentinel' = [sentinel EXCEPT ![w][k] = b],
         removals' = [removals EXCEPT ![w][k] = R]
  PROVE  NotifySentinels'
<1>1. sentinel' \in [Writers -> [{Kind} -> BOOLEAN]]
  BY Zenon DEF NotifySentinels
<1>2. removals' \in [Writers -> [{Kind} -> SUBSET (0..RemoveAfter)]]
  BY DEF NotifySentinels
<1>3. ASSUME NEW v \in Writers, NEW j \in {Kind}, sentinel'[v][j] PROVE removals'[v][j] # {}
  <2>1. CASE v = w /\ j = k
    BY <1>3, <2>1 DEF NotifySentinels
  <2>2. CASE ~(v = w /\ j = k)
    BY <1>3, <2>2 DEF NotifySentinels
  <2>3. QED BY <2>1, <2>2
<1>4. QED BY <1>1, <1>2, <1>3 DEF NotifySentinels

\* A change leaves an event that is not read yet.
LEMMA NotifyChange ==
  ASSUME NotifyInv, NEW w \in Writers, NEW k \in {Kind}, Notify!Change(w, k)
  PROVE  NotifyInv'
<1> USE NotifyConstants
<1>1. NotifyVersions /\ NotifySentinels /\ NotifyTimer
  BY NotifyParts DEF NotifyInv
<1>2. NotifyVersions'
  BY <1>1 DEF NotifyVersions, Notify!Change
<1>3. NotifySentinels'
  <2>1. removals[w][k] \cup {RemoveAfter} \in SUBSET (0..RemoveAfter)
    BY <1>1 DEF NotifySentinels
  <2>2. removals[w][k] \cup {RemoveAfter} # {}
    OBVIOUS
  <2>3. removals' = [removals EXCEPT ![w][k] = removals[w][k] \cup {RemoveAfter}]
    BY DEF Notify!Change
  <2>4. sentinel' = [sentinel EXCEPT ![w][k] = TRUE]
    BY DEF Notify!Change
  <2>5. QED BY <1>1, <2>1, <2>2, <2>3, <2>4, NotifySetsSentinel
<1>4. events' \in Seq(NotifyEvents) /\ Notify!Unread(Kind)'
  <2>1. [kind |-> k, op |-> "write"] = [kind |-> Kind, op |-> "write"] /\ [kind |-> k, op |-> "write"] \in NotifyEvents
    BY DEF NotifyEvents
  <2>2. QED BY <1>1, <2>1, UnreadAppend DEF Notify!Change, NotifyTimer
<1>5. NotifyTimer'
  BY <1>1, <1>4 DEF NotifyTimer, Notify!Change
<1>6. Notify!TypeOK'
  BY <1>2, <1>3, <1>5, NotifyParts
<1>7. QED BY <1>4, <1>6 DEF NotifyInv, Notify!ReloadIsDue, NotifyWaits

\* The removal of a sentinel adds an event or none.
LEMMA NotifyRemove ==
  ASSUME NotifyInv, NEW w \in Writers, NEW k \in {Kind}, Notify!Remove(w, k)
  PROVE  NotifyInv'
<1> USE NotifyConstants
<1>1. NotifyVersions /\ NotifySentinels /\ NotifyTimer
  BY NotifyParts DEF NotifyInv
<1>2. NotifyVersions' /\ UNCHANGED <<version, loaded, debounce, age>>
  BY <1>1 DEF NotifyVersions, Notify!Remove
<1>3. NotifySentinels'
  <2>1. removals[w][k] \ {0} \in SUBSET (0..RemoveAfter)
    BY <1>1 DEF NotifySentinels
  <2>2. removals' = [removals EXCEPT ![w][k] = removals[w][k] \ {0}]
    BY DEF Notify!Remove
  <2>3. sentinel' = [sentinel EXCEPT ![w][k] = FALSE]
    BY DEF Notify!Remove
  <2>4. QED BY <1>1, <2>1, <2>2, <2>3, NotifySetsSentinel
<1>4. events' \in Seq(NotifyEvents) /\ (Notify!Unread(Kind) => Notify!Unread(Kind)')
  <2>1. CASE events' = events
    BY <1>1, <2>1 DEF NotifyTimer, Notify!Unread
  <2>2. CASE events' # events
    <3>1. events' = Append(events, [kind |-> k, op |-> "remove"]) /\ [kind |-> k, op |-> "remove"] \in NotifyEvents
      BY <2>2 DEF Notify!Remove, NotifyEvents
    <3>2. QED BY <1>1, <3>1, UnreadAppend DEF NotifyTimer
  <2>3. QED BY <2>1, <2>2
<1>5. Notify!TypeOK'
  BY <1>1, <1>2, <1>3, <1>4, NotifyParts DEF NotifyTimer
<1>6. QED BY <1>2, <1>4, <1>5 DEF NotifyInv, Notify!ReloadIsDue, NotifyWaits

\* A write that is read starts the timer anew; an event that is ignored is none.
LEMMA NotifyReadEvent ==
  ASSUME NotifyInv, Notify!ReadEvent
  PROVE  NotifyInv'
<1> USE NotifyConstants
<1>1. NotifyVersions /\ NotifySentinels /\ NotifyTimer
  BY NotifyParts DEF NotifyInv
<1>2. NotifyVersions' /\ NotifySentinels' /\ UNCHANGED <<version, loaded, age>>
  BY <1>1 DEF NotifyVersions, NotifySentinels, Notify!ReadEvent
<1>3. /\ events' \in Seq(NotifyEvents) /\ Head(events) \in NotifyEvents
      /\ Notify!Unread(Kind) /\ Head(events) # [kind |-> Kind, op |-> "write"] => Notify!Unread(Kind)'
  BY <1>1, UnreadTail DEF Notify!ReadEvent, NotifyTimer
<1>4. Notify!Ignored(Head(events)) => Head(events) # [kind |-> Kind, op |-> "write"]
  BY <1>3 DEF Notify!Ignored, NotifyEvents
<1>5. \/ Notify!Ignored(Head(events)) /\ debounce' = debounce
      \/ debounce' = [left |-> Debounce, kind |-> Kind]
  BY <1>3 DEF Notify!ReadEvent, Notify!Restart, NotifyEvents
<1>6. Notify!TypeOK'
  BY <1>1, <1>2, <1>3, <1>5, NotifyParts DEF NotifyTimer
<1>7. Notify!ReloadIsDue'
  BY <1>2, <1>3, <1>4, <1>5 DEF NotifyInv, Notify!ReloadIsDue
<1>8. NotifyWaits'
  <2>1. age[Kind] \in 0..Debounce
    BY <1>1 DEF NotifyVersions
  <2>2. QED BY <1>2, <1>3, <1>4, <1>5, <2>1 DEF NotifyInv, NotifyWaits
<1>9. QED BY <1>6, <1>7, <1>8 DEF NotifyInv

\* The timer's function loads what there is.
LEMMA NotifyReload ==
  ASSUME NotifyInv, Notify!Reload
  PROVE  NotifyInv'
<1> USE NotifyConstants
<1>1. NotifyVersions /\ NotifySentinels /\ NotifyTimer /\ debounce.kind = Kind
  BY NotifyParts, NotifyKind DEF NotifyInv, Notify!Reload
<1>2. NotifyVersions' /\ loaded'[Kind] = version'[Kind]
  BY <1>1 DEF NotifyVersions, Notify!Reload
<1>3. NotifySentinels' /\ NotifyTimer' /\ debounce' = Notify!NoTimer
  BY <1>1 DEF NotifySentinels, NotifyTimer, Notify!Reload
<1>4. QED BY <1>2, <1>3, NotifyParts DEF NotifyInv, Notify!ReloadIsDue, NotifyWaits

\* Time passes for the timer and for the last change alike.
LEMMA NotifyTick ==
  ASSUME NotifyInv, Notify!Tick
  PROVE  NotifyInv'
<1> USE NotifyConstants
<1>1. NotifyVersions /\ NotifySentinels /\ NotifyTimer
  BY NotifyParts DEF NotifyInv
<1>2. events = <<>> /\ UNCHANGED <<version, loaded, sentinel, events>> /\ ~Notify!Unread(Kind)
  BY DEF Notify!Tick, Notify!Unread
<1>3. NotifyVersions' /\ age'[Kind] = IF age[Kind] < Debounce THEN age[Kind] + 1 ELSE age[Kind]
  BY <1>1, <1>2 DEF NotifyVersions, Notify!Tick
<1>4. NotifySentinels'
  <2>1. ASSUME NEW w \in Writers, NEW k \in {Kind}
        PROVE  /\ {t - 1 : t \in removals[w][k]} \in SUBSET (0..RemoveAfter)
               /\ removals[w][k] # {} => {t - 1 : t \in removals[w][k]} # {}
    BY <1>1, <2>1 DEF NotifySentinels, Notify!Tick
  <2>2. removals' = [w \in Writers |-> [k \in {Kind} |-> {t - 1 : t \in removals[w][k]}]]
    BY DEF Notify!Tick
  <2>3. QED BY <1>1, <1>2, <2>1, <2>2 DEF NotifySentinels
<1>5. /\ debounce = Notify!NoTimer => debounce' = Notify!NoTimer
      /\ debounce # Notify!NoTimer =>
           debounce' = [left |-> debounce.left - 1, kind |-> Kind] /\ debounce.left \in 1..Debounce
  BY <1>1, NotifyKind DEF Notify!Tick, NotifyTimer
<1>6. NotifyTimer'
  BY <1>1, <1>2, <1>5 DEF NotifyTimer
<1>7. Notify!ReloadIsDue'
  BY <1>1, <1>2, <1>5, NotifyKind DEF NotifyInv, Notify!ReloadIsDue
<1>8. NotifyWaits'
  <2>1. age[Kind] \in 0..Debounce
    BY <1>1 DEF NotifyVersions
  <2>2. QED BY <1>2, <1>3, <1>5, <2>1 DEF NotifyInv, NotifyWaits
<1>9. QED BY <1>3, <1>4, <1>6, <1>7, <1>8, NotifyParts DEF NotifyInv

\* The invariant of the watcher is inductive.
LEMMA NotifyStep == NotifyInv /\ [Notify!Next]_notifyVars => NotifyInv'
<1>1. CASE NotifyInv /\ Notify!Next
  BY <1>1, NotifyChange, NotifyRemove, NotifyReadEvent, NotifyReload, NotifyTick DEF Notify!Next
<1>2. CASE NotifyInv /\ UNCHANGED notifyVars
  BY <1>2 DEF notifyVars, NotifyInv, Notify!TypeOK, Notify!ReloadIsDue, Notify!Unread, NotifyWaits
<1>3. QED BY <1>1, <1>2

\* A step that loads something else is the timer's, when its time is over.
LEMMA NotifyBurst ==
  ASSUME NotifyInv, [Notify!Next]_notifyVars, NEW k \in {Kind}, loaded'[k] # loaded[k]
  PROVE  age[k] = Debounce \/ Notify!Unread(k)
<1> USE NotifyConstants
<1>1. Notify!Reload
  BY DEF Notify!Next, notifyVars, Notify!Change, Notify!Remove, Notify!ReadEvent, Notify!Tick
<1>2. debounce # Notify!NoTimer /\ debounce.left = 0 /\ age[Kind] \in 0..Debounce
  BY <1>1, NotifyParts DEF NotifyInv, Notify!Reload, NotifyVersions
<1>3. QED BY <1>2 DEF NotifyInv, NotifyWaits

-----------------------------------------------------------------------------
(***************************************************************************)
(* Batch.  Until the handler has got an answer or given up, what returns   *)
(* without an error has done everything: all requests have written, and    *)
(* the results are those of the requests that have returned.               *)
(***************************************************************************)
BatchRequests == 0..(Count - 1)

\* The results of the last n requests, as they return, and of all in their order.
LastResults(n) == [j \in 1..n |-> Count - j]
AllResults == [i \in 1..Count |-> i - 1]

\* On the way into the requests nothing has failed or returned.
BatchDescends ==
  batchPc \in {"enter", "write", "register", "next"} =>
    /\ raised = {} /\ failed = 0 /\ results = <<>>
    /\ written = IF batchPc \in {"enter", "write"} THEN 0..(cur - 1) ELSE 0..cur

\* On the way back there is an error, or everything is done.
BatchAscends ==
  main = "waiting" =>
    /\ batchPc = "post" /\ raised = {} => written = BatchRequests /\ results = LastResults(Count - 1 - cur)
    /\ batchPc = "send" /\ raised = {} => written = BatchRequests /\ results = LastResults(Count)
    /\ errCh = "ok" => written = BatchRequests /\ results = AllResults

\* The error that is being returned is that of the request in failedIndex.
BatchBlames ==
  /\ raised # {} \/ failed # 0 => raised = {failed}
  /\ batchPc = "post" /\ raised # {} => failed # 0

\* The handler and its answer.
BatchAnswers ==
  /\ main = "waiting" <=> outcome = "none"
  /\ main = "waiting" => ~stopCh
  /\ tx = "open" <=> main \in {"waiting", "leaving", "ending"}
  /\ outcome = "endError" => main \in {"reporting", "done"}
  /\ errCh # "empty" \/ outcome \in {"ok", "error", "endError"} => batchPc = "ended"
  /\ errCh = "error" \/ outcome = "error" => raised = {failed}
  /\ tx = "committed" => written = BatchRequests
  /\ outcome = "ok" =>
       /\ written = BatchRequests /\ results = AllResults
       /\ main \in {"reporting", "done"} => tx = "committed"

\* Until the After hooks are run, the request that the goroutine is in is the only
\* one that can have written without having registered its own.
BatchRegisters ==
  main # "done" =>
    /\ \A i \in BatchRequests : reported[i] = "none"
    /\ written \ after \subseteq {cur}
    /\ batchPc \in {"enter", "write", "next", "post", "send"} => written \subseteq after
    /\ errCh # "empty" \/ outcome \in {"ok", "error", "endError"} => written \subseteq after

BatchInv ==
  /\ Batch!TypeOK /\ BatchDescends /\ BatchAscends /\ BatchBlames /\ BatchAnswers
  /\ BatchRegisters /\ Batch!WritesReported

\* Where process returns to.
LEMMA BatchConstants == Count \in Nat \ {0} /\ Batch!Requests = BatchRequests /\ 0 \in BatchRequests
<1>1. Count \in Nat \ {0}
  BY InstancesAssumption DEF Batch!ConstantsAssumption
<1>2. QED BY <1>1 DEF Batch!Requests, BatchRequests

LEMMA BatchInit == Batch!Init => BatchInv
<1> SUFFICES ASSUME Batch!Init PROVE BatchInv
  OBVIOUS
<1> USE BatchConstants
<1>1. reported \in [BatchRequests -> {"none", "success", "error"}] /\ \A i \in BatchRequests : reported[i] = "none"
  BY DEF Batch!Init
<1>2. stopCh \in BOOLEAN /\ ~stopCh
  BY Zenon DEF Batch!Init
<1>3. results \in Seq(BatchRequests) /\ results = <<>>
  BY DEF Batch!Init
<1>4. Batch!TypeOK
  BY <1>1, <1>2, <1>3 DEF Batch!Init, Batch!TypeOK
<1>5. BatchDescends
  <2>1. 0..(0 - 1) = {}
    OBVIOUS
  <2>2. QED BY <2>1 DEF Batch!Init, BatchDescends
<1>6. BatchAscends /\ BatchBlames /\ BatchAnswers
  BY <1>2 DEF Batch!Init, BatchAscends, BatchBlames, BatchAnswers
<1>7. BatchRegisters /\ Batch!WritesReported
  BY <1>1 DEF Batch!Init, BatchRegisters, Batch!WritesReported
<1>8. QED BY <1>4, <1>5, <1>6, <1>7 DEF BatchInv

\* A call of process returns.
LEMMA BatchBack ==
  ASSUME Batch!TypeOK, NEW err \in SUBSET BatchRequests, Batch!Back(cur, err)
  PROVE  /\ raised' = err /\ raised' \subseteq BatchRequests
         /\ cur' \in BatchRequests /\ failed' \in BatchRequests
         /\ \/ cur = 0 /\ batchPc' = "send" /\ cur' = cur
            \/ cur # 0 /\ batchPc' = "post" /\ cur' = cur - 1
         /\ failed' = IF cur > 0 /\ err # {} /\ failed = 0 THEN cur ELSE failed
  BY BatchConstants DEF Batch!TypeOK, Batch!Back, BatchRequests

\* The results in the other order.
LEMMA ReverseType ==
  ASSUME NEW S, NEW s \in Seq(S)
  PROVE  Batch!Reverse(s) \in Seq(S)
<1>1. Len(s) \in Nat /\ \A i \in 1..Len(s) : (Len(s) - i) + 1 \in 1..Len(s)
  OBVIOUS
<1>2. \A i \in 1..Len(s) : s[(Len(s) - i) + 1] \in S
  BY <1>1
<1>3. QED BY <1>1, <1>2 DEF Batch!Reverse

LEMMA ReverseAll == Batch!Reverse(LastResults(Count)) = AllResults
<1>1. Count \in Nat
  BY BatchConstants
<1>2. Len(LastResults(Count)) = Count
  BY <1>1 DEF LastResults
<1>3. \A i \in 1..Count : (Count - i) + 1 \in 1..Count /\ Count - ((Count - i) + 1) = i - 1
  BY <1>1
<1>4. QED BY <1>1, <1>2, <1>3 DEF Batch!Reverse, LastResults, AllResults

\* The request that returns adds its result.
LEMMA OneMoreResult ==
  ASSUME NEW c \in BatchRequests
  PROVE  Append(LastResults(Count - 1 - c), c) = LastResults(Count - c)
<1> DEFINE n == Count - 1 - c
<1>1. n \in Nat /\ n + 1 = Count - c /\ Count - (n + 1) = c /\ Count \in Nat
  BY BatchConstants DEF BatchRequests
<1>2. LastResults(n) \in Seq(Int) /\ Len(LastResults(n)) = n
  BY <1>1 DEF LastResults
<1>3. Append(LastResults(n), c) = [j \in 1..(n + 1) |-> IF j = n + 1 THEN c ELSE LastResults(n)[j]]
  BY <1>1, <1>2 
<1>4. \A j \in 1..(n + 1) : Count - j = IF j = n + 1 THEN c ELSE LastResults(n)[j]
  BY <1>1 DEF LastResults
<1>5. QED BY <1>1, <1>3, <1>4 DEF LastResults

\* The goroutine's steps into a request leave what the handler has alone.
LEMMA BatchEnter ==
  ASSUME BatchInv, Batch!Enter
  PROVE  BatchInv'
<1> USE BatchConstants DEF BatchInv, Batch!Enter, Batch!mainVars
<1>1. batchPc = "enter" /\ UNCHANGED <<results, written, after, reported, tx, errCh, main, outcome>>
  OBVIOUS
<1>2. (raised = {} /\ failed = 0 /\ written \subseteq after) \/ main = "done"
  BY <1>1 DEF BatchDescends, BatchRegisters
<1>3. errCh = "empty" /\ outcome \in {"none", "timeout"}
  BY <1>1 DEF BatchAnswers, Batch!TypeOK
<1>4. CASE stopCh
  <2>1. stopCh' = FALSE /\ Batch!Back(cur, {}) /\ main # "waiting"
    BY <1>4 DEF BatchAnswers
  <2>2. /\ raised' = {} /\ cur' \in BatchRequests /\ failed' \in BatchRequests /\ failed' = failed
        /\ batchPc' \in {"send", "post"}
    BY <2>1, BatchBack
  <2>3. stopCh' \in BOOLEAN /\ ~stopCh'
    BY <2>1, Zenon
  <2>4. Batch!TypeOK'
    BY <1>1, <2>2, <2>3 DEF Batch!TypeOK
  <2>5. BatchDescends' /\ BatchAscends' /\ BatchBlames'
    BY <1>1, <2>1, <2>2 DEF BatchDescends, BatchAscends, BatchBlames
  <2>6. BatchAnswers'
    BY <1>1, <1>3, <2>1, <2>3 DEF BatchAnswers
  <2>7. BatchRegisters' /\ Batch!WritesReported'
    BY <1>1, <1>3 DEF BatchRegisters, Batch!WritesReported
  <2>8. QED BY <2>4, <2>5, <2>6, <2>7
<1>5. CASE ~stopCh
  <2>1. batchPc' = "write" /\ UNCHANGED <<stopCh, cur, raised, failed>>
    BY <1>5
  <2>2. Batch!TypeOK' /\ BatchDescends' /\ BatchAscends' /\ BatchBlames'
    BY <1>1, <1>3, <2>1 DEF Batch!TypeOK, BatchDescends, BatchAscends, BatchBlames
  <2>3. BatchAnswers'
    BY <1>1, <1>3, <2>1 DEF BatchAnswers
  <2>4. BatchRegisters' /\ Batch!WritesReported'
    BY <1>1, <1>3, <2>1 DEF BatchRegisters, Batch!WritesReported
  <2>5. QED BY <2>2, <2>3, <2>4
<1>6. QED BY <1>4, <1>5

LEMMA BatchWrite ==
  ASSUME BatchInv, Batch!Write
  PROVE  BatchInv'
<1> USE BatchConstants DEF BatchInv, Batch!Write, Batch!mainVars
<1>1. /\ batchPc = "write" /\ batchPc' = "register" /\ tx = "open" /\ written' = written \cup {cur}
      /\ UNCHANGED <<cur, raised, failed, results, after, reported, stopCh, errCh, tx, main, outcome>>
  OBVIOUS
<1>2. errCh = "empty" /\ outcome \in {"none", "timeout"} /\ main # "done"
  BY <1>1 DEF BatchAnswers, Batch!TypeOK
<1>3. Batch!TypeOK'
  BY <1>1 DEF Batch!TypeOK
<1>4. BatchDescends'
  <2>1. written = 0..(cur - 1) /\ cur \in Nat
    BY <1>1 DEF BatchDescends, Batch!TypeOK, BatchRequests
  <2>2. written' = 0..cur
    BY <1>1, <2>1
  <2>3. QED BY <1>1, <2>2 DEF BatchDescends
<1>5. BatchAscends' /\ BatchBlames'
  BY <1>1, <1>2 DEF BatchAscends, BatchBlames
<1>6. BatchAnswers'
  BY <1>1, <1>2 DEF BatchAnswers
<1>7. BatchRegisters' /\ Batch!WritesReported'
  BY <1>1, <1>2 DEF BatchRegisters, Batch!WritesReported
<1>8. QED BY <1>3, <1>4, <1>5, <1>6, <1>7

LEMMA BatchRegister ==
  ASSUME BatchInv, Batch!Register
  PROVE  BatchInv'
<1> USE BatchConstants DEF BatchInv, Batch!Register, Batch!mainVars
<1>1. /\ batchPc = "register" /\ batchPc' = "next" /\ after' = after \cup {cur}
      /\ UNCHANGED <<cur, raised, failed, results, written, reported, stopCh, errCh, tx, main, outcome>>
  OBVIOUS
<1>2. errCh = "empty" /\ outcome \in {"none", "timeout"}
  BY <1>1 DEF BatchAnswers, Batch!TypeOK
<1>3. cur \in written
  BY <1>1 DEF BatchDescends, Batch!TypeOK, BatchRequests
<1>4. Batch!TypeOK'
  BY <1>1, <1>3 DEF Batch!TypeOK
<1>5. BatchDescends' /\ BatchAscends' /\ BatchBlames'
  BY <1>1, <1>2 DEF BatchDescends, BatchAscends, BatchBlames
<1>6. BatchAnswers'
  BY <1>1, <1>2 DEF BatchAnswers
<1>7. BatchRegisters' /\ Batch!WritesReported'
  BY <1>1, <1>2 DEF BatchRegisters, Batch!WritesReported
<1>8. QED BY <1>4, <1>5, <1>6, <1>7

\* After the last request everything has been written.
LEMMA BatchNextRequest ==
  ASSUME BatchInv, Batch!NextRequest
  PROVE  BatchInv'
<1> USE BatchConstants DEF BatchInv, Batch!NextRequest, Batch!mainVars
<1>1. /\ batchPc = "next"
      /\ UNCHANGED <<raised, failed, results, written, after, reported, stopCh, errCh, tx, main, outcome>>
      /\ \/ cur = Count - 1 /\ batchPc' = "post" /\ cur' = cur
         \/ cur # Count - 1 /\ batchPc' = "enter" /\ cur' = cur + 1
  OBVIOUS
<1>2. errCh = "empty" /\ outcome \in {"none", "timeout"}
  BY <1>1 DEF BatchAnswers, Batch!TypeOK
<1>3. cur' \in BatchRequests /\ cur \in BatchRequests
  BY <1>1 DEF Batch!TypeOK, BatchRequests
<1>4. Batch!TypeOK'
  BY <1>1, <1>3 DEF Batch!TypeOK
<1>5. raised = {} /\ failed = 0 /\ results = <<>> /\ written = 0..cur
  BY <1>1 DEF BatchDescends
<1>6. BatchDescends' /\ BatchBlames'
  <2>1. cur' = cur + 1 => 0..cur = 0..(cur' - 1)
    BY <1>3 DEF BatchRequests
  <2>2. raised' = {} /\ failed' = 0 /\ results' = <<>> /\ (batchPc' = "enter" => written' = 0..(cur' - 1))
    BY <1>1, <1>5, <2>1
  <2>3. QED BY <1>1, <2>2 DEF BatchDescends, BatchBlames
<1>7. BatchAscends'
  <2>1. cur = Count - 1 => written = BatchRequests /\ LastResults(Count - 1 - cur) = <<>>
    <3>1. cur = Count - 1 => Count - 1 - cur = 0
      BY <1>3 DEF BatchRequests
    <3>2. LastResults(0) = <<>>
      BY DEF LastResults
    <3>3. QED BY <1>5, <3>1, <3>2 DEF BatchRequests
  <2>2. QED BY <1>1, <1>2, <1>5, <2>1 DEF BatchAscends
<1>8. BatchAnswers'
  BY <1>1, <1>2 DEF BatchAnswers
<1>9. BatchRegisters' /\ Batch!WritesReported'
  BY <1>1, <1>2 DEF BatchRegisters, Batch!WritesReported
<1>10. QED BY <1>4, <1>6, <1>7, <1>8, <1>9

\* An error is returned where there was none.
LEMMA BatchFails ==
  ASSUME BatchInv, Batch!WriteFails \/ Batch!Fails
  PROVE  BatchInv'
<1> USE BatchConstants DEF BatchInv, Batch!WriteFails, Batch!Fails, Batch!mainVars
<1>1. /\ batchPc \in {"write", "next", "post"} /\ Batch!Back(cur, {cur})
      /\ UNCHANGED <<results, written, after, reported, stopCh, errCh, tx, main, outcome>>
  OBVIOUS
<1>2. errCh = "empty" /\ outcome \in {"none", "timeout"}
  BY <1>1 DEF BatchAnswers, Batch!TypeOK
<1>3. raised = {} /\ failed = 0
  BY <1>1 DEF BatchDescends, BatchBlames
<1>4. cur \in BatchRequests /\ {cur} \in SUBSET BatchRequests
  BY DEF Batch!TypeOK
<1>5. /\ raised' = {cur} /\ failed' = cur /\ cur' \in BatchRequests
      /\ batchPc' = "send" \/ (batchPc' = "post" /\ cur # 0)
  BY <1>1, <1>3, <1>4, BatchBack DEF BatchRequests
<1>6. Batch!TypeOK'
  BY <1>1, <1>4, <1>5 DEF Batch!TypeOK
<1>7. BatchDescends' /\ BatchAscends' /\ BatchBlames'
  BY <1>1, <1>2, <1>5 DEF BatchDescends, BatchAscends, BatchBlames
<1>8. BatchAnswers'
  BY <1>1, <1>2, <1>5 DEF BatchAnswers
<1>9. BatchRegisters' /\ Batch!WritesReported'
  BY <1>1, <1>2, <1>5 DEF BatchRegisters, Batch!WritesReported
<1>10. QED BY <1>6, <1>7, <1>8, <1>9

\* A request returns with its result, or with the error it was given.
LEMMA BatchReturns ==
  ASSUME BatchInv, Batch!RequestReturns
  PROVE  BatchInv'
<1> USE BatchConstants DEF BatchInv, Batch!RequestReturns, Batch!mainVars
<1>1. /\ batchPc = "post" /\ Batch!Back(cur, raised)
      /\ UNCHANGED <<written, after, reported, stopCh, errCh, tx, main, outcome>>
      /\ results' = IF raised = {} THEN Append(results, cur) ELSE results
  OBVIOUS
<1>2. errCh = "empty" /\ outcome \in {"none", "timeout"}
  BY <1>1 DEF BatchAnswers, Batch!TypeOK
<1>3. cur \in BatchRequests /\ raised \in SUBSET BatchRequests /\ results \in Seq(BatchRequests)
  BY DEF Batch!TypeOK
<1>4. /\ raised' = raised /\ cur' \in BatchRequests /\ failed' \in BatchRequests
      /\ \/ cur = 0 /\ batchPc' = "send" /\ cur' = cur
         \/ cur # 0 /\ batchPc' = "post" /\ cur' = cur - 1
      /\ failed' = IF cur > 0 /\ raised # {} /\ failed = 0 THEN cur ELSE failed
  BY <1>1, <1>3, BatchBack
<1>5. failed' = failed /\ (raised # {} => failed # 0)
  BY <1>1, <1>4 DEF BatchBlames
<1>6. Batch!TypeOK'
  <2>1. results' \in Seq(BatchRequests)
    BY <1>1, <1>3
  <2>2. QED BY <1>1, <1>3, <1>4, <2>1 DEF Batch!TypeOK
<1>7. BatchDescends' /\ BatchBlames'
  BY <1>4, <1>5 DEF BatchDescends, BatchBlames
<1>8. BatchAscends'
  <2>1. CASE main = "waiting" /\ raised = {}
    <3>1. written = BatchRequests /\ results' = LastResults(Count - cur)
      BY <1>1, <1>3, <2>1, OneMoreResult DEF BatchAscends
    <3>2. /\ cur = 0 => Count - cur = Count
          /\ cur # 0 => Count - 1 - (cur - 1) = Count - cur
      BY <1>3 DEF BatchRequests
    <3>3. QED BY <1>1, <1>2, <1>4, <3>1, <3>2 DEF BatchAscends
  <2>2. CASE ~(main = "waiting" /\ raised = {})
    BY <1>1, <1>2, <1>4, <2>2 DEF BatchAscends
  <2>3. QED BY <2>1, <2>2
<1>9. BatchAnswers'
  BY <1>1, <1>2 DEF BatchAnswers
<1>10. BatchRegisters' /\ Batch!WritesReported'
  BY <1>1, <1>2, <1>4 DEF BatchRegisters, Batch!WritesReported
<1>11. QED BY <1>6, <1>7, <1>8, <1>9, <1>10

\* The goroutine answers.
LEMMA BatchSend ==
  ASSUME BatchInv, Batch!Send
  PROVE  BatchInv'
<1> USE BatchConstants DEF BatchInv, Batch!Send, Batch!mainVars
<1>1. /\ batchPc = "send" /\ batchPc' = "ended"
      /\ UNCHANGED <<cur, raised, failed, written, after, reported, stopCh, tx, main, outcome>>
      /\ errCh' = IF raised = {} THEN "ok" ELSE "error"
      /\ results' = IF raised = {} THEN Batch!Reverse(results) ELSE results
  OBVIOUS
<1>2. outcome \in {"none", "timeout"}
  BY <1>1 DEF BatchAnswers, Batch!TypeOK
<1>3. Batch!TypeOK'
  <2>1. results' \in Seq(BatchRequests)
    BY <1>1, ReverseType DEF Batch!TypeOK
  <2>2. QED BY <1>1, <2>1 DEF Batch!TypeOK
<1>4. BatchDescends' /\ BatchBlames'
  BY <1>1 DEF BatchDescends, BatchBlames
<1>5. BatchAscends'
  BY <1>1, ReverseAll DEF BatchAscends
<1>6. BatchAnswers'
  BY <1>1, <1>2 DEF BatchAnswers, BatchBlames
<1>7. BatchRegisters' /\ Batch!WritesReported'
  BY <1>1, <1>2 DEF BatchRegisters, Batch!WritesReported
<1>8. QED BY <1>3, <1>4, <1>5, <1>6, <1>7

\* A panic ends it without an answer.
LEMMA BatchPanic ==
  ASSUME BatchInv, Batch!Panic
  PROVE  BatchInv'
<1> USE BatchConstants DEF BatchInv, Batch!Panic, Batch!mainVars
<1>1. /\ batchPc # "ended" /\ batchPc' = "ended"
      /\ UNCHANGED <<cur, raised, failed, results, written, after, reported, stopCh, errCh, tx, main, outcome>>
  OBVIOUS
<1>2. errCh = "empty" /\ outcome \in {"none", "timeout"}
  BY <1>1 DEF BatchAnswers, Batch!TypeOK
<1>3. Batch!TypeOK' /\ BatchDescends' /\ BatchBlames' /\ BatchAscends'
  BY <1>1, <1>2 DEF Batch!TypeOK, BatchDescends, BatchBlames, BatchAscends
<1>4. BatchAnswers'
  BY <1>1, <1>2 DEF BatchAnswers
<1>5. BatchRegisters' /\ Batch!WritesReported'
  BY <1>1, <1>2 DEF BatchRegisters, Batch!WritesReported
<1>6. QED BY <1>3, <1>4, <1>5

\* The handler gets an answer, or gives up.
LEMMA BatchReceive ==
  ASSUME BatchInv, Batch!Receive \/ Batch!GiveUp
  PROVE  BatchInv'
<1> USE BatchConstants DEF BatchInv, Batch!Receive, Batch!GiveUp, Batch!routineVars
<1>1. /\ main = "waiting" /\ main' = "leaving" /\ outcome = "none"
      /\ UNCHANGED <<batchPc, cur, raised, failed, results, written, after, reported, tx, stopCh>>
      /\ \/ errCh # "empty" /\ outcome' = errCh /\ errCh' = "empty"
         \/ outcome' = "timeout" /\ errCh' = errCh
  BY DEF BatchAnswers
<1>2. Batch!TypeOK' /\ BatchDescends' /\ BatchBlames' /\ BatchAscends'
  BY <1>1 DEF Batch!TypeOK, BatchDescends, BatchBlames, BatchAscends
<1>3. BatchAnswers'
  BY <1>1 DEF BatchAnswers, BatchAscends, Batch!TypeOK
<1>4. BatchRegisters' /\ Batch!WritesReported'
  BY <1>1 DEF BatchRegisters, Batch!WritesReported, Batch!TypeOK
<1>5. QED BY <1>2, <1>3, <1>4

LEMMA BatchLeave ==
  ASSUME BatchInv, Batch!Leave
  PROVE  BatchInv'
<1> USE BatchConstants DEF BatchInv, Batch!Leave, Batch!routineVars
<1>1. /\ main = "leaving" /\ main' = "ending"
      /\ UNCHANGED <<batchPc, cur, raised, failed, results, written, after, reported, tx, errCh, outcome>>
  OBVIOUS
<1>2. stopCh' \in BOOLEAN
  BY Zenon
<1>3. Batch!TypeOK' /\ BatchDescends' /\ BatchBlames' /\ BatchAscends'
  BY <1>1, <1>2 DEF Batch!TypeOK, BatchDescends, BatchBlames, BatchAscends
<1>4. BatchAnswers'
  BY <1>1 DEF BatchAnswers
<1>5. BatchRegisters' /\ Batch!WritesReported'
  BY <1>1 DEF BatchRegisters, Batch!WritesReported
<1>6. QED BY <1>3, <1>4, <1>5

\* Only an answer of success is committed.
LEMMA BatchEndTx ==
  ASSUME BatchInv, Batch!EndTx
  PROVE  BatchInv'
<1> USE BatchConstants DEF BatchInv, Batch!EndTx, Batch!routineVars
<1>1. /\ main = "ending" /\ main' = "reporting"
      /\ UNCHANGED <<batchPc, cur, raised, failed, results, written, after, reported, stopCh, errCh>>
      /\ \/ outcome = "ok" /\ tx' = "committed" /\ outcome' = "ok"
         \/ outcome = "ok" /\ tx' = "rolledBack" /\ outcome' = "endError"
         \/ outcome # "ok" /\ tx' = "rolledBack" /\ outcome' = outcome
  OBVIOUS
<1>2. Batch!TypeOK' /\ BatchDescends' /\ BatchBlames' /\ BatchAscends'
  BY <1>1 DEF Batch!TypeOK, BatchDescends, BatchBlames, BatchAscends
<1>3. BatchAnswers'
  BY <1>1 DEF BatchAnswers
<1>4. BatchRegisters' /\ Batch!WritesReported'
  BY <1>1 DEF BatchRegisters, Batch!WritesReported
<1>5. QED BY <1>2, <1>3, <1>4

\* The After hooks are run for what is registered.
LEMMA BatchReport ==
  ASSUME BatchInv, Batch!Report
  PROVE  BatchInv'
<1> USE BatchConstants DEF BatchInv, Batch!Report, Batch!routineVars
<1>1. /\ main = "reporting" /\ main' = "done" /\ after' = {}
      /\ UNCHANGED <<batchPc, cur, raised, failed, results, written, tx, stopCh, errCh>>
      /\ outcome' = outcome \/ (outcome = "ok" /\ outcome' = "endError")
  OBVIOUS
<1>2. /\ reported' \in [BatchRequests -> {"none", "success", "error"}]
      /\ \A i \in BatchRequests :
           reported'[i] = IF i \notin after THEN "none" ELSE IF tx = "committed" THEN "success" ELSE "error"
  BY <1>1 DEF Batch!TypeOK, BatchRegisters
<1>3. Batch!TypeOK' /\ BatchDescends' /\ BatchBlames' /\ BatchAscends'
  BY <1>1, <1>2 DEF Batch!TypeOK, BatchDescends, BatchBlames, BatchAscends
<1>4. BatchAnswers' /\ BatchRegisters'
  BY <1>1 DEF BatchAnswers, BatchRegisters
<1>5. Batch!WritesReported'
  <2>1. /\ written \subseteq BatchRequests /\ written \ after \subseteq {cur}
        /\ outcome # "timeout" => written \subseteq after
    BY <1>1 DEF Batch!TypeOK, BatchRegisters, BatchAnswers
  <2>2. outcome # "timeout" \/ outcome' = "timeout"
    BY <1>1
  <2>3. QED BY <1>1, <1>2, <2>1, <2>2 DEF Batch!WritesReported
<1>6. QED BY <1>3, <1>4, <1>5

\* The invariant of the batch is inductive.
LEMMA BatchStep == BatchInv /\ [Batch!Next]_batchVars => BatchInv'
<1>1. CASE BatchInv /\ Batch!Routine
  BY <1>1, BatchEnter, BatchWrite, BatchRegister, BatchNextRequest, BatchFails, BatchReturns,
     BatchSend, BatchPanic DEF Batch!Routine
<1>2. CASE BatchInv /\ Batch!Handler
  BY <1>2, BatchReceive, BatchLeave, BatchEndTx, BatchReport DEF Batch!Handler
<1>3. CASE BatchInv /\ UNCHANGED batchVars
  BY <1>3 DEF batchVars, BatchInv, Batch!TypeOK, BatchDescends, BatchAscends, BatchBlames,
              BatchAnswers, BatchRegisters, Batch!WritesReported
<1>4. QED BY <1>1, <1>2, <1>3 DEF Batch!Next

\* What it says of the answers.
LEMMA BatchSafe == BatchInv => Batch!AnswersTruly
  BY BatchConstants DEF BatchInv, BatchAnswers, AllResults, Batch!AnswersTruly

-----------------------------------------------------------------------------
(***************************************************************************)
(* CronTicker, wherever the clock strikes.  As long as no Stop has         *)
(* overtaken a callback there is one start in effect, or none: its timer,  *)
(* callback or goroutine is the only one that is left, and the ticker is   *)
(* its own.                                                                *)
(***************************************************************************)

\* What a start has left that may run jobs, now or later.
CronRunning == {"due", "select", "looping", "tick"}
CronActive  == {g \in Cron!Gens : cronPc[g] \in {"armed", "fired"} \cup CronRunning}

CronOne == \A g, h \in CronActive : g = h

\* The ticker is that of the callback or goroutine.
CronTicker ==
  /\ \A g \in Cron!Gens : cronPc[g] \in CronRunning => ticker = g
  /\ ticker # 0 => ticker \in Cron!Gens /\ cronPc[ticker] \in CronRunning
  /\ ticking = IF ticker = 0 THEN {} ELSE {ticker}
  /\ \A g \in Cron!Gens : cronPc[g] # "crashed"

\* A Stop that waits to send has a ticker to stop; when it has done its work nothing
\* is left, and nothing comes back before the next start.
CronCalls ==
  /\ step = "send" => ticker # 0
  /\ step = "arm" \/ wanted = "stopped" => CronActive = {} /\ ticker = 0

CronCore == CronOne /\ CronTicker /\ CronCalls

\* The types of the calls, and of the rest.
CronCallTypes ==
  /\ call \in {"none", "Start", "Stop", "SetInterval"}
  /\ step \in {"none", "check", "stop", "send", "arm"} /\ (call = "none" <=> step = "none")
  /\ wanted \in {"started", "stopped"} /\ cronRuns \in BOOLEAN
  /\ overtaken \in BOOLEAN /\ calm \in BOOLEAN

CronPlaces == {"none", "armed", "stopped", "fired", "due", "select", "looping", "tick", "ended",
               "crashed"}

CronGenTypes ==
  /\ startTimer \in Cron!Gens \cup {0} /\ ticker \in Cron!Gens \cup {0}
  /\ cronPc \in [Cron!Gens -> CronPlaces]
  /\ chan \in [Cron!Gens -> Cron!Gens \cup {0}]
  /\ ticking \in SUBSET Cron!Gens /\ ticks \in SUBSET Cron!Gens
  /\ ticker # 0 => ticker \in ticking

\* Only the timer in c.startTimer is armed, and none while a call stops or starts.
CronArmed ==
  \A g \in Cron!Gens : cronPc[g] = "armed" => g = startTimer /\ step \notin {"send", "arm"}

CronTypes == CronCallTypes /\ CronGenTypes /\ CronArmed

CronInv == CronTypes /\ (~overtaken => CronCore)

\* The numbers of the starts.
LEMMA CronGens == Cron!Gens = 1..CronStarts /\ Cron!NoGen = 0 /\ 0 \notin Cron!Gens
  BY DEF Cron!Gens, Cron!NoGen

LEMMA CronInit == Cron!Init => CronInv
<1> SUFFICES ASSUME Cron!Init PROVE CronInv
  OBVIOUS
<1>1. CronCallTypes
  <2>1. cronRuns \in BOOLEAN /\ overtaken \in BOOLEAN /\ calm \in BOOLEAN
    BY Zenon DEF Cron!Init
  <2>2. QED BY <2>1 DEF Cron!Init, CronCallTypes
<1>2. CronGenTypes /\ CronArmed
  BY CronGens DEF Cron!Init, CronGenTypes, CronArmed, CronPlaces
<1>3. CronActive = {} /\ ticker = 0 /\ ticking = {}
  BY CronGens DEF Cron!Init, CronActive, CronRunning
<1>4. CronOne /\ CronCalls
  BY <1>3 DEF Cron!Init, CronOne, CronCalls
<1>5. CronTicker
  BY <1>3 DEF Cron!Init, CronTicker, CronRunning
<1>6. QED BY <1>1, <1>2, <1>4, <1>5 DEF CronInv, CronTypes, CronCore

\* A call returns.
LEMMA CronReturn ==
  ASSUME CronCallTypes, NEW w \in {"started", "stopped"}, Cron!Return(w),
         overtaken' \in BOOLEAN, calm' = calm
  PROVE  CronCallTypes' /\ call' = "none" /\ step' = "none" /\ wanted' = w
<1>1. cronRuns' \in BOOLEAN
  BY Zenon DEF Cron!Return
<1>2. QED BY <1>1 DEF CronCallTypes, Cron!Return

\* Stop returns, to its caller or to a call that goes on to start.
LEMMA CronStopDone ==
  ASSUME CronCallTypes, call # "none", Cron!StopDone, overtaken' \in BOOLEAN, calm' = calm
  PROVE  /\ CronCallTypes'
         /\ \/ call' = "none" /\ step' = "none" /\ wanted' = "stopped"
            \/ call' = call /\ step' = "arm" /\ wanted' = wanted
<1>1. CASE call = "Stop"
  BY <1>1, CronReturn DEF Cron!StopDone
<1>2. CASE call # "Stop"
  BY <1>2 DEF Cron!StopDone, Cron!GoOn, CronCallTypes
<1>3. QED BY <1>1, <1>2

\* A callback or goroutine goes on.
LEMMA CronSetPc ==
  ASSUME CronGenTypes, NEW g \in Cron!Gens, NEW s \in CronPlaces, Cron!SetPc(g, s)
  PROVE  /\ cronPc' \in [Cron!Gens -> CronPlaces]
         /\ cronPc'[g] = s /\ \A h \in Cron!Gens \ {g} : cronPc'[h] = cronPc[h]
  BY DEF CronGenTypes, Cron!SetPc

LEMMA CronBegin ==
  ASSUME CronInv, NEW c \in {"Start", "Stop", "SetInterval"}, Cron!Begin(c)
  PROVE  CronInv'
<1> USE DEF Cron!Begin, Cron!tickerVars
<1>1. UNCHANGED <<wanted, overtaken, calm, startTimer, ticker, ticking, ticks, cronPc, chan, cronRuns>>
  OBVIOUS
<1>2. call' = c /\ step' \in {"check", "stop"}
  OBVIOUS
<1>3. CronTypes'
  BY <1>1, <1>2 DEF CronInv, CronTypes, CronCallTypes, CronGenTypes, CronArmed
<1>4. ASSUME ~overtaken PROVE CronCore'
  BY <1>1, <1>2, <1>4 DEF CronInv, CronCore, CronOne, CronActive, CronTicker, CronCalls
<1>5. QED BY <1>1, <1>3, <1>4 DEF CronInv

LEMMA CronSetInterval ==
  ASSUME CronInv, Cron!SetInterval
  PROVE  CronInv'
<1> USE DEF Cron!SetInterval, Cron!tickerVars
<1>1. /\ UNCHANGED <<overtaken, calm, startTimer, ticker, ticking, ticks, cronPc, chan>>
      /\ step = "check" /\ CronTypes /\ CronCallTypes
  BY DEF CronInv, CronTypes
<1>2. CronCallTypes' /\ wanted' = wanted /\ step' \in {"none", "stop"}
  <2>0. overtaken' \in BOOLEAN
    BY <1>1 DEF CronCallTypes
  <2>1. CASE ticker = Cron!NoGen
    BY <1>1, <2>0, <2>1, CronReturn DEF CronCallTypes
  <2>2. CASE ticker # Cron!NoGen
    BY <1>1, <2>2 DEF CronCallTypes, Cron!GoOn
  <2>3. QED BY <2>1, <2>2
<1>3. CronTypes'
  BY <1>1, <1>2 DEF CronTypes, CronGenTypes, CronArmed
<1>4. ASSUME ~overtaken PROVE CronCore'
  BY <1>1, <1>2, <1>4 DEF CronInv, CronCore, CronOne, CronActive, CronTicker, CronCalls
<1>5. QED BY <1>1, <1>3, <1>4 DEF CronInv

\* Stop up to the send: without a ticker, and unless it overtakes a callback, nothing
\* is left.
LEMMA CronStopTimer ==
  ASSUME CronInv, Cron!StopTimer
  PROVE  CronInv'
<1> USE CronGens DEF Cron!StopTimer, Cron!StopStartTimer
<1>1. /\ step = "stop" /\ call # "none" /\ startTimer' = 0 /\ calm' = calm
      /\ UNCHANGED <<ticker, ticking, ticks, chan>>
      /\ CronCallTypes /\ CronGenTypes /\ CronArmed
  BY DEF CronInv, CronTypes, CronCallTypes
<1>2. /\ cronPc' \in [Cron!Gens -> CronPlaces]
      /\ \A g \in Cron!Gens : cronPc'[g] = cronPc[g] \/ (cronPc[g] = "armed" /\ cronPc'[g] = "stopped")
      /\ \A g \in Cron!Gens : cronPc'[g] # "armed"
  BY <1>1 DEF CronGenTypes, CronArmed, CronPlaces
<1>3. /\ overtaken' \in BOOLEAN
      /\ ~overtaken' => ~overtaken /\ \A g \in Cron!Gens : cronPc[g] # "fired"
  <2>1. overtaken' \in BOOLEAN
    BY Zenon
  <2>2. QED BY <2>1, <1>1 DEF CronCallTypes
<1>4. CronGenTypes' /\ CronArmed'
  BY <1>1, <1>2 DEF CronGenTypes, CronArmed
<1>5. ASSUME ~overtaken' PROVE CronOne' /\ CronTicker' /\ CronActive' \subseteq CronActive
  BY <1>1, <1>2, <1>3, <1>5 DEF CronInv, CronCore, CronOne, CronActive, CronTicker, CronRunning
<1>6. CASE ticker = 0
  <2>1. CronCallTypes' /\ (call' = "none" \/ call' = call) /\ step' \in {"none", "arm"}
    BY <1>1, <1>3, <1>6, CronStopDone
  <2>2. ASSUME ~overtaken' PROVE CronCalls'
    <3>1. CronActive' = {}
      BY <1>1, <1>2, <1>3, <1>6, <2>2 DEF CronInv, CronCore, CronActive, CronTicker, CronRunning
    <3>2. QED BY <1>1, <1>6, <2>1, <3>1 DEF CronCalls
  <2>3. QED BY <1>4, <1>5, <2>1, <2>2 DEF CronInv, CronTypes, CronCore
<1>7. CASE ticker # 0
  <2>1. step' = "send" /\ UNCHANGED <<call, wanted, cronRuns>>
    BY <1>7 DEF Cron!GoOn
  <2>2. CronCallTypes'
    BY <1>1, <1>3, <2>1 DEF CronCallTypes
  <2>3. ASSUME ~overtaken' PROVE CronCalls'
    BY <1>1, <1>3, <1>5, <1>7, <2>1, <2>3 DEF CronInv, CronCore, CronCalls
  <2>4. QED BY <1>4, <1>5, <2>2, <2>3 DEF CronInv, CronTypes, CronCore
<1>8. QED BY <1>6, <1>7

\* The goroutine that receives what Stop sends is the one there is.
LEMMA CronStopTicker ==
  ASSUME CronInv, NEW g \in Cron!Gens, Cron!StopTicker(g)
  PROVE  CronInv'
<1> USE CronGens DEF Cron!StopTicker
<1>1. /\ step = "send" /\ call # "none" /\ ticker' = 0 /\ ticking' = ticking \ {ticker}
      /\ UNCHANGED <<overtaken, calm, startTimer, ticks, chan>> /\ cronPc[g] = "looping"
      /\ CronCallTypes /\ CronGenTypes /\ CronArmed /\ overtaken' \in BOOLEAN
  BY DEF CronInv, CronTypes, CronCallTypes
<1>2. /\ cronPc' \in [Cron!Gens -> CronPlaces]
      /\ cronPc'[g] = "ended" /\ \A h \in Cron!Gens \ {g} : cronPc'[h] = cronPc[h]
  BY <1>1, CronSetPc DEF CronPlaces
<1>3. CronCallTypes' /\ (call' = "none" \/ call' = call) /\ step' \in {"none", "arm"}
  BY <1>1, CronStopDone
<1>4. CronGenTypes' /\ CronArmed'
  BY <1>1, <1>2 DEF CronGenTypes, CronArmed
<1>5. ASSUME ~overtaken PROVE CronCore'
  <2>1. ticker = g /\ CronActive' = {} /\ ticking' = {}
    BY <1>1, <1>2, <1>5 DEF CronInv, CronCore, CronTicker, CronOne, CronActive, CronRunning
  <2>2. CronTicker' /\ CronOne'
    BY <1>1, <1>2, <1>5, <2>1 DEF CronInv, CronCore, CronTicker, CronOne, CronActive, CronRunning
  <2>3. CronCalls'
    BY <1>1, <1>3, <2>1 DEF CronCalls
  <2>4. QED BY <2>2, <2>3 DEF CronCore
<1>6. QED BY <1>1, <1>3, <1>4, <1>5 DEF CronInv, CronTypes

\* A start begins where nothing is left.
LEMMA CronArm ==
  ASSUME CronInv, NEW g \in Cron!Gens, Cron!Arm(g)
  PROVE  CronInv'
<1> USE CronGens DEF Cron!Arm
<1>1. /\ step = "arm" /\ startTimer' = g
      /\ UNCHANGED <<overtaken, calm, ticker, ticking, ticks, chan>>
      /\ CronCallTypes /\ CronGenTypes /\ CronArmed /\ overtaken' \in BOOLEAN
  BY DEF CronInv, CronTypes, CronCallTypes
<1>2. /\ cronPc' \in [Cron!Gens -> CronPlaces]
      /\ cronPc'[g] = "armed" /\ \A h \in Cron!Gens \ {g} : cronPc'[h] = cronPc[h]
  BY <1>1, CronSetPc DEF CronPlaces
<1>3. CronCallTypes' /\ call' = "none" /\ step' = "none" /\ wanted' = "started"
  BY <1>1, CronReturn
<1>4. CronGenTypes' /\ CronArmed'
  BY <1>1, <1>2, <1>3 DEF CronGenTypes, CronArmed
<1>5. ASSUME ~overtaken PROVE CronCore'
  <2>1. CronActive = {} /\ ticker = 0
    BY <1>1, <1>5 DEF CronInv, CronCore, CronCalls
  <2>2. \A h \in CronActive' : h = g
    BY <1>1, <1>2, <2>1 DEF CronActive
  <2>3. CronTicker' /\ CronOne'
    BY <1>1, <1>2, <1>5, <2>1, <2>2 DEF CronInv, CronCore, CronTicker, CronOne, CronRunning
  <2>4. QED BY <1>3, <2>3 DEF CronCore, CronCalls
<1>6. QED BY <1>1, <1>3, <1>4, <1>5 DEF CronInv, CronTypes

\* What is true when a start goes on from one state of its timer, callback or goroutine
\* to another.
LEMMA CronGoesOn ==
  ASSUME CronInv, NEW g \in Cron!Gens, g \in CronActive,
         NEW s \in {"fired", "due", "select", "looping", "tick", "crashed"}, Cron!SetPc(g, s),
         UNCHANGED <<call, step, wanted, overtaken, calm, startTimer>>,
         cronRuns' \in BOOLEAN, chan' \in [Cron!Gens -> Cron!Gens \cup {0}],
         ticks' \in SUBSET Cron!Gens, ticker' \in Cron!Gens \cup {0},
         ticking' \in SUBSET Cron!Gens, ticker' # 0 => ticker' \in ticking',
         ~overtaken => CronTicker', step = "send" => ticker' = ticker
  PROVE  CronInv'
<1> USE CronGens
<1>1. CronCallTypes /\ CronGenTypes /\ CronArmed /\ s \in CronPlaces
  BY DEF CronInv, CronTypes, CronPlaces
<1>2. /\ cronPc' \in [Cron!Gens -> CronPlaces]
      /\ cronPc'[g] = s /\ \A h \in Cron!Gens \ {g} : cronPc'[h] = cronPc[h]
  BY <1>1, CronSetPc
<1>3. CronCallTypes'
  BY <1>1 DEF CronCallTypes
<1>4. CronGenTypes' /\ CronArmed'
  BY <1>1, <1>2 DEF CronGenTypes, CronArmed
<1>5. ASSUME ~overtaken PROVE CronCore'
  <2>1. CronActive' \subseteq CronActive
    BY <1>1, <1>2 DEF CronActive
  <2>2. CronOne'
    BY <1>5, <2>1 DEF CronInv, CronCore, CronOne
  <2>3. CronCalls'
    BY <1>5 DEF CronInv, CronCore, CronCalls
  <2>4. QED BY <1>5, <2>2, <2>3 DEF CronCore
<1>6. QED BY <1>3, <1>4, <1>5 DEF CronInv, CronTypes

LEMMA CronFire ==
  ASSUME CronInv, NEW g \in Cron!Gens, Cron!Fire(g)
  PROVE  CronInv'
<1> USE CronGens DEF Cron!Fire, Cron!callVars, Cron!tickerVars
<1>1. /\ cronPc[g] = "armed" /\ g \in CronActive /\ Cron!SetPc(g, "fired")
      /\ UNCHANGED <<call, step, wanted, overtaken, calm, startTimer, ticker, ticking, ticks, chan,
                     cronRuns>>
      /\ CronCallTypes /\ CronGenTypes
  BY DEF CronActive, CronInv, CronTypes
<1>2. cronPc'[g] = "fired" /\ \A h \in Cron!Gens \ {g} : cronPc'[h] = cronPc[h]
  BY <1>1, CronSetPc DEF CronPlaces
<1>3. ~overtaken => CronTicker'
  BY <1>1, <1>2 DEF CronInv, CronCore, CronTicker, CronRunning
<1>4. /\ cronRuns' \in BOOLEAN /\ chan' \in [Cron!Gens -> Cron!Gens \cup {0}]
      /\ ticks' \in SUBSET Cron!Gens /\ ticker' \in Cron!Gens \cup {0}
      /\ ticking' \in SUBSET Cron!Gens /\ (ticker' # 0 => ticker' \in ticking')
  BY <1>1 DEF CronCallTypes, CronGenTypes
<1>5. QED BY <1>1, <1>3, <1>4, CronGoesOn

\* The callback's start is the only one, so there is no ticker yet.
LEMMA CronNewTicker ==
  ASSUME CronInv, NEW g \in Cron!Gens, Cron!NewTicker(g)
  PROVE  CronInv'
<1> USE CronGens DEF Cron!NewTicker, Cron!callVars, Cron!Unlocked
<1>1. /\ cronPc[g] = "fired" /\ g \in CronActive /\ Cron!SetPc(g, "due")
      /\ ticker' = g /\ ticking' = ticking \cup {g} /\ step # "send"
      /\ UNCHANGED <<call, step, wanted, overtaken, calm, startTimer, ticks, chan, cronRuns>>
      /\ CronCallTypes /\ CronGenTypes
  BY DEF CronActive, CronInv, CronTypes
<1>2. cronPc'[g] = "due" /\ \A h \in Cron!Gens \ {g} : cronPc'[h] = cronPc[h]
  BY <1>1, CronSetPc DEF CronPlaces
<1>3. ASSUME ~overtaken PROVE CronTicker'
  <2>1. CronTicker /\ CronOne
    BY <1>3 DEF CronInv, CronCore
  <2>2. \A h \in Cron!Gens \ {g} : cronPc[h] \notin CronRunning
    BY <1>1, <2>1 DEF CronOne, CronActive
  <2>3. ticker = 0
    BY <1>1, <2>1, <2>2 DEF CronTicker, CronRunning
  <2>4. ticking' = {g}
    BY <1>1, <2>1, <2>3 DEF CronTicker
  <2>5. QED BY <1>1, <1>2, <2>1, <2>2, <2>4 DEF CronTicker, CronRunning
<1>4. /\ cronRuns' \in BOOLEAN /\ chan' \in [Cron!Gens -> Cron!Gens \cup {0}]
      /\ ticks' \in SUBSET Cron!Gens /\ ticker' \in Cron!Gens \cup {0}
      /\ ticking' \in SUBSET Cron!Gens /\ (ticker' # 0 => ticker' \in ticking')
  BY <1>1 DEF CronCallTypes, CronGenTypes
<1>5. QED BY <1>1, <1>3, <1>4, CronGoesOn

\* The due jobs are run, and the goroutine goes to its select.
LEMMA CronRun ==
  ASSUME CronInv, NEW g \in Cron!Gens, Cron!FirstRun(g) \/ Cron!RunDue(g)
  PROVE  CronInv'
<1> USE CronGens DEF Cron!FirstRun, Cron!RunDue, Cron!callVars, Cron!tickerVars
<1>1. /\ cronPc[g] \in {"due", "tick"} /\ g \in CronActive /\ Cron!SetPc(g, "select")
      /\ UNCHANGED <<call, step, wanted, overtaken, calm, startTimer, ticker, ticking, ticks, chan>>
      /\ CronGenTypes
  BY DEF CronActive, CronRunning, CronInv, CronTypes
<1>2. cronPc'[g] = "select" /\ \A h \in Cron!Gens \ {g} : cronPc'[h] = cronPc[h]
  BY <1>1, CronSetPc DEF CronPlaces
<1>3. ~overtaken => CronTicker'
  BY <1>1, <1>2 DEF CronInv, CronCore, CronTicker, CronRunning
<1>4. /\ chan' \in [Cron!Gens -> Cron!Gens \cup {0}]
      /\ ticks' \in SUBSET Cron!Gens /\ ticker' \in Cron!Gens \cup {0}
      /\ ticking' \in SUBSET Cron!Gens /\ (ticker' # 0 => ticker' \in ticking')
  BY <1>1 DEF CronGenTypes
<1>5. cronRuns' \in BOOLEAN
  BY Zenon
<1>6. QED BY <1>1, <1>3, <1>4, <1>5, CronGoesOn

\* The goroutine's own ticker is still in c.ticker when it enters its select.
LEMMA CronSelect ==
  ASSUME CronInv, NEW g \in Cron!Gens, Cron!Select(g)
  PROVE  CronInv'
<1> USE CronGens DEF Cron!Select, Cron!callVars, Cron!tickerVars
<1> DEFINE s == IF ticker = Cron!NoGen THEN "crashed" ELSE "looping"
<1>1. /\ cronPc[g] = "select" /\ g \in CronActive /\ Cron!SetPc(g, s)
      /\ UNCHANGED <<call, step, wanted, overtaken, calm, startTimer, ticker, ticking, ticks, cronRuns>>
      /\ chan' = [chan EXCEPT ![g] = ticker]
      /\ CronCallTypes /\ CronGenTypes /\ s \in {"crashed", "looping"}
  BY DEF CronActive, CronRunning, CronInv, CronTypes
<1>2. cronPc'[g] = s /\ \A h \in Cron!Gens \ {g} : cronPc'[h] = cronPc[h]
  BY <1>1, CronSetPc DEF CronPlaces
<1>3. ASSUME ~overtaken PROVE CronTicker'
  <2>1. CronTicker /\ ticker = g /\ s = "looping"
    BY <1>1, <1>3 DEF CronInv, CronCore, CronTicker, CronRunning
  <2>2. QED BY <1>1, <1>2, <2>1 DEF CronTicker, CronRunning
<1>4. /\ cronRuns' \in BOOLEAN /\ chan' \in [Cron!Gens -> Cron!Gens \cup {0}]
      /\ ticks' \in SUBSET Cron!Gens /\ ticker' \in Cron!Gens \cup {0}
      /\ ticking' \in SUBSET Cron!Gens /\ (ticker' # 0 => ticker' \in ticking')
  BY <1>1 DEF CronCallTypes, CronGenTypes
<1> HIDE DEF s
<1>5. QED BY <1>1, <1>3, <1>4, CronGoesOn

\* A tick of a ticker that ticks.
LEMMA CronTick ==
  ASSUME CronInv, NEW t \in Cron!Gens, Cron!Tick(t)
  PROVE  CronInv'
<1> USE DEF Cron!Tick, Cron!callVars
<1>1. /\ UNCHANGED <<call, step, wanted, overtaken, calm, startTimer, ticker, ticking, cronPc, chan,
                     cronRuns>>
      /\ ticks' = ticks \cup {t}
  OBVIOUS
<1>2. CronTypes'
  BY <1>1 DEF CronInv, CronTypes, CronCallTypes, CronGenTypes, CronArmed
<1>3. ASSUME ~overtaken PROVE CronCore'
  BY <1>1, <1>3 DEF CronInv, CronCore, CronOne, CronActive, CronTicker, CronCalls
<1>4. QED BY <1>1, <1>2, <1>3 DEF CronInv

LEMMA CronTakeTick ==
  ASSUME CronInv, NEW g \in Cron!Gens, Cron!TakeTick(g)
  PROVE  CronInv'
<1> USE CronGens DEF Cron!TakeTick, Cron!callVars, Cron!tickerVars
<1>1. /\ cronPc[g] = "looping" /\ g \in CronActive /\ Cron!SetPc(g, "tick")
      /\ UNCHANGED <<call, step, wanted, overtaken, calm, startTimer, ticker, ticking, chan, cronRuns>>
      /\ ticks' = ticks \ {chan[g]} /\ CronCallTypes /\ CronGenTypes
  BY DEF CronActive, CronRunning, CronInv, CronTypes
<1>2. cronPc'[g] = "tick" /\ \A h \in Cron!Gens \ {g} : cronPc'[h] = cronPc[h]
  BY <1>1, CronSetPc DEF CronPlaces
<1>3. ~overtaken => CronTicker'
  BY <1>1, <1>2 DEF CronInv, CronCore, CronTicker, CronRunning
<1>4. /\ cronRuns' \in BOOLEAN /\ chan' \in [Cron!Gens -> Cron!Gens \cup {0}]
      /\ ticks' \in SUBSET Cron!Gens /\ ticker' \in Cron!Gens \cup {0}
      /\ ticking' \in SUBSET Cron!Gens /\ (ticker' # 0 => ticker' \in ticking')
  BY <1>1 DEF CronCallTypes, CronGenTypes
<1>5. QED BY <1>1, <1>3, <1>4, CronGoesOn

LEMMA CronStep == CronInv /\ [Cron!Next]_cronVars => CronInv'
<1> SUFFICES ASSUME CronInv, [Cron!Next]_cronVars PROVE CronInv'
  OBVIOUS
<1>1. CASE UNCHANGED cronVars
  <2>1. CronTypes'
    BY <1>1 DEF cronVars, CronInv, CronTypes, CronCallTypes, CronGenTypes, CronArmed
  <2>2. ASSUME ~overtaken PROVE CronCore'
    BY <1>1, <2>2 DEF cronVars, CronInv, CronCore, CronOne, CronActive, CronTicker, CronCalls
  <2>3. QED BY <1>1, <2>1, <2>2 DEF cronVars, CronInv
<1>2. CASE \E c \in {"Start", "Stop", "SetInterval"} : Cron!Begin(c)
  BY <1>2, CronBegin
<1>3. CASE Cron!CallStep
  BY <1>3, CronSetInterval, CronStopTimer, CronStopTicker, CronArm DEF Cron!CallStep
<1>4. ASSUME NEW g \in Cron!Gens, Cron!GenStep(g) PROVE CronInv'
  BY <1>4, CronFire, CronNewTicker, CronRun, CronSelect, CronTakeTick DEF Cron!GenStep
<1>5. CASE \E g \in Cron!Gens : Cron!Tick(g)
  BY <1>5, CronTick
<1>6. QED BY <1>1, <1>2, <1>3, <1>4, <1>5 DEF Cron!Next

\* At most one element, for the instance's copy of the definition.
LEMMA AtMostOneElement ==
  ASSUME NEW S, \A a, b \in S : a = b
  PROVE  Cron!Cardinality(S) <= 1
<1>0. Cron!Cardinality(S) = Cardinality(S)
  BY DEF Cardinality, Cron!Cardinality
<1>1. CASE S = {}
  BY <1>0, <1>1, FS_EmptySet
<1>2. CASE S # {}
  <2>1. PICK a : S = {a}
    BY <1>2
  <2>2. Cardinality({a}) = 1
    BY FS_Singleton
  <2>3. QED BY <1>0, <2>1, <2>2
<1>3. QED BY <1>1, <1>2

\* What the invariant says of starts and stops.
LEMMA CronSafe == CronInv => Cron!TypeOK /\ Cron!StopHalts /\ Cron!OneStartInEffect
<1> SUFFICES ASSUME CronInv PROVE Cron!TypeOK /\ Cron!StopHalts /\ Cron!OneStartInEffect
  OBVIOUS
<1> USE CronGens
<1>1. Cron!TypeOK
  BY DEF CronInv, CronTypes, CronCallTypes, CronGenTypes, CronArmed, CronPlaces, Cron!TypeOK
<1>2. Cron!StopHalts
  <2>1. SUFFICES ASSUME ~overtaken, wanted = "stopped"
                 PROVE  ticker = 0 /\ ticking = {} /\ Cron!Alive = {} /\ \A g \in Cron!Gens : cronPc[g] # "armed"
    BY DEF Cron!StopHalts
  <2>2. CronActive = {} /\ ticker = 0 /\ ticking = {}
    BY <2>1 DEF CronInv, CronCore, CronCalls, CronTicker
  <2>3. QED BY <2>2 DEF CronActive, CronRunning, Cron!Alive, Cron!Busy
<1>3. Cron!OneStartInEffect
  <2>1. SUFFICES ASSUME ~overtaken
                 PROVE  /\ Cron!Cardinality(Cron!Alive \cup {g \in Cron!Gens : cronPc[g] = "armed"}) <= 1
                        /\ Cron!Cardinality(ticking) <= 1
                        /\ \A g \in Cron!Gens : cronPc[g] # "crashed"
    BY DEF Cron!OneStartInEffect
  <2>2. CronOne /\ CronTicker
    BY <2>1 DEF CronInv, CronCore
  <2>3. Cron!Alive \cup {g \in Cron!Gens : cronPc[g] = "armed"} = CronActive
    BY DEF Cron!Alive, Cron!Busy, CronActive, CronRunning
  <2>4. Cron!Cardinality(CronActive) <= 1
    BY <2>2, AtMostOneElement DEF CronOne
  <2>5. \A a, b \in ticking : a = b
    BY <2>2 DEF CronTicker
  <2>6. Cron!Cardinality(ticking) <= 1
    BY <2>5, AtMostOneElement
  <2>7. QED BY <2>2, <2>3, <2>4, <2>6 DEF CronTicker
<1>4. QED BY <1>1, <1>2, <1>3

-----------------------------------------------------------------------------
(***************************************************************************)
(* RestoreSwap, Uploader and Migrations have proof modules of their own;   *)
(* the first two are used as instances, with the variables of this one.    *)
(***************************************************************************)
RestoreP == INSTANCE RestoreSwapProofs WITH pc <- restorePc

UploadP == INSTANCE UploaderProofs WITH pc <- uploadPc

\* The steps that are proved about are those of the run.
LEMMA RestoreSame == Restore!Next = RestoreP!Next
  BY
  DEF Restore!New, RestoreP!New, Restore!Places, RestoreP!Places, Restore!Moves,
      RestoreP!Moves, Restore!Steps, RestoreP!Steps, Restore!In, RestoreP!In, Restore!Put,
      RestoreP!Put, Restore!Return, RestoreP!Return, Restore!Src, RestoreP!Src,
      Restore!Dest, RestoreP!Dest, Restore!Moving, RestoreP!Moving, Restore!Rename,
      RestoreP!Rename, Restore!RenameFails, RestoreP!RenameFails, Restore!Undo,
      RestoreP!Undo, Restore!Then, RestoreP!Then, Restore!Moved, RestoreP!Moved,
      Restore!MoveFails, RestoreP!MoveFails, Restore!Extract, RestoreP!Extract,
      Restore!Commit, RestoreP!Commit, Restore!RemoveTemp, RestoreP!RemoveTemp,
      Restore!Execve, RestoreP!Execve, Restore!RestartFails, RestoreP!RestartFails,
      Restore!RevertFails, RestoreP!RevertFails, Restore!Reverted, RestoreP!Reverted,
      Restore!Die, RestoreP!Die, Restore!Bootstrap, RestoreP!Bootstrap, Restore!Next,
      RestoreP!Next

LEMMA RestoreInit == Restore!Init => RestoreP!IInv
<1>1. Restore!Init => RestoreP!Init
  BY DEF Restore!Init, RestoreP!Init
<1>2. QED BY <1>1, RestoreP!InitInv

LEMMA RestoreStep == RestoreP!IInv /\ [Restore!Next]_restoreVars => RestoreP!IInv'
  BY RestoreSame, RestoreP!StepInv DEF restoreVars, RestoreP!vars

LEMMA RestoreSafe == RestoreP!IInv => Restore!TypeOK /\ Restore!NeverMixed /\ Restore!OldIsKept
<1> SUFFICES ASSUME RestoreP!IInv
             PROVE  Restore!TypeOK /\ Restore!NeverMixed /\ Restore!OldIsKept
  OBVIOUS
<1>1. Restore!TypeOK
  BY DEF RestoreP!IInv, RestoreP!TypeOK, RestoreP!Places, RestoreP!Steps, RestoreP!Moves,
         Restore!TypeOK, Restore!Places, Restore!Steps, Restore!Moves
<1>2. Restore!NeverMixed
  BY DEF RestoreP!IInv, RestoreP!TypeOK, RestoreP!Whereabouts, RestoreP!NotMixed, RestoreP!OldIn,
         RestoreP!NewIn, RestoreP!New, Restore!NeverMixed, Restore!In, Restore!New
<1>3. Restore!OldIsKept
  BY DEF RestoreP!IInv, RestoreP!OldIsKept, Restore!OldIsKept
<1>4. QED BY <1>1, <1>2, <1>3

LEMMA UploadConstants == UploadP!ConstantsAssumption
  BY InstancesAssumption DEF Upload!ConstantsAssumption, UploadP!ConstantsAssumption

LEMMA UploadSame == Upload!Next = UploadP!Next
  BY
  DEF Upload!NoObject, UploadP!NoObject, Upload!NoPart, UploadP!NoPart, Upload!Payload,
      UploadP!Payload, Upload!GoTo, UploadP!GoTo, Upload!SingleUpload, UploadP!SingleUpload,
      Upload!MultipartInit, UploadP!MultipartInit, Upload!InitFails, UploadP!InitFails,
      Upload!NextPart, UploadP!NextPart, Upload!ReadFails, UploadP!ReadFails, Upload!Send,
      UploadP!Send, Upload!SendFails, UploadP!SendFails, Upload!ListPart, UploadP!ListPart,
      Upload!Wait, UploadP!Wait, Upload!MultipartComplete, UploadP!MultipartComplete,
      Upload!MultipartAbort, UploadP!MultipartAbort, Upload!WorkerStep, UploadP!WorkerStep,
      Upload!Next, UploadP!Next

LEMMA UploadInit == Upload!Init => UploadP!IInv
<1>1. Upload!Init => UploadP!Init
  BY DEF Upload!Init, UploadP!Init, Upload!NoObject, UploadP!NoObject, Upload!NoPart, UploadP!NoPart
<1>2. QED BY <1>1, UploadConstants, UploadP!InitInv

LEMMA UploadStep == UploadP!IInv /\ [Upload!Next]_uploadVars => UploadP!IInv'
  BY UploadSame, UploadConstants, UploadP!StepInv DEF uploadVars, UploadP!vars

LEMMA UploadSafe == UploadP!IInv => Upload!TypeOK /\ Upload!UploadIsWhole /\ Upload!NothingLeftAtS3
<1> SUFFICES ASSUME UploadP!IInv
             PROVE  Upload!TypeOK /\ Upload!UploadIsWhole /\ Upload!NothingLeftAtS3
  OBVIOUS
<1>1. Upload!TypeOK
  BY DEF UploadP!IInv, UploadP!TypeOK, UploadP!Parts, UploadP!NoPart, Upload!TypeOK, Upload!Parts,
         Upload!NoPart
<1>2. Upload!UploadIsWhole
  BY DEF UploadP!IInv, UploadP!Whole, UploadP!NoObject, UploadP!Payload,
         Upload!UploadIsWhole, Upload!NoObject, Upload!Payload
<1>3. Upload!NothingLeftAtS3
  BY DEF UploadP!IInv, UploadP!Waited, Upload!NothingLeftAtS3
<1>4. QED BY <1>1, <1>2, <1>3

LEMMA MigrationsStep == IInv /\ [Next]_vars => IInv'
  BY IInvIsRest, TypesStep, LockStep, RestStep, StutterIInv DEF IInv, RestInv

-----------------------------------------------------------------------------
(***************************************************************************)
(* The run of the components: a step of it is one of its component's and   *)
(* leaves the others alone.                                                *)
(***************************************************************************)
ComponentsInv ==
  IInv /\ CronInv /\ NotifyInv /\ RestoreP!IInv /\ BatchInv /\ UploadP!IInv /\ BeatInv

LEMMA ComponentsStart == ComponentsInit => ComponentsInv
  BY InitIInv, CronInit, NotifyInit, RestoreInit, BatchInit, UploadInit, BeatInit
  DEF ComponentsInit, ComponentsInv

\* For every component a step of the run is one of its steps or none.
LEMMA ComponentsSteps ==
  ASSUME [ComponentsNext]_allVars
  PROVE  /\ [Next]_vars /\ [Cron!Next]_cronVars /\ [Notify!Next]_notifyVars
         /\ [Restore!Next]_restoreVars /\ [Batch!Next]_batchVars /\ [Upload!Next]_uploadVars
         /\ [Beat!Next]_beatVars
<1>1. CASE UNCHANGED allVars
  BY <1>1 DEF allVars
<1>2. CASE Next /\ OnlyMigrations
  BY <1>2 DEF OnlyMigrations
<1>3. CASE Cron!Next /\ OnlyCron
  BY <1>3 DEF OnlyCron
<1>4. CASE Notify!Next /\ OnlyNotify
  BY <1>4 DEF OnlyNotify
<1>5. CASE Restore!Next /\ OnlyRestore
  BY <1>5 DEF OnlyRestore
<1>6. CASE Batch!Next /\ OnlyBatch
  BY <1>6 DEF OnlyBatch
<1>7. CASE Upload!Next /\ OnlyUpload
  BY <1>7 DEF OnlyUpload
<1>8. CASE Beat!Next /\ OnlyBeat
  BY <1>8 DEF OnlyBeat
<1>9. CASE OnlyDelete
  BY <1>9 DEF OnlyDelete
<1>10. QED BY <1>1, <1>2, <1>3, <1>4, <1>5, <1>6, <1>7, <1>8, <1>9 DEF ComponentsNext

LEMMA ComponentsKeep == ComponentsInv /\ [ComponentsNext]_allVars => ComponentsInv'
<1> SUFFICES ASSUME ComponentsInv, [ComponentsNext]_allVars PROVE ComponentsInv'
  OBVIOUS
<1>1. /\ [Next]_vars /\ [Cron!Next]_cronVars /\ [Notify!Next]_notifyVars
      /\ [Restore!Next]_restoreVars /\ [Batch!Next]_batchVars /\ [Upload!Next]_uploadVars
      /\ [Beat!Next]_beatVars
  BY ComponentsSteps
<1>2. IInv' /\ CronInv' /\ NotifyInv'
  BY <1>1, MigrationsStep, CronStep, NotifyStep DEF ComponentsInv
<1>3. RestoreP!IInv' /\ BatchInv' /\ UploadP!IInv' /\ BeatInv'
  BY <1>1, RestoreStep, BatchStep, UploadStep, BeatStep DEF ComponentsInv
<1>4. QED BY <1>2, <1>3 DEF ComponentsInv

\* Every reachable state satisfies the invariants of all components.
THEOREM ComponentsInductive == ComponentsSpec => []ComponentsInv
  BY ComponentsStart, ComponentsKeep, PTL DEF ComponentsSpec

\* The type invariants: among them, that the cron's c.ticker is a ticker that ticks
\* (cron.go:187-190) and that the migrations' lock is held by the run inside it.
THEOREM ComponentsTypes == ComponentsSpec => []TypesOK
<1>1. ComponentsInv => TypesOK
  <2> SUFFICES ASSUME ComponentsInv PROVE TypesOK
    OBVIOUS
  <2>1. TypeOK /\ Restore!TypeOK /\ Upload!TypeOK
    BY IInvGives, RestoreSafe, UploadSafe DEF ComponentsInv
  <2>2. Cron!TypeOK /\ Notify!TypeOK /\ Batch!TypeOK /\ Beat!TypeOK
    BY CronSafe DEF ComponentsInv, NotifyInv, BatchInv, BeatInv
  <2>3. QED BY <2>1, <2>2 DEF TypesOK
<1>2. QED BY <1>1, ComponentsInductive, PTL

\* After a Stop that has returned, and until the next call, no timer, callback, ticker or
\* goroutine is left that could run jobs (cron.go:157-173), however many starts there
\* were and wherever timer and ticker fire during the calls, unless some Stop has come
\* between a timer that fired and its callback.
THEOREM CronStopHalts == ComponentsSpec => []StopHalts
<1>1. ComponentsInv => StopHalts
  BY CronSafe DEF ComponentsInv, StopHalts
<1>2. QED BY <1>1, ComponentsInductive, PTL

\* However calls of Start, Stop and SetInterval follow each other, and wherever timer
\* and ticker fire during them, one start at most is in effect, with one ticker, and no
\* goroutine's unlocked read finds c.ticker cleared (cron.go:178-208), with the same
\* exception.
THEOREM CronStartsOnce == ComponentsSpec => []OneStartInEffect
<1>1. ComponentsInv => OneStartInEffect
  BY CronSafe DEF ComponentsInv, OneStartInEffect
<1>2. QED BY <1>1, ComponentsInductive, PTL

\* As long as what the notified instance has loaded is older than the database, the
\* sentinel file, an event that was not read or the debounce timer stands for the
\* reload that is due (notify_watcher.go:90-230).
THEOREM NotifyReloadIsDue == ComponentsSpec => []ReloadIsDue
<1>1. ComponentsInv => ReloadIsDue
  BY DEF ComponentsInv, NotifyInv, ReloadIsDue
<1>2. QED BY <1>1, ComponentsInductive, PTL

\* A reload waits until the debounce window has passed since the last change that was
\* read, or another one waits to be read (notify_watcher.go:180-205).
THEOREM NotifyAfterBurst == ComponentsSpec => ReloadsAfterBurst
<1>1. ASSUME ComponentsInv, [ComponentsNext]_allVars
      PROVE  [\A k \in {Kind} : loaded'[k] # loaded[k] => age[k] = Debounce \/ Notify!Unread(k)]_(Notify!vars)
  <2>1. [Notify!Next]_notifyVars
    BY <1>1, ComponentsSteps
  <2>2. QED BY <1>1, <2>1, NotifyBurst DEF ComponentsInv
<1>2. QED BY <1>1, ComponentsInductive, PTL DEF ComponentsSpec, ReloadsAfterBurst, Notify!ReloadsAfterBurst

\* Whatever fails, the data directory never holds entries of both contents, and holds all
\* of the backup, and only that, when a restore has succeeded (base_backup.go:225-233).
THEOREM RestoreNotMixed == ComponentsSpec => []NeverMixed
<1>1. ComponentsInv => NeverMixed
  BY RestoreSafe DEF ComponentsInv, NeverMixed
<1>2. QED BY <1>1, ComponentsInductive, PTL

\* Until a bootstrap has succeeded after a restore, every old entry is on the disk
\* (base_backup.go:228-235).
THEOREM RestoreKeepsOld == ComponentsSpec => []OldIsKept
<1>1. ComponentsInv => OldIsKept
  BY RestoreSafe DEF ComponentsInv, OldIsKept
<1>2. QED BY <1>1, ComponentsInductive, PTL

\* An answer of success means that every request has written in a transaction that is
\* committed and the results are theirs, in their order; an answer of failure names the
\* request that failed (batch.go:155-164).
THEOREM BatchAnswersTruly == ComponentsSpec => []AnswersTruly
<1>1. ComponentsInv => AnswersTruly
  BY BatchSafe DEF ComponentsInv, AnswersTruly
<1>2. QED BY <1>1, ComponentsInductive, PTL

\* The After hooks of every request that has written are told how the transaction ended,
\* but for one request at most when it ended by the timeout (db_tx.go:148-181).
THEOREM BatchReports == ComponentsSpec => []WritesReported
<1>1. ComponentsInv => WritesReported
  BY DEF ComponentsInv, BatchInv, WritesReported
<1>2. QED BY <1>1, ComponentsInductive, PTL

\* An object that S3 has is the whole payload in its order, and an upload succeeds only
\* with it (uploader.go:62-106).
THEOREM UploadWhole == ComponentsSpec => []UploadIsWhole
<1>1. ComponentsInv => UploadIsWhole
  BY UploadSafe DEF ComponentsInv, UploadIsWhole
<1>2. QED BY <1>1, ComponentsInductive, PTL

\* After an upload that has ended, and whose abort has not failed, S3 keeps no part
\* (uploader.go:78-103).
THEOREM UploadLeavesNothing == ComponentsSpec => []NothingLeftAtS3
<1>1. ComponentsInv => NothingLeftAtS3
  BY UploadSafe DEF ComponentsInv, NothingLeftAtS3
<1>2. QED BY <1>1, ComponentsInductive, PTL

\* However bootstraps and terminations interleave, no channel is closed twice, one
\* goroutine at most goes on, and none is left after the terminations have returned
\* (instance_heartbeat.go:100-108, 152-154).
THEOREM BeatIsOne == ComponentsSpec => []OneHeartbeat
<1>1. ComponentsInv => OneHeartbeat
  BY BeatSafe DEF ComponentsInv, OneHeartbeat
<1>2. QED BY <1>1, ComponentsInductive, PTL

=============================================================================
