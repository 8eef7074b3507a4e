---------------------------- MODULE NotifyWatcher ----------------------------
(***************************************************************************)
(* Keeping the settings and the cached collections of an instance in line  *)
(* with the changes made by the other instances that share its data        *)
(* directory: core/notify_watcher.go.                                      *)
(*                                                                         *)
(* An instance that changes the settings or a collection writes a sentinel *)
(* file to the notify directory and removes it a little later.  The        *)
(* watcher of every other instance gets an event for both, and reloads     *)
(* what the sentinel's name says when no further event came for a while.   *)
(* One instance watches here; the others write.  Time passes in units of   *)
(* 50 milliseconds.  Events are those of inotify, in order.                *)
(***************************************************************************)
EXTENDS Naturals, Sequences

CONSTANTS
  Writers,      \* the instances that make changes
  Kinds,        \* what they change: settings, collections or both
  Debounce,     \* the debounce window of the watcher
  RemoveAfter,  \* the age at which a sentinel is removed
  MaxChanges    \* bound: changes

ConstantsAssumption ==
  /\ Kinds \subseteq {"settings", "collections"}
  /\ Debounce \in Nat \ {0} /\ RemoveAfter \in Nat \ {0} /\ MaxChanges \in Nat

VARIABLES
  version,   \* number of changes of each kind in the database
  loaded,    \* the version the watching instance has loaded
  sentinel,  \* whether the sentinel of a writer and kind exists
  removals,  \* time left of its pending removals
  events,    \* file events the watcher has not read
  debounce,  \* the debounce timer: time left and the kind of its event, or NoTimer
  age        \* history: time since the last change of each kind, up to Debounce

vars == <<version, loaded, sentinel, removals, events, debounce, age>>

NoTimer == [left |-> 0, kind |-> "none"]

-----------------------------------------------------------------------------
Init ==
  /\ version  = [k \in Kinds |-> 0]
  /\ loaded   = [k \in Kinds |-> 0]
  /\ sentinel = [w \in Writers |-> [k \in Kinds |-> FALSE]]
  /\ removals = [w \in Writers |-> [k \in Kinds |-> {}]]
  /\ events = <<>>
  /\ debounce = NoTimer
  /\ age = [k \in Kinds |-> Debounce]

\* settingsNotify or collectionsNotify of writer w, after its change.  Writing to
\* a sentinel that exists is an event too, and it will be removed only once.
Change(w, k) ==
  /\ version[k] < MaxChanges
  /\ version' = [version EXCEPT ![k] = @ + 1]
  /\ age'     = [age EXCEPT ![k] = 0]
  /\ sentinel' = [sentinel EXCEPT ![w][k] = TRUE]
  /\ removals' = [removals EXCEPT ![w][k] = @ \cup {RemoveAfter}]
  /\ events'  = Append(events, [kind |-> k, op |-> "write"])
  /\ UNCHANGED <<loaded, debounce>>

Remove(w, k) ==
  /\ 0 \in removals[w][k]
  /\ removals' = [removals EXCEPT ![w][k] = @ \ {0}]
  /\ sentinel' = [sentinel EXCEPT ![w][k] = FALSE]
  /\ events' = IF sentinel[w][k] THEN Append(events, [kind |-> k, op |-> "remove"]) ELSE events
  /\ UNCHANGED <<version, loaded, debounce, age>>

\* Removals of collections sentinels are ignored.
Ignored(e) == e.op = "remove" /\ e.kind # "settings"

RestartUnlessPending(e) ==  \* mutant: a pending timer is not stopped
  IF debounce = NoTimer THEN [left |-> Debounce, kind |-> e.kind] ELSE debounce

\* The timer after an event that is not ignored: the old one is stopped.
Restart(e) == [left |-> Debounce, kind |-> e.kind]

ReadEventStopsFirst ==  \* mutant: the timer is stopped for ignored events too
  /\ events # <<>>
  /\ debounce' = IF Ignored(Head(events)) THEN NoTimer ELSE Restart(Head(events))
  /\ events' = Tail(events)
  /\ UNCHANGED <<version, loaded, sentinel, removals, age>>

ReadEvent ==
  /\ events # <<>>
  /\ debounce' = IF Ignored(Head(events)) THEN debounce ELSE Restart(Head(events))
  /\ events' = Tail(events)
  /\ UNCHANGED <<version, loaded, sentinel, removals, age>>

\* The timer's function: ReloadSettings or ReloadCachedCollections.
Reload ==
  /\ debounce # NoTimer /\ debounce.left = 0
  /\ loaded' = [loaded EXCEPT ![debounce.kind] = version[debounce.kind]]
  /\ debounce' = NoTimer
  /\ UNCHANGED <<version, sentinel, removals, events, age>>

\* Time passes when everything that is due is done.
Tick ==
  /\ events = <<>> /\ (debounce # NoTimer => debounce.left > 0)
  /\ \A w \in Writers, k \in Kinds : 0 \notin removals[w][k]
  /\ debounce # NoTimer \/ \E w \in Writers, k \in Kinds : removals[w][k] # {}
  /\ debounce' = IF debounce = NoTimer THEN NoTimer ELSE [debounce EXCEPT !.left = @ - 1]
  /\ removals' = [w \in Writers |-> [k \in Kinds |-> {t - 1 : t \in removals[w][k]}]]
  /\ age' = [k \in Kinds |-> IF age[k] < Debounce THEN age[k] + 1 ELSE age[k]]
  /\ UNCHANGED <<version, loaded, sentinel, events>>

-----------------------------------------------------------------------------
Next ==
  \/ \E w \in Writers, k \in Kinds : Change(w, k) \/ Remove(w, k)
  \/ ReadEvent \/ Reload \/ Tick

Spec == Init /\ [][Next]_vars

-----------------------------------------------------------------------------
\* The type invariant; besides the types, a sentinel that exists is going to be
\* removed.
TypeOK ==
  /\ version \in [Kinds -> 0..MaxChanges] /\ loaded \in [Kinds -> 0..MaxChanges]
  /\ sentinel \in [Writers -> [Kinds -> BOOLEAN]]
  /\ removals \in [Writers -> [Kinds -> SUBSET (0..RemoveAfter)]]
  /\ events \in Seq([kind : Kinds, op : {"write", "remove"}])
  /\ debounce \in [left : 0..Debounce, kind : Kinds] \cup {NoTimer}
  /\ age \in [Kinds -> 0..Debounce]
  /\ \A w \in Writers, k \in Kinds : sentinel[w][k] => removals[w][k] # {}

Unread(k) == \E i \in DOMAIN events : events[i] = [kind |-> k, op |-> "write"]

\* As long as what the instance has loaded is out of date, a reload of it is due:
\* no interleaving of changes, removals, events and the timer loses the last one.
ReloadIsDue ==
  \A k \in Kinds :
    loaded[k] # version[k] => debounce.kind = k \/ Unread(k)

\* "A burst of rapid schema changes coalesces into a single reload": nothing is
\* reloaded while the last change of its kind that the watcher has seen is younger
\* than the window.
ReloadsAfterBurst ==
  [][\A k \in Kinds : loaded'[k] # loaded[k] => age[k] = Debounce \/ Unread(k)]_vars

\* notify_watcher.go:110: the sentinel is kept so that no reload is missed.  When all
\* is quiet the instance is up to date.
NoReloadMissed ==
  events = <<>> /\ debounce = NoTimer /\ (\A w \in Writers, k \in Kinds : removals[w][k] = {})
    => loaded = version

=============================================================================
