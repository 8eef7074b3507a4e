---------------------------- MODULE BroadcastLog ----------------------------
(***************************************************************************)
(* What the cross-instance outbox promises, without tables, transactions,  *)
(* cursors or connections: a log ordered by (stamp, id) in which an event  *)
(* is published at a place nobody has read past yet, and from which every  *)
(* attached listener hears the events of the other senders in log order,   *)
(* each at most once, leaving out only what has expired.                   *)
(***************************************************************************)
EXTENDS Naturals, Sequences

CONSTANTS
  EventCount,      \* the events are 1..EventCount
  Listeners        \* every sender is one of the listeners

Events == 1..EventCount

VARIABLES
  stage,           \* none, published or expired
  stamp, sender,   \* where an event stands in the log, and whose it is
  attached,        \* the listener has a place in the log to start from
  baseStamp, baseId,
  heard            \* what each listener has heard, in order

vars == <<stage, stamp, sender, attached, baseStamp, baseId, heard>>

Before(e, f) == stamp[e] < stamp[f] \/ (stamp[e] = stamp[f] /\ e < f)
AfterBase(i, e) ==
  baseStamp[i] < stamp[e] \/ (baseStamp[i] = stamp[e] /\ baseId[i] < e)
Heard(i) == {heard[i][k] : k \in DOMAIN heard[i]}

Init ==
  /\ stage = [e \in Events |-> "none"]
  /\ stamp = [e \in Events |-> 0]
  /\ sender \in [Events -> Listeners]
  /\ attached  = [i \in Listeners |-> FALSE]
  /\ baseStamp = [i \in Listeners |-> 0]
  /\ baseId    = [i \in Listeners |-> 0]
  /\ heard = [i \in Listeners |-> <<>>]

\* The new event may stand anywhere, except before something heard from an
\* earlier place by a listener that owes it to its clients.
Publish(e) ==
  /\ stage[e] = "none"
  /\ stage' = [stage EXCEPT ![e] = "published"]
  /\ stamp' = [stamp EXCEPT ![e] = stamp'[e]]
  /\ \A i \in Listeners : sender[e] # i /\ AfterBase(i, e)' =>
        \A f \in Heard(i) : Before(f, e)'
  /\ UNCHANGED <<sender, attached, baseStamp, baseId, heard>>

Expire ==
  /\ \A e \in Events : stage'[e] # stage[e] => stage[e] = "published" /\ stage'[e] = "expired"
  /\ UNCHANGED <<stamp, sender, attached, baseStamp, baseId, heard>>

\* A listener that is not attached yet takes its place, behind which is all it
\* may already have heard from the log's beginning.
Attach(i) ==
  /\ ~attached[i]
  /\ attached' = [attached EXCEPT ![i] = TRUE]
  /\ \A j \in Listeners \ {i} : baseStamp'[j] = baseStamp[j] /\ baseId'[j] = baseId[j]
  /\ \A f \in Heard(i) : stage[f] = "published" => ~AfterBase(i, f)'
  /\ UNCHANGED <<stage, stamp, sender, heard>>

\* The next event for i: later than everything heard, with nothing between.
Hear(i, e) ==
  /\ stage[e] # "none" /\ sender[e] # i /\ AfterBase(i, e)
  /\ \A f \in Heard(i) : Before(f, e)
  /\ \A f \in Events \ Heard(i) :
        stage[f] = "published" /\ sender[f] # i /\ AfterBase(i, f) => f = e \/ Before(e, f)
  /\ heard' = [heard EXCEPT ![i] = Append(@, e)]
  /\ UNCHANGED <<stage, stamp, sender, attached, baseStamp, baseId>>

Next ==
  \/ \E e \in Events : Publish(e)
  \/ Expire
  \/ \E i \in Listeners : Attach(i) \/ \E e \in Events : Hear(i, e)

Spec == Init /\ [][Next]_vars

=============================================================================
