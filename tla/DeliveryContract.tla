--------------------------- MODULE DeliveryContract ---------------------------
(***************************************************************************)
(* What a channel promises to a producer and to its subscribers, without   *)
(* saying how: an event it takes in is owed to the subscriptions of that   *)
(* moment; each debt is settled once, either because the event was handed  *)
(* over or because delivery failed; and a synchronous channel accepts an   *)
(* event only when it owes it to nobody any more and failed nobody.        *)
(***************************************************************************)
CONSTANTS
  Events,
  Subs,
  Async

VARIABLES
  fate,     \* fate[e][s]: what became of event e for subscription s
  verdict   \* verdict[e]: what the producer of e was told

contractVars == <<fate, verdict>>

Settled == {"handedOver", "failed"}
Refusals == {"rejected", "serverError", "reset"}

Init ==
  /\ fate = [e \in Events |-> [s \in Subs |-> "none"]]
  /\ verdict = [e \in Events |-> "none"]

Untouched(e) == verdict[e] = "none" /\ \A s \in Subs : fate[e][s] = "none"

\* The channel takes e in for the subscriptions S; the deliveries in F fail
\* before they begin.
TakeIn(e, S, F) ==
  /\ Untouched(e)
  /\ fate' = [fate EXCEPT ![e] = [s \in Subs |->
                IF s \in F THEN "failed" ELSE IF s \in S THEN "owed" ELSE "none"]]
  /\ verdict' = IF Async \/ S = {} THEN [verdict EXCEPT ![e] = "accepted"] ELSE verdict

\* One delivery is settled.
Settle(e, s, f) ==
  /\ fate[e][s] = "owed"
  /\ fate' = [fate EXCEPT ![e][s] = f]
  /\ UNCHANGED verdict

\* The producer is told that the event reached all it was owed to.
Accept(e) ==
  /\ verdict[e] = "none"
  /\ ~ Async
  /\ \A s \in Subs : fate[e][s] \in {"none", "handedOver"}
  /\ verdict' = [verdict EXCEPT ![e] = "accepted"]
  /\ UNCHANGED fate

\* The producer is told that it did not, or that nobody knows.
Refuse(e, r) ==
  /\ verdict[e] = "none"
  /\ verdict' = [verdict EXCEPT ![e] = r]
  /\ UNCHANGED fate

\* The channel forgets what it was doing.
Forget ==
  /\ fate' = [e \in Events |-> [s \in Subs |->
                IF fate[e][s] = "owed" THEN "failed" ELSE fate[e][s]]]
  /\ verdict' = [e \in Events |->
                   IF verdict[e] = "none" /\ ~ Untouched(e) THEN "reset" ELSE verdict[e]]

Next ==
  \/ \E e \in Events : \E S \in SUBSET Subs : \E F \in SUBSET S : TakeIn(e, S, F)
  \/ \E e \in Events, s \in Subs, f \in Settled : Settle(e, s, f)
  \/ \E e \in Events : Accept(e)
  \/ \E e \in Events, r \in Refusals : Refuse(e, r)
  \/ Forget

Spec == Init /\ [][Next]_contractVars

=============================================================================
