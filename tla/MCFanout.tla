------------------------------ MODULE MCFanout ------------------------------
(* Instances of Fanout for TLC.                                            *)
EXTENDS Fanout, TLC

CONSTANTS e1, s1, s2

\* s1 has a reply, a dead letter sink and one retry; s2 has none of them.
MCConfig ==
  s1 :> [url |-> TRUE, reply |-> TRUE, dls |-> TRUE, retries |-> 1] @@
  s2 :> [url |-> TRUE, reply |-> FALSE, dls |-> FALSE, retries |-> 0]

\* One subscription with everything, one whose destination has no URL.
MCConfigNoURL ==
  s1 :> [url |-> TRUE, reply |-> TRUE, dls |-> TRUE, retries |-> 1] @@
  s2 :> [url |-> FALSE, reply |-> FALSE, dls |-> TRUE, retries |-> 0]

=============================================================================
