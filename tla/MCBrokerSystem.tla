---------------------------- MODULE MCBrokerSystem ----------------------------
(***************************************************************************)
(* Small brokers for TLC.                                                  *)
(***************************************************************************)
EXTENDS BrokerSystem

MCSpecs == {[kind |-> "attributes", passes |-> {"a", "b"}],
            [kind |-> "many", passes |-> {"a"}]}

\* TTLs of producers: the smallest integer and an exhausted one.
MCTTLs == {-3, 0}

=============================================================================
