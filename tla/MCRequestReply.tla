---------------------------- MODULE MCRequestReply ----------------------------
(* Instances of RequestReply for TLC.                                      *)
EXTENDS RequestReply, TLC

CONSTANTS r1, r2, r3, e1, e2, i1, i2, k1

\* r2 is a retry of r1.
MCEventOf == r1 :> e1 @@ r2 :> e1 @@ r3 :> e2

MCIdOf == e1 :> i1 @@ e2 :> i2

=============================================================================
