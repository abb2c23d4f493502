-------------------------------- MODULE Optional --------------------------------
(***************************************************************************)
(* The value of what is not there, which the models of the processes       *)
(* share: nil pointers, objects that do not exist, calls not under way.    *)
(***************************************************************************)

CONSTANT None

=================================================================================
