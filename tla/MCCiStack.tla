----------------------------- MODULE MCCiStack -----------------------------
(* Instances of CiStack for TLC. *)
EXTENDS CiStack
=============================================================================
