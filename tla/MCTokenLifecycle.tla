-------------------------- MODULE MCTokenLifecycle --------------------------
(* Instances of TokenLifecycle for TLC. *)
EXTENDS TokenLifecycle

\* Expired at once, and after a second.
MCTTLs == {0, 2}
=============================================================================
