------------------------- MODULE MCNodeProvisioning -------------------------
(* Instances for the runs of NodeProvisioning. *)
EXTENDS NodeProvisioning

\* No node other than the master is told apart.
TwoNodes == {1, 2}
OneNode == {1}
First == 1
=============================================================================
