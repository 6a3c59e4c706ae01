------------------------- MODULE MCRbacProvisioning -------------------------
(* Instances of RbacProvisioning for TLC. *)
EXTENDS RbacProvisioning

\* A built-in role under its other name, a custom group and an unknown one.
MCGroups == {"admins", "dev", "nobody"}
MCConfigGroups == {"dev", "admins"}
=============================================================================
