--------------------------- MODULE MCKubeInstall ---------------------------
(* Instances of KubeInstall for TLC. *)
EXTENDS KubeInstall
=============================================================================
