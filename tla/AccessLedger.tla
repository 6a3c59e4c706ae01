---------------------------- MODULE AccessLedger ----------------------------
(***************************************************************************)
(* What jwt-to-rbac promises about access, without accounts, UIDs, calls or *)
(* failures: users claim roles with their tokens, a claimed role may be     *)
(* granted, and a revocation takes away every grant of the account at once. *)
(* No role is granted that was not claimed.                                 *)
(***************************************************************************)
CONSTANTS SaNames, Roles

VARIABLES
  granted,   \* pairs <<account, role>> in force
  claimed    \* claimed[n]: roles claimed for n and not revoked since

vars == <<granted, claimed>>

Init ==
  /\ granted = {}
  /\ claimed = [n \in SaNames |-> {}]

Claim(n, R) ==
  /\ claimed' = [claimed EXCEPT ![n] = @ \cup R]
  /\ UNCHANGED granted

Grant(n, role) ==
  /\ role \in claimed[n]
  /\ granted' = granted \cup {<<n, role>>}
  /\ UNCHANGED claimed

\* Claims that overlap the revocation survive it, grants do not.
Revoke(n, R) ==
  /\ granted' = {b \in granted : b[1] # n}
  /\ claimed' = [claimed EXCEPT ![n] = R]

Next ==
  \E n \in SaNames :
    \/ \E R \in SUBSET Roles : Claim(n, R)
    \/ \E role \in Roles : Grant(n, role)
    \/ \E R \in SUBSET claimed[n] : Revoke(n, R)

Spec == Init /\ [][Next]_vars
=============================================================================
