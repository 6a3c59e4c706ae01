--------------------------- MODULE MCSlapdStartup ---------------------------
(* Environments for the runs of SlapdStartup. *)
EXTENDS SlapdStartup

Plain == [tls |-> FALSE, enforce |-> FALSE, keep |-> FALSE, debug |-> FALSE,
          remove |-> TRUE, crt |-> "crtA", dh |-> "dhA", pw |-> "pwA",
          host |-> "ldap1", hosts |-> {}]

Secure == [Plain EXCEPT !.tls = TRUE, !.enforce = TRUE, !.pw = "pwB"]
Renamed == [Secure EXCEPT !.crt = "crtB", !.enforce = FALSE]
Replica == [Plain EXCEPT !.hosts = {"ldap1", "ldap2"}, !.pw = "pwB"]
Moved == [Replica EXCEPT !.hosts = {"ldap2", "ldap3"}, !.host = "ldap3"]
Debug == [Plain EXCEPT !.debug = TRUE]
Keep == [Plain EXCEPT !.keep = TRUE]

\* With every kind of container.
AllContainers == {Plain, Secure, Renamed, Replica, Moved, Debug, Keep}

\* Containers that configure, with TLS, replication and new names.
Upgrades == {Plain, Secure, Renamed, Replica, Moved}

\* Two containers with TLS whose DH parameters have different names.
DhRenamed == {Secure, [Secure EXCEPT !.dh = "dhB"]}
=============================================================================
