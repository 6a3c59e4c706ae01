----------------------------- MODULE JwtToRbac -----------------------------
(***************************************************************************)
(* The process jwt-to-rbac over its lifetimes: the requests that Shutdown  *)
(* counts are the POSTs of users whose names RbacResources derives.  A     *)
(* process that ends leaves what it has made in the cluster, and the next  *)
(* one, perhaps with another configuration, goes on from there.            *)
(***************************************************************************)
EXTENDS Shutdown, RbacResources

ASSUME RequestsOfUsers == Requests = Users

vars == <<shutdownVars, namesVars>>

Init == ProcessInit /\ NamesInit
-----------------------------------------------------------------------------
\* A request whose token is refused begins nothing.
Accepted(u) == Accept(u) /\ (Begin(u) \/ UNCHANGED namesVars)

\* The handler goes on although its connection was closed, as long as the process.
Works(u) == Alive /\ Call(u) /\ UNCHANGED shutdownVars

\* 201, 500, 400 or 401.
Created(u) == Answer(u) /\ Succeed(u)
Failed(u) == Answer(u) /\ Fail(u)
Refused(u) == Answer(u) /\ At(u, "idle") /\ UNCHANGED namesVars

\* DELETE /rbac/<account> of an administrator, perhaps accepted before a shutdown.
DeleteUser(account) ==
  /\ Alive /\ server # "unbound"
  /\ Delete(account)
  /\ UNCHANGED shutdownVars

\* The next process; Kubernetes restarts the pod, perhaps with a new ConfigMap.
Restart ==
  /\ ~Alive
  /\ Configure
  /\ server' \in NewServers /\ returned' = FALSE /\ main' = "group" /\ request' = NoRequests
  /\ timer' = "unset" /\ ending' = "no"

\* The end of the process is the end of its handlers.
OfProcess ==
  /\ Main \/ Signal \/ NoClient \/ ServeFails
  /\ IF Alive' THEN UNCHANGED namesVars ELSE Abandon

Next ==
  \/ OfProcess
  \/ \E u \in Users :
       Accepted(u) \/ Works(u) \/ Created(u) \/ Failed(u) \/ Refused(u)
  \/ \E a \in accounts : DeleteUser(a)
  \/ (\E b \in DOMAIN bindings : Collect(b)) /\ UNCHANGED shutdownVars
  \/ Restart

Spec == Init /\ [][Next]_vars

\* The main goroutine and the clock run on; a handler may take as long as it
\* likes, and nobody has to start the next process.
FairSpec == Spec /\ WF_vars(OfProcess /\ Main)
=============================================================================
