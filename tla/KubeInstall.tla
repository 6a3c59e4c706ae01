---------------------------- MODULE KubeInstall ----------------------------
(***************************************************************************)
(* The scripts that turn a host into a cluster: install-kubeadm.sh or        *)
(* install-k3sup.sh, both of which go on with install-kube-components.sh and *)
(* deploy-ingresses.sh, and nuke-kube.sh.                                    *)
(*                                                                          *)
(* A script is a sequence of commands that it runs one after another; one    *)
(* action is one of them, or a few with a common effect.  With "errexit" the *)
(* first that fails ends the script, and whoever runs it may run it again on *)
(* what it has left, or nuke the cluster first.  A command fails because of  *)
(* the state of host and cluster, or by a fault: with no effect ("error") or *)
(* with all of its effect ("lost"), also by ^C or a reboot.                  *)
(***************************************************************************)
EXTENDS Naturals, Sequences, FiniteSets

CONSTANTS
  Installers,   \* the installers in use, of "kubeadm" and "k3sup"
  Ingresses,    \* manifests in traefik-ingresses
  MaxFaults,    \* bound on commands that fail by a fault
  MaxNukes      \* bound on runs of nuke-kube.sh

ASSUME InstallersAssumption == Installers \subseteq {"kubeadm", "k3sup"}
ASSUME BoundsAssumption == {MaxFaults, MaxNukes} \subseteq Nat
ASSUME IngressesAssumption == IsFiniteSet(Ingresses)

VARIABLES
  installer,   \* the installer that is used on this host
  host,        \* what there is outside of the cluster
  cluster,     \* the cluster and what is in it
  status,      \* of the installer: idle, running, failed, done
  pos,         \* the command it is at
  faults,      \* faults left (the bound of this model)
  nukes        \* runs of nuke-kube.sh left (the bound of this model)

vars == <<installer, host, cluster, status, pos, faults, nukes>>
-----------------------------------------------------------------------------
Components == <<"traefik", "tools", "dashboard", "deleteBinding", "createBinding",
                "rook", "openldap", "nfs", "loki", "linkerd", "ingresses">>

\* The commands of a run.  The block that installs packages is skipped if
\* apt's list of the repository is there.
AptBlock == <<"aptKey", "aptList", "packages">>

Script(which, listed) ==
  (IF which = "k3sup" THEN <<"k3s", "k3sConfig">>
   ELSE (IF listed THEN <<>> ELSE AptBlock)
        \o <<"init", "removeConfig", "copyConfig", "overlay", "untaint">>)
    \o Components \o <<"ingresses">>

\* pos counts the commands that are left, this one included.
Commands(which) == Script(which, FALSE)
Command == LET s == Commands(installer) IN s[Len(s) + 1 - pos]
Length == Len(Script(installer, host.aptList))

At(command) == status = "running" /\ Command = command

NoCluster == [up |-> FALSE, tainted |-> FALSE, binding |-> "absent", nfs |-> "absent",
              objects |-> {}, ingresses |-> {}]

\* kubectl and helm reach the cluster that is there.
Reachable == cluster.up /\ host.kubeconfig = "current"
-----------------------------------------------------------------------------
Init ==
  /\ installer \in Installers
  /\ host = [aptList |-> FALSE, packages |-> FALSE, tools |-> FALSE, kubeconfig |-> "none"]
  /\ cluster = NoCluster
  /\ status = "idle"
  /\ pos = 0
  /\ faults = MaxFaults
  /\ nukes = MaxNukes

\* Somebody runs the installer, for the first time or once more.
Run ==
  /\ status # "running"
  /\ status' = "running"
  /\ pos' = Length
  /\ UNCHANGED <<installer, host, cluster, faults, nukes>>

Spend(outcome) ==
  /\ outcome # "done" => faults > 0
  /\ faults' = IF outcome = "done" THEN faults ELSE faults - 1

Proceed ==
  /\ status' = IF pos = 1 THEN "done" ELSE "running"
  /\ pos' = pos - 1

\* After a command that failed: errexit.  The mutant is a script without it.
IgnoreFailure == Proceed
Fail == status' = "failed" /\ pos' = 0

\* A command that works if "possible", and then leaves the host h and cluster c.
Try(command, possible, h, c) ==
  /\ At(command)
  /\ \E outcome \in {"done", "error", "lost"} :
       LET applied == possible /\ outcome # "error" IN
       /\ Spend(outcome)
       /\ host' = IF applied THEN h ELSE host
       /\ cluster' = IF applied THEN c ELSE cluster
       /\ IF applied /\ outcome = "done" THEN Proceed ELSE Fail
  /\ UNCHANGED <<installer, nukes>>

OnHost(command, possible, h) == Try(command, possible, h, cluster)
InCluster(command, possible, c) == Try(command, Reachable /\ possible, host, c)

Apply(object) ==
  InCluster(object, TRUE, [cluster EXCEPT !.objects = @ \cup {object}])
-----------------------------------------------------------------------------
(* install-kubeadm.sh                                                       *)

AptKey == OnHost("aptKey", TRUE, host)
AptList == OnHost("aptList", TRUE, [host EXCEPT !.aptList = TRUE])
Packages == OnHost("packages", TRUE, [host EXCEPT !.packages = TRUE])

\* kubeadm init, with all errors of the preflight ignored: on a cluster that is
\* up it keeps the certificates and marks the node with its taint again.
KubeadmInit ==
  Try("init", host.packages, host, [cluster EXCEPT !.up = TRUE, !.tainted = TRUE])

\* rm -rf $HOME/.kube; the mutant drops it.
KeepConfig(h) == h
WithoutConfig(h) == [h EXCEPT !.kubeconfig = "none"]

RemoveConfig == OnHost("removeConfig", TRUE, WithoutConfig(host))

\* cp -i does not write over a file that is there.
CopyConfig ==
  OnHost("copyConfig", TRUE,
         [host EXCEPT !.kubeconfig = IF @ = "none" THEN "current" ELSE @])

Overlay == Apply("overlay")

\* kubectl taint ... node-role.kubernetes.io/master- fails if no node has it.
Untaint == InCluster("untaint", cluster.tainted, [cluster EXCEPT !.tainted = FALSE])
-----------------------------------------------------------------------------
(* install-k3sup.sh                                                         *)

K3s == Try("k3s", TRUE, host, [cluster EXCEPT !.up = TRUE])
K3sConfig == OnHost("k3sConfig", cluster.up, [host EXCEPT !.kubeconfig = "current"])
-----------------------------------------------------------------------------
(* install-kube-components.sh                                               *)

Traefik == Apply("traefik")

\* helm and minio-mc.
Tools == OnHost("tools", TRUE, [host EXCEPT !.tools = TRUE])

\* The dashboard's manifest holds a binding to a plain role, which is deleted
\* and created again for cluster-admin.  A binding's role is immutable, so
\* that applying the manifest fails once the binding is the second one.
Dashboard ==
  InCluster("dashboard", cluster.binding # "admin",
            [cluster EXCEPT !.binding = "plain", !.objects = @ \cup {"dashboard"}])

DeleteBinding ==
  InCluster("deleteBinding", cluster.binding # "absent",
            [cluster EXCEPT !.binding = "absent"])

CreateBinding ==
  InCluster("createBinding", cluster.binding = "absent",
            [cluster EXCEPT !.binding = "admin"])

Rook == Apply("rook")
OpenLdap == Apply("openldap")

\* helm install --generate-name: the storage class of the chart has a fixed
\* name, so a second release, or one after half a release, fails.
Nfs ==
  \/ InCluster("nfs", host.tools /\ cluster.nfs = "absent",
               [cluster EXCEPT !.nfs = "installed"])
  \/ /\ At("nfs") /\ Reachable /\ host.tools /\ cluster.nfs = "absent"
     /\ Spend("error")
     /\ cluster' = [cluster EXCEPT !.nfs = "partial"]
     /\ Fail
     /\ UNCHANGED <<installer, host, nukes>>

CreateNamespace(n) ==
  InCluster(n, n \notin cluster.objects, [cluster EXCEPT !.objects = @ \cup {n}])

\* deploy-ingresses.sh has no errexit: it goes through all manifests, in any
\* order, and its status is that of the last.
DeployIngresses ==
  /\ At("ingresses")
  /\ \E failed \in SUBSET Ingresses, last \in Ingresses :
       /\ Cardinality(failed) <= faults
       /\ faults' = faults - Cardinality(failed)
       /\ cluster' = IF Reachable
                     THEN [cluster EXCEPT !.ingresses = @ \cup (Ingresses \ failed)]
                     ELSE cluster
       /\ IF Reachable /\ last \notin failed THEN Proceed ELSE Fail
  /\ UNCHANGED <<installer, host, nukes>>
-----------------------------------------------------------------------------
\* nuke-kube.sh: kubeadm reset.  The host keeps packages and kubeconfig.
Nuke ==
  /\ installer = "kubeadm"
  /\ status # "running"
  /\ host.packages /\ cluster.up
  /\ nukes > 0
  /\ nukes' = nukes - 1
  /\ cluster' = NoCluster
  /\ host' = [host EXCEPT !.kubeconfig = IF @ = "current" THEN "stale" ELSE @]
  /\ status' = "idle"
  /\ UNCHANGED <<installer, pos, faults>>
-----------------------------------------------------------------------------
Kubeadm == AptKey \/ AptList \/ Packages \/ KubeadmInit \/ RemoveConfig \/ CopyConfig
           \/ Overlay \/ Untaint
K3sup == K3s \/ K3sConfig
KubeComponents ==
  \/ Traefik \/ Tools \/ Dashboard \/ DeleteBinding \/ CreateBinding \/ Rook \/ OpenLdap
  \/ Nfs \/ CreateNamespace("loki") \/ CreateNamespace("linkerd") \/ DeployIngresses

Step == Kubeadm \/ K3sup \/ KubeComponents

Next == Run \/ Step \/ Nuke

Spec == Init /\ [][Next]_vars

\* A command that is started ends, and somebody runs an installer that failed.
FairSpec == Spec /\ WF_vars(Step) /\ WF_vars(Run)
-----------------------------------------------------------------------------
Objects == {"overlay", "traefik", "dashboard", "rook", "openldap", "loki", "linkerd"}

\* Type invariant.  From install-kube-components.sh on, there is a cluster and
\* kubectl reaches it.
TypeOK ==
  /\ installer \in Installers
  /\ host \in [aptList : BOOLEAN, packages : BOOLEAN, tools : BOOLEAN,
               kubeconfig : {"none", "stale", "current"}]
  /\ cluster \in [up : BOOLEAN, tainted : BOOLEAN,
                  binding : {"absent", "plain", "admin"},
                  nfs : {"absent", "partial", "installed"},
                  objects : SUBSET Objects, ingresses : SUBSET Ingresses]
  /\ status \in {"idle", "running", "failed", "done"}
  /\ pos \in 0..Len(Commands(installer))
  /\ faults \in 0..MaxFaults
  /\ nukes \in 0..MaxNukes
  /\ status = "running" <=> pos > 0
  /\ pos \in 1..Len(Components) + 1 => Reachable

\* An installer that ends without an error has installed everything but, perhaps,
\* ingresses: on the first run or a later one, before or after a nuke, whatever
\* earlier runs have left, and the kubeconfig is that of the cluster.
Complete ==
  status = "done" =>
    /\ Reachable /\ host.tools
    /\ ~cluster.tainted
    /\ cluster.binding = "admin"
    /\ cluster.nfs = "installed"
    /\ Objects \ (IF installer = "k3sup" THEN {"overlay"} ELSE {}) \subseteq cluster.objects

\* nuke-kube.sh is a way out of every failure but one: without a cluster, a run
\* that meets no fault installs it, whatever kubeconfig there is, unless apt's
\* list was written by a run that did not get as far as the packages.
Recoverable ==
  /\ installer = "kubeadm"
  /\ ~cluster.up
  /\ host.aptList => host.packages

Recovers == Recoverable /\ faults = 0 ~> status = "done"

\* README.md:57: "ingress is being created to it at the script start (see
\* ingress directory), so if all installed correctly, you just need to open up:
\* http://dashboard.mykube.awesome/".  An installer that ends with "ALL DONE!" and
\* without an error should have applied every ingress.
IngressesApplied == status = "done" => cluster.ingresses = Ingresses
=============================================================================
