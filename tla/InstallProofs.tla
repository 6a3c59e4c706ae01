---------------------------- MODULE InstallProofs ----------------------------
(***************************************************************************)
(* Proofs about KubeInstall, for any installers, ingresses and bounds: an  *)
(* installer that ends without an error has installed everything, whatever *)
(* runs, faults and nukes there were before.  Then about CiStack, on top   *)
(* of them: a first run of deploy-ci-stack.sh that nothing disturbs        *)
(* deploys everything, and later runs keep a registry that works.          *)
(***************************************************************************)
EXTENDS CiStack, FiniteSetTheorems, TLAPS

HostType == [aptList : BOOLEAN, packages : BOOLEAN, tools : BOOLEAN,
             kubeconfig : {"none", "stale", "current"}]
ClusterType == [up : BOOLEAN, tainted : BOOLEAN,
                binding : {"absent", "plain", "admin"},
                nfs : {"absent", "partial", "installed"},
                objects : SUBSET Objects, ingresses : SUBSET Ingresses]

\* The commands of the longest run, and of the commands that both installers end
\* with.
Longest == IF installer = "kubeadm" THEN 20 ELSE 14
Shared == 12

VarTypes ==
  /\ installer \in {"kubeadm", "k3sup"}
  /\ host \in HostType
  /\ cluster \in ClusterType
  /\ status \in {"idle", "running", "failed", "done"}
  /\ pos \in 0..Longest
  /\ status = "running" <=> pos > 0

Budget == installer \in Installers /\ faults \in 0..MaxFaults /\ nukes \in 0..MaxNukes

\* What install-kubeadm.sh has done to host h and cluster c when p of its commands
\* are left: there is a cluster after "init", no kubeconfig after "removeConfig",
\* the right one after "copyConfig".
KubeadmDone(p, h, c) ==
  /\ p <= 16 => c.up
  /\ p = 15 => h.kubeconfig = "none"
  /\ p <= 14 => h.kubeconfig = "current"
  /\ p <= 13 => "overlay" \in c.objects
  /\ p <= 12 => ~c.tainted

K3supDone(p, h, c) ==
  /\ p <= 13 => c.up
  /\ p <= 12 => h.kubeconfig = "current"

\* What install-kube-components.sh has done.
ComponentsDone(p, h, c) ==
  /\ p <= 11 => "traefik" \in c.objects
  /\ p <= 10 => h.tools
  /\ p <= 9 => "dashboard" \in c.objects
  /\ p <= 7 => c.binding = "admin"
  /\ p <= 6 => "rook" \in c.objects
  /\ p <= 5 => "openldap" \in c.objects
  /\ p <= 4 => c.nfs = "installed"
  /\ p <= 3 => "loki" \in c.objects
  /\ p <= 2 => "linkerd" \in c.objects

WorkDone(p, h, c) ==
  /\ installer = "kubeadm" => KubeadmDone(p, h, c)
  /\ installer = "k3sup" => K3supDone(p, h, c)
  /\ ComponentsDone(p, h, c)

\* Only kubeadm marks a node.
Untainted(c) == installer = "k3sup" => ~c.tainted

\* A run that goes on, or is done, has done the work of its commands so far.
RunInv ==
  /\ status \in {"running", "done"} => WorkDone(pos, host, cluster)
  /\ Untainted(cluster)

InstallInv == VarTypes /\ RunInv
-----------------------------------------------------------------------------
(* the script                                                              *)

LEMMA KubeadmCommands ==
  ASSUME NEW s, s = Commands("kubeadm")
  PROVE  /\ Len(s) = 20
         /\ s[1] = "aptKey" /\ s[2] = "aptList" /\ s[3] = "packages" /\ s[4] = "init"
         /\ s[5] = "removeConfig" /\ s[6] = "copyConfig" /\ s[7] = "overlay"
         /\ s[8] = "untaint" /\ s[9] = "traefik" /\ s[10] = "tools"
         /\ s[11] = "dashboard" /\ s[12] = "deleteBinding" /\ s[13] = "createBinding"
         /\ s[14] = "rook" /\ s[15] = "openldap" /\ s[16] = "nfs" /\ s[17] = "loki"
         /\ s[18] = "linkerd" /\ s[19] = "ingresses" /\ s[20] = "ingresses"
  BY DEF Commands, Script, AptBlock, Components

LEMMA K3supCommands ==
  ASSUME NEW s, s = Commands("k3sup")
  PROVE  /\ Len(s) = 14
         /\ s[1] = "k3s" /\ s[2] = "k3sConfig" /\ s[3] = "traefik" /\ s[4] = "tools"
         /\ s[5] = "dashboard" /\ s[6] = "deleteBinding" /\ s[7] = "createBinding"
         /\ s[8] = "rook" /\ s[9] = "openldap" /\ s[10] = "nfs" /\ s[11] = "loki"
         /\ s[12] = "linkerd" /\ s[13] = "ingresses" /\ s[14] = "ingresses"
  BY DEF Commands, Script, AptBlock, Components

LEMMA Lengths ==
  /\ Len(Components) + 1 = Shared
  /\ host.aptList \in BOOLEAN => /\ installer = "kubeadm" => Length \in 17..20
                                 /\ installer = "k3sup" => Length = 14
  BY DEF Script, AptBlock, Components, Shared, Length

\* Where a run is when it is at a command.
LEMMA Position ==
  ASSUME VarTypes
  PROVE  /\ At("aptKey") => installer = "kubeadm" /\ pos = 20
         /\ At("aptList") => installer = "kubeadm" /\ pos = 19
         /\ At("packages") => installer = "kubeadm" /\ pos = 18
         /\ At("init") => installer = "kubeadm" /\ pos = 17
         /\ At("removeConfig") => installer = "kubeadm" /\ pos = 16
         /\ At("copyConfig") => installer = "kubeadm" /\ pos = 15
         /\ At("overlay") => installer = "kubeadm" /\ pos = 14
         /\ At("untaint") => installer = "kubeadm" /\ pos = 13
         /\ At("k3s") => installer = "k3sup" /\ pos = 14
         /\ At("k3sConfig") => installer = "k3sup" /\ pos = 13
         /\ At("traefik") => pos = 12
         /\ At("tools") => pos = 11
         /\ At("dashboard") => pos = 10
         /\ At("deleteBinding") => pos = 9
         /\ At("createBinding") => pos = 8
         /\ At("rook") => pos = 7
         /\ At("openldap") => pos = 6
         /\ At("nfs") => pos = 5
         /\ At("loki") => pos = 4
         /\ At("linkerd") => pos = 3
         /\ At("ingresses") => pos \in 1..2
  <1>1. CASE installer = "kubeadm"
    <2>0. status = "running" => pos \in 1..20
      BY <1>1 DEF VarTypes, Longest
    <2>1. Command = Commands("kubeadm")[21 - pos]
      <3>1. Len(Commands("kubeadm")) = 20
        BY KubeadmCommands
      <3>2. Command = Commands(installer)[Len(Commands(installer)) + 1 - pos]
        BY Zenon DEF Command
      <3>3. 20 + 1 - pos = 21 - pos
        BY DEF VarTypes
      <3> QED BY <1>1, <3>1, <3>2, <3>3, Zenon
    <2>2. /\ (pos = 20 => Command = "aptKey")
          /\ (pos = 19 => Command = "aptList")
          /\ (pos = 18 => Command = "packages")
          /\ (pos = 17 => Command = "init")
          /\ (pos = 16 => Command = "removeConfig")
          /\ (pos = 15 => Command = "copyConfig")
          /\ (pos = 14 => Command = "overlay")
          /\ (pos = 13 => Command = "untaint")
          /\ (pos = 12 => Command = "traefik")
          /\ (pos = 11 => Command = "tools")
          /\ (pos = 10 => Command = "dashboard")
          /\ (pos = 9 => Command = "deleteBinding")
          /\ (pos = 8 => Command = "createBinding")
          /\ (pos = 7 => Command = "rook")
          /\ (pos = 6 => Command = "openldap")
          /\ (pos = 5 => Command = "nfs")
          /\ (pos = 4 => Command = "loki")
          /\ (pos = 3 => Command = "linkerd")
          /\ (pos = 2 => Command = "ingresses")
          /\ (pos = 1 => Command = "ingresses")
      BY <2>1, KubeadmCommands
    <2> QED BY <1>1, <2>0, <2>2 DEF At
  <1>2. CASE installer = "k3sup"
    <2>0. status = "running" => pos \in 1..14
      BY <1>2 DEF VarTypes, Longest
    <2>1. Command = Commands("k3sup")[15 - pos]
      <3>1. Len(Commands("k3sup")) = 14
        BY K3supCommands
      <3>2. Command = Commands(installer)[Len(Commands(installer)) + 1 - pos]
        BY Zenon DEF Command
      <3>3. 14 + 1 - pos = 15 - pos
        BY DEF VarTypes
      <3> QED BY <1>2, <3>1, <3>2, <3>3, Zenon
    <2>2. /\ (pos = 14 => Command = "k3s")
          /\ (pos = 13 => Command = "k3sConfig")
          /\ (pos = 12 => Command = "traefik")
          /\ (pos = 11 => Command = "tools")
          /\ (pos = 10 => Command = "dashboard")
          /\ (pos = 9 => Command = "deleteBinding")
          /\ (pos = 8 => Command = "createBinding")
          /\ (pos = 7 => Command = "rook")
          /\ (pos = 6 => Command = "openldap")
          /\ (pos = 5 => Command = "nfs")
          /\ (pos = 4 => Command = "loki")
          /\ (pos = 3 => Command = "linkerd")
          /\ (pos = 2 => Command = "ingresses")
          /\ (pos = 1 => Command = "ingresses")
      BY <2>1, K3supCommands
    <2> QED BY <1>2, <2>0, <2>2 DEF At
  <1> QED BY <1>1, <1>2 DEF VarTypes
-----------------------------------------------------------------------------
(* the commands                                                            *)

\* A command leaves h and c and the run goes on, or the run fails.
LEMMA TryOutcomes ==
  ASSUME NEW command, NEW possible, NEW h, NEW c, Try(command, possible, h, c)
  PROVE  /\ status = "running" /\ Command = command
         /\ UNCHANGED <<installer, nukes>>
         /\ \E outcome \in {"done", "error", "lost"} : Spend(outcome)
         /\ host' \in {host, h} /\ cluster' \in {cluster, c}
         /\ Fail \/ (possible /\ Proceed /\ host' = h /\ cluster' = c)
  BY DEF Try, At

LEMMA SpendBudget ==
  ASSUME Budget, NEW outcome, Spend(outcome)
  PROVE  faults' \in 0..MaxFaults
  <1>1. MaxFaults \in Nat
    BY BoundsAssumption
  <1> QED BY <1>1 DEF Budget, Spend

\* What a command must do for the invariant: its part of the work.
LEMMA TryInv ==
  ASSUME InstallInv, NEW command, NEW possible, NEW h \in HostType, NEW c \in ClusterType,
         Try(command, possible, h, c), Untainted(c),
         possible => WorkDone(pos - 1, h, c)
  PROVE  InstallInv'
  <1>1. /\ status = "running" /\ pos \in 1..Longest /\ installer' = installer
        /\ host' \in HostType /\ cluster' \in ClusterType /\ Untainted(cluster')
    BY TryOutcomes DEF InstallInv, VarTypes, RunInv
  <1>2. CASE Fail
    BY <1>1, <1>2 DEF Fail, InstallInv, VarTypes, RunInv, Longest, Untainted
  <1>3. CASE possible /\ Proceed /\ host' = h /\ cluster' = c
    <2>1. pos' = pos - 1 /\ pos' \in 0..Longest /\ status' \in {"running", "done"}
          /\ (status' = "running" <=> pos' > 0)
      BY <1>1, <1>3 DEF Proceed, Longest
    <2>2. WorkDone(pos, host, cluster)'
      BY <1>1, <1>3, <2>1 DEF WorkDone
    <2> QED BY <1>1, <2>1, <2>2 DEF InstallInv, VarTypes, RunInv, Longest, Untainted
  <1> QED BY <1>2, <1>3, TryOutcomes

\* What is known at a command.
LEMMA AtCommand ==
  ASSUME InstallInv
  PROVE  /\ host \in HostType /\ cluster \in ClusterType /\ Untainted(cluster)
         /\ status = "running" => WorkDone(pos, host, cluster)
  BY DEF InstallInv, VarTypes, RunInv

LEMMA ObjectInv ==
  ASSUME InstallInv, NEW possible,
         NEW n \in {"overlay", "traefik", "rook", "openldap", "loki", "linkerd"},
         Try(n, possible, host, [cluster EXCEPT !.objects = @ \cup {n}])
  PROVE  InstallInv'
  <1> USE Position, AtCommand DEF WorkDone, KubeadmDone, K3supDone, ComponentsDone, Untainted
  <1>1. At(n)
    BY DEF Try
  <1>2. [cluster EXCEPT !.objects = @ \cup {n}] \in ClusterType
    BY DEF ClusterType, Objects
  <1>3. WorkDone(pos - 1, host, [cluster EXCEPT !.objects = @ \cup {n}])
    BY <1>1 DEF InstallInv, At, ClusterType
  <1>4. Untainted([cluster EXCEPT !.objects = @ \cup {n}])
    BY DEF ClusterType
  <1> QED BY <1>2, <1>3, <1>4, TryInv

LEMMA KubeadmInv ==
  ASSUME InstallInv, Kubeadm
  PROVE  InstallInv'
  <1> USE Position, AtCommand DEF WorkDone, KubeadmDone, K3supDone, ComponentsDone, Untainted
  <1>1. CASE AptKey
    <2>1. At("aptKey")
      BY <1>1 DEF AptKey, OnHost, Try
    <2>2. /\ WorkDone(pos - 1, host, cluster)
          /\ Untainted(cluster)
      BY <2>1 DEF InstallInv, At, HostType, ClusterType
    <2> QED BY <1>1, <2>2, TryInv DEF AptKey, OnHost
  <1>2. CASE AptList
    <2>1. At("aptList")
      BY <1>2 DEF AptList, OnHost, Try
    <2>2. [host EXCEPT !.aptList = TRUE] \in HostType
      BY DEF HostType
    <2>3. /\ WorkDone(pos - 1, [host EXCEPT !.aptList = TRUE], cluster)
          /\ Untainted(cluster)
      BY <2>1 DEF InstallInv, At, HostType, ClusterType
    <2> QED BY <1>2, <2>2, <2>3, TryInv DEF AptList, OnHost
  <1>3. CASE Packages
    <2>1. At("packages")
      BY <1>3 DEF Packages, OnHost, Try
    <2>2. [host EXCEPT !.packages = TRUE] \in HostType
      BY DEF HostType
    <2>3. /\ WorkDone(pos - 1, [host EXCEPT !.packages = TRUE], cluster)
          /\ Untainted(cluster)
      BY <2>1 DEF InstallInv, At, HostType, ClusterType
    <2> QED BY <1>3, <2>2, <2>3, TryInv DEF Packages, OnHost
  <1>4. CASE KubeadmInit
    <2>1. At("init")
      BY <1>4 DEF KubeadmInit, Try
    <2>2. [cluster EXCEPT !.up = TRUE, !.tainted = TRUE] \in ClusterType
      BY DEF ClusterType, Objects
    <2>3. /\ WorkDone(pos - 1, host, [cluster EXCEPT !.up = TRUE, !.tainted = TRUE])
          /\ Untainted([cluster EXCEPT !.up = TRUE, !.tainted = TRUE])
      BY <2>1 DEF InstallInv, At, HostType, ClusterType
    <2> QED BY <1>4, <2>2, <2>3, TryInv DEF KubeadmInit
  <1>5. CASE RemoveConfig
    <2>1. At("removeConfig")
      BY <1>5 DEF RemoveConfig, OnHost, Try
    <2>2. WithoutConfig(host) \in HostType
      BY DEF HostType, WithoutConfig
    <2>3. /\ WorkDone(pos - 1, WithoutConfig(host), cluster)
          /\ Untainted(cluster)
      BY <2>1 DEF InstallInv, At, WithoutConfig, HostType, ClusterType
    <2> QED BY <1>5, <2>2, <2>3, TryInv DEF RemoveConfig, OnHost
  <1>6. CASE CopyConfig
    <2>1. At("copyConfig")
      BY <1>6 DEF CopyConfig, OnHost, Try
    <2>2. [host EXCEPT !.kubeconfig = IF @ = "none" THEN "current" ELSE @] \in HostType
      BY DEF HostType
    <2>3. /\ WorkDone(pos - 1,
                      [host EXCEPT !.kubeconfig = IF @ = "none" THEN "current" ELSE @], cluster)
          /\ Untainted(cluster)
      BY <2>1 DEF InstallInv, At, HostType, ClusterType
    <2> QED BY <1>6, <2>2, <2>3, TryInv DEF CopyConfig, OnHost
  <1>7. CASE Overlay
    BY <1>7, ObjectInv DEF Overlay, Apply, InCluster
  <1>8. CASE Untaint
    <2>1. At("untaint")
      BY <1>8 DEF Untaint, InCluster, Try
    <2>2. [cluster EXCEPT !.tainted = FALSE] \in ClusterType
      BY DEF ClusterType, Objects
    <2>3. /\ WorkDone(pos - 1, host, [cluster EXCEPT !.tainted = FALSE])
          /\ Untainted([cluster EXCEPT !.tainted = FALSE])
      BY <2>1 DEF InstallInv, At, HostType, ClusterType
    <2> QED BY <1>8, <2>2, <2>3, TryInv DEF Untaint, InCluster
  <1> QED BY <1>1, <1>2, <1>3, <1>4, <1>5, <1>6, <1>7, <1>8 DEF Kubeadm

LEMMA K3supInv ==
  ASSUME InstallInv, K3sup
  PROVE  InstallInv'
  <1> USE Position, AtCommand DEF WorkDone, KubeadmDone, K3supDone, ComponentsDone, Untainted
  <1>1. CASE K3s
    <2>1. At("k3s")
      BY <1>1 DEF K3s, Try
    <2>2. [cluster EXCEPT !.up = TRUE] \in ClusterType
      BY DEF ClusterType, Objects
    <2>3. /\ WorkDone(pos - 1, host, [cluster EXCEPT !.up = TRUE])
          /\ Untainted([cluster EXCEPT !.up = TRUE])
      BY <2>1 DEF InstallInv, At, HostType, ClusterType
    <2> QED BY <1>1, <2>2, <2>3, TryInv DEF K3s
  <1>2. CASE K3sConfig
    <2>1. At("k3sConfig")
      BY <1>2 DEF K3sConfig, OnHost, Try
    <2>2. [host EXCEPT !.kubeconfig = "current"] \in HostType
      BY DEF HostType
    <2>3. /\ WorkDone(pos - 1, [host EXCEPT !.kubeconfig = "current"], cluster)
          /\ Untainted(cluster)
      BY <2>1 DEF InstallInv, At, HostType, ClusterType
    <2> QED BY <1>2, <2>2, <2>3, TryInv DEF K3sConfig, OnHost
  <1> QED BY <1>1, <1>2 DEF K3sup

LEMMA ComponentsInv ==
  ASSUME InstallInv, KubeComponents
  PROVE  InstallInv'
  <1> USE Position, AtCommand DEF WorkDone, KubeadmDone, K3supDone, ComponentsDone, Untainted
  <1>1. CASE Tools
    <2>1. At("tools")
      BY <1>1 DEF Tools, OnHost, Try
    <2>2. [host EXCEPT !.tools = TRUE] \in HostType
      BY DEF HostType
    <2>3. /\ WorkDone(pos - 1, [host EXCEPT !.tools = TRUE], cluster)
          /\ Untainted(cluster)
      BY <2>1 DEF InstallInv, At, HostType, ClusterType
    <2> QED BY <1>1, <2>2, <2>3, TryInv DEF Tools, OnHost
  <1>2. CASE Dashboard
    <2>1. At("dashboard")
      BY <1>2 DEF Dashboard, InCluster, Try
    <2>2. [cluster EXCEPT !.binding = "plain",
                            !.objects = @ \cup {"dashboard"}] \in ClusterType
      BY DEF ClusterType, Objects
    <2>3. /\ WorkDone(pos - 1, host, [cluster EXCEPT !.binding = "plain",
                            !.objects = @ \cup {"dashboard"}])
          /\ Untainted([cluster EXCEPT !.binding = "plain",
                            !.objects = @ \cup {"dashboard"}])
      BY <2>1 DEF InstallInv, At, HostType, ClusterType
    <2> QED BY <1>2, <2>2, <2>3, TryInv DEF Dashboard, InCluster
  <1>3. CASE DeleteBinding
    <2>1. At("deleteBinding")
      BY <1>3 DEF DeleteBinding, InCluster, Try
    <2>2. [cluster EXCEPT !.binding = "absent"] \in ClusterType
      BY DEF ClusterType, Objects
    <2>3. /\ WorkDone(pos - 1, host, [cluster EXCEPT !.binding = "absent"])
          /\ Untainted([cluster EXCEPT !.binding = "absent"])
      BY <2>1 DEF InstallInv, At, HostType, ClusterType
    <2> QED BY <1>3, <2>2, <2>3, TryInv DEF DeleteBinding, InCluster
  <1>4. CASE CreateBinding
    <2>1. At("createBinding")
      BY <1>4 DEF CreateBinding, InCluster, Try
    <2>2. [cluster EXCEPT !.binding = "admin"] \in ClusterType
      BY DEF ClusterType, Objects
    <2>3. /\ WorkDone(pos - 1, host, [cluster EXCEPT !.binding = "admin"])
          /\ Untainted([cluster EXCEPT !.binding = "admin"])
      BY <2>1 DEF InstallInv, At, HostType, ClusterType
    <2> QED BY <1>4, <2>2, <2>3, TryInv DEF CreateBinding, InCluster
  <1>5. CASE Traefik \/ Rook \/ OpenLdap \/ CreateNamespace("loki") \/ CreateNamespace("linkerd")
    BY <1>5, ObjectInv DEF Traefik, Rook, OpenLdap, CreateNamespace, Apply, InCluster
  <1>6. CASE Nfs
    <2>1. [cluster EXCEPT !.nfs = "installed"] \in ClusterType
      BY DEF ClusterType
    <2>2. At("nfs") => /\ WorkDone(pos - 1, host, [cluster EXCEPT !.nfs = "installed"])
                       /\ Untainted([cluster EXCEPT !.nfs = "installed"])
      BY DEF InstallInv, At, ClusterType
    <2>3. ASSUME InCluster("nfs", host.tools /\ cluster.nfs = "absent",
                           [cluster EXCEPT !.nfs = "installed"])
          PROVE  InstallInv'
      <3>1. At("nfs")
        BY <2>3 DEF InCluster, Try
      <3> QED BY <2>1, <2>2, <2>3, <3>1, TryInv DEF InCluster
    <2>4. ASSUME cluster' = [cluster EXCEPT !.nfs = "partial"], Fail,
                 UNCHANGED <<installer, host, nukes>>
          PROVE  InstallInv'
      BY <2>4 DEF Fail, InstallInv, VarTypes, RunInv, Longest, ClusterType
    <2> QED BY <1>6, <2>3, <2>4 DEF Nfs
  <1>7. CASE DeployIngresses
    <2>1. /\ At("ingresses") /\ UNCHANGED <<installer, host, nukes>>
          /\ \/ cluster' = cluster
             \/ \E failed \in SUBSET Ingresses :
                  cluster' = [cluster EXCEPT !.ingresses = @ \cup (Ingresses \ failed)]
          /\ Proceed \/ Fail
      BY <1>7 DEF DeployIngresses
    <2>2. cluster' \in ClusterType
      BY <2>1 DEF ClusterType
    <2>3. pos \in 1..2 /\ pos \in 1..Longest
      BY <2>1, Position DEF InstallInv, VarTypes, At, Longest
    <2>4. WorkDone(pos - 1, host', cluster')
      BY <2>1, <2>3 DEF InstallInv, At, ClusterType
    <2>5. Untainted(cluster')
      BY <2>1 DEF ClusterType
    <2>6. CASE Proceed
      <3>1. pos' = pos - 1 /\ pos' \in 0..Longest /\ status' \in {"running", "done"}
            /\ (status' = "running" <=> pos' > 0)
        BY <2>3, <2>6 DEF Proceed, Longest
      <3> QED BY <2>1, <2>2, <2>4, <2>5, <3>1 DEF InstallInv, VarTypes, RunInv, Longest
    <2>7. CASE Fail
      BY <2>1, <2>2, <2>5, <2>7 DEF Fail, InstallInv, VarTypes, RunInv, Longest
    <2> QED BY <2>1, <2>6, <2>7
  <1> QED BY <1>1, <1>2, <1>3, <1>4, <1>5, <1>6, <1>7 DEF KubeComponents

-----------------------------------------------------------------------------
\* Whoever runs an installer starts at its first command, and a nuke leaves nothing.
LEMMA RunNukeInv ==
  ASSUME InstallInv, Run \/ Nuke
  PROVE  InstallInv'
  <1>1. CASE Run
    <2>1. /\ installer = "kubeadm" => pos' \in 17..20
          /\ installer = "k3sup" => pos' = 14
      BY <1>1, Lengths DEF Run, InstallInv, VarTypes, HostType
    <2>2. WorkDone(pos', host, cluster)
      <3>1. CASE installer = "kubeadm"
        BY <2>1, <3>1 DEF WorkDone, KubeadmDone, ComponentsDone
      <3>2. CASE installer = "k3sup"
        BY <2>1, <3>2 DEF WorkDone, K3supDone, ComponentsDone
      <3> QED BY <3>1, <3>2 DEF InstallInv, VarTypes
    <2>3. pos' \in 1..Longest
      BY <2>1 DEF InstallInv, VarTypes, Longest
    <2> QED BY <1>1, <2>2, <2>3 DEF Run, InstallInv, VarTypes, RunInv, Longest, WorkDone,
               Untainted
  <1>2. CASE Nuke
    BY <1>2 DEF Nuke, NoCluster, InstallInv, VarTypes, RunInv, Longest, Untainted,
       HostType, ClusterType
  <1> QED BY <1>1, <1>2

LEMMA InstallInit == Init => InstallInv
  BY InstallersAssumption DEF Init, NoCluster, InstallInv, VarTypes, RunInv, Untainted,
     Longest, HostType, ClusterType

\* The invariant depends on nothing but the installer's own variables.
LEMMA InstallNext ==
  ASSUME InstallInv, Run \/ Step \/ Nuke
                       \/ UNCHANGED <<installer, host, cluster, status, pos>>
  PROVE  InstallInv'
  <1>1. CASE UNCHANGED <<installer, host, cluster, status, pos>>
    BY <1>1 DEF InstallInv, VarTypes, RunInv, Untainted, WorkDone, KubeadmDone,
       K3supDone, ComponentsDone, Longest
  <1> QED BY <1>1, KubeadmInv, K3supInv, ComponentsInv, RunNukeInv DEF Step

LEMMA InstallInvariant == Spec => []InstallInv
  <1>1. InstallInv /\ [Next]_vars => InstallInv'
    BY InstallNext DEF Next, vars
  <1> QED BY <1>1, InstallInit, PTL DEF Spec

LEMMA DoneMeansComplete == InstallInv => Complete
  BY DEF InstallInv, VarTypes, RunInv, WorkDone, KubeadmDone, K3supDone, ComponentsDone,
     Untainted, Complete, Reachable, Objects

\* An installer that ends without an error has installed everything but, perhaps,
\* ingresses.
THEOREM CompleteHolds == Spec => []Complete
  BY InstallInvariant, DoneMeansComplete, PTL
-----------------------------------------------------------------------------
\* The bounds are kept by every command: deploy-ingresses.sh spends a fault for each
\* manifest that it fails on.
LEMMA BudgetNext == Budget /\ [Next]_vars => Budget'
  <1> SUFFICES ASSUME Budget, [Next]_vars PROVE Budget'
    OBVIOUS
  <1>0. MaxFaults \in Nat /\ MaxNukes \in Nat
    BY BoundsAssumption
  <1>1. ASSUME NEW outcome, Spend(outcome), UNCHANGED <<installer, nukes>>
        PROVE  Budget'
    BY <1>1, SpendBudget DEF Budget
  <1>2. ASSUME NEW command, NEW possible, NEW h, NEW c, Try(command, possible, h, c)
        PROVE  Budget'
    BY <1>1, <1>2, TryOutcomes
  <1>3. CASE Kubeadm \/ K3sup
    BY <1>2, <1>3 DEF Kubeadm, K3sup, AptKey, AptList, Packages, KubeadmInit, RemoveConfig,
       CopyConfig, Overlay, Untaint, K3s, K3sConfig, OnHost, InCluster, Apply
  <1>4. CASE DeployIngresses
    <2>1. PICK failed \in SUBSET Ingresses :
            Cardinality(failed) <= faults /\ faults' = faults - Cardinality(failed)
      BY <1>4 DEF DeployIngresses
    <2>2. Cardinality(failed) \in Nat
      BY <2>1, IngressesAssumption, FS_Subset, FS_CardinalityType
    <2> QED BY <1>0, <1>4, <2>1, <2>2 DEF DeployIngresses, Budget
  <1>5. CASE Nfs
    BY <1>1, <1>2, <1>5 DEF Nfs, InCluster
  <1>6. CASE Traefik \/ Tools \/ Dashboard \/ DeleteBinding \/ CreateBinding \/ Rook
             \/ OpenLdap \/ CreateNamespace("loki") \/ CreateNamespace("linkerd")
    BY <1>2, <1>6 DEF Traefik, Tools, Dashboard, DeleteBinding, CreateBinding, Rook,
       OpenLdap, CreateNamespace, OnHost, InCluster, Apply
  <1>7. CASE Run \/ Nuke \/ UNCHANGED vars
    BY <1>0, <1>7 DEF Run, Nuke, vars, Budget
  <1> QED BY <1>3, <1>4, <1>5, <1>6, <1>7 DEF Next, Step, KubeComponents

\* The variables have their types, and from install-kube-components.sh on there is a
\* cluster that kubectl reaches.
THEOREM InstallTypeCorrect == Spec => []TypeOK
  <1>1. Init => Budget
    <2>1. MaxFaults \in Nat /\ MaxNukes \in Nat
      BY BoundsAssumption
    <2> QED BY <2>1 DEF Init, Budget
  <1>2. InstallInv /\ Budget => TypeOK
    <2> SUFFICES ASSUME InstallInv, Budget PROVE TypeOK
      OBVIOUS
    <2>1. Len(Commands(installer)) = Longest /\ Len(Components) + 1 = Shared
      BY Lengths, KubeadmCommands, K3supCommands DEF InstallInv, VarTypes, Longest
    <2>2. pos \in 1..Shared => Reachable
      BY DEF InstallInv, VarTypes, RunInv, WorkDone, KubeadmDone, K3supDone, Reachable,
         Shared, Longest
    <2> QED BY <2>1, <2>2 DEF TypeOK, InstallInv, VarTypes, Budget, HostType, ClusterType
  <1> QED BY <1>1, <1>2, BudgetNext, InstallInvariant, PTL DEF Spec
-----------------------------------------------------------------------------
(* the CI stack                                                            *)

Releases == {"absent", "partial", "installed"}
CheckoutType == [caKey : Nat, caCrt : Nat, crt : Nat \ {None}, tls : Nat]
FilesType == [checkout : CheckoutType, trusted : Nat]
StackType == [charts : [Charts -> Releases], pods : Nat, ready : BOOLEAN,
              secret : Nat, kubeconfig : {"none", "stale", "current"}]

CiTypes ==
  /\ files \in FilesType
  /\ stack \in StackType
  /\ deploy \in 0..11
  /\ keys \in Nat
  /\ clean \in BOOLEAN

\* The certificate of the CA in a checkout is that of its key.
CaInv == files.checkout.caCrt \in {None, files.checkout.caKey}

ChartAt(chart, s, since, d) == s.charts[chart] = IF d > since THEN "installed" ELSE "absent"

\* What an undisturbed first run has made of files f and stack s when it is at
\* command d, and that the rest is as it was.
Stage(d, f, s) ==
  /\ ChartAt("postgresql", s, 1, d) /\ ChartAt("minio", s, 2, d)
  /\ ChartAt("registry", s, 7, d) /\ ChartAt("gogs", s, 8, d) /\ ChartAt("drone", s, 9, d)
  /\ s.pods = IF d > 2 THEN 1 ELSE 0
  /\ d > 3 => /\ f.checkout.caCrt = f.checkout.caKey /\ f.checkout.crt = f.checkout.caKey
              /\ f.checkout.caKey # None
  /\ d > 4 => f.trusted = f.checkout.caCrt
  /\ d > 5 => f.checkout.tls = f.checkout.crt
  /\ s.secret = IF d > 6 THEN f.checkout.tls ELSE None
  /\ d > 10 => s.ready

\* The installer is done as long as the run is undisturbed.
StageInv == clean /\ Deploying => status = "done" /\ Stage(deploy, files, stack)

CiInv == CiTypes /\ CaInv /\ StageInv /\ CleanDeploy
-----------------------------------------------------------------------------
\* Where the script is when it is at a command.
LEMMA DeployPosition ==
  ASSUME CiTypes
  PROVE  /\ AtDeploy("postgresql") => deploy = 1
         /\ AtDeploy("minio") => deploy = 2
         /\ AtDeploy("make") => deploy = 3
         /\ AtDeploy("trust") => deploy = 4
         /\ AtDeploy("tls") => deploy = 5
         /\ AtDeploy("secret") => deploy = 6
         /\ AtDeploy("registry") => deploy = 7
         /\ AtDeploy("gogs") => deploy = 8
         /\ AtDeploy("drone") => deploy = 9
         /\ AtDeploy("waitMinio") => deploy = 10
         /\ AtDeploy("upload") => deploy = 11
  <1>1. /\ DeployScript[1] = "postgresql" /\ DeployScript[2] = "minio"
        /\ DeployScript[3] = "make" /\ DeployScript[4] = "trust"
        /\ DeployScript[5] = "tls" /\ DeployScript[6] = "secret"
        /\ DeployScript[7] = "registry" /\ DeployScript[8] = "gogs"
        /\ DeployScript[9] = "drone" /\ DeployScript[10] = "waitMinio"
        /\ DeployScript[11] = "upload"
    BY DEF DeployScript
  <1>2. \/ deploy = 0 \/ deploy = 1 \/ deploy = 2 \/ deploy = 3 \/ deploy = 4 \/ deploy = 5
        \/ deploy = 6 \/ deploy = 7 \/ deploy = 8 \/ deploy = 9 \/ deploy = 10 \/ deploy = 11
    BY DEF CiTypes
  <1> QED BY <1>1, <1>2 DEF AtDeploy, Deploying

LEMMA GoOnNext ==
  ASSUME CiTypes, Deploying, GoOn
  PROVE  /\ deploy \in 1..11 /\ deploy' \in 0..11
         /\ deploy = 11 => deploy' = 0
         /\ deploy # 11 => deploy' = deploy + 1
  BY DEF CiTypes, Deploying, GoOn, DeployScript

Base == <<installer, host, cluster, status, pos>>

\* What a command of the script leads to.
LEMMA AttemptOutcomes ==
  ASSUME NEW command, NEW possible, NEW f, NEW s, clean \in BOOLEAN,
         Attempt(command, possible, f, s)
  PROVE  /\ AtDeploy(command) /\ GoOn /\ UNCHANGED Base /\ UNCHANGED keys
         /\ files' \in {files, f} /\ stack' \in {stack, s} /\ clean' \in BOOLEAN
         /\ clean' => clean
         /\ clean' /\ possible => files' = f /\ stack' = s
         /\ ~possible => UNCHANGED <<files, stack>>
  BY DEF Attempt, Base

\* What a command other than the last must do for the invariant: if it is undisturbed,
\* it works, and is a stage of the run.
LEMMA AttemptInv ==
  ASSUME CiInv, NEW command, NEW possible, NEW f \in FilesType,
         NEW s \in StackType, Attempt(command, possible, f, s), deploy # 11,
         f.checkout.caCrt \in {None, f.checkout.caKey},
         clean /\ status = "done" /\ Stage(deploy, files, stack)
           => possible /\ Stage(deploy + 1, f, s)
  PROVE  CiInv'
  <1>0. /\ AtDeploy(command) /\ GoOn /\ UNCHANGED Base /\ UNCHANGED keys
        /\ files' \in {files, f} /\ stack' \in {stack, s} /\ clean' \in BOOLEAN
        /\ clean' => clean
        /\ clean' /\ possible => files' = f /\ stack' = s
    <2>1. clean \in BOOLEAN
      BY DEF CiInv, CiTypes
    <2> QED BY <2>1, AttemptOutcomes
  <1>1. Deploying
    BY <1>0 DEF AtDeploy
  <1>2. deploy \in 1..10 /\ deploy' = deploy + 1
    BY <1>0, <1>1, GoOnNext DEF CiInv
  <1>3. CiTypes' /\ CaInv'
    BY <1>0, <1>2 DEF CiInv, CiTypes, CaInv
  <1>4. StageInv'
    <2> SUFFICES ASSUME clean' PROVE status' = "done" /\ Stage(deploy', files', stack')
      BY DEF StageInv
    <2>1. clean /\ status = "done" /\ Stage(deploy, files, stack)
      BY <1>0, <1>1 DEF CiInv, StageInv
    <2> QED BY <1>0, <1>2, <2>1 DEF Base
  <1>5. CleanDeploy'
    BY <1>2 DEF CleanDeploy, Deploying
  <1> QED BY <1>3, <1>4, <1>5 DEF CiInv

\* A step that is disturbed only has to keep the types.
LEMMA Disturbed ==
  ASSUME CiTypes', CaInv', ~clean'
  PROVE  CiInv'
  BY DEF CiInv, StageInv, CleanDeploy

\* The kubectl and helm of an undisturbed run reach the cluster of the installer.
LEMMA Installed ==
  ASSUME InstallInv, status = "done"
  PROVE  Reachable /\ host.tools /\ host.kubeconfig = "current"
  BY DoneMeansComplete DEF Complete, Reachable
-----------------------------------------------------------------------------
(* the commands                                                            *)

LEMMA TrustInv ==
  ASSUME CiInv, Trust
  PROVE  CiInv'
  <1> DEFINE f == [files EXCEPT !.trusted = files.checkout.caCrt]
             possible == files.checkout.caCrt # None
  <1>1. deploy = 4
    BY DeployPosition DEF CiInv, Trust, Attempt
  <1>2. f \in FilesType /\ f.checkout = files.checkout /\ f.trusted = files.checkout.caCrt
    BY DEF CiInv, CiTypes, FilesType, CheckoutType
  <1>3. Stage(deploy, files, stack) => possible /\ Stage(deploy + 1, f, stack)
    BY <1>1, <1>2 DEF Stage, ChartAt
  <1>4. stack \in StackType /\ f.checkout.caCrt \in {None, f.checkout.caKey}
    BY <1>2 DEF CiInv, CiTypes, CaInv
  <1>5. Attempt("trust", possible, f, stack)
    BY DEF Trust
  <1> HIDE DEF f, possible
  <1> QED BY <1>1, <1>2, <1>3, <1>4, <1>5, AttemptInv

LEMMA CopyTlsInv ==
  ASSUME CiInv, CopyTls
  PROVE  CiInv'
  <1> DEFINE f == [files EXCEPT !.checkout.tls = files.checkout.crt]
             possible == TRUE
  <1>1. deploy = 5 /\ deploy # 11
    BY DeployPosition DEF CiInv, CopyTls, Attempt
  <1>2. /\ f \in FilesType /\ f.trusted = files.trusted
        /\ f.checkout = [files.checkout EXCEPT !.tls = files.checkout.crt]
    BY DEF CiInv, CiTypes, FilesType, CheckoutType, None
  <1>3. /\ f.checkout.caKey = files.checkout.caKey /\ f.checkout.caCrt = files.checkout.caCrt
        /\ f.checkout.crt = files.checkout.crt /\ f.checkout.tls = files.checkout.crt
    BY <1>2 DEF CiInv, CiTypes, FilesType, CheckoutType
  <1>4. Stage(deploy, files, stack) => possible /\ Stage(deploy + 1, f, stack)
    BY <1>1, <1>2, <1>3 DEF Stage, ChartAt
  <1>5. stack \in StackType /\ f.checkout.caCrt \in {None, f.checkout.caKey}
    BY <1>3 DEF CiInv, CiTypes, CaInv
  <1>6. Attempt("tls", possible, f, stack)
    BY DEF CopyTls
  <1> HIDE DEF f, possible
  <1> QED BY <1>1, <1>2, <1>4, <1>5, <1>6, AttemptInv

LEMMA SecretInv ==
  ASSUME CiInv, InstallInv, CreateSecret
  PROVE  CiInv'
  <1> DEFINE s == [stack EXCEPT !.secret = files.checkout.tls]
             possible == Reachable /\ stack.secret = None /\ files.checkout.tls # None
  <1>1. deploy = 6
    BY DeployPosition DEF CiInv, CreateSecret, Attempt
  <1>2. /\ s \in StackType /\ s.charts = stack.charts /\ s.pods = stack.pods
        /\ s.ready = stack.ready /\ s.secret = files.checkout.tls
    BY DEF CiInv, CiTypes, StackType, FilesType, CheckoutType
  <1>3. status = "done" /\ Stage(deploy, files, stack) => possible /\ Stage(deploy + 1, files, s)
    BY <1>1, <1>2, Installed DEF Stage, ChartAt
  <1>4. files \in FilesType /\ files.checkout.caCrt \in {None, files.checkout.caKey}
    BY DEF CiInv, CiTypes, CaInv
  <1>5. Attempt("secret", possible, files, s)
    BY DEF CreateSecret
  <1> HIDE DEF s, possible
  <1> QED BY <1>1, <1>2, <1>3, <1>4, <1>5, AttemptInv

\* A chart and the commands before and after it.
LEMMA ChartStage ==
  ASSUME CiInv, NEW c \in Charts, AtDeploy(c), NEW s \in StackType,
         s.charts = [stack.charts EXCEPT ![c] = "installed"], s.pods = Pods(c, 1),
         c # "minio" => s.ready = stack.ready, s.secret = stack.secret,
         Stage(deploy, files, stack)
  PROVE  FirstRelease(c) /\ Stage(deploy + 1, files, s)
  <1> USE DEF Stage, ChartAt, FirstRelease, Pods
  <1>0. stack.charts \in [Charts -> Releases]
    BY DEF CiInv, CiTypes, StackType
  <1>1. CASE c = "postgresql"
    BY <1>0, <1>1, DeployPosition DEF CiInv, Charts
  <1>2. CASE c = "minio"
    BY <1>0, <1>2, DeployPosition DEF CiInv, Charts
  <1>3. CASE c = "registry"
    BY <1>0, <1>3, DeployPosition DEF CiInv, Charts
  <1>4. CASE c = "gogs"
    BY <1>0, <1>4, DeployPosition DEF CiInv, Charts
  <1>5. CASE c = "drone"
    BY <1>0, <1>5, DeployPosition DEF CiInv, Charts
  <1> QED BY <1>1, <1>2, <1>3, <1>4, <1>5 DEF Charts

LEMMA ChartInv ==
  ASSUME CiInv, InstallInv, NEW c \in Charts, InstallChart(c)
  PROVE  CiInv'
  <1> DEFINE s == [stack EXCEPT !.charts[c] = "installed", !.pods = Pods(c, 1),
                                !.ready = @ /\ c # "minio"]
             possible == Reachable /\ host.tools /\ FirstRelease(c)
  <1>1. AtDeploy(c) /\ deploy # 11
    BY DeployPosition DEF InstallChart, Attempt, CiInv, Charts
  <1>2. CASE Attempt(c, possible, files, s)
    <2>1. Pods(c, 1) \in Nat
      BY DEF CiInv, CiTypes, StackType, Pods
    <2>2. /\ s \in StackType /\ s.pods = Pods(c, 1) /\ s.secret = stack.secret
          /\ s.charts = [stack.charts EXCEPT ![c] = "installed"]
          /\ c # "minio" => s.ready = stack.ready
      BY <2>1 DEF CiInv, CiTypes, StackType, Releases
    <2> HIDE DEF s
    <2>3. status = "done" /\ Stage(deploy, files, stack)
            => possible /\ Stage(deploy + 1, files, s)
      BY <1>1, <2>2, ChartStage, Installed
    <2>4. files \in FilesType /\ files.checkout.caCrt \in {None, files.checkout.caKey}
      BY DEF CiInv, CiTypes, CaInv
    <2> HIDE DEF possible
    <2> QED BY <1>1, <1>2, <2>2, <2>3, <2>4, AttemptInv
  <1>3. CASE ~Attempt(c, possible, files, s)
    <2>1. PICK n \in {0, 1} :
            /\ stack' = [stack EXCEPT !.charts[c] = "partial", !.pods = Pods(c, n),
                                      !.ready = @ /\ c # "minio"]
            /\ clean' = FALSE /\ GoOn /\ UNCHANGED <<files, keys>>
      BY <1>3 DEF InstallChart
    <2>2. Pods(c, n) \in Nat
      BY DEF CiInv, CiTypes, StackType, Pods
    <2>3. stack' \in StackType
      BY <2>1, <2>2 DEF CiInv, CiTypes, StackType, Releases
    <2>4. deploy' \in 0..11
      BY <1>1, <2>1, GoOnNext DEF CiInv, AtDeploy
    <2> QED BY <2>1, <2>3, <2>4, Disturbed DEF CiInv, CiTypes, CaInv
  <1> QED BY <1>2, <1>3

LEMMA MakeInv ==
  ASSUME CiInv, Make
  PROVE  CiInv'
  <1>1. deploy = 3 /\ Deploying
    BY DeployPosition DEF CiInv, Make, AtDeploy
  <1>2. deploy' = 4
    BY <1>1, GoOnNext DEF CiInv, Make
  <1>3. PICK made \in 0..3 :
          LET old == files.checkout
              key == IF made >= 1 THEN CaKey(old.caKey) ELSE old.caKey
              ca  == IF made >= 2 THEN key ELSE old.caCrt
              crt == IF made >= 3 THEN ca ELSE old.crt
          IN /\ files' = [files EXCEPT !.checkout =
                            [old EXCEPT !.caKey = key, !.caCrt = ca, !.crt = crt]]
             /\ keys' = IF key > keys THEN key ELSE keys
             /\ clean' = (clean /\ made = 3)
    BY DEF Make
  <1> DEFINE old == files.checkout
             key == IF made >= 1 THEN CaKey(old.caKey) ELSE old.caKey
             ca == IF made >= 2 THEN key ELSE old.caCrt
             crt == IF made >= 3 THEN ca ELSE old.crt
  <1>4. /\ key \in Nat /\ ca \in Nat /\ crt \in Nat \ {None}
        /\ ca \in {None, key}
        /\ made = 3 => key # None /\ ca = key /\ crt = key
    BY DEF CiInv, CiTypes, CaInv, FilesType, CheckoutType, CaKey, None
  <1>5. /\ files' = [files EXCEPT !.checkout =
                      [old EXCEPT !.caKey = key, !.caCrt = ca, !.crt = crt]]
        /\ keys' = IF key > keys THEN key ELSE keys
        /\ clean' = (clean /\ made = 3)
    BY <1>3
  <1> HIDE DEF key, ca, crt
  <1>6. /\ files' \in FilesType /\ files'.trusted = files.trusted
        /\ files'.checkout.caKey = key /\ files'.checkout.caCrt = ca
        /\ files'.checkout.crt = crt /\ files'.checkout.tls = old.tls
    <2>1. files \in FilesType /\ old \in CheckoutType
      BY DEF CiInv, CiTypes, FilesType
    <2> DEFINE new == [old EXCEPT !.caKey = key, !.caCrt = ca, !.crt = crt]
    <2>2. /\ new \in CheckoutType /\ new.caKey = key /\ new.caCrt = ca
          /\ new.crt = crt /\ new.tls = old.tls
      BY <1>4, <2>1 DEF CheckoutType
    <2>3. files' = [files EXCEPT !.checkout = new]
      BY <1>5
    <2> HIDE DEF new
    <2> QED BY <2>1, <2>2, <2>3 DEF FilesType
  <1>7. UNCHANGED <<stack, status>>
    BY DEF Make
  <1>8. CiTypes' /\ CaInv'
    <2>1. keys' \in Nat
      BY <1>4, <1>5 DEF CiInv, CiTypes
    <2>2. clean' \in BOOLEAN
      BY <1>5 DEF CiInv, CiTypes
    <2> QED BY <1>2, <1>4, <1>6, <1>7, <2>1, <2>2 DEF CiInv, CiTypes, CaInv
  <1>9. StageInv'
    <2> SUFFICES ASSUME clean' PROVE status' = "done" /\ Stage(deploy', files', stack')
      BY DEF StageInv
    <2>1. made = 3 /\ status = "done" /\ Stage(3, files, stack)
      BY <1>1, <1>5 DEF CiInv, StageInv
    <2>2. Stage(4, files', stack)
      BY <1>4, <1>6, <2>1 DEF Stage, ChartAt
    <2> QED BY <1>2, <1>7, <2>1, <2>2
  <1> QED BY <1>2, <1>8, <1>9 DEF CiInv, CleanDeploy, Deploying

LEMMA WaitInv ==
  ASSUME CiInv, WaitMinio
  PROVE  CiInv'
  <1>1. deploy = 10 /\ Deploying
    BY DeployPosition DEF CiInv, WaitMinio, AtDeploy
  <1>2. deploy' = 11
    BY <1>1, GoOnNext DEF CiInv, WaitMinio
  <1>3. UNCHANGED <<files, stack, keys, clean, status>> /\ stack.ready
    BY DEF WaitMinio, vars
  <1>4. Stage(10, files, stack) => Stage(11, files, stack)
    BY <1>3 DEF Stage, ChartAt
  <1> QED BY <1>1, <1>2, <1>3, <1>4 DEF CiInv, CiTypes, CaInv, StageInv, CleanDeploy,
              Deploying

\* The last command ends the run: everything is deployed.
LEMMA UploadInv ==
  ASSUME CiInv, InstallInv, Upload
  PROVE  CiInv'
  <1> DEFINE s == [stack EXCEPT !.kubeconfig = RootConfig]
             possible == Reachable /\ host.tools /\ stack.ready /\ RootConfig # "none"
  <1>1. clean \in BOOLEAN /\ Attempt("upload", possible, files, s)
    BY DEF Upload, CiInv, CiTypes
  <1>2. /\ s \in StackType /\ s.charts = stack.charts /\ s.secret = stack.secret
        /\ s.kubeconfig = RootConfig
    BY DEF CiInv, CiTypes, StackType, RootConfig, InstallInv, VarTypes, HostType
  <1> HIDE DEF s
  <1>3. /\ AtDeploy("upload") /\ GoOn /\ UNCHANGED Base /\ UNCHANGED <<keys, files>>
        /\ stack' \in {stack, s} /\ clean' \in BOOLEAN
        /\ clean' => clean
        /\ clean' /\ possible => stack' = s
    <2> HIDE DEF possible
    <2> QED BY <1>1, AttemptOutcomes
  <1>4. deploy = 11 /\ deploy' = 0 /\ Deploying
    BY <1>3, DeployPosition, GoOnNext DEF CiInv, AtDeploy
  <1>5. CiTypes' /\ CaInv'
    BY <1>2, <1>3, <1>4 DEF CiInv, CiTypes, CaInv
  <1>6. CleanDeploy'
    <2> SUFFICES ASSUME clean'
                 PROVE  /\ \A c \in Charts : stack'.charts[c] = "installed"
                        /\ Works'
                        /\ RootHome => stack'.kubeconfig = "current"
      BY DEF CleanDeploy
    <2>1. status = "done" /\ Stage(11, files, stack)
      BY <1>3, <1>4 DEF CiInv, StageInv
    <2>2. \A c \in Charts : stack.charts[c] = "installed"
      BY <2>1 DEF Stage, ChartAt, Charts
    <2>3. Works
      BY <2>1 DEF Stage, Works
    <2>4. RootHome => RootConfig = "current" /\ possible
      BY <2>1, Installed DEF Stage, RootConfig
    <2> QED BY <1>2, <1>3, <2>2, <2>3, <2>4 DEF Works
  <1> QED BY <1>4, <1>5, <1>6 DEF CiInv, StageInv, Deploying

\* A run that begins, or that is interrupted.
LEMMA StartStopInv ==
  ASSUME CiInv, StartDeploy \/ Interrupt
  PROVE  CiInv'
  <1>1. CASE StartDeploy
    <2>1. /\ deploy' = 1 /\ UNCHANGED <<files, stack, keys, status>>
          /\ clean' = (status = "done" /\ stack = NoStack)
      BY <1>1 DEF StartDeploy, vars
    <2>2. ASSUME stack = NoStack
          PROVE  Stage(1, files, stack)
      <3>1. /\ \A c \in Charts : stack.charts[c] = "absent"
            /\ stack.pods = 0 /\ stack.secret = None
        BY <2>2 DEF NoStack
      <3> QED BY <3>1 DEF Stage, ChartAt, Charts
    <2>3. CiTypes' /\ CaInv'
      <3>1. clean' \in BOOLEAN
        BY <2>1
      <3> QED BY <2>1, <3>1 DEF CiInv, CiTypes, CaInv
    <2>4. StageInv'
      <3> SUFFICES ASSUME clean' PROVE status' = "done" /\ Stage(deploy', files', stack')
        BY DEF StageInv
      <3>1. status = "done" /\ stack = NoStack
        BY <2>1
      <3> QED BY <2>1, <2>2, <3>1
    <2>5. Deploying'
      BY <2>1 DEF Deploying
    <2> QED BY <2>3, <2>4, <2>5 DEF CiInv, CleanDeploy
  <1>2. CASE Interrupt
    <2>1. UNCHANGED <<files, stack, keys>> /\ deploy' = 0 /\ clean' = FALSE
      BY <1>2 DEF Interrupt
    <2>2. CiTypes' /\ CaInv'
      <3>1. deploy' \in 0..11
        BY <2>1
      <3>2. clean' \in BOOLEAN
        BY <2>1
      <3> QED BY <2>1, <3>1, <3>2 DEF CiInv, CiTypes, CaInv
    <2> QED BY <2>1, <2>2, Disturbed
  <1> QED BY <1>1, <1>2

LEMMA StepRuns ==
  ASSUME Step
  PROVE  status = "running" /\ UNCHANGED installer
  BY DEF Step, Kubeadm, K3sup, KubeComponents, AptKey, AptList, Packages, KubeadmInit,
     RemoveConfig, CopyConfig, Overlay, Untaint, K3s, K3sConfig, Traefik, Tools, Dashboard,
     DeleteBinding, CreateBinding, Rook, OpenLdap, Nfs, CreateNamespace, DeployIngresses,
     OnHost, InCluster, Apply, Try, At

\* What happens around the script.
LEMMA WorldInv ==
  ASSUME CiInv, RunInstaller \/ InstallStep \/ NukeStack \/ MinioReady \/ Clone
  PROVE  CiInv'
  <1>1. CASE RunInstaller
    BY <1>1 DEF RunInstaller, Idle, ciVars, CiInv, CiTypes, CaInv, StageInv, CleanDeploy,
       Deploying, Works
  <1>2. CASE InstallStep
    <2>1. ~(clean /\ Deploying)
      BY <1>2, StepRuns DEF InstallStep, CiInv, StageInv
    <2> QED BY <1>2, <2>1 DEF InstallStep, ciVars, CiInv, CiTypes, CaInv, StageInv,
               CleanDeploy, Deploying, Works
  <1>3. CASE NukeStack
    <2>1. stack' \in StackType
      BY <1>3 DEF NukeStack, NoStack, StackType, Releases, None
    <2> QED BY <1>3, <2>1, Disturbed DEF NukeStack, CiInv, CiTypes, CaInv
  <1>4. CASE MinioReady
    <2>1. /\ UNCHANGED <<files, deploy, keys, clean, status>>
          /\ stack' = [stack EXCEPT !.ready = TRUE]
      BY <1>4 DEF MinioReady, vars
    <2>2. /\ stack' \in StackType /\ stack'.charts = stack.charts
          /\ stack'.pods = stack.pods /\ stack'.secret = stack.secret /\ stack'.ready
          /\ stack'.kubeconfig = stack.kubeconfig
      BY <2>1 DEF CiInv, CiTypes, StackType
    <2>3. Stage(deploy, files, stack) => Stage(deploy, files, stack')
      BY <2>2 DEF Stage, ChartAt
    <2> QED BY <2>1, <2>2, <2>3 DEF CiInv, CiTypes, CaInv, StageInv, CleanDeploy, Deploying,
               Works
  <1>5. CASE Clone
    <2>1. files' \in FilesType /\ files'.trusted = files.trusted /\ files'.checkout = Checkout
      BY <1>5 DEF Clone, CiInv, CiTypes, FilesType, CheckoutType, Checkout, None, Lost
    <2>2. UNCHANGED <<stack, deploy, keys, clean>> /\ ~Deploying
      BY <1>5 DEF Clone, Idle
    <2> QED BY <2>1, <2>2 DEF CiInv, CiTypes, CaInv, StageInv, CleanDeploy, Deploying, Works,
               Checkout, None
  <1> QED BY <1>1, <1>2, <1>3, <1>4, <1>5
-----------------------------------------------------------------------------
\* The deployment leaves the installer alone.
LEMMA CiKeepsInstall ==
  ASSUME InstallInv, [CiNext]_allVars
  PROVE  InstallInv'
  <1>1. RunInstaller \/ InstallStep \/ NukeStack => Run \/ Step \/ Nuke
    BY DEF RunInstaller, InstallStep, NukeStack
  <1>2. DeployStep => UNCHANGED Base
    BY DEF DeployStep, InstallChart, Make, Trust, CopyTls, CreateSecret, WaitMinio, Upload,
       Attempt, Base, vars
  <1>3. StartDeploy \/ Interrupt \/ MinioReady \/ Clone \/ UNCHANGED allVars => UNCHANGED Base
    BY DEF StartDeploy, Interrupt, MinioReady, Clone, allVars, vars, Base
  <1> QED BY <1>1, <1>2, <1>3, InstallNext DEF CiNext, Base

LEMMA CiNextInv == InstallInv /\ CiInv /\ [CiNext]_allVars => CiInv'
  <1> SUFFICES ASSUME InstallInv, CiInv, [CiNext]_allVars PROVE CiInv'
    OBVIOUS
  <1>1. CASE DeployStep
    BY <1>1, ChartInv, MakeInv, TrustInv, CopyTlsInv, SecretInv, WaitInv, UploadInv
       DEF DeployStep
  <1>2. CASE UNCHANGED allVars
    BY <1>2 DEF allVars, vars, ciVars, CiInv, CiTypes, CaInv, StageInv, CleanDeploy,
       Deploying, Works
  <1> QED BY <1>1, <1>2, StartStopInv, WorldInv DEF CiNext

LEMMA CiInvariant == CiSpec => [](InstallInv /\ CiInv)
  <1>1. CiInit => InstallInv
    BY InstallInit DEF CiInit
  <1>2. CiInit => CiInv
    <2>1. /\ [checkout |-> Checkout, trusted |-> None] \in FilesType
          /\ Checkout.caCrt = None
      BY DEF FilesType, CheckoutType, Checkout, None, Lost
    <2>2. NoStack \in StackType
      BY DEF StackType, Releases, NoStack, None
    <2>3. Lost \in Nat
      BY DEF Lost
    <2> SUFFICES ASSUME CiInit PROVE CiInv
      OBVIOUS
    <2>4. CiTypes
      <3>1. deploy \in 0..11
        BY DEF CiInit
      <3>2. clean \in BOOLEAN
        BY DEF CiInit
      <3> QED BY <2>1, <2>2, <2>3, <3>1, <3>2 DEF CiInit, CiTypes
    <2>5. CaInv
      BY <2>1 DEF CiInit, CaInv
    <2> QED BY <2>4, <2>5 DEF CiInit, CiInv, StageInv, CleanDeploy
  <1>3. InstallInv /\ [CiNext]_allVars => InstallInv'
    BY CiKeepsInstall
  <1> QED BY <1>1, <1>2, <1>3, CiNextInv, PTL DEF CiSpec

\* An undisturbed first run of the script on an installed cluster deploys everything.
THEOREM CleanDeployHolds == CiSpec => []CleanDeploy
  BY CiInvariant, PTL DEF CiInv

\* An installer that ends without an error has installed everything, also where the
\* CI stack is deployed and nuked with the cluster.
THEOREM CompleteInCi == CiSpec => []Complete
  BY CiInvariant, DoneMeansComplete, PTL
-----------------------------------------------------------------------------
\* A registry that works with the CA of the checkout: its key is there, so that make
\* keeps it, docker is given the same CA, and the secret is not made again.
LEMMA SettledStays ==
  ASSUME CiInv, Settled, [CiNext]_allVars, ~NukeStack, ~Clone
  PROVE  Settled'
  <1> USE DEF Settled, Works
  <1>0. /\ files \in FilesType /\ files.checkout \in CheckoutType /\ stack \in StackType
        /\ files.checkout.caKey # None /\ clean \in BOOLEAN
    BY DEF CiInv, CiTypes, FilesType
  <1>1. ASSUME NEW c \in Charts, InstallChart(c)
        PROVE  Settled'
    <2>1. UNCHANGED files /\ stack'.secret = stack.secret
      BY <1>0, <1>1 DEF InstallChart, Attempt, StackType
    <2> QED BY <2>1
  <1>2. CASE Make
    <2>1. PICK made \in 0..3, ca \in Nat, crt \in Nat :
            files' = [files EXCEPT !.checkout =
                        [files.checkout EXCEPT !.caKey = files.checkout.caKey,
                                               !.caCrt = ca, !.crt = crt]]
      BY <1>0, <1>2 DEF Make, CaKey, CheckoutType
    <2>2. files'.checkout.caKey = files.checkout.caKey /\ files'.trusted = files.trusted
      BY <1>0, <2>1 DEF FilesType, CheckoutType
    <2> QED BY <1>2, <2>2 DEF Make
  <1>3. CASE Trust
    <2>1. \/ UNCHANGED files
          \/ /\ files.checkout.caCrt # None
             /\ files' = [files EXCEPT !.trusted = files.checkout.caCrt]
      BY <1>3 DEF Trust, Attempt
    <2>2. files'.trusted = files.trusted /\ files'.checkout = files.checkout
      BY <1>0, <2>1 DEF CiInv, CaInv, FilesType
    <2> QED BY <1>3, <2>2 DEF Trust, Attempt
  <1>4. CASE CopyTls
    <2>1. files'.trusted = files.trusted /\ files'.checkout.caKey = files.checkout.caKey
      BY <1>0, <1>4 DEF CopyTls, Attempt, FilesType, CheckoutType
    <2> QED BY <1>4, <2>1 DEF CopyTls, Attempt
  <1>5. CASE CreateSecret
    <2>1. UNCHANGED <<files, stack>>
      BY <1>5 DEF CreateSecret, Attempt
    <2> QED BY <2>1
  <1>6. CASE WaitMinio \/ StartDeploy \/ Interrupt \/ RunInstaller \/ InstallStep
             \/ UNCHANGED allVars
    BY <1>6 DEF WaitMinio, StartDeploy, Interrupt, RunInstaller, InstallStep, allVars, ciVars
  <1>7. CASE Upload \/ MinioReady
    <2>1. UNCHANGED files /\ stack'.secret = stack.secret
      BY <1>0, <1>7 DEF Upload, Attempt, MinioReady, StackType
    <2> QED BY <2>1
  <1> QED BY <1>1, <1>2, <1>3, <1>4, <1>5, <1>6, <1>7 DEF CiNext, DeployStep

\* Running the script again does not break a registry that works.
THEOREM RerunKeepsHolds == CiSpec => RerunKeeps
  <1>1. InstallInv /\ CiInv /\ [CiNext]_allVars
          => [Settled /\ ~NukeStack /\ ~Clone => Settled']_allVars
    BY SettledStays
  <1> QED BY <1>1, CiInvariant, PTL DEF CiSpec, RerunKeeps
=============================================================================
