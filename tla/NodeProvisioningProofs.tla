----------------------- MODULE NodeProvisioningProofs -----------------------
(***************************************************************************)
(* Proofs about NodeProvisioning, for any number of nodes, applies and     *)
(* faults: the marker that the playbook writes in its last task stands for *)
(* all that it and bootstrap.sh install, on every node, and nothing is     *)
(* provisioned without it.                                                 *)
(***************************************************************************)
EXTENDS NodeProvisioning, TLAPS

All == {"docker", "git", "packages", "ldap"}

\* What a task leaves on the nodes it has run on: the task setup fails on a node
\* without docker.
Gives(task) ==
  CASE task = "setup" -> {"docker"} [] task = "packages" -> {"packages", "git"}
    [] task = "ldap" -> {"ldap"} [] OTHER -> {}

\* What the tasks before this one have left on every node.
Given(task) ==
  CASE task = "packages" -> {"docker"} [] task = "ldap" -> {"docker", "packages", "git"}
    [] task = "mark" -> All [] OTHER -> {}

\* While the playbook runs, its tasks have done their work one after another: all
\* those before, and the present one on the nodes in ran.
PlayInv ==
  play \in Tasks =>
    \A m \in Nodes : /\ Given(play) \subseteq node[m].soft
                     /\ m \in ran => Gives(play) \subseteq node[m].soft

\* The marker of the playbook on any node means that every node has everything.
MarkInv == \A n \in Nodes : Has(n, "ansible_done") => \A m \in Nodes : All \subseteq node[m].soft

\* Behind the wait of kube-bootstrap there is a marker.
WaitInv == \A n \in Nodes : kube[n] \in {"clone", "k3sup", "ci", "minio", "ok"} => Has(n, "ansible_done")

NodeInv == PlayInv /\ MarkInv /\ WaitInv

OnlyGrows ==
  \A n \in Nodes : /\ node[n].marks \subseteq node'[n].marks
                   /\ node[n].soft \subseteq node'[n].soft

TaskStep == \E n \in Nodes : Task(n)
-----------------------------------------------------------------------------
\* Type correctness is inductive.
LEMMA TypeInit == Init => NodeTypeOK
  BY NodeAssumption DEF Init, NodeTypeOK, NewNode, Markers, Software, KubeSteps, Idle

LEMMA TypeTerraform ==
  ASSUME NodeTypeOK, Apply \/ Interrupt
  PROVE  NodeTypeOK'
  <1>1. CASE Apply
    BY <1>1, NodeAssumption DEF Apply, NodeTypeOK, Started, KubeSteps, Idle, Tasks
  <1>2. CASE Interrupt
    <2>1. node' \in [Nodes -> [marks : SUBSET Markers, soft : SUBSET Software,
                               lock : {"free", "bootstrap"}]]
      BY <1>2 DEF Interrupt, NodeTypeOK
    <2> QED
      BY <1>2, <2>1 DEF Interrupt, NodeTypeOK, Tainted, Running, KubeSteps, Idle, Tasks
  <1> QED BY <1>1, <1>2

LEMMA TypeOnNode ==
  ASSUME NodeTypeOK, NEW n \in Nodes, OnNode(n)
  PROVE  NodeTypeOK'
  <1> USE DEF NodeTypeOK, KubeSteps, Idle
  <1>1. CASE Userdata(n) \/ TouchBootstrap(n)
    BY <1>1 DEF Userdata, TouchBootstrap, Mark, Go, Markers
  <1>2. CASE WaitUserdata(n) \/ WaitAnsible(n) \/ WaitMinio(n)
    BY <1>2 DEF WaitUserdata, WaitAnsible, WaitMinio, Go
  <1>3. ASSUME NEW step \in {"apt", "docker"}, TakeLock(n, step)
        PROVE  NodeTypeOK'
    <2>1. kube' \in [Nodes -> KubeSteps]
      BY <1>3 DEF TakeLock, Go, After
    <2> QED BY <1>3, <2>1 DEF TakeLock
  <1>4. ASSUME NEW step \in {"apt", "docker"}, NEW what \in Software, Installed(n, step, what)
        PROVE  NodeTypeOK'
    <2>1. kube' \in [Nodes -> KubeSteps]
      BY <1>4 DEF Installed, Go, After
    <2>2. faults' \in 0..MaxFaults
      BY <1>4, NodeAssumption DEF Installed, MayFail
    <2>3. node' \in [Nodes -> [marks : SUBSET Markers, soft : SUBSET Software,
                               lock : {"free", "bootstrap"}]]
      BY <1>4 DEF Installed
    <2> QED BY <1>4, <2>1, <2>2, <2>3 DEF Installed
  <1>5. CASE Clone(n) \/ Install(n) \/ CiStack(n)
    BY <1>5, NodeAssumption DEF Clone, Install, CiStack, Put, Fails, MayFail, Go, Software
  <1> QED BY <1>1, <1>2, <1>3, <1>4, <1>5 DEF OnNode, Software

LEMMA TypePlaying ==
  ASSUME NodeTypeOK, Playing
  PROVE  NodeTypeOK'
  <1> USE DEF NodeTypeOK, Tasks, Idle
  <1>1. CASE WaitMaster
    BY <1>1 DEF WaitMaster
  <1>2. CASE TasksDone
    BY <1>2 DEF TasksDone, NextTask
  <1>3. ASSUME NEW n \in Nodes, Task(n)
        PROVE  NodeTypeOK'
    <2>1. Effect(play, n) \in [Nodes -> [marks : SUBSET Markers, soft : SUBSET Software,
                                         lock : {"free", "bootstrap"}]]
      BY DEF Effect, Markers, Software
    <2> QED BY <1>3, <2>1, NodeAssumption DEF Task, MayFail
  <1> QED BY <1>1, <1>2, <1>3 DEF Playing

LEMMA TypeNext == NodeTypeOK /\ [Next]_vars => NodeTypeOK'
  <1> SUFFICES ASSUME NodeTypeOK, [Next]_vars PROVE NodeTypeOK'
    OBVIOUS
  <1>1. CASE UNCHANGED vars
    BY <1>1 DEF vars, NodeTypeOK
  <1> QED BY <1>1, TypeTerraform, TypeOnNode, TypePlaying DEF Next

\* The variables have their types: nothing but commands of the scripts, tasks of
\* the playbook and terraform's restarts happens to a node.
THEOREM TypeCorrect == Spec => []NodeTypeOK
  BY TypeInit, TypeNext, PTL DEF Spec
-----------------------------------------------------------------------------
\* Nothing is ever uninstalled, and no marker removed.
LEMMA StepGrows ==
  ASSUME NodeTypeOK, [Next]_vars
  PROVE  OnlyGrows
  <1> USE DEF NodeTypeOK, OnlyGrows
  <1>1. ASSUME NEW n \in Nodes, OnNode(n)
        PROVE  OnlyGrows
    BY <1>1 DEF OnNode, Userdata, TouchBootstrap, WaitUserdata, WaitAnsible, CiStack, WaitMinio,
                TakeLock, Installed, Clone, Install, Mark, Put
  <1>2. CASE WaitMaster \/ TasksDone \/ Apply \/ UNCHANGED vars
    BY <1>2 DEF WaitMaster, TasksDone, Apply, vars
  <1>3. ASSUME NEW n \in Nodes, Task(n)
        PROVE  OnlyGrows
    BY <1>3 DEF Task, Effect
  <1>4. CASE Interrupt
    BY <1>4 DEF Interrupt
  <1> QED BY <1>1, <1>2, <1>3, <1>4 DEF Next, Playing

\* Only the last task writes the marker of the playbook.
LEMMA StepMarks ==
  ASSUME NodeTypeOK, [Next]_vars, NEW m \in Nodes, Has(m, "ansible_done")'
  PROVE  Has(m, "ansible_done") \/ (TaskStep /\ play = "mark")
  <1> USE DEF NodeTypeOK, Has
  <1>1. ASSUME NEW n \in Nodes, OnNode(n)
        PROVE  Has(m, "ansible_done")
    BY <1>1 DEF OnNode, Userdata, TouchBootstrap, WaitUserdata, WaitAnsible, CiStack, WaitMinio,
                TakeLock, Installed, Clone, Install, Mark, Put
  <1>2. CASE WaitMaster \/ TasksDone \/ Apply \/ Interrupt \/ UNCHANGED vars
    BY <1>2 DEF WaitMaster, TasksDone, Apply, Interrupt, vars
  <1>3. ASSUME NEW n \in Nodes, Task(n)
        PROVE  Has(m, "ansible_done") \/ play = "mark"
    BY <1>3 DEF Task, Effect
  <1> QED BY <1>1, <1>2, <1>3 DEF Next, Playing, TaskStep

\* The marker is written when all is there: by PlayInv, which Given ties to it.
LEMMA MarkNext ==
  ASSUME NodeTypeOK, NodeInv, [Next]_vars
  PROVE  MarkInv'
  <1> SUFFICES ASSUME NEW n \in Nodes, Has(n, "ansible_done")', NEW m \in Nodes
               PROVE  All \subseteq node'[m].soft
    BY DEF MarkInv
  <1>1. All \subseteq node[m].soft
    <2>1. CASE Has(n, "ansible_done")
      BY <2>1 DEF NodeInv, MarkInv
    <2>2. CASE play = "mark"
      BY <2>2 DEF NodeInv, PlayInv, Given, Tasks
    <2> QED BY <2>1, <2>2, StepMarks
  <1> QED BY <1>1, StepGrows DEF OnlyGrows

\* A node is provisioned only behind the wait for the marker.
LEMMA WaitNext ==
  ASSUME NodeTypeOK, NodeInv, [Next]_vars
  PROVE  WaitInv'
  <1> SUFFICES ASSUME NEW m \in Nodes, kube'[m] \in {"clone", "k3sup", "ci", "minio", "ok"}
               PROVE  Has(m, "ansible_done")'
    BY DEF WaitInv
  <1>1. Has(m, "ansible_done")
    <2> USE DEF NodeTypeOK, NodeInv, WaitInv
    <2>1. ASSUME NEW n \in Nodes, OnNode(n)
          PROVE  Has(m, "ansible_done")
      BY <2>1 DEF OnNode, Userdata, TouchBootstrap, WaitUserdata, WaitAnsible, CiStack, WaitMinio,
                  TakeLock, Installed, Clone, Install, Go, At, After, Fails
    <2>2. CASE Playing \/ UNCHANGED vars
      BY <2>2 DEF Playing, WaitMaster, TasksDone, Task, vars
    <2>3. CASE Apply \/ Interrupt
      BY <2>3 DEF Apply, Interrupt, Started, Tainted, Running, Idle
    <2> QED BY <2>1, <2>2, <2>3 DEF Next
  <1> QED BY <1>1, StepGrows DEF OnlyGrows, Has

\* Each task takes over from the one before.
LEMMA TaskOrder ==
  ASSUME NEW t \in Tasks, t # "mark"
  PROVE  NextTask(t) \in Tasks /\ Given(NextTask(t)) \subseteq Given(t) \cup Gives(t)
  BY DEF Tasks, NextTask, Given, Gives, All

LEMMA PlayNext ==
  ASSUME NodeTypeOK, NodeInv, [Next]_vars
  PROVE  PlayInv'
  <1> SUFFICES ASSUME play' \in Tasks, NEW m \in Nodes
               PROVE  /\ Given(play') \subseteq node'[m].soft
                      /\ m \in ran' => Gives(play') \subseteq node'[m].soft
    BY DEF PlayInv
  <1>1. CASE UNCHANGED <<play, ran>>
    BY <1>1, StepGrows DEF NodeInv, PlayInv, OnlyGrows
  <1>2. CASE WaitMaster
    BY <1>2 DEF WaitMaster, Given
  <1>3. CASE TasksDone
    <2>1. play \in Tasks /\ play # "mark" /\ m \in ran
      BY <1>3 DEF TasksDone, NextTask, Tasks
    <2>2. Given(play) \cup Gives(play) \subseteq node[m].soft
      BY <2>1 DEF NodeInv, PlayInv
    <2> QED BY <1>3, <2>1, <2>2, TaskOrder DEF TasksDone
  <1>4. ASSUME NEW n \in Nodes, Task(n)
        PROVE  /\ Given(play') \subseteq node'[m].soft
               /\ m \in ran' => Gives(play') \subseteq node'[m].soft
    <2>1. /\ play \in Tasks /\ play' = play /\ Possible(play, n)
          /\ node' = Effect(play, n) /\ ran' = ran \cup {n}
      BY <1>4 DEF Task, Tasks
    <2>2. Given(play) \subseteq node[m].soft
      BY <2>1 DEF NodeInv, PlayInv
    <2>3. m # n => (m \in ran' => Gives(play) \subseteq node[m].soft)
      BY <2>1 DEF NodeInv, PlayInv
    <2>4. Gives(play) \subseteq node'[n].soft
      BY <2>1 DEF Effect, Possible, Soft, Gives, Tasks, NodeTypeOK
    <2> QED BY <2>1, <2>2, <2>3, <2>4, StepGrows DEF OnlyGrows
  <1>5. CASE Apply \/ Interrupt
    BY <1>5 DEF Apply, Interrupt, Started, Tainted, Running, Idle, Tasks
  <1>6. ASSUME NEW n \in Nodes, OnNode(n)
        PROVE  UNCHANGED <<play, ran>>
    BY <1>6 DEF OnNode, Userdata, TouchBootstrap, WaitUserdata, WaitAnsible, CiStack, WaitMinio,
                TakeLock, Installed, Clone, Install
  <1> QED BY <1>1, <1>2, <1>3, <1>4, <1>5, <1>6 DEF Next, Playing, vars

LEMMA NodeInvariant == Spec => []NodeInv
  <1>1. Init => NodeInv
    BY DEF Init, NewNode, NodeInv, PlayInv, MarkInv, WaitInv, Has, Tasks
  <1>2. NodeTypeOK /\ NodeInv /\ [Next]_vars => NodeInv'
    BY MarkNext, WaitNext, PlayNext DEF NodeInv
  <1> QED BY <1>1, <1>2, TypeCorrect, PTL DEF Spec
-----------------------------------------------------------------------------
\* One marker of ansible stands for all nodes.
THEOREM MarkedTogetherHolds == Spec => []MarkedTogether
  <1>1. NodeInv => MarkedTogether
    BY DEF NodeInv, MarkInv, MarkedTogether, All
  <1> QED BY <1>1, NodeInvariant, PTL

\* kube-provisioner.sh runs on nodes only that have all it needs.
THEOREM ProvisionedOnReadyHolds == Spec => []ProvisionedOnReady
  <1>1. NodeInv => ProvisionedOnReady
    BY DEF NodeInv, MarkInv, WaitInv, ProvisionedOnReady, All
  <1> QED BY <1>1, NodeInvariant, PTL
=============================================================================
