-------------------------- MODULE NodeProvisioning --------------------------
(***************************************************************************)
(* The cloud nodes of terraform-aws (terraform-gcp differs in names): each *)
(* runs userdata.sh at its first boot; terraform then runs the resource    *)
(* kube-bootstrap on every node and, at the same time, ansible-bootstrap,  *)
(* which waits for one node and plays a playbook on all of them.  They     *)
(* know of each other by the marker files in /tmp of a node only.  A       *)
(* resource that fails, or is interrupted, is tainted: the next "terraform *)
(* apply" runs it from the beginning, on a node that is as it was left.    *)
(***************************************************************************)
EXTENDS Naturals, FiniteSets

CONSTANTS
  Nodes,       \* the instances
  Master,      \* element(public_ip, 0), the one that ansible-bootstrap waits for
  MaxApplies,  \* bound on terraform apply
  MaxFaults    \* bound on commands that fail by themselves

ASSUME NodeAssumption ==
  /\ Master \in Nodes /\ IsFiniteSet(Nodes)
  /\ MaxApplies \in Nat /\ MaxFaults \in Nat

VARIABLES
  node,     \* what is on each node
  kube,     \* where the resource kube-bootstrap of each node is
  play,     \* where ansible-bootstrap is
  ran,      \* the nodes that the current task of the playbook has run on
  applies,  \* applies left
  faults    \* faults left

vars == <<node, kube, play, ran, applies, faults>>
-----------------------------------------------------------------------------
Markers == {"userdata_done", "bootstrap_done", "ansible_done"}
Software == {"git", "docker", "packages", "ldap", "checkout", "k3s", "minio"}

\* lock is the holder of apt's lock.
NewNode == [marks |-> {}, soft |-> {}, lock |-> "free"]

\* What a resource is when no command of it runs.
Idle == {"new", "ok", "tainted"}
Running(state) == state \notin Idle
Applying == Running(play) \/ \E n \in Nodes : Running(kube[n])

Init ==
  /\ node = [n \in Nodes |-> NewNode]
  /\ kube = [n \in Nodes |-> "new"]
  /\ play = "new"
  /\ ran = {}
  /\ applies = MaxApplies
  /\ faults = MaxFaults

Has(n, mark) == mark \in node[n].marks
Soft(n, what) == what \in node[n].soft
Put(n, what) == node' = [node EXCEPT ![n].soft = @ \cup {what}]
Mark(n, mark) == node' = [node EXCEPT ![n].marks = @ \cup {mark}]
MayFail == faults > 0 /\ faults' = faults - 1
-----------------------------------------------------------------------------
(* terraform                                                               *)

Started(state) == IF state = "ok" THEN "ok" ELSE "begin"

Apply ==
  /\ ~Applying
  /\ applies > 0 /\ applies' = applies - 1
  /\ kube' = [n \in Nodes |-> Started(kube[n])]
  /\ play' = Started(play)
  /\ ran' = {}
  /\ UNCHANGED <<node, faults>>

Tainted(state) == IF Running(state) THEN "tainted" ELSE state

\* ^C: the commands end on their nodes, and apt's lock with them.
Interrupt ==
  /\ Applying
  /\ kube' = [n \in Nodes |-> Tainted(kube[n])]
  /\ play' = Tainted(play)
  /\ node' = [n \in Nodes |-> [node[n] EXCEPT !.lock = "free"]]
  /\ UNCHANGED <<ran, applies, faults>>

Userdata(n) ==
  /\ ~Has(n, "userdata_done")
  /\ Mark(n, "userdata_done")
  /\ UNCHANGED <<kube, play, ran, applies, faults>>
-----------------------------------------------------------------------------
(* kube-bootstrap: bootstrap.sh                                            *)

At(n, step) == kube[n] = step
Go(n, step) == kube' = [kube EXCEPT ![n] = step]

WaitUserdata(n) ==
  /\ At(n, "begin") /\ Has(n, "userdata_done")
  /\ Go(n, "apt")
  /\ UNCHANGED <<node, play, ran, applies, faults>>

After(step) == IF step = "apt" THEN "docker" ELSE "touch"

\* apt-get and get-docker.sh: without errexit the script goes on when the lock
\* is taken.
TakeLock(n, step) ==
  /\ At(n, step)
  /\ IF node[n].lock = "free"
     THEN /\ node' = [node EXCEPT ![n].lock = "bootstrap"]
          /\ Go(n, IF step = "apt" THEN "aptRuns" ELSE "dockerRuns")
     ELSE Go(n, After(step)) /\ UNCHANGED node
  /\ UNCHANGED <<play, ran, applies, faults>>

\* ... and when the installation fails.
Installed(n, step, what) ==
  /\ At(n, IF step = "apt" THEN "aptRuns" ELSE "dockerRuns")
  /\ \/ /\ node' = [node EXCEPT ![n].soft = @ \cup {what}, ![n].lock = "free"]
        /\ UNCHANGED faults
     \/ /\ MayFail
        /\ node' = [node EXCEPT ![n].lock = "free"]
  /\ Go(n, After(step))
  /\ UNCHANGED <<play, ran, applies>>

TouchBootstrap(n) ==
  /\ At(n, "touch")
  /\ Mark(n, "bootstrap_done")
  /\ Go(n, "wait")
  /\ UNCHANGED <<play, ran, applies, faults>>

\* Mutant of WaitAnsible: it waits for the first marker only.
WaitBootstrap(n) ==
  /\ At(n, "wait") /\ Has(n, "bootstrap_done")
  /\ Go(n, "clone")
  /\ UNCHANGED <<node, play, ran, applies, faults>>

\* The wait has no limit.
WaitAnsible(n) ==
  /\ At(n, "wait") /\ Has(n, "bootstrap_done") /\ Has(n, "ansible_done")
  /\ Go(n, "clone")
  /\ UNCHANGED <<node, play, ran, applies, faults>>
-----------------------------------------------------------------------------
(* kube-bootstrap: kube-provisioner.sh, under errexit                      *)

Fails(n) == Go(n, "tainted")

\* git clone needs git, and that its directory is not there.
Clone(n) ==
  /\ At(n, "clone")
  /\ \/ /\ Soft(n, "git") /\ ~Soft(n, "checkout")
        /\ Put(n, "checkout") /\ Go(n, "k3sup")
        /\ UNCHANGED faults
     \/ /\ ~Soft(n, "git") \/ Soft(n, "checkout")
        /\ Fails(n)
        /\ UNCHANGED <<node, faults>>
     \/ MayFail /\ Fails(n) /\ UNCHANGED node
  /\ UNCHANGED <<play, ran, applies>>

Install(n) ==
  /\ At(n, "k3sup")
  /\ \/ Put(n, "k3s") /\ Go(n, "ci") /\ UNCHANGED faults
     \/ MayFail /\ Fails(n) /\ UNCHANGED node
  /\ UNCHANGED <<play, ran, applies>>

\* deploy-ci-stack.sh has no errexit: it goes on when helm has not installed minio.
CiStack(n) ==
  /\ At(n, "ci")
  /\ \/ Put(n, "minio") /\ UNCHANGED faults
     \/ MayFail /\ UNCHANGED node
  /\ Go(n, "minio")
  /\ UNCHANGED <<play, ran, applies>>

\* Its loop has no limit; it ends with echo, and cannot fail.
WaitMinio(n) ==
  /\ At(n, "minio") /\ Soft(n, "minio")
  /\ Go(n, "ok")
  /\ UNCHANGED <<node, play, ran, applies, faults>>
-----------------------------------------------------------------------------
(* ansible-bootstrap and the playbook                                      *)

Tasks == {"aptCache", "setup", "packages", "ldap", "mark"}

\* Mutant of NextTask: the last task is forgotten.
NextUnmarked(task) ==
  CASE task = "aptCache" -> "setup" [] task = "setup" -> "packages"
    [] task = "packages" -> "ldap" [] OTHER -> "ok"

NextTask(task) ==
  CASE task = "aptCache" -> "setup" [] task = "setup" -> "packages"
    [] task = "packages" -> "ldap" [] task = "ldap" -> "mark" [] task = "mark" -> "ok"

WaitMaster ==
  /\ play = "begin"
  /\ {"userdata_done", "bootstrap_done"} \subseteq node[Master].marks
  /\ play' = "aptCache"
  /\ ran' = {}
  /\ UNCHANGED <<node, kube, applies, faults>>

\* apt fails if the lock is taken; the user task fails without the group docker.
Possible(task, n) ==
  /\ task \in {"aptCache", "packages"} => node[n].lock = "free"
  /\ task = "setup" => Soft(n, "docker")

Effect(task, n) ==
  CASE task = "packages" -> [node EXCEPT ![n].soft = @ \cup {"packages", "git"}]
    [] task = "ldap" -> [node EXCEPT ![n].soft = @ \cup {"ldap"}]
    [] task = "mark" -> [node EXCEPT ![n].marks = @ \cup {"ansible_done"}]
    [] OTHER -> node

\* Mutant of Task: a failure on one node stops that node only.
TaskNotFatal(n) ==
  /\ play \in Tasks /\ n \notin ran
  /\ ran' = ran \cup {n}
  /\ node' = IF Possible(play, n) THEN Effect(play, n) ELSE node
  /\ UNCHANGED <<kube, play, applies, faults>>

\* A task runs on every node before the next one begins, and with
\* any_errors_fatal a failure on one node ends the playbook.
Task(n) ==
  /\ play \in Tasks /\ n \notin ran
  /\ \/ /\ Possible(play, n)
        /\ node' = Effect(play, n)
        /\ ran' = ran \cup {n}
        /\ UNCHANGED <<play, faults>>
     \/ /\ ~Possible(play, n)
        /\ play' = "tainted"
        /\ UNCHANGED <<node, ran, faults>>
     \/ MayFail /\ play' = "tainted" /\ UNCHANGED <<node, ran>>
  /\ UNCHANGED <<kube, applies>>

TasksDone ==
  /\ play \in Tasks /\ ran = Nodes
  /\ play' = NextTask(play)
  /\ ran' = {}
  /\ UNCHANGED <<node, kube, applies, faults>>
-----------------------------------------------------------------------------
OnNode(n) ==
  \/ Userdata(n)
  \/ WaitUserdata(n) \/ TakeLock(n, "apt") \/ Installed(n, "apt", "git")
  \/ TakeLock(n, "docker") \/ Installed(n, "docker", "docker")
  \/ TouchBootstrap(n) \/ WaitAnsible(n)
  \/ Clone(n) \/ Install(n) \/ CiStack(n) \/ WaitMinio(n)

Playing == WaitMaster \/ TasksDone \/ \E n \in Nodes : Task(n)

Next ==
  \/ \E n \in Nodes : OnNode(n)
  \/ Playing
  \/ Apply \/ Interrupt

Spec == Init /\ [][Next]_vars

\* Nodes and the playbook run on; nobody has to apply again or to interrupt.
FairSpec == Spec /\ WF_vars(Playing) /\ \A n \in Nodes : WF_vars(OnNode(n))
-----------------------------------------------------------------------------
KubeSteps == Idle \cup {"begin", "apt", "aptRuns", "docker", "dockerRuns", "touch",
                        "wait", "clone", "k3sup", "ci", "minio"}

\* The variables have their types.
NodeTypeOK ==
  /\ node \in [Nodes -> [marks : SUBSET Markers, soft : SUBSET Software,
                         lock : {"free", "bootstrap"}]]
  /\ kube \in [Nodes -> KubeSteps]
  /\ play \in Idle \cup {"begin"} \cup Tasks
  /\ ran \in SUBSET Nodes
  /\ applies \in 0..MaxApplies /\ faults \in 0..MaxFaults

\* Although bootstrap.sh swallows every failure and its marker is written in any
\* case, kube-provisioner.sh never runs on a node without docker, git, the
\* packages and the ldap configuration: the wait for ansible_done (bootstrap.tf
\* line 58) stands for all of them, in every apply.
ProvisionedOnReady ==
  \A n \in Nodes : kube[n] \in {"clone", "k3sup", "ci", "minio", "ok"} =>
    {"docker", "git", "packages", "ldap"} \subseteq node[n].soft

\* One marker of ansible stands for all nodes: no node is marked before each has
\* all that the playbook installs (any_errors_fatal, main.yml lines 4 and 20).
MarkedTogether ==
  (\E n \in Nodes : Has(n, "ansible_done")) =>
    \A m \in Nodes : {"docker", "packages", "ldap"} \subseteq node[m].soft

\* The two waits on which kube-bootstrap of a node may stay for good: for the
\* marker of a playbook that has failed, and for a minio that helm did not install.
Stuck(n) ==
  \/ At(n, "wait") /\ play = "tainted"
  \/ At(n, "minio") /\ ~Soft(n, "minio")

\* No other wait of an apply is in vain, whatever failed, was interrupted and was
\* applied again: ansible-bootstrap always ends (bootstrap.tf lines 16-17 and 49),
\* and so does each kube-bootstrap, unless it is stuck as above (bootstrap.tf lines
\* 57-58, deploy-ci-stack.sh line 58).
AppliesEnd ==
  /\ Running(play) ~> ~Running(play)
  /\ \A n \in Nodes : Running(kube[n]) ~> (~Running(kube[n]) \/ Stuck(n))
=============================================================================
