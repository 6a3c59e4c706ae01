------------------------------ MODULE CiStack ------------------------------
(***************************************************************************)
(* deploy-ci-stack.sh on a cluster of KubeInstall: helm charts, a registry   *)
(* with a certificate of its own CA (charts/docker-registry/files/Makefile), *)
(* and the kubeconfig for the CI jobs in minio.                              *)
(*                                                                          *)
(* The script has no errexit: after a command that failed it goes on, and    *)
(* whoever runs it may run it again.  Files stay on the host when the        *)
(* cluster is nuked; a new checkout of the repository replaces those of the  *)
(* Makefile but not the CA that docker trusts.                               *)
(***************************************************************************)
EXTENDS KubeInstall

CONSTANTS
  RootHome,    \* /root/.kube is the directory that the installer writes to
  MaxClones    \* bound on new checkouts of the repository

ASSUME CiAssumption == RootHome \in BOOLEAN /\ MaxClones \in Nat

VARIABLES
  files,    \* files of the checkout and of docker
  stack,    \* what the script has put into the cluster
  deploy,   \* the command that the script is at; 0: it does not run
  keys,     \* CA keys made so far
  clones,   \* new checkouts left (the bound of this model)
  clean     \* history: the installer was done and the stack new when the script
            \* was started, and no fault has happened since

ciVars == <<files, stack, deploy, keys, clones, clean>>
allVars == <<vars, ciVars>>
-----------------------------------------------------------------------------
Charts == {"postgresql", "minio", "registry", "gogs", "drone"}

\* The commands of the script; the mutant copies the CA before make.
EarlyTrust == <<"postgresql", "minio", "trust", "make", "tls", "secret",
                "registry", "gogs", "drone", "waitMinio", "upload">>

DeployScript == <<"postgresql", "minio", "make", "trust", "tls", "secret",
                  "registry", "gogs", "drone", "waitMinio", "upload">>

\* A certificate is known by the number of the CA key that signed it; number 1
\* signed the one in the repository, where that key is not.
None == 0
Lost == 1

Checkout == [caKey |-> None, caCrt |-> None, crt |-> Lost, tls |-> None]

NoStack == [charts |-> [c \in Charts |-> "absent"], pods |-> 0, ready |-> FALSE,
            secret |-> None, kubeconfig |-> "none"]

\* deploy-ci-stack.sh copies /root/.kube/config, as root.
RootConfig == IF RootHome THEN host.kubeconfig ELSE "none"

CiInit ==
  /\ Init
  /\ files = [checkout |-> Checkout, trusted |-> None]
  /\ stack = NoStack
  /\ deploy = 0
  /\ keys = Lost
  /\ clones = MaxClones
  /\ clean = FALSE
-----------------------------------------------------------------------------
(* deploy-ci-stack.sh                                                       *)

Deploying == deploy # 0
Idle == status # "running" /\ ~Deploying

StartDeploy ==
  /\ Idle
  /\ deploy' = 1
  /\ clean' = (status = "done" /\ stack = NoStack)
  /\ UNCHANGED <<vars, files, stack, keys, clones>>

AtDeploy(command) == Deploying /\ DeployScript[deploy] = command

\* No errexit: the next command, in any case.
GoOn == deploy' = IF deploy = Len(DeployScript) THEN 0 ELSE deploy + 1

\* A command that works if "possible", and then leaves files f and stack s.
Attempt(command, possible, f, s) ==
  /\ AtDeploy(command)
  /\ \E outcome \in {"done", "error", "lost"} :
       LET applied == possible /\ outcome # "error" IN
       /\ Spend(outcome)
       /\ files' = IF applied THEN f ELSE files
       /\ stack' = IF applied THEN s ELSE stack
       /\ clean' = (clean /\ outcome = "done")
  /\ GoOn
  /\ UNCHANGED <<installer, host, cluster, status, pos, nukes, keys, clones>>

\* The services of the charts have fixed names, so that a chart of which there
\* is a release, or half of one, cannot be installed once more.  The mutant
\* takes the names from those of the releases, which are generated.
AnyRelease(c) == TRUE
FirstRelease(c) == stack.charts[c] = "absent"

Pods(c, n) == IF c = "minio" /\ stack.pods < 2 THEN stack.pods + n ELSE stack.pods

InstallChart(c) ==
  \/ Attempt(c, Reachable /\ host.tools /\ FirstRelease(c), files,
             [stack EXCEPT !.charts[c] = "installed", !.pods = Pods(c, 1),
                           !.ready = @ /\ c # "minio"])
  \/ /\ AtDeploy(c) /\ Reachable /\ host.tools /\ FirstRelease(c)
     /\ Spend("error")
     /\ \E n \in {0, 1} :
          stack' = [stack EXCEPT !.charts[c] = "partial", !.pods = Pods(c, n),
                                 !.ready = @ /\ c # "minio"]
     /\ clean' = FALSE
     /\ GoOn
     /\ UNCHANGED <<installer, host, cluster, status, pos, nukes, files, keys, clones>>

\* rootCA.key is made if it is not there; the mutant makes it each time.
AlwaysKey(key) == keys + 1
CaKey(key) == IF key = None THEN keys + 1 ELSE key

\* make: the key of the CA, its certificate, and the registry's, which is older
\* than those and signed again.  It may fail on its way, with some of them made.
\* The CA's number is that of the checkout.
Make ==
  /\ AtDeploy("make")
  /\ \E made \in 0..3 :
       LET old == files.checkout
           key == IF made >= 1 THEN CaKey(old.caKey) ELSE old.caKey
           ca  == IF made >= 2 THEN key ELSE old.caCrt
           crt == IF made >= 3 THEN ca ELSE old.crt
       IN /\ Spend(IF made = 3 THEN "done" ELSE "error")
          /\ files' = [files EXCEPT !.checkout =
                         [old EXCEPT !.caKey = key, !.caCrt = ca, !.crt = crt]]
          /\ keys' = IF key > keys THEN key ELSE keys
          /\ clean' = (clean /\ made = 3)
  /\ GoOn
  /\ UNCHANGED <<installer, host, cluster, status, pos, nukes, stack, clones>>

\* cp rootCA.crt for docker ...
Trust ==
  Attempt("trust", files.checkout.caCrt # None,
          [files EXCEPT !.trusted = files.checkout.caCrt], stack)

\* ... and the registry's certificate into a secret, which is not replaced.
CopyTls == Attempt("tls", TRUE, [files EXCEPT !.checkout.tls = files.checkout.crt], stack)

CreateSecret ==
  Attempt("secret", Reachable /\ stack.secret = None /\ files.checkout.tls # None,
          files, [stack EXCEPT !.secret = files.checkout.tls])

\* Until the statuses of all minio pods read "True".
WaitMinio ==
  /\ AtDeploy("waitMinio")
  /\ Reachable /\ stack.ready /\ stack.pods = 1
  /\ GoOn
  /\ UNCHANGED <<vars, files, stack, keys, clones, clean>>

Upload ==
  Attempt("upload", Reachable /\ host.tools /\ stack.ready /\ RootConfig # "none", files,
          [stack EXCEPT !.kubeconfig = RootConfig])

\* ^C, or the host goes down.
Interrupt ==
  /\ Deploying
  /\ deploy' = 0
  /\ clean' = FALSE
  /\ UNCHANGED <<vars, files, stack, keys, clones>>

DeployStep ==
  \/ \E c \in Charts : InstallChart(c)
  \/ Make \/ Trust \/ CopyTls \/ CreateSecret \/ WaitMinio \/ Upload
-----------------------------------------------------------------------------
(* The world around the script.                                             *)

\* The pod needs a node without a taint, the network and a volume of rook.
MinioReady ==
  /\ stack.pods > 0
  /\ ~cluster.tainted
  /\ "rook" \in cluster.objects
  /\ installer = "k3sup" \/ "overlay" \in cluster.objects
  /\ ~stack.ready
  /\ stack' = [stack EXCEPT !.ready = TRUE]
  /\ UNCHANGED <<vars, files, deploy, keys, clones, clean>>

RunInstaller == Idle /\ Run /\ UNCHANGED ciVars

InstallStep == Step /\ UNCHANGED ciVars

NukeStack ==
  /\ Idle
  /\ Nuke
  /\ stack' = NoStack
  /\ clean' = FALSE
  /\ UNCHANGED <<files, deploy, keys, clones>>

Clone ==
  /\ Idle
  /\ clones > 0
  /\ clones' = clones - 1
  /\ files' = [files EXCEPT !.checkout = Checkout]
  /\ UNCHANGED <<vars, stack, deploy, keys, clean>>

CiNext ==
  \/ RunInstaller \/ InstallStep \/ NukeStack
  \/ StartDeploy \/ DeployStep \/ Interrupt
  \/ MinioReady \/ Clone

CiSpec == CiInit /\ [][CiNext]_allVars

CiFairSpec == CiSpec /\ WF_allVars(DeployStep) /\ WF_allVars(MinioReady)
-----------------------------------------------------------------------------
Cas == 0..keys

\* Type invariant; certificates are signed by keys that have been made.
CiTypeOK ==
  /\ TypeOK
  /\ files \in [checkout : [caKey : Cas, caCrt : Cas, crt : Cas \ {None}, tls : Cas],
                trusted : Cas]
  /\ stack \in [charts : [Charts -> {"absent", "partial", "installed"}], pods : 0..1,
                ready : BOOLEAN, secret : Cas, kubeconfig : {"none", "stale", "current"}]
  /\ deploy \in 0..Len(DeployScript)
  /\ keys \in Nat
  /\ clones \in 0..MaxClones
  /\ clean \in BOOLEAN
  /\ files.checkout.caCrt \in {None, files.checkout.caKey}

\* docker trusts the certificate that the registry serves.
Works == files.trusted # None /\ stack.secret = files.trusted

\* On an installed cluster, the first run that no fault disturbs deploys everything, whatever
\* earlier clusters, runs and checkouts have left on the host: all charts, a
\* registry that docker trusts and, if root's kubeconfig is the installer's, the
\* kubeconfig of this very cluster.
CleanDeploy ==
  clean /\ ~Deploying =>
    /\ \A c \in Charts : stack.charts[c] = "installed"
    /\ Works
    /\ RootHome => stack.kubeconfig = "current"

\* Running the script again, even if commands fail on the way, does not break a
\* registry that works with the CA of the checkout: make keeps the CA's key, so
\* that docker is given the same CA again, and the secret stays.
Settled == Works /\ files.checkout.caKey = files.trusted

RerunKeeps == [][Settled /\ ~NukeStack /\ ~Clone => Settled']_allVars

\* On an installed cluster the script does not wait for minio forever once that
\* has been installed, however often it is run: there are never pods of two
\* releases.
DeployEnds ==
  Deploying /\ status = "done" /\ stack.charts["minio"] = "installed" ~> ~Deploying

\* deploy-ci-stack.sh:60: "Uploading kubeconfig to minio for CI/CD purposes
\* (kubeconfig_url var in drone later on)".  After a first run on an installed
\* cluster that no fault disturbed, it should be there.
KubeconfigUploaded == clean /\ ~Deploying => stack.kubeconfig = "current"
=============================================================================
