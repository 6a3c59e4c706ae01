---------------------------- MODULE SlapdStartup ----------------------------
(***************************************************************************)
(* TODO/ldap/osixia/image/service/slapd: startup.sh prepares the directory *)
(* and process.sh serves it.  A container has its own file system and an   *)
(* environment that never changes; the database, and slapd.d with the      *)
(* configuration and the marker files, are volumes that outlive it.        *)
(* startup.sh runs under errexit and pipefail, so that a command that      *)
(* fails ends the container.  It may also be killed at any point; whoever  *)
(* runs it then starts the same container again, or a new one on the same  *)
(* volumes.                                                                *)
(***************************************************************************)
EXTENDS Naturals, FiniteSets, TLC

CONSTANTS
  Containers,  \* environments that a container may be given
  MaxStarts,   \* bound on starts, of new containers and of old ones
  MaxCrashes,  \* bound on kills
  MaxFaults,   \* bound on commands that fail by themselves
  MaxOdd       \* bound on containers that miss a volume of the one before, or that
               \* are told to keep its configuration

None == "none"
Absent == [absent |-> TRUE]  \* no record: no configuration, no TLS, no container
Cut == [cut |-> TRUE]        \* a marker file of which only the first line is written

\* crt and dh name the files of the certificate and of the DH parameters, pw the
\* passwords, hosts the replication hosts; debug is the log level that keeps
\* the slapd of startup.sh in the foreground.

ASSUME SlapdAssumption ==
  /\ \A e \in Containers :
       /\ e \in [tls : BOOLEAN, enforce : BOOLEAN, keep : BOOLEAN, debug : BOOLEAN,
                 remove : BOOLEAN, crt : {e.crt}, dh : {e.dh}, pw : {e.pw},
                 host : {e.host}, hosts : {e.hosts}]
       /\ e.hosts # {} => e.host \in e.hosts
       /\ None \notin ({e.crt, e.dh, e.pw, e.host} \cup e.hosts)
  /\ {MaxStarts, MaxCrashes, MaxFaults, MaxOdd} \subseteq Nat

VARIABLES
  data,    \* volume: the password of the directory's admin, None if empty
  conf,    \* volume: slapd's configuration, Absent if empty
  marks,   \* volume, in slapd.d: the docker-openldap-was-... files
  ct,      \* the environment of the container, Absent before the first
  fs,      \* the container's file system
  proc,    \* the variables of the startup.sh that runs
  slapd,   \* "down", "starting" or "up"
  budget   \* what is left of the bounds

vars == <<data, conf, marks, ct, fs, proc, slapd, budget>>
-----------------------------------------------------------------------------
NoMarks == [tls |-> Absent, enforce |-> FALSE, sync |-> None, admin |-> FALSE]

\* The image brings DH parameters under their default name, and no certificate.
DefaultDh == "dhparam.pem"
NewFs == [done |-> FALSE, assets |-> TRUE, crts |-> {}, dhs |-> {DefaultDh},
          pid |-> None, client |-> None]

\* The configuration as dpkg-reconfigure leaves it; seeded counts the parts of
\* the bootstrap configuration that have been added to it.
NewConf == [tls |-> Absent, enforce |-> FALSE, sync |-> {}, seeded |-> 0]
Parts == 3  \* schemas, the image's ldif files, the custom ones

Down == [at |-> "down", boot |-> FALSE, tls |-> FALSE, enforce |-> FALSE, prev |-> None]

Init ==
  /\ data = None /\ conf = Absent /\ marks = NoMarks
  /\ ct = Absent /\ fs = NewFs
  /\ proc = Down
  /\ slapd = "down"
  /\ budget = [starts |-> MaxStarts, crashes |-> MaxCrashes, faults |-> MaxFaults,
               odd |-> MaxOdd]

At(step) == proc.at = step
Go(step) == proc' = [proc EXCEPT !.at = step]

FilesThere == conf.tls # Absent => conf.tls.crt \in fs.crts /\ conf.tls.dh \in fs.dhs

\* slapd starts if its files are there and it listens on a replication host.
CanStart(prev) ==
  /\ FilesThere
  /\ conf.sync # {} => {ct.host, prev} \cap conf.sync # {}

\* The container ends, and slapd with it: its pid file may be left.
End ==
  /\ proc' = Down
  /\ slapd' = "down"
  /\ fs' = IF fs.pid = "own" THEN [fs EXCEPT !.pid = "stale"] ELSE fs

\* A command of the container fails and errexit ends the script.
Exit == End /\ UNCHANGED <<data, conf, marks, ct, budget>>
-----------------------------------------------------------------------------
(* docker run, docker start, docker stop and docker kill                   *)

Begin == [Down EXCEPT !.at = IF fs'.done THEN "serve" ELSE "check",
                      !.tls = ct'.tls, !.enforce = ct'.enforce]

Spend(bound) == budget[bound] > 0 /\ budget' = [budget EXCEPT ![bound] = @ - 1]

\* A new container, on both volumes or on one only.
NewContainer(e, lost) ==
  /\ At("down")
  /\ IF lost = {} /\ ~e.keep THEN Spend("starts")
     ELSE budget.starts > 0 /\ Spend("odd")
  /\ data' = IF "data" \in lost THEN None ELSE data
  /\ conf' = IF "conf" \in lost THEN Absent ELSE conf
  /\ marks' = IF "conf" \in lost THEN NoMarks ELSE marks
  /\ ct' = e
  /\ fs' = NewFs
  /\ proc' = Begin
  /\ UNCHANGED slapd

Restart ==
  /\ At("down") /\ ct # Absent
  /\ Spend("starts")
  /\ UNCHANGED <<data, conf, marks, ct, fs, slapd>>
  /\ proc' = Begin

\* SIGTERM: slapd ends in order and removes its pid file.
Stop ==
  /\ At("run")
  /\ proc' = Down /\ slapd' = "down"
  /\ fs' = [fs EXCEPT !.pid = None]
  /\ UNCHANGED <<data, conf, marks, ct, budget>>

Crash ==
  /\ ~At("down")
  /\ Spend("crashes")
  /\ End
  /\ UNCHANGED <<data, conf, marks, ct>>

\* The steps with a command that may fail by itself, before it has any effect, and
\* so end the script (those of "sync" and "syncOn" fail unnoticed, see Unnoticed).
Fault ==
  /\ proc.at \in {"conf", "data", "prev", "slapd", "seed", "tls", "enforce", "admin", "stop"}
  /\ Spend("faults")
  /\ End
  /\ UNCHANGED <<data, conf, marks, ct>>
-----------------------------------------------------------------------------
(* startup.sh: the directories                                             *)

AfterCheck == IF ct.keep THEN "client" ELSE "prev"

\* Mutant of Check: an empty slapd.d is enough for a bootstrap.
CheckConf ==
  /\ At("check")
  /\ proc' = [proc EXCEPT !.at = IF conf = Absent THEN "conf" ELSE AfterCheck,
                          !.boot = (conf = Absent)]
  /\ UNCHANGED <<data, conf, marks, ct, fs, slapd, budget>>

\* Which of the two directories is empty decides on the bootstrap.
Check ==
  /\ At("check")
  /\ CASE data = None /\ conf = Absent -> /\ proc' = [proc EXCEPT !.at = "conf", !.boot = TRUE]
                                        /\ UNCHANGED <<data, conf, marks, ct, fs, slapd, budget>>
       [] data # None /\ conf # Absent -> /\ Go(AfterCheck)
                                        /\ UNCHANGED <<data, conf, marks, ct, fs, slapd, budget>>
       [] OTHER -> Exit

\* dpkg-reconfigure makes the configuration and then the database.
ReconfigureConf ==
  /\ At("conf")
  /\ conf' = NewConf
  /\ Go("data")
  /\ UNCHANGED <<data, marks, ct, fs, slapd, budget>>

ReconfigureData ==
  /\ At("data")
  /\ data' = ct.pw
  /\ Go(AfterCheck)
  /\ UNCHANGED <<conf, marks, ct, fs, slapd, budget>>
-----------------------------------------------------------------------------
(* startup.sh: slapd is started on what the container before has left      *)

\* The paths that the marker of TLS names; a line it lacks has the new name.
PreviousTls == IF marks.tls = Cut THEN [crt |-> ct.crt, dh |-> ct.dh] ELSE marks.tls

\* ssl-helper makes the certificate that is missing.  Missing DH parameters are
\* made under the new name (line 247), and chmod fails if the old one differs.
TemporaryFiles ==
  [fs EXCEPT !.crts = @ \cup {PreviousTls.crt},
             !.dhs = IF PreviousTls.dh \in @ THEN @ ELSE @ \cup {ct.dh}]

\* Mutant of Previous: the host name of the container before is forgotten.
PreviousForgets ==
  /\ At("prev")
  /\ fs' = IF marks.tls = Absent THEN fs ELSE TemporaryFiles
  /\ Go("slapd")
  /\ UNCHANGED <<data, conf, marks, ct, slapd, budget>>

Previous ==
  /\ At("prev")
  /\ IF marks.tls = Absent
     THEN /\ proc' = [proc EXCEPT !.at = "slapd", !.prev = marks.sync]
          /\ UNCHANGED <<data, conf, marks, ct, fs, slapd, budget>>
     ELSE IF PreviousTls.dh \in TemporaryFiles.dhs
     THEN /\ proc' = [proc EXCEPT !.at = "slapd", !.prev = marks.sync]
          /\ fs' = TemporaryFiles
          /\ UNCHANGED <<data, conf, marks, ct, slapd, budget>>
     ELSE /\ proc' = Down
          /\ fs' = TemporaryFiles
          /\ UNCHANGED <<data, conf, marks, ct, slapd, budget>>

\* Mutant of StartSlapd: its failure goes unnoticed in any case.
StartUnnoticed ==
  /\ At("slapd")
  /\ IF CanStart(proc.prev)
     THEN slapd' = "up" /\ fs' = [fs EXCEPT !.pid = "own"]
     ELSE UNCHANGED <<slapd, fs>>
  /\ Go("wait")
  /\ UNCHANGED <<data, conf, marks, ct, budget>>

\* In the background (debug) its failure goes unnoticed.
StartSlapd ==
  /\ At("slapd")
  /\ IF CanStart(proc.prev)
     THEN /\ slapd' = IF ct.debug THEN "starting" ELSE "up"
          /\ fs' = IF ct.debug THEN fs ELSE [fs EXCEPT !.pid = "own"]
          /\ Go("wait")
          /\ UNCHANGED <<data, conf, marks, ct, budget>>
     ELSE IF ct.debug
     THEN Go("wait") /\ UNCHANGED <<data, conf, marks, ct, fs, slapd, budget>>
     ELSE Exit

SlapdUp ==
  /\ slapd = "starting"
  /\ slapd' = "up"
  /\ fs' = [fs EXCEPT !.pid = "own"]
  /\ UNCHANGED <<data, conf, marks, ct, proc, budget>>

\* Any slapd.pid ends the wait.
WaitPid ==
  /\ At("wait") /\ fs.pid # None
  /\ Go(IF proc.boot THEN "seed" ELSE "tls")
  /\ UNCHANGED <<data, conf, marks, ct, fs, slapd, budget>>

\* A step that needs slapd, or the container's config files, and otherwise fails.
Needs(step, condition) == At(step) /\ condition
Lacks(step, condition) == At(step) /\ ~condition /\ Exit

\* Mutant of Seed: the last part is left out.
SeedShort ==
  /\ At("seed")
  /\ conf' = [conf EXCEPT !.seeded = @ + 1]
  /\ Go(IF conf'.seeded = Parts - 1 THEN "tls" ELSE "seed")
  /\ UNCHANGED <<data, marks, ct, fs, slapd, budget>>

\* Part by part.  A bootstrap is the first thing a container does, so that no pid
\* file is older than its slapd, and its files are there.
Seed ==
  /\ At("seed")
  /\ conf' = [conf EXCEPT !.seeded = @ + 1]
  /\ Go(IF conf'.seeded = Parts THEN "tls" ELSE "seed")
  /\ UNCHANGED <<data, marks, ct, fs, slapd, budget>>
-----------------------------------------------------------------------------
(* startup.sh: TLS                                                         *)

\* What was on once stays on, whatever the environment says.
Tls == proc.tls \/ marks.tls # Absent
Enforce == proc.enforce \/ marks.enforce

TlsPaths == [crt |-> ct.crt, dh |-> ct.dh]

TlsConfig ==
  \/ /\ At("tls") /\ ~Tls
     /\ proc' = [proc EXCEPT !.at = "sync", !.enforce = Enforce]
     /\ UNCHANGED <<data, conf, marks, ct, fs, slapd, budget>>
  \/ /\ Needs("tls", Tls /\ slapd = "up" /\ fs.assets)
     /\ fs' = [fs EXCEPT !.crts = @ \cup {ct.crt}, !.dhs = @ \cup {ct.dh}]
     /\ conf' = [conf EXCEPT !.tls = TlsPaths]
     /\ proc' = [proc EXCEPT !.at = "untls", !.tls = TRUE, !.enforce = Enforce]
     /\ UNCHANGED <<data, marks, ct, slapd, budget>>
  \/ Tls /\ Lacks("tls", slapd = "up" /\ fs.assets)

\* Mutant of UnmarkTls: the marker is not written again.
UnmarkOnly ==
  /\ At("untls")
  /\ marks' = [marks EXCEPT !.tls = Absent]
  /\ Go("sync")
  /\ UNCHANGED <<data, conf, ct, fs, slapd, budget>>

\* The marker is removed, and written line by line.
UnmarkTls ==
  /\ At("untls")
  /\ marks' = [marks EXCEPT !.tls = Absent]
  /\ Go("cutTls")
  /\ UNCHANGED <<data, conf, ct, fs, slapd, budget>>

CutTls ==
  /\ At("cutTls")
  /\ marks' = [marks EXCEPT !.tls = Cut]
  /\ Go("markTls")
  /\ UNCHANGED <<data, conf, ct, fs, slapd, budget>>

MarkTls ==
  /\ At("markTls")
  /\ marks' = [marks EXCEPT !.tls = TlsPaths]
  /\ Go(IF proc.enforce THEN "enforce" ELSE "sync")
  /\ UNCHANGED <<data, conf, ct, fs, slapd, budget>>

\* slapd is up, or the change before would have failed.
EnforceTls ==
  /\ At("enforce")
  /\ conf' = [conf EXCEPT !.enforce = TRUE]
  /\ Go("markEnforce")
  /\ UNCHANGED <<data, marks, ct, fs, slapd, budget>>

MarkEnforce ==
  /\ At("markEnforce")
  /\ marks' = [marks EXCEPT !.enforce = TRUE]
  /\ Go("sync")
  /\ UNCHANGED <<data, conf, ct, fs, slapd, budget>>
-----------------------------------------------------------------------------
(* startup.sh: replication                                                 *)

\* "ldapmodify ... || true": slapd makes the change, or the command fails, since
\* slapd is not up or by itself, and the script goes on all the same.
Unnoticed(change) ==
  \/ conf' = (IF slapd = "up" THEN change ELSE conf) /\ UNCHANGED budget
  \/ conf' = conf /\ Spend("faults")

\* Called as "disableReplication || true": nothing in it can end the script, and
\* the marker goes whatever ldapmodify has done.
DisableReplication ==
  /\ At("sync")
  /\ Unnoticed(IF fs.assets THEN [conf EXCEPT !.sync = {}] ELSE conf)
  /\ marks' = [marks EXCEPT !.sync = None]
  /\ Go(IF ct.hosts = {} THEN "admin" ELSE "syncOn")
  /\ UNCHANGED <<data, ct, fs, slapd>>

\* The hosts are added after edits of a file that must be there.
EnableReplication ==
  \/ /\ Needs("syncOn", fs.assets)
     /\ Unnoticed([conf EXCEPT !.sync = @ \cup ct.hosts])
     /\ Go("markSync")
     /\ UNCHANGED <<data, marks, ct, fs, slapd>>
  \/ Lacks("syncOn", fs.assets)

MarkSync ==
  /\ At("markSync")
  /\ marks' = [marks EXCEPT !.sync = ct.host]
  /\ Go("admin")
  /\ UNCHANGED <<data, conf, ct, fs, slapd, budget>>
-----------------------------------------------------------------------------
(* startup.sh: the password, and the end                                   *)

\* The first start has its password from dpkg-reconfigure.
AdminPassword ==
  \/ /\ At("admin") /\ ~marks.admin
     /\ marks' = [marks EXCEPT !.admin = TRUE]
     /\ Go("stop")
     /\ UNCHANGED <<data, conf, ct, fs, slapd, budget>>
  \/ /\ Needs("admin", marks.admin /\ slapd = "up" /\ fs.assets)
     /\ data' = ct.pw
     /\ Go("stop")
     /\ UNCHANGED <<conf, marks, ct, fs, slapd, budget>>
  \/ marks.admin /\ Lacks("admin", slapd = "up" /\ fs.assets)

\* Mutant of StopSlapd: it does not wait for the end of slapd.
StopNothing ==
  /\ At("stop")
  /\ Go("client")
  /\ UNCHANGED <<data, conf, marks, ct, fs, slapd, budget>>

\* kill takes its target from slapd.pid: a stale one names no process, and kill
\* fails, or another one, and slapd is left.
StopSlapd ==
  \/ /\ Needs("stop", fs.pid = "own")
     /\ slapd' = "down"
     /\ fs' = [fs EXCEPT !.pid = None]
     /\ Go("client")
     /\ UNCHANGED <<data, conf, marks, ct, budget>>
  \/ Lacks("stop", fs.pid = "own")
  \/ /\ Needs("stop", fs.pid = "stale")
     /\ Go("client")
     /\ UNCHANGED <<data, conf, marks, ct, fs, slapd, budget>>

ClientConfig ==
  /\ At("client")
  /\ fs' = IF proc.tls THEN [fs EXCEPT !.client = ct.crt] ELSE fs
  /\ Go("clean")
  /\ UNCHANGED <<data, conf, marks, ct, slapd, budget>>

RemoveConfig ==
  /\ At("clean")
  /\ fs' = [fs EXCEPT !.assets = @ /\ ~ct.remove]
  /\ Go("done")
  /\ UNCHANGED <<data, conf, marks, ct, slapd, budget>>

FirstStartDone ==
  /\ At("done")
  /\ fs' = [fs EXCEPT !.done = TRUE]
  /\ Go("serve")
  /\ UNCHANGED <<data, conf, marks, ct, slapd, budget>>

\* process.sh: the port must be free and no previous host name is listened on.
CanServe == conf # Absent /\ data # None /\ slapd = "down" /\ CanStart(None)

Serve ==
  \/ /\ Needs("serve", CanServe)
     /\ slapd' = "up"
     /\ fs' = [fs EXCEPT !.pid = "own"]
     /\ Go("run")
     /\ UNCHANGED <<data, conf, marks, ct, budget>>
  \/ Lacks("serve", CanServe)
-----------------------------------------------------------------------------
Setup ==
  \/ Check \/ ReconfigureConf \/ ReconfigureData
  \/ Previous \/ StartSlapd \/ SlapdUp \/ WaitPid \/ Seed
  \/ TlsConfig \/ UnmarkTls \/ CutTls \/ MarkTls \/ EnforceTls \/ MarkEnforce
  \/ DisableReplication \/ EnableReplication \/ MarkSync
  \/ AdminPassword \/ StopSlapd \/ ClientConfig \/ RemoveConfig \/ FirstStartDone
  \/ Serve

Next ==
  \/ Setup
  \/ \E e \in Containers, lost \in SUBSET {"data", "conf"} : NewContainer(e, lost)
  \/ Restart \/ Stop \/ Crash \/ Fault

Spec == Init /\ [][Next]_vars

\* The scripts run on; nobody has to start, stop or kill a container.
FairSpec == Spec /\ WF_vars(Setup)
-----------------------------------------------------------------------------
(* Properties                                                              *)

Steps == {"down", "check", "conf", "data", "prev", "slapd", "wait", "seed", "tls",
          "untls", "cutTls", "markTls", "enforce", "markEnforce", "sync", "syncOn",
          "markSync", "admin", "stop", "client", "clean", "done", "serve", "run"}

Names == UNION {{e.crt, e.dh, e.pw, e.host} \cup e.hosts : e \in Containers}
TlsNames == [crt : Names, dh : Names]

\* The variables have their types, and slapd only runs in a container.
SlapdTypeOK ==
  /\ data \in Names \cup {None}
  /\ \/ conf = Absent
     \/ conf \in [tls : TlsNames \cup {Absent}, enforce : BOOLEAN, sync : SUBSET Names,
                  seeded : 0..Parts]
  /\ marks \in [tls : TlsNames \cup {Absent, Cut}, enforce : BOOLEAN,
                sync : Names \cup {None}, admin : BOOLEAN]
  /\ ct \in Containers \cup {Absent}
  /\ fs \in [done : BOOLEAN, assets : BOOLEAN, crts : SUBSET Names,
             dhs : SUBSET (Names \cup {DefaultDh}), pid : {None, "own", "stale"},
             client : Names \cup {None}]
  /\ proc \in [at : Steps, boot : BOOLEAN, tls : BOOLEAN, enforce : BOOLEAN,
               prev : Names \cup {None}]
  /\ slapd \in {"down", "starting", "up"}
  /\ At("down") => slapd = "down"

\* A container whose first start is done has the configuration that its
\* environment asks for, with its own files; the markers that the next container
\* goes by and the clients' configuration say the same (lines 333-397 and
\* 479-489), whatever has been killed in between.
ConfigMatches ==
  (fs.done /\ ~ct.keep /\ ct.tls) =>
    /\ conf.tls = TlsPaths /\ marks.tls = TlsPaths
    /\ fs.client = ct.crt
    /\ ct.enforce => conf.enforce /\ marks.enforce

\* No command has failed so far, and with slapd in the background, where a pid
\* file of before ends the wait, nothing was killed.
Unharmed == budget.faults = MaxFaults /\ (ct.debug => budget.crashes = MaxCrashes)

\* When startup.sh hands over to process.sh, the directory and slapd's files are
\* there, whatever has failed or was killed; the slapd of startup.sh is gone, if it
\* was not in the background; and slapd can start, unless a command has failed:
\* no host name is missing then that only startup.sh listened on (lines 218-266,
\* 405-437 and 471-473).
Serves ==
  (At("serve") /\ ~ct.keep) =>
    /\ conf # Absent /\ data # None /\ FilesThere
    /\ ~ct.debug => slapd = "down"
    /\ Unharmed => CanServe

\* A database that is there is not made anew: its password changes by the
\* ldif files of admin-pw only, and by nobody but a start that has both volumes
\* (lines 131-189).
DirectoryKept ==
  [][data # None /\ data' # data => At("admin") \/ (At("down") /\ ct' # Absent)]_vars

\* No start hangs: it serves or ends, for the next one to try (line 266; with
\* slapd in the background the wait for its pid file may be endless).
StartEnds == (~At("down") /\ ~ct.debug) ~> (At("run") \/ At("down"))

\* So far no container was killed, missed a volume or kept a configuration, and
\* no command failed.
Undisturbed ==
  /\ budget.crashes = MaxCrashes /\ budget.faults = MaxFaults
  /\ budget.odd = MaxOdd

\* Containers that are stopped and replaced, and never killed, all come up on
\* the volumes of the one before (lines 218-253).
ComesUp ==
  (At("check") /\ ~ct.keep /\ ~ct.debug /\ Undisturbed) ~> (At("run") \/ ~Undisturbed)

\* A container that serves has the password of its environment, also when an
\* older one made the database (lines 449-464), and its configuration is complete:
\* all schemas and ldif files were added (lines 271-328; README.md:1 of the
\* bootstrap directory).
ServesAsAsked ==
  (At("run") /\ ~ct.keep /\ Undisturbed) => data = ct.pw /\ conf.seeded = Parts

=============================================================================
