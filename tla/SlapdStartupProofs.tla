------------------------- MODULE SlapdStartupProofs -------------------------
(***************************************************************************)
(* Proofs about SlapdStartup, for any environments and any bounds.  The    *)
(* invariants say, by the step startup.sh is at, what is already true on   *)
(* the way to the property: Flow what has been checked or made before,     *)
(* TlsInv the TLS configuration and its marker, ServeInv the slapd in the  *)
(* background and what process.sh needs, AskedInv in which of its three    *)
(* stages an undisturbed directory is.                                     *)
(***************************************************************************)
EXTENDS SlapdStartup, TLAPS

\* The types that SlapdTypeOK gives to the records.
ConfType == [tls : TlsNames \cup {Absent}, enforce : BOOLEAN, sync : SUBSET Names,
             seeded : 0..Parts]
MarksType == [tls : TlsNames \cup {Absent, Cut}, enforce : BOOLEAN,
              sync : Names \cup {None}, admin : BOOLEAN]
FsType == [done : BOOLEAN, assets : BOOLEAN, crts : SUBSET Names,
           dhs : SUBSET (Names \cup {DefaultDh}), pid : {None, "own", "stale"},
           client : Names \cup {None}]
ProcType == [at : Steps, boot : BOOLEAN, tls : BOOLEAN, enforce : BOOLEAN,
             prev : Names \cup {None}]
BudgetType == [starts : 0..MaxStarts, crashes : 0..MaxCrashes, faults : 0..MaxFaults,
               odd : 0..MaxOdd]

\* The types, and the budget, which is never exceeded.
Types ==
  /\ data \in Names \cup {None} /\ conf \in ConfType \cup {Absent}
  /\ marks \in MarksType /\ ct \in Containers \cup {Absent}
  /\ fs \in FsType /\ proc \in ProcType /\ slapd \in {"down", "starting", "up"}
  /\ At("down") => slapd = "down"
  /\ budget \in BudgetType

Within(steps) == proc.at \in steps

\* What holds of any start, also of one that keeps the configuration: the volumes
\* are filled once Check is passed, and a start that is done is not done again.
Tls2Stop == {"tls", "untls", "cutTls", "markTls", "enforce", "markEnforce",
             "sync", "syncOn", "markSync", "admin", "stop"}
Slapd2Stop == Tls2Stop \cup {"wait", "seed"}
Ending == {"client", "clean", "done"}
FirstStart == Slapd2Stop \cup Ending \cup {"check", "conf", "data", "prev", "slapd"}

Flow ==
  /\ ~At("down") => ct # Absent
  /\ ~Within({"down", "check", "conf"}) => conf # Absent
  /\ ~Within({"down", "check", "conf", "data"}) => data # None
  /\ Within({"conf", "data"}) => data = None
  /\ At("check") => ~proc.boot
  /\ (Within({"data", "prev", "slapd", "wait"}) /\ proc.boot) => conf.seeded = 0
  /\ At("seed") => conf.seeded < Parts
  /\ Within(FirstStart) => ~fs.done
  /\ Within({"serve", "run"}) => fs.done
  /\ fs.done => ct # Absent /\ conf # Absent /\ data # None
  /\ Within(Slapd2Stop \cup {"prev", "slapd"}) => ~ct.keep
  /\ Within({"check", "conf", "data", "prev", "slapd"}) => slapd = "down"
  /\ ~At("down") => (ct.tls => proc.tls) /\ (ct.enforce => proc.enforce)

\* The configuration is changed before the marker, and both before the end.
Encrypted == conf.tls = TlsPaths /\ marks.tls = TlsPaths
Enforced == ct.enforce => conf.enforce /\ marks.enforce

TlsInv ==
  /\ Within({"untls", "cutTls", "markTls", "enforce", "markEnforce"}) =>
       conf.tls = TlsPaths
  /\ Within({"enforce", "markEnforce"}) => marks.tls = TlsPaths
  /\ At("markEnforce") => conf.enforce
  /\ (Within({"sync", "syncOn", "markSync", "admin", "stop"} \cup Ending)
        /\ ~ct.keep /\ ct.tls) => Encrypted /\ Enforced
  /\ (Within({"clean", "done"}) /\ ct.tls) => fs.client = ct.crt
  /\ ConfigMatches

\* Starts that do not keep the configuration: with slapd in the foreground, and in
\* the background with nothing killed; one of the two is sure of its slapd.  A sound
\* start has had no failing command either, so that the hosts are its own.
Foreground == ct # Absent /\ ~ct.keep /\ ~ct.debug
Background == ct # Absent /\ ~ct.keep /\ ct.debug /\ Unharmed
Sure == Foreground \/ Background
Sound == ct # Absent /\ ~ct.keep /\ Unharmed
Steps2Stop == Tls2Stop \cup {"seed"}

AdminMarked ==
  (ct # Absent /\ ~ct.keep /\ (Within({"stop"} \cup Ending) \/ ~fs.assets \/ fs.done)) =>
    marks.admin

FilesKept ==
  /\ (slapd # "down" \/ fs.pid # None) => FilesThere
  /\ (ct # Absent /\ ~ct.keep /\ (Within(Steps2Stop \cup Ending) \/ fs.done)) => FilesThere

PidOwn ==
  /\ slapd = "starting" => ct # Absent /\ ct.debug
  /\ (Foreground /\ At("wait")) => slapd = "up" /\ fs.pid = "own"
  /\ Background => /\ fs.pid # "stale" /\ (fs.pid = "own" => slapd = "up")
                   /\ ~fs.assets => At("done") \/ fs.done
  /\ Sure => /\ Within(Steps2Stop) => slapd = "up" /\ fs.pid = "own"
             /\ Within(Ending \cup {"serve"}) => slapd = "down"

HostsOwn ==
  Sound => /\ At("syncOn") => conf.sync = {} \/ ~fs.assets
           /\ At("admin") => conf.sync = ct.hosts \/ ~fs.assets
           /\ (Within({"markSync", "stop"} \cup Ending) \/ fs.done) => conf.sync = ct.hosts

ServeInv == AdminMarked /\ FilesKept /\ PidOwn /\ HostsOwn

\* The stages of a directory whose starts nobody has disturbed: nothing is there;
\* the first container makes it; it is complete, with the password of the last
\* container that has come to the end of its startup.sh.
Untouched ==
  /\ data = None /\ conf = Absent /\ marks = NoMarks /\ fs = NewFs
  /\ Within({"down", "check", "conf"})
  /\ At("down") => ct = Absent
  /\ proc.boot = At("conf")

Bootstrapping ==
  /\ proc.boot /\ ~marks.admin /\ fs.assets /\ ~fs.done /\ ct # Absent
  /\ Within({"data", "prev", "slapd", "wait", "seed"} \cup (Tls2Stop \ {"stop"}))
  /\ ~At("data") => data = ct.pw
  /\ Within({"data", "prev", "slapd"}) =>
       conf.tls = Absent /\ conf.sync = {} /\ marks.tls = Absent /\ fs.pid = None
  /\ At("wait") => \/ slapd = "starting" /\ fs.pid = None
                   \/ slapd = "up" /\ fs.pid = "own"
  /\ Within({"seed"} \cup Tls2Stop) => slapd = "up" /\ fs.pid = "own"
  /\ Within(Tls2Stop) => conf.seeded = Parts

Settled ==
  /\ marks.admin /\ data # None /\ conf # Absent /\ ct # Absent
  /\ conf.seeded = Parts
  /\ ~Within({"conf", "data", "seed"})
  /\ Within({"check", "prev", "slapd", "wait"}) => ~proc.boot
  /\ (Within({"stop"} \cup Ending) \/ fs.done) => data = ct.pw

Staged == (ct # Absent => ~ct.keep) /\ (Untouched \/ Bootstrapping \/ Settled)

AskedInv == Undisturbed => Staged
-----------------------------------------------------------------------------
(* the records                                                             *)

\* An environment is no missing one, and its names are names.
LEMMA EnvFacts ==
  ASSUME NEW e \in Containers
  PROVE  /\ e # Absent
         /\ {e.tls, e.enforce, e.keep, e.debug, e.remove} \subseteq BOOLEAN
         /\ {e.crt, e.dh, e.pw, e.host} \subseteq Names /\ e.hosts \subseteq Names
         /\ e.pw # None /\ e.host # None
         /\ e.hosts # {} => e.host \in e.hosts
  <1>1. e \in [tls : BOOLEAN, enforce : BOOLEAN, keep : BOOLEAN, debug : BOOLEAN,
               remove : BOOLEAN, crt : {e.crt}, dh : {e.dh}, pw : {e.pw},
               host : {e.host}, hosts : {e.hosts}]
    BY SlapdAssumption
  <1>2. e # Absent
    <2>1. DOMAIN e # DOMAIN Absent
      BY <1>1 DEF Absent
    <2> QED BY <2>1
  <1>3. {e.crt, e.dh, e.pw, e.host} \subseteq Names /\ e.hosts \subseteq Names
    BY DEF Names
  <1> QED BY <1>1, <1>2, <1>3, SlapdAssumption

LEMMA PathsFacts ==
  ASSUME ct \in Containers
  PROVE  TlsPaths \in TlsNames /\ TlsPaths.crt = ct.crt /\ TlsPaths.dh = ct.dh
  BY EnvFacts DEF TlsPaths, TlsNames

\* A configuration is no missing one.
LEMMA ConfFacts ==
  ASSUME NEW c \in ConfType
  PROVE  c # Absent
  <1>1. DOMAIN c # DOMAIN Absent
    BY DEF ConfType, Absent
  <1> QED BY <1>1

LEMMA NewFacts == NewConf \in ConfType /\ NewFs \in FsType /\ NoMarks \in MarksType
  BY DEF NewConf, NewFs, NoMarks, ConfType, FsType, MarksType, Parts, DefaultDh, None

\* The markers with TLS paths name files.
LEMMA PreviousFacts ==
  ASSUME Types, ct \in Containers, marks.tls # Absent
  PROVE  PreviousTls \in TlsNames
  BY EnvFacts DEF Types, MarksType, PreviousTls, TlsNames

LEMMA TlsFacts ==
  ASSUME NEW t \in TlsNames
  PROVE  t.crt \in Names /\ t.dh \in Names /\ t # Absent
  <1>1. DOMAIN t # DOMAIN Absent
    BY DEF TlsNames, Absent
  <1> QED BY <1>1 DEF TlsNames
-----------------------------------------------------------------------------
(* types                                                                   *)

LEMMA TypesInit == Init => Types
  BY NewFacts, SlapdAssumption DEF Init, Types, BudgetType, Down, ProcType, Steps, At, None

LEMMA GoType ==
  ASSUME proc \in ProcType, NEW step \in Steps, Go(step)
  PROVE  /\ proc' \in ProcType /\ proc'.at = step
         /\ proc'.boot = proc.boot /\ proc'.tls = proc.tls
         /\ proc'.enforce = proc.enforce /\ proc'.prev = proc.prev
  BY DEF ProcType, Go

LEMMA EndType ==
  ASSUME Types, End
  PROVE  /\ proc' \in ProcType /\ fs' \in FsType /\ slapd' = "down" /\ proc'.at = "down"
         /\ fs'.done = fs.done /\ fs'.assets = fs.assets /\ fs'.crts = fs.crts
         /\ fs'.dhs = fs.dhs /\ fs'.client = fs.client /\ proc'.boot = FALSE
  BY DEF Types, End, FsType, ProcType, Down, Steps, None

\* Each start, kill, fault and oddity is taken from its bound.
LEMMA SpendType ==
  ASSUME Types, NEW bound \in {"starts", "crashes", "faults", "odd"}, Spend(bound)
  PROVE  /\ budget' \in BudgetType
         /\ \A b \in {"starts", "crashes", "faults", "odd"} : budget'[b] <= budget[b]
         /\ budget'[bound] # budget[bound]
  BY SlapdAssumption DEF Types, BudgetType, Spend

LEMMA BeginType ==
  ASSUME ct' \in Containers, proc' = Begin
  PROVE  /\ proc' \in ProcType /\ proc'.at = (IF fs'.done THEN "serve" ELSE "check")
         /\ proc'.boot = FALSE /\ proc'.tls = ct'.tls /\ proc'.enforce = ct'.enforce
         /\ proc'.at # "down"
  BY EnvFacts DEF Begin, Down, ProcType, Steps, None

\* A bootstrap needs both directories empty, and going on needs both filled.
LEMMA CheckEffect ==
  ASSUME Types, Check
  PROVE  \/ Exit
         \/ /\ At("check") /\ data = None /\ conf = Absent
            /\ proc' \in ProcType /\ proc'.at = "conf" /\ proc'.boot = TRUE
            /\ proc'.tls = proc.tls /\ proc'.enforce = proc.enforce
            /\ UNCHANGED <<data, conf, marks, ct, fs, slapd, budget>>
         \/ /\ At("check") /\ data # None /\ conf # Absent /\ Go(AfterCheck)
            /\ AfterCheck \in Steps
            /\ UNCHANGED <<data, conf, marks, ct, fs, slapd, budget>>
  <1>1. AfterCheck \in Steps
    BY DEF AfterCheck, Steps
  <1>2. CASE data = None /\ conf = Absent
    <2>1. /\ proc' = [proc EXCEPT !.at = "conf", !.boot = TRUE]
          /\ UNCHANGED <<data, conf, marks, ct, fs, slapd, budget>>
      BY <1>2 DEF Check
    <2>2. /\ proc' \in ProcType /\ proc'.at = "conf" /\ proc'.boot = TRUE
          /\ proc'.tls = proc.tls /\ proc'.enforce = proc.enforce
      BY <2>1 DEF Types, ProcType, Steps
    <2> QED BY <1>2, <2>1, <2>2 DEF Check
  <1>3. CASE data # None /\ conf # Absent
    BY <1>1, <1>3 DEF Check
  <1>4. CASE (data = None) # (conf = Absent)
    BY <1>4 DEF Check
  <1> QED BY <1>2, <1>3, <1>4

\* Only files for what the marker names are added before slapd is started.
LEMMA PreviousEffect ==
  ASSUME Types, ct \in Containers, Previous
  PROVE  /\ At("prev") /\ UNCHANGED <<data, conf, marks, ct, slapd, budget>>
         /\ fs' \in FsType /\ fs'.done = fs.done /\ fs'.assets = fs.assets
         /\ fs'.pid = fs.pid /\ fs'.client = fs.client
         /\ fs.crts \subseteq fs'.crts /\ fs.dhs \subseteq fs'.dhs
         /\ proc' \in ProcType
         /\ \/ proc'.at = "down" /\ proc'.boot = FALSE /\ marks.tls # Absent
            \/ /\ proc'.at = "slapd" /\ proc'.tls = proc.tls /\ proc'.boot = proc.boot
               /\ proc'.enforce = proc.enforce /\ proc'.prev = marks.sync
  <1>1. At("prev") /\ UNCHANGED <<data, conf, marks, ct, slapd, budget>>
    BY DEF Previous
  <1>2. fs' = fs \/ (marks.tls # Absent /\ fs' = TemporaryFiles)
    BY DEF Previous
  <1>3. /\ fs' \in FsType /\ fs'.done = fs.done /\ fs'.assets = fs.assets
        /\ fs'.pid = fs.pid /\ fs'.client = fs.client
        /\ fs.crts \subseteq fs'.crts /\ fs.dhs \subseteq fs'.dhs
    <2>1. CASE fs' = fs
      BY <2>1 DEF Types
    <2>2. CASE marks.tls # Absent /\ fs' = TemporaryFiles
      <3>1. PreviousTls.crt \in Names /\ ct.dh \in Names
        BY <2>2, PreviousFacts, TlsFacts, EnvFacts
      <3> QED BY <2>2, <3>1 DEF Types, TemporaryFiles, FsType
    <2> QED BY <1>2, <2>1, <2>2
  <1>4. CASE proc' = Down /\ marks.tls # Absent
    BY <1>1, <1>3, <1>4 DEF Down, ProcType, Steps, None
  <1>5. CASE proc' = [proc EXCEPT !.at = "slapd", !.prev = marks.sync]
    <2>1. /\ proc' \in ProcType /\ proc'.at = "slapd" /\ proc'.tls = proc.tls
          /\ proc'.enforce = proc.enforce /\ proc'.prev = marks.sync
          /\ proc'.boot = proc.boot
      BY <1>5 DEF Types, MarksType, ProcType, Steps
    <2> QED BY <1>1, <1>3, <2>1
  <1> QED BY <1>4, <1>5 DEF Previous

\* slapd starts, or in the background it may seem to.
LEMMA StartEffect ==
  ASSUME Types, StartSlapd
  PROVE  \/ ~CanStart(proc.prev) /\ ~ct.debug /\ Exit
         \/ /\ Go("wait") /\ UNCHANGED <<data, conf, marks, ct, budget>>
            /\ IF ct.debug THEN UNCHANGED fs
               ELSE CanStart(proc.prev) /\ fs' = [fs EXCEPT !.pid = "own"]
            /\ slapd' = IF ~ct.debug THEN "up"
                        ELSE IF CanStart(proc.prev) THEN "starting" ELSE slapd
  BY DEF StartSlapd

\* Replication's changes: what they touch, and what they do when none fails.
LEMMA DisableEffect ==
  ASSUME Types, Flow, DisableReplication
  PROVE  /\ At("sync") /\ proc' \in ProcType /\ proc'.boot = proc.boot
         /\ proc'.tls = proc.tls /\ proc'.enforce = proc.enforce
         /\ proc'.at = (IF ct.hosts = {} THEN "admin" ELSE "syncOn")
         /\ conf \in ConfType /\ conf' \in ConfType /\ conf'.tls = conf.tls
         /\ conf'.enforce = conf.enforce /\ conf'.seeded = conf.seeded
         /\ marks' \in MarksType /\ marks'.admin = marks.admin
         /\ marks'.tls = marks.tls /\ marks'.enforce = marks.enforce
         /\ UNCHANGED <<data, ct, fs, slapd>>
         /\ \/ Spend("faults")
            \/ budget' = budget /\ (slapd = "up" /\ fs.assets => conf'.sync = {})
  <1>1. conf \in ConfType /\ At("sync")
    BY DEF DisableReplication, Types, Flow, At, Within
  <1>2. [conf EXCEPT !.sync = {}] \in ConfType
    BY <1>1 DEF ConfType
  <1>3. conf' = conf \/ conf' = [conf EXCEPT !.sync = {}]
    BY DEF DisableReplication, Unnoticed
  <1>4. /\ conf' \in ConfType /\ conf'.tls = conf.tls
        /\ conf'.enforce = conf.enforce /\ conf'.seeded = conf.seeded
    BY <1>1, <1>2, <1>3 DEF ConfType
  <1>5. \/ Spend("faults")
        \/ budget' = budget /\ (slapd = "up" /\ fs.assets => conf' = [conf EXCEPT !.sync = {}])
    BY DEF DisableReplication, Unnoticed
  <1>6. [conf EXCEPT !.sync = {}].sync = {}
    BY <1>1 DEF ConfType
  <1>7. /\ marks' \in MarksType /\ marks'.admin = marks.admin
        /\ marks'.tls = marks.tls /\ marks'.enforce = marks.enforce
    BY DEF DisableReplication, Types, MarksType, None
  <1>8. Go(IF ct.hosts = {} THEN "admin" ELSE "syncOn") /\ UNCHANGED <<data, ct, fs, slapd>>
    BY DEF DisableReplication
  <1>9. /\ proc' \in ProcType /\ proc'.boot = proc.boot
        /\ proc'.tls = proc.tls /\ proc'.enforce = proc.enforce
        /\ proc'.at = (IF ct.hosts = {} THEN "admin" ELSE "syncOn")
    BY <1>8, GoType DEF Types, Steps
  <1> QED BY <1>1, <1>4, <1>5, <1>6, <1>7, <1>8, <1>9

LEMMA EnableEffect ==
  ASSUME Types, Flow, EnableReplication
  PROVE  \/ At("syncOn") /\ ~fs.assets /\ Exit
         \/ /\ At("syncOn") /\ fs.assets /\ proc' \in ProcType /\ proc'.boot = proc.boot
            /\ proc'.tls = proc.tls /\ proc'.enforce = proc.enforce
            /\ proc'.at = "markSync"
            /\ conf \in ConfType /\ conf' \in ConfType /\ conf'.tls = conf.tls
            /\ conf'.enforce = conf.enforce /\ conf'.seeded = conf.seeded
            /\ UNCHANGED <<data, marks, ct, fs, slapd>>
            /\ \/ Spend("faults")
               \/ budget' = budget /\ (slapd = "up" => conf'.sync = conf.sync \cup ct.hosts)
  <1>1. CASE Lacks("syncOn", fs.assets)
    BY <1>1 DEF Lacks
  <1>2. CASE /\ Needs("syncOn", fs.assets)
             /\ Unnoticed([conf EXCEPT !.sync = @ \cup ct.hosts])
             /\ Go("markSync")
             /\ UNCHANGED <<data, marks, ct, fs, slapd>>
    <2>1. conf \in ConfType /\ At("syncOn") /\ fs.assets /\ ct \in Containers
      BY <1>2 DEF Needs, Types, Flow, At, Within
    <2>2. ct.hosts \subseteq Names
      BY <2>1, EnvFacts
    <2>3. /\ [conf EXCEPT !.sync = @ \cup ct.hosts] \in ConfType
          /\ [conf EXCEPT !.sync = @ \cup ct.hosts].sync = conf.sync \cup ct.hosts
      BY <2>1, <2>2 DEF ConfType
    <2>4. conf' = conf \/ conf' = [conf EXCEPT !.sync = @ \cup ct.hosts]
      BY <1>2 DEF Unnoticed
    <2>5. /\ conf' \in ConfType /\ conf'.tls = conf.tls
          /\ conf'.enforce = conf.enforce /\ conf'.seeded = conf.seeded
      BY <2>1, <2>3, <2>4 DEF ConfType
    <2>6. \/ Spend("faults")
          \/ budget' = budget /\ (slapd = "up" => conf'.sync = conf.sync \cup ct.hosts)
      BY <1>2, <2>3 DEF Unnoticed
    <2>7. /\ proc' \in ProcType /\ proc'.boot = proc.boot /\ proc'.at = "markSync"
          /\ proc'.tls = proc.tls /\ proc'.enforce = proc.enforce
      BY <1>2, GoType DEF Types, Steps
    <2> QED BY <1>2, <2>1, <2>5, <2>6, <2>7
  <1> QED BY <1>1, <1>2 DEF EnableReplication

\* The steps that only go on, or end the container.
LEMMA TypesControl ==
  ASSUME Types,
         \/ Check \/ WaitPid \/ Restart \/ Stop \/ Crash \/ Fault
  PROVE  Types'
  <1> USE DEF Types, At
  <1>1. CASE Exit
    BY <1>1, EndType DEF Exit
  <1>2. CASE Check
    BY <1>1, <1>2, CheckEffect, GoType DEF AfterCheck, Steps
  <1>3. CASE WaitPid
    BY <1>3, GoType DEF WaitPid, Steps
  <1>4. CASE Restart
    BY <1>4, BeginType, SpendType DEF Restart
  <1>5. CASE Stop
    BY <1>5 DEF Stop, Down, ProcType, Steps, FsType, None
  <1>6. CASE Crash \/ Fault
    BY <1>6, EndType, SpendType DEF Crash, Fault
  <1> QED BY <1>2, <1>3, <1>4, <1>5, <1>6

LEMMA TypesContainer ==
  ASSUME Types, NEW e \in Containers, NEW lost \in SUBSET {"data", "conf"},
         NewContainer(e, lost)
  PROVE  Types'
  <1>1. proc' \in ProcType /\ proc'.at # "down" /\ slapd' = slapd
    BY BeginType DEF NewContainer
  <1>2. budget' \in BudgetType
    BY SpendType DEF NewContainer
  <1> QED BY <1>1, <1>2, NewFacts DEF NewContainer, Types, At

\* The steps that make and use the directories.
LEMMA TypesDirectories ==
  ASSUME Types, Flow,
         \/ ReconfigureConf \/ ReconfigureData \/ Previous \/ StartSlapd \/ SlapdUp \/ Seed
  PROVE  Types'
  <1> USE DEF Types, At
  <1>1. CASE ReconfigureConf
    BY <1>1, GoType, NewFacts DEF ReconfigureConf, Steps
  <1>2. CASE ReconfigureData
    BY <1>2, GoType, EnvFacts DEF Flow, ReconfigureData, AfterCheck, Steps
  <1>3. CASE Previous
    <2>1. ct # Absent /\ slapd = "down"
      BY <1>3 DEF Previous, Flow, Within
    <2> QED BY <1>3, <2>1, PreviousEffect
  <1>4. CASE StartSlapd
    <2>1. CASE Exit
      BY <2>1, EndType DEF Exit
    <2>2. [fs EXCEPT !.pid = "own"] \in FsType
      BY DEF FsType
    <2>3. CASE Go("wait")
      BY <1>4, <2>2, <2>3, GoType, EndType DEF StartSlapd, Exit, Steps
    <2> QED BY <1>4, <2>1, <2>3 DEF StartSlapd
  <1>5. CASE SlapdUp
    BY <1>5 DEF SlapdUp, FsType
  <1>6. CASE Seed
    <2>1. conf # Absent /\ conf.seeded < Parts
      BY <1>6 DEF Seed, Flow, Within
    <2> QED BY <1>6, <2>1, GoType DEF Seed, Parts, ConfType, Steps
  <1> QED BY <1>1, <1>2, <1>3, <1>4, <1>5, <1>6

LEMMA TypesTls ==
  ASSUME Types, Flow,
         \/ TlsConfig \/ UnmarkTls \/ CutTls \/ MarkTls \/ EnforceTls \/ MarkEnforce
  PROVE  Types'
  <1>0. ct # Absent /\ conf # Absent
    BY DEF TlsConfig, Needs, Lacks, UnmarkTls, CutTls, MarkTls, EnforceTls, MarkEnforce,
           Flow, At, Within
  <1> USE DEF Types, At
  <1>1. CASE TlsConfig
    <2>1. CASE Lacks("tls", slapd = "up" /\ fs.assets)
      BY <2>1, EndType DEF Lacks, Exit
    <2>2. CASE ~Tls /\ proc' = [proc EXCEPT !.at = "sync", !.enforce = Enforce]
               /\ UNCHANGED <<data, conf, marks, ct, fs, slapd, budget>>
      <3>1. Enforce \in BOOLEAN
        BY DEF Enforce, ProcType, MarksType
      <3>2. [proc EXCEPT !.at = "sync", !.enforce = Enforce] \in ProcType
        BY <3>1 DEF ProcType, Steps
      <3>3. proc'.at # "down"
        BY <2>2 DEF ProcType
      <3> QED BY <2>2, <3>2, <3>3
    <2>3. CASE /\ fs' = [fs EXCEPT !.crts = @ \cup {ct.crt}, !.dhs = @ \cup {ct.dh}]
               /\ conf' = [conf EXCEPT !.tls = TlsPaths]
               /\ proc' = [proc EXCEPT !.at = "untls", !.tls = TRUE, !.enforce = Enforce]
               /\ UNCHANGED <<data, marks, ct, slapd, budget>>
      <3>1. Enforce \in BOOLEAN
        BY DEF Enforce, ProcType, MarksType
      <3>2. [proc EXCEPT !.at = "untls", !.tls = TRUE, !.enforce = Enforce] \in ProcType
        BY <3>1 DEF ProcType, Steps
      <3>3. proc'.at # "down"
        BY <2>3 DEF ProcType
      <3>4. conf' \in ConfType
        BY <1>0, <2>3, PathsFacts DEF ConfType
      <3>5. fs' \in FsType
        BY <1>0, <2>3, EnvFacts DEF FsType
      <3> QED BY <2>3, <3>2, <3>3, <3>4, <3>5
    <2> QED BY <1>1, <2>1, <2>2, <2>3 DEF TlsConfig, Needs
  <1>2. CASE UnmarkTls \/ CutTls
    BY <1>0, <1>2, GoType DEF UnmarkTls, CutTls, MarksType, Steps
  <1>3. CASE MarkTls
    BY <1>0, <1>3, GoType, PathsFacts DEF MarkTls, MarksType, Steps
  <1>4. CASE EnforceTls \/ MarkEnforce
    BY <1>0, <1>4, GoType DEF EnforceTls, MarkEnforce, MarksType, ConfType, Steps
  <1> QED BY <1>1, <1>2, <1>3, <1>4

LEMMA TypesSync ==
  ASSUME Types, Flow,
         DisableReplication \/ EnableReplication \/ MarkSync
  PROVE  Types'
  <1>0. ct # Absent /\ conf # Absent
    BY DEF DisableReplication, EnableReplication, MarkSync, Needs, Lacks, Flow, At, Within
  <1> USE DEF Types, At
  <1>1. CASE DisableReplication
    <2>1. budget' \in BudgetType
      BY <1>1, DisableEffect, SpendType
    <2> QED BY <1>0, <1>1, <2>1, DisableEffect
  <1>2. CASE EnableReplication
    <2>1. CASE Exit
      BY <2>1, EndType DEF Exit
    <2>2. CASE ~Exit
      <3>1. budget' \in BudgetType
        BY <1>2, <2>2, EnableEffect, SpendType
      <3> QED BY <1>0, <1>2, <2>2, <3>1, EnableEffect
    <2> QED BY <2>1, <2>2
  <1>3. CASE MarkSync
    BY <1>0, <1>3, GoType, EnvFacts DEF MarkSync, MarksType, Steps
  <1> QED BY <1>0, <1>1, <1>2, <1>3

LEMMA TypesEnd ==
  ASSUME Types, Flow,
         \/ AdminPassword \/ StopSlapd \/ ClientConfig \/ RemoveConfig \/ FirstStartDone
         \/ Serve
  PROVE  Types'
  <1>0. ct # Absent
    BY DEF AdminPassword, StopSlapd, ClientConfig, RemoveConfig, FirstStartDone, Serve,
           Needs, Lacks, Flow, At
  <1> USE DEF Types, At
  <1>1. CASE Exit
    BY <1>1, EndType DEF Exit
  <1>2. CASE AdminPassword
    BY <1>0, <1>1, <1>2, GoType, EnvFacts DEF AdminPassword, Needs, Lacks, MarksType, Steps
  <1>3. CASE StopSlapd
    BY <1>0, <1>1, <1>3, GoType DEF StopSlapd, Needs, Lacks, FsType, Steps, None
  <1>4. CASE ClientConfig
    BY <1>0, <1>4, GoType, EnvFacts DEF ClientConfig, FsType, Steps
  <1>5. CASE RemoveConfig
    BY <1>0, <1>5, GoType, EnvFacts DEF RemoveConfig, FsType, Steps
  <1>6. CASE FirstStartDone
    BY <1>0, <1>6, GoType DEF FirstStartDone, FsType, Steps
  <1>7. CASE Serve
    BY <1>0, <1>1, <1>7, GoType DEF Serve, Needs, Lacks, FsType, Steps
  <1> QED BY <1>0, <1>2, <1>3, <1>4, <1>5, <1>6, <1>7
-----------------------------------------------------------------------------
(* what has been checked or made before a step                             *)

LEMMA FlowInit == Init => Flow
  BY DEF Init, Flow, Within, At, Down, NewFs, FirstStart, Slapd2Stop, Tls2Stop, Ending

\* A container that ends leaves its volumes, and its start is done or not.
LEMMA FlowExit ==
  ASSUME Types, Flow, End, UNCHANGED <<data, conf, marks, ct>>
  PROVE  Flow'
  BY EndType DEF Flow, Within, At, FirstStart, Slapd2Stop, Tls2Stop, Ending

LEMMA FlowControl ==
  ASSUME Types, Flow,
         \/ Check \/ WaitPid \/ Restart \/ Stop \/ Crash \/ Fault
  PROVE  Flow'
  <1> USE DEF Flow, Within, At, FirstStart, Slapd2Stop, Tls2Stop, Ending
  <1>1. CASE Exit
    BY <1>1, FlowExit DEF Exit
  <1>2. CASE Check
    BY <1>1, <1>2, CheckEffect, GoType DEF AfterCheck, Types
  <1>3. CASE WaitPid
    BY <1>3, GoType DEF WaitPid, Steps, Parts, Types
  <1>4. CASE Restart
    BY <1>4, BeginType DEF Restart, Types
  <1>5. CASE Stop
    BY <1>5 DEF Stop, Down, Types, FsType
  <1>6. CASE Crash \/ Fault
    BY <1>6, FlowExit DEF Crash, Fault
  <1> QED BY <1>2, <1>3, <1>4, <1>5, <1>6

LEMMA FlowContainer ==
  ASSUME Types, Flow, NEW e \in Containers, NEW lost \in SUBSET {"data", "conf"},
         NewContainer(e, lost)
  PROVE  Flow'
  <1>1. /\ proc'.at = "check" /\ proc'.boot = FALSE
        /\ proc'.tls = ct'.tls /\ proc'.enforce = ct'.enforce
    BY BeginType DEF NewContainer, NewFs
  <1>2. fs'.done = FALSE /\ slapd' = "down" /\ ct' # Absent
    BY EnvFacts DEF NewContainer, NewFs, Types
  <1> QED BY <1>1, <1>2
       DEF Flow, Within, At, FirstStart, Slapd2Stop, Tls2Stop, Ending

LEMMA FlowDirectories ==
  ASSUME Types, Flow,
         \/ ReconfigureConf \/ ReconfigureData \/ Previous \/ StartSlapd \/ SlapdUp \/ Seed
  PROVE  Flow'
  <1> USE DEF Types, Flow, Within, At, FirstStart, Slapd2Stop, Tls2Stop, Ending
  <1>1. CASE ReconfigureConf
    BY <1>1, GoType, NewFacts, ConfFacts DEF ReconfigureConf, NewConf, Steps
  <1>2. CASE ReconfigureData
    BY <1>2, GoType, EnvFacts DEF ReconfigureData, AfterCheck, Steps
  <1>3. CASE Previous
    <2>1. ct \in Containers
      BY <1>3 DEF Previous
    <2> QED BY <1>3, <2>1, PreviousEffect
  <1>4. CASE StartSlapd
    <2>1. CASE Exit
      BY <2>1, FlowExit DEF Exit
    <2>2. CASE ~Exit
      BY <1>4, <2>2, StartEffect, GoType DEF StartSlapd, Steps, FsType
    <2> QED BY <2>1, <2>2
  <1>5. CASE SlapdUp
    BY <1>5 DEF SlapdUp, FsType
  <1>6. CASE Seed
    BY <1>6, GoType, ConfFacts DEF Seed, Parts, ConfType, Steps
  <1> QED BY <1>1, <1>2, <1>3, <1>4, <1>5, <1>6

LEMMA FlowTls ==
  ASSUME Types, Flow,
         \/ TlsConfig \/ UnmarkTls \/ CutTls \/ MarkTls \/ EnforceTls \/ MarkEnforce
  PROVE  Flow'
  <1> USE DEF Types, Flow, Within, At, FirstStart, Slapd2Stop, Tls2Stop, Ending
  <1>1. CASE TlsConfig
    <2>1. CASE Lacks("tls", slapd = "up" /\ fs.assets)
      BY <2>1, FlowExit DEF Lacks, Exit
    <2>2. CASE /\ At("tls") /\ ~Tls
               /\ proc' = [proc EXCEPT !.at = "sync", !.enforce = Enforce]
               /\ UNCHANGED <<data, conf, marks, ct, fs, slapd, budget>>
      <3>1. proc'.at = "sync" /\ proc'.tls = proc.tls /\ (proc.enforce => proc'.enforce)
        BY <2>2 DEF Enforce, ProcType
      <3> QED BY <2>2, <3>1
    <2>3. CASE /\ Needs("tls", Tls /\ slapd = "up" /\ fs.assets)
               /\ fs' = [fs EXCEPT !.crts = @ \cup {ct.crt}, !.dhs = @ \cup {ct.dh}]
               /\ conf' = [conf EXCEPT !.tls = TlsPaths]
               /\ proc' = [proc EXCEPT !.at = "untls", !.tls = TRUE, !.enforce = Enforce]
               /\ UNCHANGED <<data, marks, ct, slapd, budget>>
      <3>1. fs'.done = fs.done
        BY <2>3 DEF FsType
      <3>2. proc'.at = "untls" /\ proc'.tls /\ (proc.enforce => proc'.enforce)
        BY <2>3 DEF Enforce, ProcType
      <3>3. conf' # Absent
        BY <2>3, ConfFacts, PathsFacts DEF ConfType, Needs
      <3> QED BY <2>3, <3>1, <3>2, <3>3 DEF Needs
    <2> QED BY <1>1, <2>1, <2>2, <2>3 DEF TlsConfig
  <1>2. CASE UnmarkTls \/ CutTls \/ MarkTls \/ MarkEnforce
    BY <1>2, GoType DEF UnmarkTls, CutTls, MarkTls, MarkEnforce, Steps
  <1>3. CASE EnforceTls
    BY <1>3, GoType, ConfFacts DEF EnforceTls, ConfType, Steps
  <1> QED BY <1>1, <1>2, <1>3

LEMMA FlowSync ==
  ASSUME Types, Flow,
         DisableReplication \/ EnableReplication \/ MarkSync
  PROVE  Flow'
  <1> USE DEF Types, Flow, Within, At, FirstStart, Slapd2Stop, Tls2Stop, Ending
  <1>1. CASE DisableReplication
    BY <1>1, DisableEffect, ConfFacts
  <1>2. CASE EnableReplication
    <2>1. CASE Exit
      BY <2>1, FlowExit DEF Exit
    <2>2. CASE ~Exit
      BY <1>2, <2>2, EnableEffect, ConfFacts
    <2> QED BY <2>1, <2>2
  <1>3. CASE MarkSync
    BY <1>3, GoType, EnvFacts DEF MarkSync, Steps
  <1> QED BY <1>1, <1>2, <1>3

LEMMA FlowEnd ==
  ASSUME Types, Flow,
         \/ AdminPassword \/ StopSlapd \/ ClientConfig \/ RemoveConfig \/ FirstStartDone
         \/ Serve
  PROVE  Flow'
  <1> USE DEF Types, Flow, Within, At, FirstStart, Slapd2Stop, Tls2Stop, Ending
  <1>1. CASE Exit
    BY <1>1, FlowExit DEF Exit
  <1>2. CASE AdminPassword
    BY <1>1, <1>2, GoType, EnvFacts DEF AdminPassword, Needs, Lacks, Steps
  <1>3. CASE StopSlapd
    BY <1>1, <1>3, GoType DEF StopSlapd, Needs, Lacks, FsType, Steps
  <1>4. CASE ClientConfig
    BY <1>4, GoType DEF ClientConfig, FsType, Steps
  <1>5. CASE RemoveConfig
    BY <1>5, GoType DEF RemoveConfig, FsType, Steps
  <1>6. CASE FirstStartDone
    BY <1>6, GoType DEF FirstStartDone, FsType, Steps
  <1>7. CASE Serve
    BY <1>1, <1>7, GoType DEF Serve, Needs, Lacks, FsType, Steps
  <1> QED BY <1>2, <1>3, <1>4, <1>5, <1>6, <1>7

LEMMA FlowNext == Types /\ Flow /\ [Next]_vars => Types' /\ Flow'
  <1> SUFFICES ASSUME Types, Flow, [Next]_vars PROVE Types' /\ Flow'
    OBVIOUS
  <1>1. CASE UNCHANGED vars
    BY <1>1 DEF vars, Types, Flow, At, Within, BudgetType
  <1>2. CASE Next
    <2>1. ASSUME NEW e \in Containers, NEW lost \in SUBSET {"data", "conf"},
                 NewContainer(e, lost)
          PROVE  Types' /\ Flow'
      BY <2>1, TypesContainer, FlowContainer
    <2> QED BY <1>2, <2>1, TypesControl, FlowControl, TypesDirectories, FlowDirectories,
               TypesTls, FlowTls, TypesSync, FlowSync, TypesEnd, FlowEnd DEF Next, Setup
  <1> QED BY <1>1, <1>2

\* The variables have their types, and slapd only runs in a container.
THEOREM SlapdTypeCorrect == Spec => []SlapdTypeOK
  <1>1. Types => SlapdTypeOK
    BY DEF Types, SlapdTypeOK, ConfType, MarksType, FsType, ProcType
  <1> QED BY <1>1, TypesInit, FlowInit, FlowNext, PTL DEF Spec

\* A database that is there keeps its password: dpkg-reconfigure only comes after
\* Check has seen none, so that it is for admin-pw's ldif files to change it.
THEOREM DirectoryKeptHolds == Spec => DirectoryKept
  <1>1. ASSUME Types, Flow, [Next]_vars, data # None, data' # data
        PROVE  At("admin") \/ (At("down") /\ ct' # Absent)
    <2>1. CASE Next
      <3>1. ASSUME NEW e \in Containers, NEW lost \in SUBSET {"data", "conf"},
                   NewContainer(e, lost)
            PROVE  At("down") /\ ct' # Absent
        BY <3>1, EnvFacts DEF NewContainer
      <3>2. CASE ReconfigureData
        BY <1>1, <3>2 DEF ReconfigureData, Flow, Within, At
      <3>3. CASE AdminPassword
        BY <3>3 DEF AdminPassword, Needs, Lacks
      <3>4. CASE Setup
        BY <1>1, <2>1, <3>2, <3>3, <3>4
           DEF Setup, Check, Exit, ReconfigureConf, Previous, StartSlapd, SlapdUp, WaitPid, Seed,
               TlsConfig, UnmarkTls, CutTls, MarkTls, EnforceTls, MarkEnforce, Lacks,
               DisableReplication, EnableReplication, MarkSync, StopSlapd, ClientConfig,
               RemoveConfig, FirstStartDone, Serve
      <3>5. CASE Restart \/ Stop \/ Crash \/ Fault
        BY <1>1, <2>1, <3>5 DEF Restart, Stop, Crash, Fault
      <3> QED BY <2>1, <3>1, <3>4, <3>5 DEF Next
    <2> QED BY <1>1, <2>1 DEF vars
  <1>2. Types /\ Flow /\ [Next]_vars
          => [data # None /\ data' # data => At("admin") \/ (At("down") /\ ct' # Absent)]_vars
    BY <1>1
  <1> QED BY <1>2, TypesInit, FlowInit, FlowNext, PTL DEF Spec, DirectoryKept
-----------------------------------------------------------------------------
(* TLS                                                                     *)

LEMMA TlsInit == Init => TlsInv
  BY DEF Init, TlsInv, ConfigMatches, Within, At, Down, NewFs, Ending

LEMMA TlsExit ==
  ASSUME Types, Flow, TlsInv, End, UNCHANGED <<data, conf, marks, ct>>
  PROVE  TlsInv'
  BY EndType DEF TlsInv, ConfigMatches, TlsPaths, Encrypted, Enforced, Within, At, Ending

LEMMA TlsControl ==
  ASSUME Types, Flow, TlsInv,
         \/ Check \/ WaitPid \/ Restart \/ Stop \/ Crash \/ Fault
  PROVE  TlsInv'
  <1> USE DEF TlsInv, ConfigMatches, TlsPaths, Encrypted, Enforced, Within, At, Ending
  <1>1. CASE Exit
    BY <1>1, TlsExit DEF Exit
  <1>2. CASE Check
    BY <1>1, <1>2, CheckEffect, GoType DEF AfterCheck, Types
  <1>3. CASE WaitPid
    BY <1>3, GoType DEF WaitPid, Steps, Types
  <1>4. CASE Restart
    BY <1>4, BeginType DEF Restart, Types
  <1>5. CASE Stop
    <2>1. fs'.done = fs.done /\ fs'.client = fs.client /\ proc'.at = "down"
      BY <1>5 DEF Stop, Types, FsType, Down
    <2> QED BY <1>5, <2>1 DEF Stop
  <1>6. CASE Crash \/ Fault
    BY <1>6, TlsExit DEF Crash, Fault
  <1> QED BY <1>2, <1>3, <1>4, <1>5, <1>6

LEMMA TlsContainer ==
  ASSUME Types, Flow, TlsInv, NEW e \in Containers, NEW lost \in SUBSET {"data", "conf"},
         NewContainer(e, lost)
  PROVE  TlsInv'
  <1>1. proc'.at = "check" /\ fs'.done = FALSE
    BY BeginType DEF NewContainer, NewFs
  <1> QED BY <1>1 DEF TlsInv, ConfigMatches, Within, At, Ending

LEMMA TlsDirectories ==
  ASSUME Types, Flow, TlsInv,
         \/ ReconfigureConf \/ ReconfigureData \/ Previous \/ StartSlapd \/ SlapdUp \/ Seed
  PROVE  TlsInv'
  <1> USE DEF Types, TlsInv, ConfigMatches, TlsPaths, Encrypted, Enforced, Within, At, Ending
  <1>1. CASE ReconfigureConf
    BY <1>1, GoType DEF ReconfigureConf, Steps, Flow, FirstStart
  <1>2. CASE ReconfigureData
    BY <1>2, GoType DEF ReconfigureData, AfterCheck, Steps
  <1>3. CASE Previous
    <2>1. ct \in Containers
      BY <1>3 DEF Previous, Flow
    <2> QED BY <1>3, <2>1, PreviousEffect
  <1>4. CASE StartSlapd
    <2>1. CASE Exit
      BY <2>1, TlsExit DEF Exit
    <2>2. CASE ~Exit
      BY <1>4, <2>2, StartEffect, GoType DEF StartSlapd, Steps, FsType
    <2> QED BY <2>1, <2>2
  <1>5. CASE SlapdUp
    BY <1>5 DEF SlapdUp, FsType
  <1>6. CASE Seed
    <2>1. fs.done = FALSE
      BY <1>6 DEF Seed, Flow, FirstStart, Slapd2Stop, FsType
    <2> QED BY <1>6, <2>1, GoType DEF Seed, Parts, Steps
  <1> QED BY <1>1, <1>2, <1>3, <1>4, <1>5, <1>6

LEMMA TlsTls ==
  ASSUME Types, Flow, TlsInv,
         \/ TlsConfig \/ UnmarkTls \/ CutTls \/ MarkTls \/ EnforceTls \/ MarkEnforce
  PROVE  TlsInv'
  <1>0. ~fs.done /\ conf \in ConfType /\ (ct.tls => proc.tls) /\ (ct.enforce => proc.enforce)
    BY DEF TlsConfig, Needs, Lacks, UnmarkTls, CutTls, MarkTls, EnforceTls, MarkEnforce,
           Flow, At, Within, FirstStart, Slapd2Stop, Tls2Stop, Types
  <1> USE DEF Types, TlsInv, ConfigMatches, Encrypted, Enforced, Within, At, Ending
  <1>1. CASE TlsConfig
    <2>1. CASE Lacks("tls", slapd = "up" /\ fs.assets)
      BY <2>1, TlsExit DEF Lacks, Exit
    <2>2. CASE /\ At("tls") /\ ~Tls
               /\ proc' = [proc EXCEPT !.at = "sync", !.enforce = Enforce]
               /\ UNCHANGED <<data, conf, marks, ct, fs, slapd, budget>>
      <3>1. proc'.at = "sync" /\ ~ct.tls
        BY <1>0, <2>2 DEF Tls, ProcType
      <3> QED BY <1>0, <2>2, <3>1
    <2>3. CASE /\ Needs("tls", Tls /\ slapd = "up" /\ fs.assets)
               /\ fs' = [fs EXCEPT !.crts = @ \cup {ct.crt}, !.dhs = @ \cup {ct.dh}]
               /\ conf' = [conf EXCEPT !.tls = TlsPaths]
               /\ proc' = [proc EXCEPT !.at = "untls", !.tls = TRUE, !.enforce = Enforce]
               /\ UNCHANGED <<data, marks, ct, slapd, budget>>
      <3>1. fs'.done = fs.done
        BY <2>3 DEF FsType
      <3>2. proc'.at = "untls"
        BY <2>3 DEF ProcType
      <3>3. conf'.tls = TlsPaths'
        BY <1>0, <2>3 DEF ConfType, TlsPaths
      <3> QED BY <1>0, <2>3, <3>1, <3>2, <3>3
    <2> QED BY <1>1, <2>1, <2>2, <2>3 DEF TlsConfig
  <1>2. CASE UnmarkTls \/ CutTls
    BY <1>0, <1>2, GoType DEF UnmarkTls, CutTls, Steps, TlsPaths
  <1>3. CASE MarkTls
    <2>1. marks'.tls = TlsPaths
      BY <1>3 DEF MarkTls, MarksType
    <2> QED BY <1>0, <1>3, <2>1, GoType DEF MarkTls, Steps, TlsPaths
  <1>4. CASE EnforceTls
    <2>1. conf'.enforce = TRUE /\ conf'.tls = conf.tls
      BY <1>0, <1>4 DEF EnforceTls, ConfType
    <2> QED BY <1>0, <1>4, <2>1, GoType DEF EnforceTls, Steps, TlsPaths
  <1>5. CASE MarkEnforce
    <2>1. marks'.enforce = TRUE /\ marks'.tls = marks.tls
      BY <1>5 DEF MarkEnforce, MarksType
    <2> QED BY <1>0, <1>5, <2>1, GoType DEF MarkEnforce, Steps, TlsPaths
  <1> QED BY <1>1, <1>2, <1>3, <1>4, <1>5

LEMMA TlsSync ==
  ASSUME Types, Flow, TlsInv,
         DisableReplication \/ EnableReplication \/ MarkSync
  PROVE  TlsInv'
  <1>0. ~fs.done /\ conf \in ConfType
    BY DEF DisableReplication, EnableReplication, MarkSync, Needs, Lacks,
           Flow, At, Within, FirstStart, Slapd2Stop, Tls2Stop, Types
  <1> USE DEF Types, TlsInv, ConfigMatches, Encrypted, Enforced, Within, At, Ending
  <1>1. CASE Exit
    BY <1>1, TlsExit DEF Exit
  <1>2. CASE DisableReplication
    BY <1>0, <1>2, DisableEffect DEF TlsPaths
  <1>3. CASE EnableReplication /\ ~Exit
    BY <1>0, <1>3, EnableEffect DEF TlsPaths
  <1>4. CASE MarkSync
    <2>1. marks'.tls = marks.tls /\ marks'.enforce = marks.enforce
      BY <1>4 DEF MarkSync, MarksType
    <2> QED BY <1>0, <1>4, <2>1, GoType DEF MarkSync, Steps, TlsPaths
  <1> QED BY <1>1, <1>2, <1>3, <1>4

LEMMA TlsEnd ==
  ASSUME Types, Flow, TlsInv,
         \/ AdminPassword \/ StopSlapd \/ ClientConfig \/ RemoveConfig \/ FirstStartDone
         \/ Serve
  PROVE  TlsInv'
  <1> USE DEF Types, TlsInv, ConfigMatches, TlsPaths, Encrypted, Enforced, Within, At, Ending
  <1>1. CASE Exit
    BY <1>1, TlsExit DEF Exit
  <1>2. CASE AdminPassword
    <2>1. \/ marks' = [marks EXCEPT !.admin = TRUE] /\ fs' = fs
          \/ marks' = marks /\ fs' = fs
          \/ Exit
      BY <1>2 DEF AdminPassword, Lacks
    <2>2. CASE ~Exit
      <3>1. marks'.tls = marks.tls /\ marks'.enforce = marks.enforce /\ fs' = fs
        BY <2>1, <2>2 DEF MarksType
      <3> QED BY <1>2, <2>2, <3>1, GoType DEF AdminPassword, Needs, Lacks, Steps
    <2> QED BY <1>1, <2>2
  <1>3. CASE StopSlapd
    BY <1>1, <1>3, GoType DEF StopSlapd, Needs, Lacks, FsType, Steps
  <1>4. CASE ClientConfig
    <2>1. fs'.done = fs.done /\ (proc.tls => fs'.client = ct.crt)
      BY <1>4 DEF ClientConfig, FsType
    <2>2. ~fs.done /\ (ct.tls => proc.tls)
      BY <1>4 DEF ClientConfig, Flow, FirstStart
    <2> QED BY <1>4, <2>1, <2>2, GoType DEF ClientConfig, Steps
  <1>5. CASE RemoveConfig
    BY <1>5, GoType DEF RemoveConfig, FsType, Steps
  <1>6. CASE FirstStartDone
    BY <1>6, GoType DEF FirstStartDone, FsType, Steps
  <1>7. CASE Serve
    BY <1>1, <1>7, GoType DEF Serve, Needs, Lacks, FsType, Steps
  <1> QED BY <1>2, <1>3, <1>4, <1>5, <1>6, <1>7

LEMMA TlsNext == Types /\ Flow /\ TlsInv /\ [Next]_vars => TlsInv'
  <1> SUFFICES ASSUME Types, Flow, TlsInv, [Next]_vars PROVE TlsInv'
    OBVIOUS
  <1>1. CASE UNCHANGED vars
    BY <1>1 DEF vars, TlsInv, ConfigMatches, TlsPaths, Encrypted, Enforced, At, Within
  <1>2. CASE Next
    <2>1. ASSUME NEW e \in Containers, NEW lost \in SUBSET {"data", "conf"},
                 NewContainer(e, lost)
          PROVE  TlsInv'
      BY <2>1, TlsContainer
    <2> QED BY <1>2, <2>1, TlsControl, TlsDirectories, TlsTls, TlsSync, TlsEnd DEF Next, Setup
  <1> QED BY <1>1, <1>2

\* What ConfigMatches says: on the way to it the configuration is changed first,
\* then the marker that the next container goes by, and then the clients' file.
THEOREM ConfigMatchesHolds == Spec => []ConfigMatches
  <1>1. TlsInv => ConfigMatches
    BY DEF TlsInv
  <1> QED BY <1>1, TypesInit, FlowInit, TlsInit, FlowNext, TlsNext, PTL DEF Spec
-----------------------------------------------------------------------------
(* what process.sh needs                                                   *)

\* A step of a container that leaves it unharmed leaves its bounds alone.
LEMMA UnharmedStep ==
  ASSUME Types, Unharmed', ct' = ct,
         budget' = budget \/ Spend("starts") \/ Spend("crashes") \/ Spend("faults")
  PROVE  Unharmed /\ ~Spend("faults") /\ (ct.debug => ~Spend("crashes"))
  <1>1. /\ budget.crashes \in 0..MaxCrashes /\ budget.faults \in 0..MaxFaults
        /\ {MaxCrashes, MaxFaults} \subseteq Nat
    BY SlapdAssumption DEF Types, BudgetType
  <1>2. CASE Spend("faults")
    BY <1>1, <1>2, SpendType DEF Unharmed
  <1>3. CASE budget' = budget
    <2>1. ~Spend("faults") /\ ~Spend("crashes")
      BY <1>3, SpendType
    <2> QED BY <1>3, <2>1 DEF Unharmed
  <1>4. CASE Spend("starts")
    <2>1. budget'.faults = budget.faults /\ budget'.crashes = budget.crashes
      BY <1>4 DEF Spend, Types, BudgetType
    <2>2. ~Spend("faults") /\ ~Spend("crashes")
      BY <2>1, SpendType
    <2> QED BY <2>1, <2>2 DEF Unharmed
  <1>5. CASE Spend("crashes")
    <2>1. budget'.faults = budget.faults /\ budget'.crashes < budget.crashes
      BY <1>1, <1>5 DEF Spend, Types, BudgetType
    <2>2. ~Spend("faults")
      BY <2>1, SpendType
    <2> QED BY <1>1, <2>1, <2>2 DEF Unharmed
  <1> QED BY <1>2, <1>3, <1>4, <1>5

LEMMA ServeInit == Init => ServeInv
  BY DEF Init, ServeInv, AdminMarked, FilesKept, PidOwn, HostsOwn, Foreground,
         Background, Sure, Sound, Steps2Stop, FilesThere, Within, At, Down, NewFs, Ending, Slapd2Stop, Tls2Stop

\* The end of a container: of one in the background that is unharmed only when its
\* slapd is down.
LEMMA ServeExit ==
  ASSUME Types, Flow, ServeInv, End, UNCHANGED <<data, conf, marks, ct>>,
         Unharmed' => Unharmed, Background' => fs.pid # "own" /\ ~At("done")
  PROVE  ServeInv'
  <1>1. fs'.pid = (IF fs.pid = "own" THEN "stale" ELSE fs.pid)
    BY DEF End, Types, FsType
  <1> USE DEF ServeInv, Within, At, Ending, Slapd2Stop, Tls2Stop
  <1>2. AdminMarked' /\ FilesKept'
    BY <1>1, EndType DEF AdminMarked, FilesKept, FilesThere, Steps2Stop, None
  <1>3. PidOwn'
    BY <1>1, EndType DEF PidOwn, Foreground, Background, Sure, Steps2Stop
  <1>4. HostsOwn'
    BY <1>1, EndType DEF HostsOwn, Sound
  <1> QED BY <1>2, <1>3, <1>4

LEMMA ServeQuit ==
  ASSUME Types, Flow, ServeInv, Exit, Background => fs.pid # "own" /\ ~At("done")
  PROVE  ServeInv'
  BY ServeExit DEF Exit, Unharmed, Background

LEMMA ServeControl ==
  ASSUME Types, Flow, ServeInv,
         \/ Check \/ WaitPid \/ Restart \/ Stop \/ Crash \/ Fault
  PROVE  ServeInv'
  <1>0. ct' = ct /\ (Unharmed' => Unharmed /\ ~Spend("faults") /\ (ct.debug => ~Spend("crashes")))
    BY UnharmedStep DEF Check, Exit, WaitPid, Restart, Stop, Crash, Fault
  <1> USE DEF ServeInv, AdminMarked, FilesKept, PidOwn, HostsOwn, Foreground,
         Background, Sure, Sound, Steps2Stop, FilesThere,
              Within, At, Ending, Slapd2Stop, Tls2Stop
  <1>1. CASE Check /\ Exit
    <2>1. slapd = "down" /\ ~At("done")
      BY <1>1 DEF Check, Flow
    <2> QED BY <1>1, <2>1, ServeQuit
  <1>2. CASE Check /\ ~Exit
    BY <1>0, <1>2, CheckEffect, GoType DEF AfterCheck, Types, Flow
  <1>3. CASE WaitPid
    BY <1>0, <1>3, GoType DEF WaitPid, Steps, Types, FsType, Flow, FirstStart
  <1>4. CASE Restart
    BY <1>0, <1>4, BeginType DEF Restart, Types
  <1>5. CASE Stop
    <2>1. /\ fs'.done = fs.done /\ fs'.crts = fs.crts /\ fs'.dhs = fs.dhs
          /\ fs'.assets = fs.assets /\ fs'.pid = None /\ proc'.at = "down" /\ slapd' = "down"
          /\ At("run")
      BY <1>5 DEF Stop, Types, FsType, Down
    <2> QED BY <1>0, <1>5, <2>1 DEF Stop, None
  <1>6. CASE Crash \/ Fault
    <2>1. ~Background'
      BY <1>0, <1>6 DEF Crash, Fault
    <2> QED BY <1>0, <1>6, <2>1, ServeExit DEF Crash, Fault
  <1> QED BY <1>1, <1>2, <1>3, <1>4, <1>5, <1>6

LEMMA ServeContainer ==
  ASSUME Types, Flow, ServeInv, NEW e \in Containers, NEW lost \in SUBSET {"data", "conf"},
         NewContainer(e, lost)
  PROVE  ServeInv'
  <1>1. /\ proc'.at = "check" /\ fs'.done = FALSE /\ fs'.assets = TRUE
        /\ fs'.pid = None /\ None # "own" /\ None # "stale"
    BY BeginType DEF NewContainer, NewFs, None
  <1>2. slapd' = "down"
    BY DEF NewContainer, Types
  <1> QED BY <1>1, <1>2
       DEF ServeInv, AdminMarked, FilesKept, PidOwn, HostsOwn, Foreground,
         Background, Sure, Sound, Steps2Stop, FilesThere,
           Within, At, Ending, Slapd2Stop, Tls2Stop

LEMMA ServeDirectories ==
  ASSUME Types, Flow, ServeInv,
         \/ ReconfigureConf \/ ReconfigureData \/ Previous \/ StartSlapd \/ SlapdUp \/ Seed
  PROVE  ServeInv'
  <1>0. ~SlapdUp => ~fs.done
    BY DEF ReconfigureConf, ReconfigureData, Previous, StartSlapd, Seed, Flow, Within, At,
           FirstStart, Slapd2Stop, Tls2Stop
  <1>u. Unharmed' => Unharmed
    BY DEF ReconfigureConf, ReconfigureData, Previous, StartSlapd, Exit, SlapdUp, Seed, Unharmed
  <1> USE DEF Types, ServeInv, AdminMarked, FilesKept, PidOwn, HostsOwn, Foreground,
         Background, Sure, Sound, Steps2Stop, FilesThere, Within, At, Ending, Slapd2Stop, Tls2Stop
  <1>1. CASE ReconfigureConf
    BY <1>u, <1>0, <1>1, GoType DEF ReconfigureConf, NewConf, SlapdUp, Steps, Flow
  <1>2. CASE ReconfigureData
    BY <1>u, <1>2, GoType DEF ReconfigureData, AfterCheck, Steps
  <1>3. CASE Previous
    <2>1. ct \in Containers
      BY <1>3 DEF Previous, Flow
    <2>2. slapd = "down" /\ ~fs.done
      BY <1>3 DEF Previous, Flow, FirstStart
    <2> QED BY <1>u, <1>3, <2>1, <2>2, PreviousEffect
  <1>4. CASE StartSlapd
    <2>1. CASE Exit
      BY <1>4, <2>1, ServeQuit, StartEffect, GoType DEF StartSlapd, Flow, Steps
    <2>2. CASE ~Exit
      <3>1. ct \in Containers /\ ct # Absent
        BY <1>4 DEF StartSlapd, Flow
      <3>2. /\ fs'.done = fs.done /\ fs'.assets = fs.assets
            /\ fs'.crts = fs.crts /\ fs'.dhs = fs.dhs /\ (~ct.debug => fs'.pid = "own")
        BY <1>4, <2>2, StartEffect DEF FsType
      <3>3. ~fs.done /\ slapd = "down"
        BY <1>4 DEF StartSlapd, Flow, FirstStart
      <3>4. proc'.at = "wait" /\ UNCHANGED <<conf, marks, ct>>
        BY <1>4, <2>2, StartEffect, GoType DEF Steps
      <3>5. CASE ct.debug
        <4>1. fs' = fs /\ ((slapd' = "starting" /\ FilesThere) \/ slapd' = "down")
          BY <1>4, <2>2, <3>3, <3>5, StartEffect DEF CanStart
        <4>2. At("slapd")
          BY <1>4 DEF StartSlapd
        <4> QED BY <1>u, <3>1, <3>3, <3>4, <3>5, <4>1, <4>2
      <3>6. CASE ~ct.debug
        <4>1. slapd' = "up" /\ FilesThere
          BY <1>4, <2>2, <3>6, StartEffect DEF CanStart
        <4> QED BY <1>u, <3>1, <3>2, <3>3, <3>4, <3>6, <4>1
      <3> QED BY <3>5, <3>6
    <2> QED BY <2>1, <2>2
  <1>5. CASE SlapdUp
    BY <1>u, <1>5 DEF SlapdUp, FsType, Flow
  <1>6. CASE Seed
    <2>1. conf'.tls = conf.tls /\ conf'.sync = conf.sync
      BY <1>6 DEF Seed, Flow, ConfType
    <2> QED BY <1>u, <1>6, <2>1, GoType DEF Seed, Steps
  <1> QED BY <1>1, <1>2, <1>3, <1>4, <1>5, <1>6

LEMMA ServeTls ==
  ASSUME Types, Flow, ServeInv,
         \/ TlsConfig \/ UnmarkTls \/ CutTls \/ MarkTls \/ EnforceTls \/ MarkEnforce
  PROVE  ServeInv'
  <1>0. ~fs.done /\ conf \in ConfType /\ ct \in Containers
    BY DEF TlsConfig, Needs, Lacks, UnmarkTls, CutTls, MarkTls, EnforceTls, MarkEnforce,
           Flow, At, Within, FirstStart, Slapd2Stop, Tls2Stop, Types
  <1>u. Unharmed' => Unharmed
    BY DEF TlsConfig, Lacks, Exit, UnmarkTls, CutTls, MarkTls, EnforceTls, MarkEnforce, Unharmed
  <1> USE DEF Types, ServeInv, AdminMarked, FilesKept, PidOwn, HostsOwn, Foreground,
         Background, Sure, Sound, Steps2Stop, FilesThere, Within, At, Ending, Slapd2Stop, Tls2Stop
  <1>1. CASE TlsConfig
    <2>1. CASE Lacks("tls", slapd = "up" /\ fs.assets)
      BY <1>0, <2>1, ServeQuit DEF Lacks
    <2>2. CASE /\ At("tls") /\ ~Tls
               /\ proc' = [proc EXCEPT !.at = "sync", !.enforce = Enforce]
               /\ UNCHANGED <<data, conf, marks, ct, fs, slapd, budget>>
      <3>1. proc'.at = "sync"
        BY <2>2 DEF ProcType
      <3> QED BY <1>u, <1>0, <2>2, <3>1
    <2>3. CASE /\ Needs("tls", Tls /\ slapd = "up" /\ fs.assets)
               /\ fs' = [fs EXCEPT !.crts = @ \cup {ct.crt}, !.dhs = @ \cup {ct.dh}]
               /\ conf' = [conf EXCEPT !.tls = TlsPaths]
               /\ proc' = [proc EXCEPT !.at = "untls", !.tls = TRUE, !.enforce = Enforce]
               /\ UNCHANGED <<data, marks, ct, slapd, budget>>
      <3>1. /\ fs'.done = fs.done /\ fs'.assets = fs.assets /\ fs'.pid = fs.pid
            /\ ct.crt \in fs'.crts /\ ct.dh \in fs'.dhs
        BY <2>3 DEF FsType
      <3>2. proc'.at = "untls"
        BY <2>3 DEF ProcType
      <3>3. conf'.tls.crt = ct.crt /\ conf'.tls.dh = ct.dh /\ conf'.sync = conf.sync
        BY <1>0, <2>3, PathsFacts DEF ConfType
      <3> QED BY <1>u, <1>0, <2>3, <3>1, <3>2, <3>3 DEF Needs
    <2> QED BY <1>1, <2>1, <2>2, <2>3 DEF TlsConfig
  <1>2. CASE UnmarkTls \/ CutTls \/ MarkTls \/ MarkEnforce
    <2>1. marks'.admin = marks.admin /\ UNCHANGED <<conf, ct, fs, slapd>>
      BY <1>2 DEF UnmarkTls, CutTls, MarkTls, MarkEnforce, MarksType
    <2> QED BY <1>u, <1>0, <1>2, <2>1, GoType DEF UnmarkTls, CutTls, MarkTls, MarkEnforce, Steps
  <1>3. CASE EnforceTls
    <2>1. conf'.tls = conf.tls /\ conf'.sync = conf.sync
      BY <1>0, <1>3 DEF EnforceTls, ConfType
    <2> QED BY <1>u, <1>0, <1>3, <2>1, GoType DEF EnforceTls, Steps
  <1> QED BY <1>1, <1>2, <1>3

LEMMA ServeSync ==
  ASSUME Types, Flow, ServeInv,
         DisableReplication \/ EnableReplication \/ MarkSync
  PROVE  ServeInv'
  <1>0. ~fs.done /\ conf \in ConfType /\ ct \in Containers
    BY DEF DisableReplication, EnableReplication, MarkSync, Needs, Lacks,
           Flow, At, Within, FirstStart, Slapd2Stop, Tls2Stop, Types
  <1>1. ASSUME ct' = ct, Unharmed', budget' = budget \/ Spend("faults")
        PROVE  Unharmed /\ ~Spend("faults")
    BY <1>1, UnharmedStep
  <1> USE DEF Types, ServeInv, AdminMarked, FilesKept, PidOwn, HostsOwn, Foreground,
         Background, Sure, Sound, Steps2Stop, FilesThere,
              Within, At, Ending, Slapd2Stop, Tls2Stop
  <1>2. CASE EnableReplication /\ Exit
    <2>1. ~fs.assets /\ At("syncOn")
      <3>1. proc'.at = "down"
        BY <1>2, EndType DEF Exit
      <3> QED BY <1>2, <3>1, EnableEffect
    <2> QED BY <1>0, <1>2, <2>1, ServeQuit
  <1>3. CASE DisableReplication
    <2>1. Unharmed' => Unharmed /\ (slapd = "up" /\ fs.assets => conf'.sync = {})
      BY <1>1, <1>3, DisableEffect
    <2> QED BY <1>0, <1>3, <2>1, DisableEffect
  <1>4. CASE EnableReplication /\ ~Exit
    <2>1. Unharmed' => Unharmed /\ (slapd = "up" => conf'.sync = conf.sync \cup ct.hosts)
      BY <1>1, <1>4, EnableEffect
    <2> QED BY <1>0, <1>4, <2>1, EnableEffect
  <1>5. CASE MarkSync
    <2>1. marks'.admin = marks.admin /\ (Unharmed' => Unharmed)
      BY <1>5 DEF MarkSync, MarksType, Unharmed
    <2> QED BY <1>0, <1>5, <2>1, GoType DEF MarkSync, Steps
  <1> QED BY <1>2, <1>3, <1>4, <1>5

LEMMA ServeEnd ==
  ASSUME Types, Flow, ServeInv,
         \/ AdminPassword \/ StopSlapd \/ ClientConfig \/ RemoveConfig \/ FirstStartDone
         \/ Serve
  PROVE  ServeInv'
  <1> USE DEF Types, ServeInv, AdminMarked, FilesKept, PidOwn, HostsOwn, Foreground,
         Background, Sure, Sound, Steps2Stop, FilesThere, Within, At, Ending, Slapd2Stop, Tls2Stop
  <1>0. ct \in Containers
    BY DEF AdminPassword, StopSlapd, ClientConfig, RemoveConfig, FirstStartDone, Serve,
           Needs, Lacks, Flow
  <1>u. Unharmed' => Unharmed
    BY DEF AdminPassword, StopSlapd, ClientConfig, RemoveConfig, FirstStartDone, Serve,
           Lacks, Exit, Unharmed
  <1>1. CASE Exit
    <2>1. \/ Lacks("admin", slapd = "up" /\ fs.assets)
          \/ Lacks("stop", fs.pid = "own")
          \/ Lacks("serve", CanServe)
      <3>1. proc'.at = "down"
        BY <1>1, EndType DEF Exit
      <3> QED BY <3>1, GoType DEF AdminPassword, StopSlapd, ClientConfig, RemoveConfig,
                                  FirstStartDone, Serve, Needs, Steps
    <2>2. Background => fs.pid # "own" /\ ~At("done")
      BY <2>1 DEF Lacks, Flow, FirstStart
    <2> QED BY <1>1, <2>2, ServeQuit
  <1>2. CASE AdminPassword /\ ~Exit
    <2>1. marks'.admin /\ UNCHANGED <<conf, ct, fs, slapd>> /\ Go("stop")
      BY <1>2 DEF AdminPassword, Lacks, Needs, MarksType
    <2>2. At("admin") /\ (~marks.admin \/ fs.assets) /\ ~fs.done /\ ~ct.keep
      BY <1>2 DEF AdminPassword, Lacks, Needs, Flow, FirstStart
    <2> QED BY <1>u, <1>0, <2>1, <2>2, GoType DEF Steps
  <1>3. CASE StopSlapd /\ ~Exit
    <2>1. /\ fs'.done = fs.done /\ fs'.crts = fs.crts /\ fs'.dhs = fs.dhs
          /\ fs'.assets = fs.assets /\ (fs'.pid = None \/ fs' = fs)
      BY <1>3 DEF StopSlapd, Lacks, Needs, FsType, None
    <2>2. At("stop") /\ ~fs.done /\ Go("client") /\ UNCHANGED <<conf, marks, ct>>
      BY <1>3 DEF StopSlapd, Lacks, Needs, Flow, FirstStart
    <2>3. \/ slapd' = "down" /\ fs'.pid = None
          \/ slapd' = slapd /\ fs' = fs /\ fs.pid # "own"
      BY <1>3 DEF StopSlapd, Lacks, Needs, FsType, None
    <2> QED BY <1>u, <1>0, <2>1, <2>2, <2>3, GoType DEF Steps, None
  <1>4. CASE ClientConfig
    <2>1. /\ fs'.done = fs.done /\ fs'.crts = fs.crts /\ fs'.dhs = fs.dhs
          /\ fs'.assets = fs.assets /\ fs'.pid = fs.pid
      BY <1>4 DEF ClientConfig, FsType
    <2> QED BY <1>u, <1>0, <1>4, <2>1, GoType DEF ClientConfig, Steps
  <1>5. CASE RemoveConfig
    <2>1. /\ fs'.done = fs.done /\ fs'.crts = fs.crts /\ fs'.dhs = fs.dhs
          /\ fs'.pid = fs.pid /\ ~fs.done
      BY <1>5 DEF RemoveConfig, FsType, Flow, FirstStart
    <2> QED BY <1>u, <1>0, <1>5, <2>1, GoType DEF RemoveConfig, Steps
  <1>6. CASE FirstStartDone
    <2>1. /\ fs'.crts = fs.crts /\ fs'.dhs = fs.dhs /\ fs'.assets = fs.assets
          /\ fs'.pid = fs.pid /\ fs'.done
      BY <1>6 DEF FirstStartDone, FsType
    <2> QED BY <1>u, <1>0, <1>6, <2>1, GoType DEF FirstStartDone, Steps
  <1>7. CASE Serve /\ ~Exit
    <2>1. /\ fs'.done = fs.done /\ fs'.crts = fs.crts /\ fs'.dhs = fs.dhs
          /\ fs'.assets = fs.assets /\ fs'.pid = "own" /\ fs.done /\ CanServe
      BY <1>7 DEF Serve, Needs, Lacks, FsType, Flow
    <2> QED BY <1>u, <1>0, <1>7, <2>1, GoType DEF Serve, Needs, Lacks, CanServe, CanStart, Steps
  <1> QED BY <1>1, <1>2, <1>3, <1>4, <1>5, <1>6, <1>7

LEMMA ServeNext == Types /\ Flow /\ ServeInv /\ [Next]_vars => ServeInv'
  <1> SUFFICES ASSUME Types, Flow, ServeInv, [Next]_vars PROVE ServeInv'
    OBVIOUS
  <1>1. CASE UNCHANGED vars
    BY <1>1 DEF vars, Unharmed, ServeInv, AdminMarked, FilesKept, PidOwn, HostsOwn, Foreground,
         Background, Sure, Sound, Steps2Stop, FilesThere, At, Within
  <1>2. CASE Next
    <2>1. ASSUME NEW e \in Containers, NEW lost \in SUBSET {"data", "conf"},
                 NewContainer(e, lost)
          PROVE  ServeInv'
      BY <2>1, ServeContainer
    <2> QED BY <1>2, <2>1, ServeControl, ServeDirectories, ServeTls, ServeSync, ServeEnd
         DEF Next, Setup
  <1> QED BY <1>1, <1>2

\* What startup.sh hands over to process.sh can start: the slapd of startup.sh had
\* come up with the files that the configuration names, those of the change were
\* added, and it was stopped; no change of the hosts had failed.
THEOREM ServesHolds == Spec => []Serves
  <1>1. ASSUME Types, Flow, ServeInv
        PROVE  Serves
    <2> SUFFICES ASSUME At("serve"), ~ct.keep
                 PROVE  /\ conf # Absent /\ data # None /\ FilesThere
                        /\ ~ct.debug => slapd = "down"
                        /\ Unharmed => CanServe
      BY DEF Serves
    <2>1. fs.done /\ ct # Absent /\ conf # Absent /\ data # None
      BY <1>1 DEF Flow, Within, At
    <2>2. FilesThere
      BY <1>1, <2>1 DEF ServeInv, FilesKept
    <2>3. ~ct.debug \/ Unharmed => slapd = "down"
      BY <1>1, <2>1 DEF ServeInv, PidOwn, Sure, Foreground, Background, Within, At
    <2>4. Unharmed => conf.sync = ct.hosts
      BY <1>1, <2>1 DEF ServeInv, HostsOwn, Sound
    <2>5. ct.hosts # {} => ct.host \in ct.hosts
      BY <1>1, <2>1, EnvFacts DEF Types
    <2> QED BY <2>1, <2>2, <2>3, <2>4, <2>5 DEF CanServe, CanStart
  <1> QED BY <1>1, TypesInit, FlowInit, ServeInit, FlowNext, ServeNext, PTL DEF Spec
-----------------------------------------------------------------------------
(* an undisturbed directory                                                *)

LEMMA StagedInit == Init => Staged
  <1>1. Down.at = "down" /\ Down.boot = FALSE
    BY DEF Down
  <1>2. Down.boot = (Down.at = "conf")
    BY <1>1
  <1> QED BY <1>1, <1>2 DEF Init, Staged, Untouched, Within, At

\* A bound that is still whole was not drawn on.
LEMMA UndisturbedStep ==
  ASSUME Types, [Next]_vars, Undisturbed'
  PROVE  /\ Undisturbed
         /\ \/ UNCHANGED vars \/ Setup \/ Restart \/ Stop
            \/ \E e \in Containers : ~e.keep /\ NewContainer(e, {})
  <1>0. /\ budget.crashes \in 0..MaxCrashes /\ budget.faults \in 0..MaxFaults
        /\ budget.odd \in 0..MaxOdd /\ {MaxCrashes, MaxFaults, MaxOdd} \subseteq Nat
    BY SlapdAssumption DEF Types, BudgetType
  <1> DEFINE bounds == {"starts", "crashes", "faults", "odd"}
  <1>1. ASSUME NEW bound \in bounds, Spend(bound)
        PROVE  Undisturbed /\ bound = "starts"
    <2>1. /\ budget'.crashes <= budget.crashes /\ budget'.faults <= budget.faults
          /\ budget'.odd <= budget.odd /\ budget'[bound] # budget[bound]
      BY <1>1, SpendType
    <2>2. /\ budget.crashes = budget'.crashes /\ budget.faults = budget'.faults
          /\ budget.odd = budget'.odd
      BY <1>0, <2>1 DEF Undisturbed
    <2> QED BY <2>1, <2>2 DEF Undisturbed
  <1>2. CASE UNCHANGED budget
    <2>1. Undisturbed
      BY <1>2 DEF Undisturbed
    <2>2. ~\E bound \in bounds : Spend(bound)
      BY <1>2, SpendType
    <2> QED BY <2>1, <2>2 DEF Next, NewContainer, Crash, Fault
  <1>3. CASE budget' # budget
    <2>1. PICK bound \in bounds : Spend(bound)
      BY <1>3
      DEF Next, vars, Setup, Check, Exit, ReconfigureConf, ReconfigureData, Previous,
          StartSlapd, SlapdUp, WaitPid, Seed, TlsConfig, UnmarkTls, CutTls, MarkTls, EnforceTls,
          MarkEnforce, Lacks, DisableReplication, EnableReplication, Unnoticed, MarkSync,
          AdminPassword, StopSlapd, ClientConfig, RemoveConfig, FirstStartDone, Serve, NewContainer, Restart,
          Stop, Crash, Fault
    <2>2. Undisturbed /\ ~Spend("crashes") /\ ~Spend("faults") /\ ~Spend("odd")
      BY <1>1, <2>1
    <2> QED BY <1>3, <2>2 DEF Next, vars, Crash, Fault, NewContainer
  <1> QED BY <1>2, <1>3

\* A settled directory stays so when a start ends too early.
LEMMA SettledExit ==
  ASSUME Types, Flow, Staged, Settled, Exit
  PROVE  Staged'
  BY EndType DEF Exit, Staged, Settled, Within, At, Ending

LEMMA StagedControl ==
  ASSUME Types, Flow, Staged, Check \/ WaitPid \/ Restart \/ Stop
  PROVE  Staged'
  <1> USE DEF Within, At, Ending
  <1>1. CASE Check
    <2>1. CASE Untouched
      <3>1. /\ proc'.at = "conf" /\ proc'.boot = TRUE
            /\ UNCHANGED <<data, conf, marks, ct, fs, slapd, budget>>
        <4>1. ~(data # None /\ conf # Absent) /\ data = None /\ conf = Absent
          BY <2>1 DEF Untouched
        <4>2. proc' = [proc EXCEPT !.at = "conf", !.boot = TRUE]
              /\ UNCHANGED <<data, conf, marks, ct, fs, slapd, budget>>
          BY <1>1, <4>1 DEF Check
        <4> QED BY <4>2 DEF Types, ProcType
      <3> QED BY <2>1, <3>1 DEF Staged, Untouched
    <2>2. CASE Settled
      BY <1>1, <2>2, SettledExit, CheckEffect, GoType DEF AfterCheck, Types, Staged, Settled, Flow
    <2>3. ~Bootstrapping
      BY <1>1 DEF Check, Bootstrapping, Tls2Stop
    <2> QED BY <2>1, <2>2, <2>3 DEF Staged
  <1>2. CASE WaitPid
    <2>1. CASE Bootstrapping
      BY <1>2, <2>1, GoType DEF WaitPid, Steps, Types, Bootstrapping, Tls2Stop, Staged
    <2>2. CASE Settled
      BY <1>2, <2>2, GoType DEF WaitPid, Steps, Types, Settled, Staged
    <2>3. ~Untouched
      BY <1>2 DEF WaitPid, Untouched
    <2> QED BY <2>1, <2>2, <2>3 DEF Staged
  <1>3. CASE Restart
    <2>1. Settled
      BY <1>3 DEF Restart, Staged, Untouched, Bootstrapping, Tls2Stop
    <2> QED BY <1>3, <2>1, BeginType DEF Restart, Staged, Settled, Types
  <1>4. CASE Stop
    <2>1. Settled
      BY <1>4 DEF Stop, Staged, Untouched, Bootstrapping, Tls2Stop
    <2>2. fs'.done = fs.done /\ proc'.at = "down"
      BY <1>4 DEF Stop, Types, FsType, Down
    <2> QED BY <1>4, <2>1, <2>2 DEF Stop, Staged, Settled
  <1> QED BY <1>1, <1>2, <1>3, <1>4

LEMMA StagedContainer ==
  ASSUME Types, Flow, Staged, NEW e \in Containers, ~e.keep, NewContainer(e, {})
  PROVE  Staged'
  <1>1. proc'.at = "check" /\ proc'.boot = FALSE /\ fs' = NewFs /\ fs'.done = FALSE
    BY BeginType DEF NewContainer, NewFs
  <1>2. At("down") /\ ct' = e /\ e # Absent /\ UNCHANGED <<data, conf, marks, slapd>>
    BY EnvFacts DEF NewContainer
  <1>3. ~Bootstrapping
    BY <1>2 DEF Bootstrapping, Within, At, Tls2Stop
  <1> QED BY <1>1, <1>2, <1>3 DEF Staged, Untouched, Settled, Within, At, Ending

LEMMA StagedDirectories ==
  ASSUME Types, Flow, Staged,
         \/ ReconfigureConf \/ ReconfigureData \/ Previous \/ StartSlapd \/ SlapdUp \/ Seed
  PROVE  Staged'
  <1> USE DEF Types, Within, At, Ending, Tls2Stop
  <1>1. CASE ReconfigureConf
    <2>1. Untouched
      BY <1>1 DEF ReconfigureConf, Staged, Bootstrapping, Settled
    <2>2. ct # Absent
      BY <1>1 DEF ReconfigureConf, Flow
    <2> QED BY <1>1, <2>1, <2>2, GoType
         DEF ReconfigureConf, NewConf, NewFs, NoMarks, Steps, Staged, Untouched, Bootstrapping
  <1>2. CASE ReconfigureData
    <2>1. Bootstrapping
      BY <1>2 DEF ReconfigureData, Staged, Untouched, Settled
    <2> QED BY <1>2, <2>1, GoType
         DEF ReconfigureData, AfterCheck, Steps, Staged, Bootstrapping
  <1>3. CASE Previous
    <2>1. ct \in Containers
      BY <1>3 DEF Previous, Flow
    <2>2. CASE Bootstrapping
      BY <1>3, <2>1, <2>2, PreviousEffect DEF Staged, Bootstrapping
    <2>3. CASE Settled
      BY <1>3, <2>1, <2>3, PreviousEffect DEF Staged, Settled
    <2>4. ~Untouched
      BY <1>3 DEF Previous, Untouched
    <2> QED BY <2>2, <2>3, <2>4 DEF Staged
  <1>4. CASE StartSlapd
    <2>1. CASE Bootstrapping
      <3>1. CanStart(proc.prev)
        BY <1>4, <2>1 DEF StartSlapd, Bootstrapping, CanStart, FilesThere
      <3>2. /\ proc'.at = "wait" /\ proc'.boot = proc.boot
            /\ UNCHANGED <<data, conf, marks, ct, budget>>
            /\ IF ct.debug THEN slapd' = "starting" /\ fs' = fs
               ELSE slapd' = "up" /\ fs' = [fs EXCEPT !.pid = "own"]
        BY <1>4, <3>1, StartEffect, GoType DEF Steps
      <3>3. /\ fs'.done = fs.done /\ fs'.assets = fs.assets
            /\ ~ct.debug => fs'.pid = "own"
        BY <3>2 DEF FsType
      <3>4. fs.pid = None
        BY <1>4, <2>1 DEF StartSlapd, Bootstrapping
      <3>5. \/ slapd' = "starting" /\ fs'.pid = None
            \/ slapd' = "up" /\ fs'.pid = "own"
        BY <3>2, <3>3, <3>4
      <3>6. Bootstrapping'
        BY <1>4, <2>1, <3>2, <3>3, <3>5 DEF StartSlapd, Bootstrapping
      <3> QED BY <3>2, <3>6 DEF Staged
    <2>2. CASE Settled
      <3>1. CASE Exit
        BY <2>2, <3>1, SettledExit
      <3>2. CASE ~Exit
        <4>1. fs'.done = fs.done /\ proc'.at = "wait" /\ proc'.boot = proc.boot
          BY <1>4, <3>2, StartEffect, GoType DEF Steps, FsType
        <4> QED BY <1>4, <2>2, <3>2, <4>1, StartEffect DEF StartSlapd, Staged, Settled
      <3> QED BY <3>1, <3>2
    <2>3. ~Untouched
      BY <1>4 DEF StartSlapd, Untouched
    <2> QED BY <2>1, <2>2, <2>3 DEF Staged
  <1>5. CASE SlapdUp
    <2>1. fs'.done = fs.done /\ fs'.assets = fs.assets /\ fs'.pid = "own"
      BY <1>5 DEF SlapdUp, FsType
    <2>2. ~Untouched
      BY <1>5 DEF SlapdUp, Untouched, Flow
    <2> QED BY <1>5, <2>1, <2>2 DEF SlapdUp, Staged, Bootstrapping, Settled, Flow
  <1>6. CASE Seed
    <2>1. Bootstrapping
      BY <1>6 DEF Seed, Staged, Untouched, Settled
    <2>2. conf'.seeded = conf.seeded + 1 /\ conf.seeded < Parts
      BY <1>6 DEF Seed, Flow, ConfType
    <2> QED BY <1>6, <2>1, <2>2, GoType DEF Seed, Steps, Staged, Bootstrapping
  <1> QED BY <1>1, <1>2, <1>3, <1>4, <1>5, <1>6

\* The steps between, which only add to the configuration and its markers.
LEMMA StagedBetween ==
  ASSUME Types, Flow, Staged, Within(Tls2Stop), proc'.at \in Tls2Stop, proc'.boot = proc.boot,
         proc.at # "stop", proc'.at # "stop", conf # Absent => conf'.seeded = conf.seeded,
         conf # Absent => conf' # Absent, marks'.admin = marks.admin,
         fs'.done = fs.done, fs'.assets = fs.assets, fs'.pid = fs.pid,
         UNCHANGED <<data, ct, slapd>>
  PROVE  Staged'
  BY DEF Flow, Staged, Untouched, Bootstrapping, Settled, Within, At, Ending, Tls2Stop

LEMMA StagedTls ==
  ASSUME Types, Flow, Staged, Flow',
         \/ TlsConfig \/ UnmarkTls \/ CutTls \/ MarkTls \/ EnforceTls \/ MarkEnforce
  PROVE  Staged'
  <1>0. conf \in ConfType /\ ct # Absent
    BY DEF TlsConfig, Needs, Lacks, UnmarkTls, CutTls, MarkTls, EnforceTls, MarkEnforce,
           Flow, At, Within, Types
  <1> USE DEF Types, Within, At, Tls2Stop
  <1>1. CASE TlsConfig
    <2>1. CASE Lacks("tls", slapd = "up" /\ fs.assets)
      <3>1. Settled
        BY <2>1 DEF Lacks, Staged, Untouched, Bootstrapping
      <3> QED BY <2>1, <3>1, SettledExit DEF Lacks
    <2>2. CASE /\ At("tls") /\ ~Tls
               /\ proc' = [proc EXCEPT !.at = "sync", !.enforce = Enforce]
               /\ UNCHANGED <<data, conf, marks, ct, fs, slapd, budget>>
      <3>1. proc'.at = "sync" /\ proc'.boot = proc.boot
        BY <2>2 DEF ProcType
      <3> QED BY <2>2, <3>1, StagedBetween
    <2>3. CASE /\ Needs("tls", Tls /\ slapd = "up" /\ fs.assets)
               /\ fs' = [fs EXCEPT !.crts = @ \cup {ct.crt}, !.dhs = @ \cup {ct.dh}]
               /\ conf' = [conf EXCEPT !.tls = TlsPaths]
               /\ proc' = [proc EXCEPT !.at = "untls", !.tls = TRUE, !.enforce = Enforce]
               /\ UNCHANGED <<data, marks, ct, slapd, budget>>
      <3>1. fs'.done = fs.done /\ fs'.assets = fs.assets /\ fs'.pid = fs.pid
        BY <2>3 DEF FsType
      <3>2. proc'.at = "untls" /\ proc'.boot = proc.boot
        BY <2>3 DEF ProcType
      <3>3. conf'.seeded = conf.seeded /\ conf' # Absent
        BY <1>0, <2>3, <3>2 DEF ConfType, Flow
      <3> QED BY <2>3, <3>1, <3>2, <3>3, StagedBetween DEF Needs
    <2> QED BY <1>1, <2>1, <2>2, <2>3 DEF TlsConfig
  <1>2. CASE UnmarkTls \/ CutTls \/ MarkTls \/ MarkEnforce
    <2>1. marks'.admin = marks.admin /\ UNCHANGED <<data, conf, ct, fs, slapd, budget>>
      BY <1>2 DEF UnmarkTls, CutTls, MarkTls, MarkEnforce, MarksType
    <2>2. /\ {proc.at, proc'.at} \subseteq Tls2Stop \ {"stop"}
          /\ proc'.boot = proc.boot
      BY <1>2, GoType DEF UnmarkTls, CutTls, MarkTls, MarkEnforce, Steps
    <2> QED BY <2>1, <2>2, StagedBetween
  <1>3. CASE EnforceTls
    <2>1. conf'.seeded = conf.seeded /\ conf' # Absent
      BY <1>0, <1>3, GoType DEF EnforceTls, ConfType, Flow, Steps
    <2>2. /\ {proc.at, proc'.at} \subseteq Tls2Stop \ {"stop"}
          /\ proc'.boot = proc.boot
      BY <1>3, GoType DEF EnforceTls, Steps
    <2> QED BY <1>3, <2>1, <2>2, StagedBetween DEF EnforceTls
  <1> QED BY <1>1, <1>2, <1>3

LEMMA StagedSync ==
  ASSUME Types, Flow, Staged, Flow',
         DisableReplication \/ EnableReplication \/ MarkSync
  PROVE  Staged'
  <1> USE DEF Types, Within, At, Tls2Stop
  <1>1. CASE EnableReplication /\ Exit
    <2>1. ~fs.assets /\ proc.at = "syncOn"
      <3>1. proc'.at = "down"
        BY <1>1, EndType DEF Exit
      <3> QED BY <1>1, <3>1, EnableEffect
    <2>2. Settled
      BY <2>1 DEF Staged, Untouched, Bootstrapping
    <2> QED BY <1>1, <2>2, SettledExit
  <1>2. CASE DisableReplication
    BY <1>2, DisableEffect, ConfFacts, StagedBetween
  <1>3. CASE EnableReplication /\ ~Exit
    BY <1>3, EnableEffect, ConfFacts, StagedBetween
  <1>4. CASE MarkSync
    <2>1. marks'.admin = marks.admin /\ UNCHANGED <<data, conf, ct, fs, slapd>>
      BY <1>4 DEF MarkSync, MarksType
    <2>2. /\ {proc.at, proc'.at} \subseteq Tls2Stop \ {"stop"}
          /\ proc'.boot = proc.boot
      BY <1>4, GoType DEF MarkSync, Steps
    <2> QED BY <2>1, <2>2, StagedBetween
  <1> QED BY <1>1, <1>2, <1>3, <1>4

LEMMA StagedEnd ==
  ASSUME Types, Flow, Staged,
         \/ AdminPassword \/ StopSlapd \/ ClientConfig \/ RemoveConfig \/ FirstStartDone
         \/ Serve
  PROVE  Staged'
  <1> USE DEF Types, Within, At, Ending, Tls2Stop
  <1>1. CASE AdminPassword
    <2>1. CASE Bootstrapping
      <3>1. /\ At("admin") /\ Go("stop") /\ UNCHANGED <<data, conf, ct, fs, slapd, budget>>
            /\ marks' = [marks EXCEPT !.admin = TRUE]
        BY <1>1, <2>1 DEF AdminPassword, Needs, Lacks, Bootstrapping
      <3>2. marks'.admin = TRUE /\ proc'.at = "stop"
        BY <3>1, GoType DEF MarksType, Steps
      <3>3. data # None /\ conf # Absent
        BY <3>1 DEF Flow
      <3> QED BY <2>1, <3>1, <3>2, <3>3 DEF Staged, Bootstrapping, Settled
    <2>2. CASE Settled /\ ~Exit
      <3>1. /\ data' = ct.pw /\ proc'.at = "stop" /\ UNCHANGED <<conf, marks, ct, fs, slapd>>
        BY <1>1, <2>2, GoType DEF AdminPassword, Needs, Lacks, Settled, Steps
      <3>2. ct.pw # None
        BY <2>2, EnvFacts DEF Settled
      <3> QED BY <2>2, <3>1, <3>2 DEF Staged, Settled
    <2>3. ~Untouched
      BY <1>1 DEF AdminPassword, Needs, Lacks, Untouched
    <2> QED BY <2>1, <2>2, <2>3, SettledExit DEF Staged
  <1>2. CASE ~AdminPassword
    <2>1. Settled
      BY <1>2 DEF StopSlapd, ClientConfig, RemoveConfig, FirstStartDone, Serve, Needs, Lacks,
                  Staged, Untouched, Bootstrapping
    <2>2. CASE ~Exit
      <3>1. UNCHANGED <<data, conf, marks, ct>>
        BY <1>2, <2>2 DEF StopSlapd, ClientConfig, RemoveConfig, FirstStartDone, Serve, Lacks
      <3>2. \/ proc.at \in {"stop"} \cup Ending
            \/ fs.done
        BY <1>2 DEF StopSlapd, ClientConfig, RemoveConfig, FirstStartDone, Serve, Needs, Lacks,
                    Flow
      <3>3. proc'.at \in Ending \cup {"serve", "run"}
        BY <1>2, <2>2, GoType DEF StopSlapd, ClientConfig, RemoveConfig, FirstStartDone, Serve,
                                  Lacks, Steps
      <3> QED BY <2>1, <3>1, <3>2, <3>3 DEF Staged, Settled
    <2> QED BY <2>1, <2>2, SettledExit
  <1> QED BY <1>1, <1>2

LEMMA AskedNext == Types /\ Flow /\ AskedInv /\ [Next]_vars => AskedInv'
  <1> SUFFICES ASSUME Types, Flow, AskedInv, [Next]_vars, Undisturbed' PROVE Staged'
    BY DEF AskedInv
  <1>1. Staged /\ Flow'
    BY UndisturbedStep, FlowNext DEF AskedInv
  <1>2. CASE UNCHANGED vars
    BY <1>1, <1>2 DEF vars, Staged, Untouched, Bootstrapping, Settled, At, Within
  <1>3. CASE Setup
    BY <1>1, <1>3, StagedControl, StagedDirectories, StagedTls, StagedSync, StagedEnd DEF Setup
  <1>4. CASE Restart \/ Stop
    BY <1>1, <1>4, StagedControl
  <1>5. CASE \E e \in Containers : ~e.keep /\ NewContainer(e, {})
    BY <1>1, <1>5, StagedContainer
  <1> QED BY <1>2, <1>3, <1>4, <1>5, UndisturbedStep

\* What ServesAsAsked says: an undisturbed bootstrap is complete before the marker
\* of the password, so that every later start changes the password, or ends.
THEOREM ServesAsAskedHolds == Spec => []ServesAsAsked
  <1>1. Init => AskedInv
    BY StagedInit DEF AskedInv
  <1>2. ASSUME Flow, AskedInv
        PROVE  ServesAsAsked
    BY <1>2 DEF Flow, AskedInv, Staged, Untouched, Bootstrapping, Settled, ServesAsAsked,
                Within, At, Tls2Stop
  <1> QED BY <1>1, <1>2, TypesInit, FlowInit, FlowNext, AskedNext, PTL DEF Spec
=============================================================================
