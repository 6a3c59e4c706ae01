------------------------ MODULE TokenLifecycleProofs ------------------------
(***************************************************************************)
(* Proofs about TokenLifecycle, for any number of requests and secrets and *)
(* any times to live: what the watcher deletes has expired, and a sweep    *)
(* without an error passes over nothing that had expired when it began.    *)
(***************************************************************************)
EXTENDS TokenLifecycle, TLAPS

SecretType == [exists : BOOLEAN, filled : BOOLEAN, orphan : BOOLEAN,
               ttl : Int, cut : 0..(Second - 1)]
ReqType == [pc : {"idle", "checkSA", "create", "poll"}, ttl : Int,
            cut : 0..(Second - 1), secret : Secrets \cup {None},
            waited : 0..PollTimeout, tick : BOOLEAN]
WatcherType == [pc : {"idle", "list", "check", "delete"},
                todo : SUBSET Secrets, secret : Secrets \cup {None}]

\* The types without the ranges of time, which are for TLC.
TimedTypeOK ==
  /\ phase \in 0..(Second - 1)
  /\ minute \in 0..(Period - 1)
  /\ due \in BOOLEAN
  /\ account \in BOOLEAN
  /\ secrets \in [Secrets -> SecretType]
  /\ req \in [Requests -> ReqType]
  /\ watcher \in WatcherType
  /\ left \in 0..MaxDisturbances
  /\ overdue \in SUBSET Secrets

\* Only a sweep has a list, and only the step before a Delete has a secret.
WatcherForm ==
  /\ watcher.pc \in {"idle", "list"} => watcher.todo = {}
  /\ watcher.pc # "delete" => watcher.secret = None
  /\ watcher.pc = "delete" => watcher.secret \in Secrets

\* A secret that is about to be deleted has expired.  It cannot be another one of
\* that name, since the watcher still refers to it.
DeletesExpired ==
  \A s \in Secrets :
    watcher.pc = "delete" /\ watcher.secret = s /\ secrets[s].exists => Expired(s)

\* What had expired at the time of the list is expired as long as it is there.
StillExpired == \A s \in overdue : secrets[s].exists => Expired(s)

SweepInv == WatcherForm /\ DeletesExpired /\ StillExpired /\ SweepComplete
-----------------------------------------------------------------------------
LEMMA Bounds ==
  /\ Second \in Nat /\ Second > 0
  /\ Period \in Nat /\ Period > 0
  /\ PollTimeout \in Nat /\ PollTimeout > 0
  /\ MaxDisturbances \in Nat
  BY TimeAssumption

LEMMA ModRange ==
  ASSUME NEW a \in Int, NEW b \in Nat, b > 0
  PROVE  a % b \in 0..(b - 1)
  OBVIOUS

\* The records that the steps build have their types.
LEMMA RecordTypes ==
  /\ NoSecret \in SecretType
  /\ IdleReq \in ReqType
  /\ IdleWatcher \in WatcherType
  BY TimeAssumption DEF NoSecret, SecretType, IdleReq, ReqType, IdleWatcher, WatcherType

LEMMA CutType ==
  ASSUME TimedTypeOK, NEW ttl \in Int
  PROVE  Cut(ttl) \in 0..(Second - 1) /\ UntilDeletion(ttl) \in Int
  BY TimeAssumption DEF TimedTypeOK, Cut, UntilDeletion

LEMMA SpendType ==
  ASSUME TimedTypeOK, NEW outcome, Spend(outcome)
  PROVE  left' \in 0..MaxDisturbances
  BY TimeAssumption DEF TimedTypeOK, Spend

LEMMA TypeClock ==
  ASSUME TimedTypeOK, Clock
  PROVE  TimedTypeOK'
  <1>1. phase' \in 0..(Second - 1) /\ minute' \in 0..(Period - 1)
    <2>1. phase + 1 \in Int /\ minute + 1 \in Int
      BY Bounds DEF TimedTypeOK
    <2> QED BY <2>1, ModRange, Bounds DEF Clock
  <1>0. due' \in BOOLEAN
    BY DEF TimedTypeOK, Clock
  <1>2. secrets' \in [Secrets -> SecretType]
    <2>1. ASSUME NEW x \in SecretType
          PROVE  [x EXCEPT !.ttl = Sooner(@)] \in SecretType
      BY DEF Sooner, SecretType
    <2> QED BY <2>1 DEF TimedTypeOK, Clock
  <1>3. req' \in [Requests -> ReqType]
    <2>1. \A r \in Requests : req[r] \in ReqType
      BY DEF TimedTypeOK
    <2>2. ASSUME NEW q \in ReqType
          PROVE  /\ [q EXCEPT !.ttl = Sooner(@)] \in ReqType
                 /\ [q EXCEPT !.waited = IF @ < PollTimeout THEN @ + 1 ELSE @,
                              !.tick = TRUE] \in ReqType
      <3>1. Sooner(q.ttl) \in Int
        BY DEF ReqType, Sooner
      <3>2. (IF q.waited < PollTimeout THEN q.waited + 1 ELSE q.waited) \in 0..PollTimeout
        BY TimeAssumption DEF ReqType
      <3> QED BY <3>1, <3>2 DEF ReqType
    <2> QED BY <2>1, <2>2 DEF Clock
  <1> QED BY <1>0, <1>1, <1>2, <1>3 DEF TimedTypeOK, Clock

LEMMA TypeRequest ==
  ASSUME TimedTypeOK, NEW r \in Requests,
         Call(r) \/ Timeout(r) \/ \E ttl \in TTLs : Post(r, ttl)
  PROVE  TimedTypeOK'
  <1> USE DEF TimedTypeOK
  <1>1. ASSUME NEW ttl \in TTLs, Post(r, ttl)
        PROVE  TimedTypeOK'
    <2>1. [IdleReq EXCEPT !.pc = "checkSA", !.ttl = ttl] \in ReqType
      <3>1. ttl \in Int
        BY TimeAssumption
      <3> QED BY <3>1, RecordTypes DEF ReqType
    <2> QED BY <1>1, <2>1 DEF Post, time
  <1>2. CASE CheckSA(r)
    <2>1. ASSUME NEW q \in ReqType
          PROVE  [q EXCEPT !.pc = "create", !.ttl = UntilDeletion(q.ttl),
                           !.cut = Cut(q.ttl)] \in ReqType
      BY CutType DEF ReqType
    <2>2. \/ req' = [req EXCEPT ![r] = [req[r] EXCEPT !.pc = "create",
                       !.ttl = UntilDeletion(req[r].ttl), !.cut = Cut(req[r].ttl)]]
          \/ req' = [req EXCEPT ![r] = IdleReq]
      BY <1>2 DEF CheckSA, Respond
    <2>3. req' \in [Requests -> ReqType]
      BY <2>1, <2>2, RecordTypes
    <2> QED BY <1>2, <2>3, SpendType DEF CheckSA, time
  <1>3. CASE CreateSecret(r)
    <2>1. ASSUME NEW s \in Secrets
          PROVE  /\ [exists |-> TRUE, filled |-> FALSE, orphan |-> FALSE,
                     ttl |-> req[r].ttl, cut |-> req[r].cut] \in SecretType
                 /\ [IdleReq EXCEPT !.pc = "poll", !.secret = s] \in ReqType
      BY RecordTypes DEF SecretType, ReqType, IdleReq
    <2>2. /\ req' \in [Requests -> ReqType] /\ secrets' \in [Secrets -> SecretType]
          /\ overdue' \in SUBSET Secrets
      BY <1>3, <2>1, RecordTypes DEF CreateSecret, Respond
    <2> QED BY <1>3, <2>2, SpendType DEF CreateSecret, time
  <1>4. CASE Poll(r)
    <2>1. ASSUME NEW q \in ReqType, NEW found \in BOOLEAN
          PROVE  PollLoop(q, found) \in ReqType
      BY RecordTypes DEF PollLoop, ReqType
    <2>2. req' \in [Requests -> ReqType]
      BY <1>4, <2>1 DEF Poll
    <2> QED BY <1>4, <2>2, SpendType DEF Poll, time
  <1>5. CASE Timeout(r)
    BY <1>5, RecordTypes DEF Timeout, Respond, time
  <1> QED BY <1>1, <1>2, <1>3, <1>4, <1>5 DEF Call

LEMMA TypeSweep ==
  ASSUME TimedTypeOK, Sweep
  PROVE  TimedTypeOK'
  <1> USE DEF TimedTypeOK
  <1>0. ASSUME NEW todo \in SUBSET Secrets, NextItem(todo)
        PROVE  watcher' \in WatcherType
    BY <1>0, RecordTypes DEF NextItem, WatcherType
  <1>1. CASE StartSweep
    BY <1>1 DEF StartSweep, WatcherType
  <1>2. CASE ListSecrets
    <2>1. watcher' \in WatcherType /\ overdue' \in SUBSET Secrets
      BY <1>2, <1>0, RecordTypes DEF ListSecrets, Abort
    <2> QED BY <1>2, <2>1, SpendType DEF ListSecrets, time
  <1>3. CASE CheckTTL
    <2>1. watcher' \in WatcherType /\ overdue' \in SUBSET Secrets
      <3>1. watcher.todo \in SUBSET Secrets
        BY DEF WatcherType
      <3> QED BY <1>3, <1>0, <3>1, RecordTypes DEF CheckTTL, Abort, WatcherType
    <2> QED BY <1>3, <2>1, SpendType DEF CheckTTL, time
  <1>4. CASE DeleteSecret
    <2>1. watcher' \in WatcherType /\ overdue' \in SUBSET Secrets
      <3>1. watcher.todo \in SUBSET Secrets
        BY DEF WatcherType
      <3> QED BY <1>4, <1>0, <3>1, RecordTypes DEF DeleteSecret, Abort
    <2>2. secrets' \in [Secrets -> SecretType]
      BY <1>4, RecordTypes DEF DeleteSecret
    <2> QED BY <1>4, <2>1, <2>2, SpendType DEF DeleteSecret, time
  <1> QED BY <1>1, <1>2, <1>3, <1>4 DEF Sweep

LEMMA TypeWorld ==
  ASSUME TimedTypeOK, TokenController \/ RemoveAccount \/ AddAccount \/ Crash
  PROVE  TimedTypeOK'
  <1> USE DEF TimedTypeOK
  <1>1. CASE TokenController
    <2>1. secrets' \in [Secrets -> SecretType]
      <3>1. ASSUME NEW x \in SecretType
            PROVE  [x EXCEPT !.filled = TRUE] \in SecretType
        BY DEF SecretType
      <3>2. PICK s \in Secrets : FillToken(s) \/ DropToken(s)
        BY <1>1 DEF TokenController
      <3>3. CASE FillToken(s)
        <4>1. secrets' = [secrets EXCEPT ![s] = [secrets[s] EXCEPT !.filled = TRUE]]
          BY <3>3 DEF FillToken
        <4> QED BY <3>1, <4>1
      <3>4. CASE DropToken(s)
        BY <3>4, RecordTypes DEF DropToken
      <3> QED BY <3>2, <3>3, <3>4
    <2> QED BY <1>1, <2>1 DEF TokenController, FillToken, DropToken, time
  <1>2. CASE RemoveAccount
    <2>1. secrets' \in [Secrets -> SecretType]
      BY <1>2 DEF RemoveAccount, SecretType
    <2>2. left' \in 0..MaxDisturbances
      BY <1>2, Bounds DEF RemoveAccount, Disturb
    <2> QED BY <1>2, <2>1, <2>2 DEF RemoveAccount, time
  <1>3. CASE AddAccount
    BY <1>3 DEF AddAccount, time
  <1>4. CASE Crash
    <2>1. left' \in 0..MaxDisturbances /\ minute' \in 0..(Period - 1)
      BY <1>4, Bounds DEF Crash, Disturb
    <2>2. req' \in [Requests -> ReqType]
      BY <1>4, RecordTypes DEF Crash
    <2> QED BY <1>4, <2>1, <2>2, RecordTypes DEF Crash, Abort
  <1> QED BY <1>1, <1>2, <1>3, <1>4

LEMMA TypeNext == TimedTypeOK /\ [Next]_vars => TimedTypeOK'
  <1> SUFFICES ASSUME TimedTypeOK, [Next]_vars PROVE TimedTypeOK'
    OBVIOUS
  <1>1. CASE UNCHANGED vars
    BY <1>1 DEF vars, time, TimedTypeOK
  <1> QED BY <1>1, TypeClock, TypeRequest, TypeSweep, TypeWorld DEF Next

\* The variables have their types: the records of requests, secrets and watcher
\* are never mixed up, and no clock leaves its period.
LEMMA TypeCorrect == Spec => []TimedTypeOK
  <1>1. Init => TimedTypeOK
    <2> SUFFICES ASSUME Init PROVE TimedTypeOK
      OBVIOUS
    <2>1. /\ phase \in 0..(Second - 1) /\ minute \in 0..(Period - 1)
          /\ left \in 0..MaxDisturbances
      BY Bounds DEF Init
    <2> QED BY <2>1, RecordTypes DEF Init, TimedTypeOK
  <1> QED BY <1>1, TypeNext, PTL DEF Spec
-----------------------------------------------------------------------------
\* No secret comes to life or gets more time by any step but its creation, and
\* nobody refers to it by then.
LEMMA NoRevival ==
  ASSUME TimedTypeOK, [Next]_vars, NEW s \in Secrets, secrets'[s].exists
  PROVE  \/ secrets[s].exists /\ (Expired(s) => Expired(s)')
         \/ Unused(s) /\ s \notin overdue' /\ UNCHANGED watcher
  <1> USE DEF TimedTypeOK, Expired
  <1>1. CASE Clock
    <2>1. secrets[s] \in SecretType
      OBVIOUS
    <2>2. /\ secrets[s].exists
          /\ secrets'[s].ttl = Sooner(secrets[s].ttl)
      BY <1>1, <2>1 DEF Clock, SecretType
    <2> QED BY <2>1, <2>2 DEF Sooner, SecretType
  <1>2. ASSUME NEW r \in Requests, CreateSecret(r)
        PROVE  \/ secrets[s].exists /\ (Expired(s) => Expired(s)')
               \/ Unused(s) /\ s \notin overdue' /\ UNCHANGED watcher
    BY <1>2 DEF CreateSecret
  <1>3. ASSUME NEW r \in Requests,
               CheckSA(r) \/ Poll(r) \/ Timeout(r) \/ \E ttl \in TTLs : Post(r, ttl)
        PROVE  UNCHANGED secrets
    BY <1>3 DEF CheckSA, Poll, Timeout, Post
  <1>4. CASE Sweep
    BY <1>4 DEF Sweep, StartSweep, ListSecrets, CheckTTL, DeleteSecret, NoSecret
  <1>5. CASE TokenController \/ RemoveAccount \/ AddAccount \/ Crash
    BY <1>5 DEF TokenController, FillToken, DropToken, RemoveAccount, AddAccount, Crash,
                NoSecret, SecretType
  <1>6. CASE UNCHANGED vars
    BY <1>6 DEF vars
  <1> QED BY <1>1, <1>2, <1>3, <1>4, <1>5, <1>6 DEF Next, Call

\* Whatever else happens, the watcher and its list are left alone, or reset.
LEMMA WatcherAlone ==
  ASSUME TimedTypeOK, [Next]_vars, ~Sweep
  PROVE  Abort \/ (UNCHANGED watcher /\ overdue' \subseteq overdue)
  <1> USE DEF TimedTypeOK
  <1>1. ASSUME NEW r \in Requests,
               Call(r) \/ Timeout(r) \/ \E ttl \in TTLs : Post(r, ttl)
        PROVE  UNCHANGED watcher /\ overdue' \subseteq overdue
    BY <1>1 DEF Call, CheckSA, CreateSecret, Poll, Timeout, Post
  <1>2. CASE Clock \/ TokenController \/ RemoveAccount \/ AddAccount \/ UNCHANGED vars
    BY <1>2 DEF Clock, TokenController, FillToken, DropToken, RemoveAccount, AddAccount, vars
  <1>3. CASE Crash
    BY <1>3 DEF Crash
  <1> QED BY <1>1, <1>2, <1>3 DEF Next

LEMMA SweepInit == Init => SweepInv
  BY NoneAssumption DEF Init, SweepInv, WatcherForm, DeletesExpired, StillExpired,
     SweepComplete, IdleWatcher

\* A sweep that is reset claims nothing.
LEMMA AbortInv ==
  ASSUME Abort
  PROVE  SweepInv'
  BY DEF Abort, SweepInv, WatcherForm, DeletesExpired, StillExpired, SweepComplete,
     IdleWatcher

LEMMA SweepNext ==
  ASSUME TimedTypeOK, SweepInv, [Next]_vars
  PROVE  SweepInv'
  <1> USE DEF TimedTypeOK
  <1>1. CASE ~Sweep
    <2>1. CASE UNCHANGED watcher /\ overdue' \subseteq overdue
      <3>1. WatcherForm'
        BY <2>1 DEF SweepInv, WatcherForm
      <3>2. DeletesExpired'
        BY <2>1, NoRevival DEF SweepInv, DeletesExpired, Unused, Expired
      <3>3. StillExpired'
        BY <2>1, NoRevival DEF SweepInv, StillExpired, Expired
      <3>4. SweepComplete'
        BY <2>1, NoRevival DEF SweepInv, SweepComplete
      <3> QED BY <3>1, <3>2, <3>3, <3>4 DEF SweepInv
    <2> QED BY <1>1, <2>1, WatcherAlone, AbortInv
  <1>2. CASE StartSweep
    BY <1>2, NoneAssumption DEF StartSweep, SweepInv, WatcherForm, DeletesExpired,
       StillExpired, SweepComplete, Expired, WatcherType
  <1>3. CASE ListSecrets
    <2>1. ASSUME NEW listed, listed = {s \in Secrets : secrets[s].exists},
                 NextItem(listed), overdue' = {s \in listed : Expired(s)},
                 UNCHANGED secrets
          PROVE  SweepInv'
      BY <2>1 DEF NextItem, IdleWatcher, SweepInv, WatcherForm, DeletesExpired,
         StillExpired, SweepComplete, Expired
    <2> QED BY <1>3, <2>1, AbortInv DEF ListSecrets
  <1>4. CASE CheckTTL
    <2>1. watcher.pc = "check" /\ UNCHANGED secrets
      BY <1>4 DEF CheckTTL
    <2>2. ASSUME NEW s \in watcher.todo, secrets[s].exists, ~Expired(s),
                 NextItem(watcher.todo \ {s}), UNCHANGED overdue
          PROVE  SweepInv'
      BY <2>1, <2>2, NoneAssumption DEF NextItem, IdleWatcher, SweepInv, WatcherForm,
         DeletesExpired, StillExpired, SweepComplete, Expired, WatcherType
    <2>3. ASSUME NEW s \in watcher.todo, secrets[s].exists, Expired(s), UNCHANGED overdue,
                 watcher' = [pc |-> "delete", todo |-> watcher.todo \ {s}, secret |-> s]
          PROVE  SweepInv'
      BY <2>1, <2>3, NoneAssumption DEF SweepInv, WatcherForm,
         DeletesExpired, StillExpired, SweepComplete, Expired, WatcherType
    <2> QED BY <1>4, <2>2, <2>3, AbortInv DEF CheckTTL
  <1>5. CASE DeleteSecret
    <2>1. ASSUME NextItem(watcher.todo), UNCHANGED overdue,
                 secrets' = [secrets EXCEPT ![watcher.secret] = NoSecret]
          PROVE  SweepInv'
      BY <1>5, <2>1 DEF DeleteSecret, NextItem, IdleWatcher, NoSecret, SweepInv, WatcherForm,
         DeletesExpired, StillExpired, SweepComplete, Expired, WatcherType
    <2> QED BY <1>5, <2>1, AbortInv DEF DeleteSecret
  <1> QED BY <1>1, <1>2, <1>3, <1>4, <1>5 DEF Sweep

LEMMA SweepInvariant == Spec => []SweepInv
  BY SweepInit, SweepNext, TypeCorrect, PTL DEF Spec
-----------------------------------------------------------------------------
\* When the watcher asks for a secret to be deleted, that secret has expired, or is
\* gone: the time since it was checked has not brought another one of that name,
\* whatever requests, faults and the token controller did meanwhile (checkTTL).
THEOREM DeletesExpiredHolds == Spec => []DeletesExpired
  BY SweepInvariant, PTL DEF SweepInv

\* A sweep without an error passes over no secret that had expired.
THEOREM SweepCompleteHolds == Spec => []SweepComplete
  BY SweepInvariant, PTL DEF SweepInv

\* The watcher never deletes a token a whole second or more before its time.
THEOREM NotEarlyHolds == Spec => NotEarly
  <1>1. ASSUME TimedTypeOK, SweepInv, NEW s \in Secrets,
               DeleteSecret, watcher.secret = s, secrets[s].exists
        PROVE  secrets[s].ttl + secrets[s].cut < Second
    <2>1. Expired(s)
      BY <1>1 DEF DeleteSecret, SweepInv, DeletesExpired
    <2> QED BY <1>1, <2>1, Bounds DEF Expired, TimedTypeOK, SecretType
  <1>2. TimedTypeOK /\ SweepInv /\ [Next]_vars =>
          [\A s \in Secrets : DeleteSecret /\ watcher.secret = s /\ secrets[s].exists
             => secrets[s].ttl + secrets[s].cut < Second]_vars
    BY <1>1
  <1> QED BY <1>2, TypeCorrect, SweepInvariant, PTL DEF Spec, NotEarly
=============================================================================
