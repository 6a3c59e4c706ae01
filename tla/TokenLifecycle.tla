--------------------------- MODULE TokenLifecycle ---------------------------
(***************************************************************************)
(* Service account tokens with a time to live: POST /tokens/<account>       *)
(* creates a token secret annotated with the time of its deletion and polls *)
(* until the token controller of Kubernetes has filled it; the watcher       *)
(* lists the secrets once a minute and deletes the expired ones, one call    *)
(* after another.                                                           *)
(*                                                                          *)
(* Time is relative, so that it may pass forever: a secret keeps the ticks   *)
(* left until its annotated time, which RFC 3339 cuts to whole seconds.  The *)
(* names of secrets are random; a name is taken to be new as long as some-   *)
(* body still refers to a deleted secret by it.                             *)
(***************************************************************************)
EXTENDS Integers, FiniteSets

CONSTANTS
  Requests,         \* slots for POST requests handled at the same time
  Secrets,          \* token secrets that may exist at the same time
  TTLs,             \* durations asked for, in clock ticks
  Second,           \* clock ticks in a second
  Period,           \* clock ticks between two ticks of the watcher's ticker
  PollTimeout,      \* clock ticks until CreateSAToken stops to poll
  MaxDisturbances,  \* bound on faults, crashes and removals of the account
  None              \* no secret

ASSUME TimeAssumption ==
  /\ TTLs \subseteq Nat
  /\ {Second, Period, PollTimeout} \subseteq Nat \ {0}
  /\ MaxDisturbances \in Nat
ASSUME NoneAssumption == None \notin Secrets

VARIABLES
  phase,     \* clock ticks since the last full second
  minute,    \* clock ticks since the last tick of the watcher's ticker
  due,       \* a tick waits in the ticker's channel (which holds one)
  account,   \* the service account exists, with the label
  secrets,   \* secrets[s]: a token secret and its annotation
  req,       \* req[r]: what the goroutine of request r does
  watcher,   \* what the watcher does
  left,      \* disturbances left (the bound of this model)
  overdue    \* history: secrets that had expired when the current sweep, or the
             \* last one that ended without an error, listed them

time == <<phase, minute, due>>
vars == <<time, account, secrets, req, watcher, left, overdue>>
-----------------------------------------------------------------------------
\* ttl: ticks to the annotated deletion time; cut: ticks that RFC 3339 cut off
\* of it; filled: the controller has put the token in; orphan: its account,
\* known by UID once it is filled, is gone.
NoSecret == [exists |-> FALSE, filled |-> FALSE, orphan |-> FALSE, ttl |-> 0, cut |-> 0]

\* calculateDeleteTime: the fraction of a second is not formatted.  The mutant
\* uses a format of whole minutes, or hours.
CutAll(ttl) == phase + ttl
Cut(ttl) == (phase + ttl) % Second
UntilDeletion(ttl) == ttl - Cut(ttl)

\* deleteTime.Before(time.Now())
Expired(s) == secrets[s].ttl < 0

IdleReq == [pc |-> "idle", ttl |-> 0, cut |-> 0, secret |-> None, waited |-> 0,
            tick |-> FALSE]
IdleWatcher == [pc |-> "idle", todo |-> {}, secret |-> None]

Respond(r) == req' = [req EXCEPT ![r] = IdleReq]

\* How a call ends: a reply, an error with no effect, a lost reply.
Spend(outcome) ==
  /\ outcome # "reply" => left > 0
  /\ left' = IF outcome = "reply" THEN left ELSE left - 1

Disturb == left > 0 /\ left' = left - 1

\* Nobody refers to the secret any more, so that its slot may be used again.
Unused(s) ==
  /\ ~secrets[s].exists
  /\ \A r \in Requests : req[r].secret # s
  /\ s \notin watcher.todo /\ watcher.secret # s
-----------------------------------------------------------------------------
Init ==
  /\ phase = 0
  /\ minute = 0
  /\ due = FALSE
  /\ account = TRUE
  /\ secrets = [s \in Secrets |-> NoSecret]
  /\ req = [r \in Requests |-> IdleReq]
  /\ watcher = IdleWatcher
  /\ left = MaxDisturbances
  /\ overdue = {}

\* Only the sign of the time left matters once it is negative.
Sooner(ttl) == IF ttl >= 0 THEN ttl - 1 ELSE ttl

\* Time passes; tickers fire, their channels hold one tick.
Clock ==
  /\ phase' = (phase + 1) % Second
  /\ minute' = (minute + 1) % Period
  /\ due' = (due \/ minute' = 0)
  /\ secrets' = [s \in Secrets |->
       IF secrets[s].exists THEN [secrets[s] EXCEPT !.ttl = Sooner(@)]
       ELSE secrets[s]]
  /\ req' = [r \in Requests |->
       CASE req[r].pc = "create" -> [req[r] EXCEPT !.ttl = Sooner(@)]
         [] req[r].pc = "poll" ->
              [req[r] EXCEPT !.waited = IF @ < PollTimeout THEN @ + 1 ELSE @,
                             !.tick = TRUE]
         [] OTHER -> req[r]]
  /\ UNCHANGED <<account, watcher, left, overdue>>
-----------------------------------------------------------------------------
(* POST /tokens/<account>.                                                  *)

\* Bound of this model: a request comes only if there is a slot for its secret.
Room == Cardinality({s \in Secrets : Unused(s)})
          > Cardinality({r \in Requests : req[r].pc \in {"checkSA", "create"}})

Post(r, ttl) ==
  /\ req[r].pc = "idle"
  /\ Room
  /\ req' = [req EXCEPT ![r] = [IdleReq EXCEPT !.pc = "checkSA", !.ttl = ttl]]
  /\ UNCHANGED <<time, account, secrets, watcher, left, overdue>>

\* createSecret: the account is checked first and the time of deletion taken ...
CheckSA(r) ==
  /\ req[r].pc = "checkSA"
  /\ \E outcome \in {"reply", "error"} :
       /\ Spend(outcome)
       /\ IF outcome = "reply" /\ account
          THEN req' = [req EXCEPT ![r].pc = "create",
                                  ![r].ttl = UntilDeletion(@), ![r].cut = Cut(req[r].ttl)]
          ELSE Respond(r)
  /\ UNCHANGED <<time, account, secrets, watcher, overdue>>

\* ... then the secret is created, annotated with that time.  A reply that is
\* lost leaves a secret that no request knows of.
CreateSecret(r) ==
  /\ req[r].pc = "create"
  /\ \E outcome \in {"reply", "error", "lost"} :
       /\ Spend(outcome)
       /\ IF outcome = "error"
          THEN Respond(r) /\ UNCHANGED <<secrets, overdue>>
          ELSE \E s \in Secrets :
            /\ Unused(s)
            /\ secrets' = [secrets EXCEPT ![s] =
                 [exists |-> TRUE, filled |-> FALSE, orphan |-> FALSE,
                  ttl |-> req[r].ttl, cut |-> req[r].cut]]
            /\ overdue' = overdue \ {s}
            /\ IF outcome = "reply"
               THEN req' = [req EXCEPT ![r] = [IdleReq EXCEPT !.pc = "poll", !.secret = s]]
               ELSE Respond(r)
  /\ UNCHANGED <<time, account, watcher>>

\* What a tick of the poll leads to.  The mutant starts the timer anew in each
\* round of the loop, and goes on after an error.
ForgivingLoop(q, found) ==
  IF found /\ secrets[q.secret].filled THEN IdleReq
  ELSE [q EXCEPT !.tick = FALSE, !.waited = 0]

PollLoop(q, found) ==
  IF found /\ ~secrets[q.secret].filled THEN [q EXCEPT !.tick = FALSE]
  ELSE IdleReq

\* One tick of the poll: 201 with the token once it is there; an error of Get,
\* also that the secret is gone, ends the request.
Poll(r) ==
  /\ req[r].pc = "poll"
  /\ req[r].tick
  /\ \E outcome \in {"reply", "error"} :
       LET found == outcome = "reply" /\ secrets[req[r].secret].exists IN
       /\ Spend(outcome)
       /\ req' = [req EXCEPT ![r] = PollLoop(@, found)]
  /\ UNCHANGED <<time, account, secrets, watcher, overdue>>

\* The other branch of the select; the secret stays.
Timeout(r) ==
  /\ req[r].pc = "poll"
  /\ req[r].waited = PollTimeout
  /\ Respond(r)
  /\ UNCHANGED <<time, account, secrets, watcher, left, overdue>>
-----------------------------------------------------------------------------
(* WatchSATokens.                                                           *)

\* What follows an item of the list.  The mutant leaves the loop instead.
LeaveLoop(todo) == watcher' = IdleWatcher
NextItem(todo) ==
  watcher' = IF todo = {} THEN IdleWatcher
             ELSE [pc |-> "check", todo |-> todo, secret |-> None]

\* An error ends the sweep; the watcher waits for the next tick.  The mutant
\* ends WatchSATokens.
StopWatching == watcher' = [IdleWatcher EXCEPT !.pc = "stopped"] /\ overdue' = {}
Abort == watcher' = IdleWatcher /\ overdue' = {}

StartSweep ==
  /\ watcher.pc = "idle"
  /\ due
  /\ due' = FALSE
  /\ watcher' = [watcher EXCEPT !.pc = "list"]
  /\ UNCHANGED <<phase, minute, account, secrets, req, left, overdue>>

ListSecrets ==
  /\ watcher.pc = "list"
  /\ \E outcome \in {"reply", "error"} :
       LET listed == {s \in Secrets : secrets[s].exists} IN
       /\ Spend(outcome)
       /\ \/ outcome = "error" /\ Abort
          \/ /\ outcome = "reply"
             /\ NextItem(listed)
             /\ overdue' = {s \in listed : Expired(s)}
  /\ UNCHANGED <<time, account, secrets, req>>

\* checkTTL reads the secret again; if it has gone since, the sweep ends.
CheckTTL ==
  /\ watcher.pc = "check"
  /\ \E s \in watcher.todo, outcome \in {"reply", "error"} :
       LET found == outcome = "reply" /\ secrets[s].exists
           todo == watcher.todo \ {s}
       IN /\ Spend(outcome)
          /\ \/ ~found /\ Abort
             \/ found /\ ~Expired(s) /\ NextItem(todo) /\ UNCHANGED overdue
             \/ /\ found /\ Expired(s)
                /\ watcher' = [pc |-> "delete", todo |-> todo, secret |-> s]
                /\ UNCHANGED overdue
  /\ UNCHANGED <<time, account, secrets, req>>

DeleteSecret ==
  /\ watcher.pc = "delete"
  /\ \E outcome \in {"reply", "error", "lost"} :
       LET s == watcher.secret IN
       /\ Spend(outcome)
       /\ secrets' = IF outcome = "error" THEN secrets
                     ELSE [secrets EXCEPT ![s] = NoSecret]
       /\ IF outcome = "reply" /\ secrets[s].exists
          THEN NextItem(watcher.todo) /\ UNCHANGED overdue
          ELSE Abort
  /\ UNCHANGED <<time, account, req>>
-----------------------------------------------------------------------------
(* The process, and the world around it.                                    *)

\* The process dies and is started again, with a new ticker.
Crash ==
  /\ Disturb
  /\ req' = [r \in Requests |-> IdleReq]
  /\ Abort
  /\ minute' = 0
  /\ due' = FALSE
  /\ UNCHANGED <<phase, account, secrets>>

\* DELETE /rbac/<account>, or an administrator.
RemoveAccount ==
  /\ account
  /\ Disturb
  /\ account' = FALSE
  /\ secrets' = [s \in Secrets |-> [secrets[s] EXCEPT !.orphan = secrets[s].filled]]
  /\ UNCHANGED <<time, req, watcher, overdue>>

\* POST /rbac.
AddAccount ==
  /\ ~account
  /\ account' = TRUE
  /\ UNCHANGED <<time, secrets, req, watcher, left, overdue>>

\* The token controller fills the secrets of an account that exists ...
FillToken(s) ==
  /\ secrets[s].exists
  /\ ~secrets[s].filled
  /\ account
  /\ secrets' = [secrets EXCEPT ![s].filled = TRUE]
  /\ UNCHANGED <<time, account, req, watcher, left, overdue>>

\* ... and deletes those of one that is gone.
DropToken(s) ==
  /\ secrets[s].exists
  /\ secrets[s].orphan \/ (~secrets[s].filled /\ ~account)
  /\ secrets' = [secrets EXCEPT ![s] = NoSecret]
  /\ UNCHANGED <<time, account, req, watcher, left, overdue>>
-----------------------------------------------------------------------------
Call(r) == CheckSA(r) \/ CreateSecret(r) \/ Poll(r)

Sweep == StartSweep \/ ListSecrets \/ CheckTTL \/ DeleteSecret

TokenController == \E s \in Secrets : FillToken(s) \/ DropToken(s)

Next ==
  \/ Clock
  \/ \E r \in Requests : Call(r) \/ Timeout(r) \/ \E ttl \in TTLs : Post(r, ttl)
  \/ Sweep
  \/ TokenController
  \/ RemoveAccount \/ AddAccount
  \/ Crash

Spec == Init /\ [][Next]_vars

\* Time passes, goroutines are scheduled, and the select takes the timeout, which
\* stays ready, one day.  Neither clients nor the token controller are fair.
FairSpec ==
  /\ Spec
  /\ WF_vars(Clock)
  /\ WF_vars(Sweep)
  /\ \A r \in Requests : WF_vars(Call(r)) /\ WF_vars(Timeout(r))
-----------------------------------------------------------------------------
MaxTTL == CHOOSE t \in TTLs : \A u \in TTLs : u <= t

\* Type invariant, with the ranges that time moves in.
TypeOK ==
  /\ phase \in 0..(Second - 1)
  /\ minute \in 0..(Period - 1)
  /\ due \in BOOLEAN
  /\ account \in BOOLEAN
  /\ secrets \in [Secrets ->
       [exists : BOOLEAN, filled : BOOLEAN, orphan : BOOLEAN,
        ttl : -Second .. MaxTTL, cut : 0..(Second - 1)]]
  /\ req \in [Requests ->
       [pc : {"idle", "checkSA", "create", "poll"}, ttl : -Second .. MaxTTL,
        cut : 0..(Second - 1), secret : Secrets \cup {None}, waited : 0..PollTimeout, tick : BOOLEAN]]
  /\ watcher \in [pc : {"idle", "list", "check", "delete"},
                   todo : SUBSET Secrets, secret : Secrets \cup {None}]
  /\ left \in 0..MaxDisturbances
  /\ overdue \subseteq Secrets

\* A token lives as long as it was asked for, but for the fraction of a second
\* that its annotation loses: whatever time passes between the Get and the Delete
\* of checkTTL, no token is deleted a whole second or more too early.
NotEarly ==
  [][\A s \in Secrets :
       DeleteSecret /\ watcher.secret = s /\ secrets[s].exists
         => secrets[s].ttl + secrets[s].cut < Second]_vars

\* A sweep that meets no error deletes every secret that had expired when it
\* made its list, while requests and the token controller go on.
SweepComplete ==
  \A s \in overdue :
    secrets[s].exists => s \in watcher.todo \cup {watcher.secret}

\* Every token ends, also one whose request timed out, failed or died with the
\* process, and that nobody knows of: sweeps that stop at an error are followed
\* by others.
TokensEnd == \A s \in Secrets : secrets[s].exists ~> ~secrets[s].exists

\* Every POST is answered, or dropped by a crash, even if the token controller
\* never fills the secret.
Answered == \A r \in Requests : req[r].pc # "idle" ~> req[r].pc = "idle"
=============================================================================
