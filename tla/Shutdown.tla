------------------------------ MODULE Shutdown ------------------------------
(***************************************************************************)
(* cmd/main.go of jwt-to-rbac: the HTTP server, the signal handler and the *)
(* watcher are the actors of a run.Group.  When one of them returns, the   *)
(* group calls the three interrupt functions in order, in the main         *)
(* goroutine.  The interrupt function of the server waits up to 15 s for   *)
(* its requests and then logs the error of Shutdown; that of the watcher   *)
(* logs an err that is nil. Both logs dereference a nil error, and a panic *)
(* ends the process.  The module JwtToRbac composes this with what the     *)
(* requests do.                                                            *)
(***************************************************************************)
EXTENDS Naturals, FiniteSets

CONSTANT Requests  \* requests that clients may send at the same time

ASSUME ShutdownAssumption == IsFiniteSet(Requests)

VARIABLES
  server,   \* the first actor: what its listener is at
  returned, \* one of the three actors has returned; nothing depends on which
  main,     \* what the main goroutine is at
  request,  \* what becomes of each request: none, or none any more, is under way
  timer,    \* the 15 s of the context
  ending    \* how the process has ended, "no" while it runs

shutdownVars == <<server, returned, main, request, timer, ending>>
-----------------------------------------------------------------------------
\* The error of Listen is not looked at: the server may have no listener (line 89).
NewServers == {"runs", "unbound"}
NoRequests == [r \in Requests |-> "none"]

ProcessInit ==
  /\ server \in NewServers
  /\ returned = FALSE
  /\ main = "group"
  /\ request = NoRequests
  /\ timer = "unset"
  /\ ending = "no"

Alive == ending = "no"
Active == {r \in Requests : request[r] = "active"}

\* The end of the process: active requests are never answered.
Exit(how) ==
  /\ ending' = how
  /\ request' = [r \in Requests |-> IF r \in Active THEN "cut" ELSE request[r]]
-----------------------------------------------------------------------------
(* the actors                                                              *)

\* The server accepts until Shutdown closes its listener; a client that is
\* refused has to come again.
Accept(r) ==
  /\ Alive /\ server = "runs"
  /\ request[r] = "none"
  /\ request' = [request EXCEPT ![r] = "active"]
  /\ UNCHANGED <<server, returned, main, timer, ending>>

Answer(r) ==
  /\ Alive /\ request[r] = "active"
  /\ request' = [request EXCEPT ![r] = "none"]
  /\ UNCHANGED <<server, returned, main, timer, ending>>

\* SIGINT or SIGTERM; a second one stays in the channel.
Signal ==
  /\ Alive
  /\ returned' = TRUE
  /\ UNCHANGED <<server, main, request, timer, ending>>

\* The watcher returns only if it has no client for the cluster.
NoClient ==
  /\ Alive
  /\ returned' = TRUE
  /\ UNCHANGED <<server, main, request, timer, ending>>

\* Serve panics on a listener that is nil.
NoListener ==
  /\ Alive /\ server = "unbound"
  /\ Exit("panic")
  /\ UNCHANGED <<server, returned, main, timer>>

\* The listener fails.
ServeFails ==
  /\ Alive /\ server = "runs"
  /\ server' = "closed" /\ returned' = TRUE
  /\ UNCHANGED <<main, request, timer, ending>>
-----------------------------------------------------------------------------
(* run.Group.Run and the interrupt functions                               *)

\* The first actor that returns ends the group.
GroupEnds ==
  /\ Alive /\ main = "group"
  /\ returned
  /\ main' = "shutdown"
  /\ server' = "closed"
  /\ timer' = "running"
  /\ UNCHANGED <<returned, request, ending>>

Expire ==
  /\ Alive /\ timer = "running"
  /\ timer' = "expired"
  /\ UNCHANGED <<server, returned, main, request, ending>>

\* Mutant of Drained: Shutdown does not wait.
DrainedAtOnce ==
  /\ Alive /\ main = "shutdown"
  /\ Exit("panic")
  /\ UNCHANGED <<server, returned, main, timer>>

\* Shutdown returns nil, and err.Error() panics (line 107).
Drained ==
  /\ Alive /\ main = "shutdown" /\ Active = {}
  /\ Exit("panic")
  /\ UNCHANGED <<server, returned, main, timer>>

\* Mutant of TimedOut: Shutdown has no deadline.
NeverTimedOut == FALSE /\ UNCHANGED shutdownVars

\* Shutdown returns the context's error; Close drops the connections.
TimedOut ==
  /\ Alive /\ main = "shutdown" /\ timer = "expired"
  /\ main' = "signal"
  /\ request' = [r \in Requests |-> IF r \in Active THEN "cut" ELSE request[r]]
  /\ UNCHANGED <<server, returned, timer, ending>>

CancelSignal ==
  /\ Alive /\ main = "signal"
  /\ main' = "watcher"
  /\ UNCHANGED <<server, returned, request, timer, ending>>

\* err is the nil of Unmarshal, so that os.Exit(1) is not reached (line 149).
StopWatcher ==
  /\ Alive /\ main = "watcher"
  /\ Exit("panic")
  /\ UNCHANGED <<server, returned, main, timer>>
-----------------------------------------------------------------------------
Main == NoListener \/ GroupEnds \/ Expire \/ Drained \/ TimedOut \/ CancelSignal \/ StopWatcher
-----------------------------------------------------------------------------
\* The variables have their types.
ShutdownTypeOK ==
  /\ server \in {"runs", "unbound", "closed"} /\ returned \in BOOLEAN
  /\ main \in {"group", "shutdown", "signal", "watcher"}
  /\ request \in [Requests -> {"none", "active", "cut"}]
  /\ timer \in {"unset", "running", "expired"}
  /\ ending \in {"no", "panic"}

\* In spite of the panics a request that was accepted is only cut off by the
\* deadline of 15 s: whichever actor returns first, the server has drained
\* before anything ends the process (lines 97-112 come before 147-152).
CutByDeadline == (\E r \in Requests : request[r] = "cut") => timer = "expired"

\* The return of any actor ends the process, even if a handler hangs
\* (lines 102, 107 and 149).
GroupStops == returned ~> ~Alive
=============================================================================
