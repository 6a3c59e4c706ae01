-------------------------- MODULE JwtToRbacProofs --------------------------
(***************************************************************************)
(* Proofs about JwtToRbac, for any users and configurations: over all the  *)
(* lifetimes of the process, only the deadline cuts a request off, every   *)
(* binding was asked for, roles keep their rules, and a user who was       *)
(* answered 201 has the roles of the token.                                *)
(***************************************************************************)
EXTENDS JwtToRbac, TLAPS

\* A server without a listener has no requests, and the group goes on to the
\* other interrupt functions only when Shutdown has run into its deadline, which
\* is set when the group ends.
ShutdownInv ==
  /\ server = "unbound" => Active = {}
  /\ main = "group" => timer = "unset"
  /\ main \in {"signal", "watcher"} => timer = "expired"

ProcessInv == ShutdownTypeOK /\ ShutdownInv /\ CutByDeadline
-----------------------------------------------------------------------------
(* the process                                                             *)

LEMMA ProcessStart ==
  /\ ProcessInit => ProcessInv
  /\ Restart => ProcessInv'
  BY DEF ProcessInit, Restart, ProcessInv, ShutdownTypeOK, ShutdownInv, CutByDeadline,
     NewServers, NoRequests, Active

\* The clients and the actors of the group.
LEMMA ActorsNext ==
  ASSUME ProcessInv,
         Signal \/ NoClient \/ ServeFails \/ NoListener
           \/ \E r \in Requests : Accept(r) \/ Answer(r)
  PROVE  ProcessInv'
  <1> USE DEF ProcessInv, ShutdownTypeOK, ShutdownInv, CutByDeadline, Active
  <1>1. CASE Signal \/ NoClient \/ ServeFails
    BY <1>1 DEF Signal, NoClient, ServeFails
  <1>2. CASE NoListener
    BY <1>2 DEF NoListener, Exit
  <1>3. ASSUME NEW r \in Requests, Accept(r) \/ Answer(r)
        PROVE  ProcessInv'
    BY <1>3 DEF Accept, Answer
  <1> QED BY <1>1, <1>2, <1>3

\* The main goroutine: whatever ends the process has drained the requests, or has
\* waited for the deadline.
LEMMA MainNext ==
  ASSUME ProcessInv, Main
  PROVE  ProcessInv'
  <1> USE DEF ProcessInv, ShutdownTypeOK, ShutdownInv, CutByDeadline, Active
  <1>1. CASE GroupEnds
    BY <1>1 DEF GroupEnds
  <1>2. CASE Expire
    BY <1>2 DEF Expire
  <1>3. CASE Drained
    BY <1>3 DEF Drained, Exit
  <1>4. CASE TimedOut
    BY <1>4 DEF TimedOut
  <1>5. CASE CancelSignal
    BY <1>5 DEF CancelSignal
  <1>6. CASE StopWatcher
    BY <1>6 DEF StopWatcher, Exit
  <1> QED BY <1>1, <1>2, <1>3, <1>4, <1>5, <1>6, ActorsNext DEF Main

LEMMA ProcessNext == ProcessInv /\ [Next]_vars => ProcessInv'
  <1> SUFFICES ASSUME ProcessInv, [Next]_vars PROVE ProcessInv'
    OBVIOUS
  <1> USE RequestsOfUsers
  <1>1. CASE UNCHANGED shutdownVars
    BY <1>1 DEF shutdownVars, ProcessInv, ShutdownTypeOK, ShutdownInv, CutByDeadline, Active
  <1>2. CASE OfProcess
    BY <1>2, ActorsNext, MainNext DEF OfProcess
  <1>3. ASSUME NEW u \in Users, Accepted(u) \/ Created(u) \/ Failed(u) \/ Refused(u)
        PROVE  ProcessInv'
    BY <1>3, ActorsNext DEF Accepted, Created, Failed, Refused
  <1>4. CASE Restart
    BY <1>4, ProcessStart
  <1>5. (\E u \in Users : Works(u)) \/ (\E a \in accounts : DeleteUser(a))
          => UNCHANGED shutdownVars
    BY DEF Works, DeleteUser
  <1>6. UNCHANGED vars => UNCHANGED shutdownVars
    BY DEF vars
  <1> QED BY <1>1, <1>2, <1>3, <1>4, <1>5, <1>6 DEF Next

LEMMA ProcessInvariant == Spec => []ProcessInv
  BY ProcessStart, ProcessNext, PTL DEF Spec, Init

\* A request is only cut off by the deadline, whichever actor returns first.
THEOREM CutByDeadlineHolds == Spec => []CutByDeadline
  BY ProcessInvariant, PTL DEF ProcessInv
-----------------------------------------------------------------------------
(* the names                                                               *)

\* What a step does to the names.  Requests and handlers are those of a process that
\* runs, and the next one starts without any.
LEMMA NamesSteps ==
  ASSUME [Next]_vars
  PROVE  \/ Alive' /\ \E u \in Users : Begin(u) \/ Call(u) \/ Fail(u) \/ Succeed(u)
         \/ Alive' /\ \E a \in accounts : Delete(a)
         \/ UNCHANGED ending /\ \E b \in DOMAIN bindings : Collect(b)
         \/ ~Alive /\ Configure
         \/ Abandon
         \/ (Alive' \/ UNCHANGED ending) /\ UNCHANGED namesVars
  <1>1. CASE OfProcess
    BY <1>1 DEF OfProcess, Alive
  <1>2. ASSUME NEW u \in Users,
               Accepted(u) \/ Works(u) \/ Created(u) \/ Failed(u) \/ Refused(u)
        PROVE  Alive'
                 /\ (Begin(u) \/ Call(u) \/ Fail(u) \/ Succeed(u) \/ UNCHANGED namesVars)
    BY <1>2 DEF Accepted, Works, Created, Failed, Refused, Accept, Answer, shutdownVars, Alive
  <1>3. ASSUME NEW a \in accounts, DeleteUser(a)
        PROVE  Alive' /\ Delete(a)
    BY <1>3 DEF DeleteUser, shutdownVars, Alive
  <1>4. UNCHANGED shutdownVars => UNCHANGED ending
    BY DEF shutdownVars
  <1>5. Restart => ~Alive /\ Configure
    BY DEF Restart
  <1>6. UNCHANGED vars => UNCHANGED ending /\ UNCHANGED namesVars
    BY DEF vars, shutdownVars
  <1> QED BY <1>1, <1>2, <1>3, <1>4, <1>5, <1>6 DEF Next
-----------------------------------------------------------------------------
AllGroups == UNION {Custom(u, c) : u \in Users, c \in Configs}
AllRoles == UNION {Wanted(u, c) : u \in Users, c \in Configs}
Steps == {"idle", "account", "objects", "owner", "create"}
Posts == [at : Steps, make : SUBSET AllGroups, bind : SUBSET AllRoles,
          role : AllRoles \cup {<<>>}, live : BOOLEAN, sure : BOOLEAN]
Owned == [account : {SaName(u) : u \in Users}, role : AllRoles, live : BOOLEAN]

NamesTypeOK ==
  /\ config \in Configs
  /\ granted \subseteq Users
  /\ post \in [Users -> Posts]
  /\ \A b \in DOMAIN bindings : bindings[b] \in Owned

\* What is bound, or is going to be, some POST has asked for, under the name that it
\* has.  A POST binds no roles but those of its token, and leaves none out.
Asked(u) ==
  /\ At(u, "idle") => post[u].bind = {} /\ ~post[u].sure
  /\ At(u, "account") => post[u].bind = Wanted(u, config)
  /\ post[u].bind \subseteq Wanted(u, config)
  /\ At(u, "owner") \/ At(u, "create") => post[u].role \in post[u].bind
  /\ ~At(u, "idle") => \A r \in Wanted(u, config) : <<SaName(u), r>> \in mandates

Named(b) ==
  /\ b = BindingName(bindings[b].account, bindings[b].role)
  /\ <<bindings[b].account, bindings[b].role>> \in mandates

\* No handler is left of a process that has ended.
Quiet == Alive \/ \A u \in Users : At(u, "idle")

AskedInv ==
  /\ NamesTypeOK /\ Quiet
  /\ \A u \in Users : Asked(u)
  /\ \A b \in DOMAIN bindings : Named(b)

\* What an undisturbed POST has done so far, and what was granted.
Covered(u, r) == Bound(u, r) \/ NameShared(u, r)
Done(u) == \A r \in Wanted(u, config) \ post[u].bind : Covered(u, r)

Undisturbed(u) ==
  post[u].sure => /\ Fresh(SaName(u))
                  /\ ~At(u, "account") => SaName(u) \in accounts /\ Done(u)

SureInv == \A u \in Users : Undisturbed(u)
-----------------------------------------------------------------------------
LEMMA ConfigsGroups ==
  ASSUME NEW u \in Users, config \in Configs
  PROVE  Custom(u, config) \subseteq AllGroups /\ Wanted(u, config) \subseteq AllRoles
  <1> DEFINE custom == Custom(u, config)
             wanted == Wanted(u, config)
  <1>1. custom \in {Custom(v, c) : v \in Users, c \in Configs}
    OBVIOUS
  <1>2. wanted \in {Wanted(v, c) : v \in Users, c \in Configs}
    OBVIOUS
  <1> QED BY <1>1, <1>2 DEF AllGroups, AllRoles

LEMMA NoPostType == NoPost \in Posts
  BY DEF NoPost, Posts, Steps

\* What the steps of a handler change.
OnlyPost(u) == post' \in [Users -> Posts] /\ \A v \in Users \ {u} : post'[v] = post[v]
CallsOn(u) ==
  /\ OnlyPost(u)
  /\ post'[u].sure = post[u].sure
  /\ post[u].at # "idle" /\ post'[u].at \in {"objects", "owner", "create"}
  /\ UNCHANGED <<config, granted, mandates>>

LEMMA BeginEffect ==
  ASSUME NamesTypeOK, NEW u \in Users, Begin(u)
  PROVE  /\ OnlyPost(u)
         /\ post'[u].at = "account" /\ post'[u].bind = Wanted(u, config)
         /\ post'[u].sure = Fresh(SaName(u))
         /\ \A r \in Wanted(u, config) : <<SaName(u), r>> \in mandates'
         /\ mandates \subseteq mandates'
         /\ UNCHANGED <<config, accounts, roles, bindings, granted>>
  <1> DEFINE custom == Custom(u, config)
             wanted == Wanted(u, config)
             fresh == Fresh(SaName(u))
             next == [NoPost EXCEPT !.at = "account", !.make = custom,
                                    !.bind = wanted, !.sure = fresh]
  <1>1. custom \subseteq AllGroups /\ wanted \subseteq AllRoles
    BY ConfigsGroups DEF NamesTypeOK
  <1>2. fresh \in BOOLEAN
    BY DEF Fresh
  <1>3. post' = [post EXCEPT ![u] = next]
    BY DEF Begin
  <1>4. /\ mandates' = mandates \cup {<<SaName(u), r>> : r \in wanted}
        /\ UNCHANGED <<config, accounts, roles, bindings, granted>>
    BY DEF Begin
  <1> HIDE DEF custom, wanted, fresh
  <1>5. next \in Posts /\ next.at = "account" /\ next.bind = wanted /\ next.sure = fresh
    BY <1>1, <1>2, NoPostType DEF Posts, Steps, NoPost
  <1> HIDE DEF next
  <1>6. OnlyPost(u) /\ post'[u] = next
    BY <1>3, <1>5 DEF NamesTypeOK, OnlyPost
  <1> QED BY <1>4, <1>5, <1>6 DEF custom, wanted, fresh

LEMMA QuitEffect ==
  ASSUME NamesTypeOK, NEW u \in Users, Fail(u) \/ Succeed(u)
  PROVE  /\ OnlyPost(u)
         /\ post'[u] = NoPost
         /\ UNCHANGED <<config, accounts, roles, bindings, mandates>>
  BY NoPostType DEF NamesTypeOK, Fail, Succeed, OnlyPost

LEMMA AccountEffect ==
  ASSUME NamesTypeOK, NEW u \in Users, MakeAccount(u)
  PROVE  /\ CallsOn(u)
         /\ post[u].at = "account" /\ post'[u].at = "objects"
         /\ post'[u].bind = post[u].bind
         /\ accounts' = accounts \cup {SaName(u)} /\ UNCHANGED <<roles, bindings>>
  BY DEF NamesTypeOK, Posts, Steps, At, OnlyPost, CallsOn, MakeAccount

LEMMA RoleEffect ==
  ASSUME NamesTypeOK, NEW u \in Users, NEW g \in post[u].make, MakeRole(u, g)
  PROVE  /\ CallsOn(u)
         /\ post[u].at = "objects" /\ post'[u].at = "objects"
         /\ post'[u].bind = post[u].bind
         /\ roles' = WithRole(g) /\ UNCHANGED <<accounts, bindings>>
  BY DEF NamesTypeOK, Posts, Steps, At, OnlyPost, CallsOn, MakeRole

LEMMA FindEffect ==
  ASSUME NamesTypeOK, NEW u \in Users, NEW r \in post[u].bind, FindBinding(u, r)
  PROVE  /\ CallsOn(u)
         /\ post[u].at = "objects"
         /\ \/ /\ BindingName(SaName(u), r) \in DOMAIN bindings
               /\ post'[u].at = "objects" /\ post'[u].bind = post[u].bind \ {r}
            \/ /\ post'[u].at = "owner" /\ post'[u].role = r
               /\ post'[u].bind = post[u].bind
         /\ UNCHANGED <<accounts, roles, bindings>>
  BY DEF NamesTypeOK, Posts, Steps, At, OnlyPost, CallsOn, FindBinding

LEMMA OwnerEffect ==
  ASSUME NamesTypeOK, NEW u \in Users, ReadOwner(u)
  PROVE  /\ CallsOn(u)
         /\ post[u].at = "owner" /\ post'[u].at = "create" /\ post'[u].live
         /\ post'[u].role = post[u].role /\ post'[u].bind = post[u].bind
         /\ UNCHANGED <<accounts, roles, bindings>>
  BY DEF NamesTypeOK, Posts, Steps, At, OnlyPost, CallsOn, ReadOwner

LEMMA BindingEffect ==
  ASSUME NamesTypeOK, NEW u \in Users, MakeBinding(u)
  PROVE  /\ CallsOn(u)
         /\ post[u].at = "create" /\ post'[u].at = "objects"
         /\ post'[u].bind = post[u].bind \ {post[u].role}
         /\ BindingName(SaName(u), post[u].role) \notin DOMAIN bindings
         /\ bindings' = [b \in DOMAIN bindings \cup {BindingName(SaName(u), post[u].role)} |->
                           IF b # BindingName(SaName(u), post[u].role) THEN bindings[b]
                           ELSE [account |-> SaName(u), role |-> post[u].role,
                                 live |-> post[u].live]]
         /\ UNCHANGED <<accounts, roles>>
  <1> DEFINE r == post[u].role
             next == [post[u] EXCEPT !.at = "objects", !.bind = @ \ {r},
                                     !.role = <<>>, !.live = FALSE]
  <1>1. post[u] \in Posts
    BY DEF NamesTypeOK
  <1>2. next \in Posts
    BY <1>1 DEF Posts, Steps
  <1>3. post' = [post EXCEPT ![u].at = "objects", ![u].bind = @ \ {r},
                             ![u].role = <<>>, ![u].live = FALSE]
    BY DEF MakeBinding
  <1>4. post' = [post EXCEPT ![u] = next]
    BY <1>3 DEF NamesTypeOK
  <1>5. /\ next.at = "objects" /\ next.bind = post[u].bind \ {r}
        /\ next.sure = post[u].sure
    BY <1>1 DEF Posts
  <1> HIDE DEF next
  <1>6. /\ post' \in [Users -> Posts] /\ post'[u] = next
        /\ \A v \in Users \ {u} : post'[v] = post[v]
    BY <1>2, <1>4 DEF NamesTypeOK
  <1>7. post[u].at = "create" /\ UNCHANGED <<config, granted, mandates, accounts, roles>>
    BY DEF MakeBinding, At
  <1>8. CallsOn(u)
    BY <1>5, <1>6, <1>7 DEF CallsOn, OnlyPost
  <1> QED BY <1>5, <1>6, <1>7, <1>8 DEF MakeBinding
-----------------------------------------------------------------------------
(* what is asked for                                                       *)

LEMMA AskedKeeps ==
  ASSUME NEW v \in Users, Asked(v), post'[v] = post[v], config' = config,
         mandates \subseteq mandates'
  PROVE  Asked(v)'
  BY DEF Asked, At

LEMMA NamedKeeps ==
  ASSUME NEW b \in DOMAIN bindings, Named(b), mandates \subseteq mandates',
         bindings'[b].account = bindings[b].account, bindings'[b].role = bindings[b].role
  PROVE  Named(b)'
  BY DEF Named

\* The calls that make no binding leave what is asked for as it is.
LEMMA CallAsked ==
  ASSUME AskedInv, NEW u \in Users, Call(u)
  PROVE  CallsOn(u) /\ Asked(u)'
  <1>1. NamesTypeOK /\ Asked(u)
    BY DEF AskedInv
  <1> USE DEF Asked, At
  <1>2. CASE MakeAccount(u)
    BY <1>1, <1>2, AccountEffect DEF CallsOn
  <1>3. CASE ReadOwner(u)
    BY <1>1, <1>3, OwnerEffect DEF CallsOn
  <1>4. CASE MakeBinding(u)
    BY <1>1, <1>4, BindingEffect DEF CallsOn
  <1>5. ASSUME NEW g \in post[u].make, MakeRole(u, g)
        PROVE  CallsOn(u) /\ Asked(u)'
    BY <1>1, <1>5, RoleEffect DEF CallsOn
  <1>6. ASSUME NEW r \in post[u].bind, FindBinding(u, r)
        PROVE  CallsOn(u) /\ Asked(u)'
    BY <1>1, <1>6, FindEffect DEF CallsOn
  <1> QED BY <1>2, <1>3, <1>4, <1>5, <1>6 DEF Call

\* A call makes no binding, or that of one role.
LEMMA CallBindings ==
  ASSUME AskedInv, NEW u \in Users, Call(u)
  PROVE  \/ UNCHANGED bindings
         \/ MakeBinding(u)
  <1>1. NamesTypeOK
    BY DEF AskedInv
  <1> QED BY <1>1, AccountEffect, OwnerEffect, RoleEffect, FindEffect DEF Call

LEMMA NewBinding ==
  ASSUME AskedInv, NEW u \in Users, MakeBinding(u)
  PROVE  \E r \in Wanted(u, config) : LET name == BindingName(SaName(u), r) IN
           /\ r = post[u].role /\ name \notin DOMAIN bindings
           /\ DOMAIN bindings' = DOMAIN bindings \cup {name}
           /\ \A b \in DOMAIN bindings : bindings'[b] = bindings[b]
           /\ bindings'[name] = [account |-> SaName(u), role |-> r, live |-> post[u].live]
           /\ <<SaName(u), r>> \in mandates
  <1>1. NamesTypeOK /\ Asked(u)
    BY DEF AskedInv
  <1> DEFINE r == post[u].role
             name == BindingName(SaName(u), r)
  <1>2. /\ At(u, "create") /\ name \notin DOMAIN bindings
        /\ bindings' = [b \in DOMAIN bindings \cup {name} |->
                          IF b # name THEN bindings[b]
                          ELSE [account |-> SaName(u), role |-> r, live |-> post[u].live]]
    BY <1>1, BindingEffect DEF At
  <1>3. r \in Wanted(u, config) /\ <<SaName(u), r>> \in mandates
    BY <1>1, <1>2 DEF Asked, At
  <1> HIDE DEF r, name
  <1>4. /\ DOMAIN bindings' = DOMAIN bindings \cup {name}
        /\ \A b \in DOMAIN bindings : bindings'[b] = bindings[b]
        /\ bindings'[name] = [account |-> SaName(u), role |-> r, live |-> post[u].live]
    BY <1>2
  <1> QED BY <1>2, <1>3, <1>4 DEF r, name

LEMMA CallNamed ==
  ASSUME AskedInv, NEW u \in Users, Call(u), NEW b \in DOMAIN bindings'
  PROVE  bindings'[b] \in Owned /\ Named(b)'
  <1>1. mandates' = mandates
    BY CallAsked DEF CallsOn
  <1>2. ASSUME b \in DOMAIN bindings, bindings'[b] = bindings[b]
        PROVE  bindings'[b] \in Owned /\ Named(b)'
    BY <1>1, <1>2, NamedKeeps DEF AskedInv, NamesTypeOK
  <1>3. ASSUME MakeBinding(u)
        PROVE  bindings'[b] \in Owned /\ Named(b)'
    <2>1. PICK r \in Wanted(u, config) :
            /\ r = post[u].role
            /\ DOMAIN bindings' = DOMAIN bindings \cup {BindingName(SaName(u), r)}
            /\ \A c \in DOMAIN bindings : bindings'[c] = bindings[c]
            /\ bindings'[BindingName(SaName(u), r)]
                 = [account |-> SaName(u), role |-> r, live |-> post[u].live]
            /\ <<SaName(u), r>> \in mandates
      BY <1>3, NewBinding
    <2>2. CASE b = BindingName(SaName(u), r)
      <3>1. r \in AllRoles
        BY ConfigsGroups DEF AskedInv, NamesTypeOK
      <3>2. post[u].live \in BOOLEAN
        BY DEF AskedInv, NamesTypeOK, Posts
      <3> QED BY <1>1, <2>1, <2>2, <3>1, <3>2 DEF Owned, Named
    <2>3. CASE b \in DOMAIN bindings
      BY <1>2, <2>1, <2>3
    <2> QED BY <2>1, <2>2, <2>3
  <1>4. CASE UNCHANGED bindings
    BY <1>2, <1>4
  <1> QED BY <1>3, <1>4, CallBindings

LEMMA HandlerAsked ==
  ASSUME AskedInv, Alive', NEW u \in Users, Begin(u) \/ Call(u) \/ Fail(u) \/ Succeed(u)
  PROVE  AskedInv'
  <1>1. NamesTypeOK /\ Asked(u) /\ (\A v \in Users : Asked(v))
          /\ (\A b \in DOMAIN bindings : Named(b))
    BY DEF AskedInv
  <1>2. OnlyPost(u) /\ Asked(u)' /\ config' = config /\ mandates \subseteq mandates'
    <2>1. CASE Begin(u)
      BY <1>1, <2>1, BeginEffect DEF Asked, At
    <2>2. CASE Call(u)
      BY <2>2, CallAsked DEF CallsOn
    <2>3. CASE Fail(u) \/ Succeed(u)
      BY <1>1, <2>3, QuitEffect DEF Asked, At, NoPost
    <2> QED BY <2>1, <2>2, <2>3
  <1>3. ASSUME NEW v \in Users PROVE Asked(v)'
    BY <1>1, <1>2, AskedKeeps DEF OnlyPost
  <1>4. ASSUME NEW b \in DOMAIN bindings' PROVE bindings'[b] \in Owned /\ Named(b)'
    <2>1. CASE Call(u)
      BY <2>1, CallNamed
    <2>2. CASE Begin(u) \/ Fail(u) \/ Succeed(u)
      <3>1. UNCHANGED bindings
        BY <1>1, <2>2, BeginEffect, QuitEffect
      <3> QED BY <1>1, <1>2, <3>1, NamedKeeps DEF NamesTypeOK
    <2> QED BY <2>1, <2>2
  <1>5. granted' \subseteq Users
    <2>1. UNCHANGED granted \/ Succeed(u)
      BY <1>1, BeginEffect, CallAsked DEF CallsOn, Fail
    <2> QED BY <1>1, <2>1 DEF NamesTypeOK, Succeed
  <1>6. NamesTypeOK'
    BY <1>1, <1>2, <1>4, <1>5 DEF NamesTypeOK, OnlyPost
  <1> QED BY <1>3, <1>4, <1>6 DEF AskedInv, Quiet

\* DELETE forgets what is undisturbed, and the owners that are gone.
LEMMA DeleteAsked ==
  ASSUME AskedInv, Alive', NEW a \in accounts, Delete(a)
  PROVE  AskedInv'
  <1>1. /\ UNCHANGED <<config, mandates>> /\ granted' \subseteq Users
        /\ DOMAIN bindings' = DOMAIN bindings
    BY DEF Delete, AskedInv, NamesTypeOK
  <1>2. ASSUME NEW b \in DOMAIN bindings
        PROVE  bindings'[b] \in Owned /\ Named(b)'
    <2>1. bindings[b] \in Owned /\ Named(b)
      BY DEF AskedInv, NamesTypeOK
    <2>2. bindings'[b] = [bindings[b] EXCEPT !.live = @ /\ bindings[b].account # a]
      BY DEF Delete
    <2>3. bindings'[b] \in Owned /\ bindings'[b].account = bindings[b].account
            /\ bindings'[b].role = bindings[b].role
      BY <2>1, <2>2 DEF Owned
    <2> QED BY <1>1, <2>1, <2>3, NamedKeeps
  <1>3. /\ post' \in [Users -> Posts]
        /\ \A v \in Users : /\ post'[v].at = post[v].at /\ post'[v].bind = post[v].bind
                            /\ post'[v].role = post[v].role
                            /\ post'[v].sure => post[v].sure
    <2> DEFINE cleared(v) == [post[v] EXCEPT !.live = FALSE, !.sure = FALSE]
    <2>1. post' = [v \in Users |-> IF SaName(v) = a THEN cleared(v) ELSE post[v]]
      BY DEF Delete
    <2>2. ASSUME NEW v \in Users
          PROVE  /\ post[v] \in Posts /\ cleared(v) \in Posts
                 /\ cleared(v).at = post[v].at /\ cleared(v).bind = post[v].bind
                 /\ cleared(v).role = post[v].role
                 /\ ~cleared(v).sure
      <3>1. post[v] \in Posts
        BY DEF AskedInv, NamesTypeOK
      <3> QED BY <3>1 DEF Posts
    <2> HIDE DEF cleared
    <2> QED BY <2>1, <2>2
  <1>4. ASSUME NEW v \in Users PROVE Asked(v)'
    BY <1>1, <1>3 DEF AskedInv, Asked, At
  <1> QED BY <1>1, <1>2, <1>3, <1>4 DEF AskedInv, NamesTypeOK, Quiet, At

LEMMA AskedNext == AskedInv /\ [Next]_vars => AskedInv'
  <1> SUFFICES ASSUME AskedInv, [Next]_vars PROVE AskedInv'
    OBVIOUS
  <1> USE DEF AskedInv, NamesTypeOK
  <1>1. ASSUME NEW b \in DOMAIN bindings, Collect(b), UNCHANGED ending
        PROVE  AskedInv'
    <2>1. /\ DOMAIN bindings' \subseteq DOMAIN bindings
          /\ \A c \in DOMAIN bindings' : bindings'[c] = bindings[c]
          /\ UNCHANGED <<config, post, granted, mandates>>
      BY <1>1 DEF Collect, Restrict
    <2> QED BY <1>1, <2>1 DEF Quiet, Alive, Asked, At, Named
  <1>2. ASSUME ~Alive, Configure
        PROVE  AskedInv'
    BY <1>2 DEF Configure, Quiet, Asked, At, NoPost, Named
  <1>3. ASSUME Abandon
        PROVE  AskedInv'
    BY <1>3, NoPostType DEF Abandon, Quiet, Asked, At, NoPost, Named
  <1>4. ASSUME Alive' \/ UNCHANGED ending, UNCHANGED namesVars
        PROVE  AskedInv'
    BY <1>4 DEF namesVars, Quiet, Alive, Asked, At, Named
  <1> QED BY <1>1, <1>2, <1>3, <1>4, NamesSteps, HandlerAsked, DeleteAsked

LEMMA AskedInvariant == Spec => []AskedInv
  <1>1. Init => AskedInv
    BY NoPostType DEF Init, NamesInit, AskedInv, NamesTypeOK, Quiet, Asked, At, NoPost
  <1> QED BY <1>1, AskedNext, PTL DEF Spec

\* Every binding was asked for, by the account's own user and by its own name.
THEOREM GrantsTraceableHolds == Spec => []GrantsTraceable
  <1>1. AskedInv => GrantsTraceable
    BY DEF AskedInv, Named, GrantsTraceable
  <1> QED BY <1>1, AskedInvariant, PTL

\* No step changes the rules of a role that exists.
THEOREM RulesKeptHolds == Spec => RulesKept
  <1>1. ASSUME AskedInv, [Next]_vars
        PROVE  [\A r \in DOMAIN roles : r \in DOMAIN roles' /\ roles'[r] = roles[r]]_namesVars
    <2>1. ASSUME NEW u \in Users, NEW g \in post[u].make, MakeRole(u, g),
                 NEW r \in DOMAIN roles
          PROVE  r \in DOMAIN roles' /\ roles'[r] = roles[r]
      BY <2>1 DEF MakeRole, WithRole
    <2>2. ASSUME NEW u \in Users, Begin(u) \/ Fail(u) \/ Succeed(u) \/ MakeAccount(u)
                   \/ ReadOwner(u) \/ MakeBinding(u) \/ \E r \in post[u].bind : FindBinding(u, r)
          PROVE  UNCHANGED roles
      BY <2>2 DEF Begin, Fail, Succeed, MakeAccount, ReadOwner, MakeBinding, FindBinding
    <2>3. ASSUME Configure \/ Abandon \/ (\E a \in accounts : Delete(a))
                   \/ (\E b \in DOMAIN bindings : Collect(b))
          PROVE  UNCHANGED roles
      BY <2>3 DEF Configure, Abandon, Delete, Collect
    <2> QED BY <1>1, <2>1, <2>2, <2>3, NamesSteps DEF Call
  <1> QED BY <1>1, AskedInvariant, PTL DEF Spec, RulesKept
-----------------------------------------------------------------------------
(* what is granted                                                         *)

\* A binding that bears the name of a grant is that grant's, unless another grant has
\* the same name; and it is live if nothing of an earlier account is left.
LEMMA FoundBinding ==
  ASSUME AskedInv, NEW u \in Users, NEW r, Fresh(SaName(u)),
         BindingName(SaName(u), r) \in DOMAIN bindings
  PROVE  Covered(u, r)
  <1> DEFINE b == BindingName(SaName(u), r)
  <1>1. b \in DOMAIN bindings /\ Named(b) /\ bindings[b] \in Owned
    BY DEF AskedInv, NamesTypeOK
  <1>2. CASE <<bindings[b].account, bindings[b].role>> # <<SaName(u), r>>
    BY <1>1, <1>2 DEF Covered, NameShared, Named
  <1>3. CASE <<bindings[b].account, bindings[b].role>> = <<SaName(u), r>>
    <2>1. bindings[b].account = SaName(u) /\ bindings[b].role = r
      BY <1>3
    <2>2. bindings[b].live = TRUE
      BY <1>1, <2>1 DEF Fresh, Owned
    <2>3. bindings[b] = [account |-> SaName(u), role |-> r, live |-> TRUE]
      BY <1>1, <2>1, <2>2 DEF Owned
    <2> QED BY <1>1, <2>3 DEF Covered, Bound
  <1> QED BY <1>2, <1>3

\* What is live of a grant stays, and so does the excuse.
LEMMA CoveredKeeps ==
  ASSUME NEW u \in Users, NEW r, Covered(u, r), mandates \subseteq mandates',
         \A b \in DOMAIN bindings :
           bindings[b] = [account |-> SaName(u), role |-> r, live |-> TRUE]
             => b \in DOMAIN bindings' /\ bindings'[b] = bindings[b]
  PROVE  Covered(u, r)'
  BY DEF Covered, Bound, NameShared

\* A step of a handler leaves what other handlers rely on.
LEMMA HandlerKeeps ==
  ASSUME AskedInv, NEW u \in Users, Begin(u) \/ Call(u) \/ Fail(u) \/ Succeed(u)
  PROVE  /\ accounts \subseteq accounts' /\ mandates \subseteq mandates' /\ config' = config
         /\ \A v \in Users : \A r : Covered(v, r) => Covered(v, r)'
  <1>1. NamesTypeOK
    BY DEF AskedInv
  <1>2. /\ accounts \subseteq accounts' /\ mandates \subseteq mandates' /\ config' = config
    BY <1>1, BeginEffect, QuitEffect, CallAsked, AccountEffect, OwnerEffect, BindingEffect,
       RoleEffect, FindEffect DEF CallsOn, Call
  <1>3. \A b \in DOMAIN bindings : b \in DOMAIN bindings' /\ bindings'[b] = bindings[b]
    <2>1. UNCHANGED bindings \/ MakeBinding(u)
      BY <1>1, BeginEffect, QuitEffect, CallBindings
    <2>2. CASE MakeBinding(u)
      BY <2>2, NewBinding
    <2> QED BY <2>1, <2>2
  <1> QED BY <1>2, <1>3, CoveredKeeps

\* What is left of an earlier account does not become more: a handler that makes a
\* binding has its owner from before.
LEMMA HandlerFresh ==
  ASSUME AskedInv, NEW u \in Users, Begin(u) \/ Call(u) \/ Fail(u) \/ Succeed(u),
         NEW v \in Users, Fresh(SaName(v))
  PROVE  Fresh(SaName(v))'
  <1>1. NamesTypeOK
    BY DEF AskedInv
  <1>2. OnlyPost(u)
    BY <1>1, BeginEffect, QuitEffect, CallAsked DEF CallsOn
  <1>3. At(u, "create")' => post'[u].live
    <2>1. CASE Begin(u) \/ Fail(u) \/ Succeed(u)
      BY <1>1, <2>1, BeginEffect, QuitEffect DEF At, NoPost
    <2>2. CASE Call(u)
      BY <1>1, <2>2, AccountEffect, OwnerEffect, BindingEffect, RoleEffect, FindEffect
         DEF At, Call
    <2> QED BY <2>1, <2>2
  <1>4. ASSUME NEW b \in DOMAIN bindings', bindings'[b].account = SaName(v)
        PROVE  bindings'[b].live
    <2>1. UNCHANGED bindings \/ MakeBinding(u)
      BY <1>1, BeginEffect, QuitEffect, CallBindings
    <2>2. CASE UNCHANGED bindings
      BY <1>4, <2>2 DEF Fresh
    <2>3. CASE MakeBinding(u)
      <3>1. At(u, "create")
        BY <2>3 DEF MakeBinding
      <3>2. CASE b \in DOMAIN bindings
        BY <1>4, <2>3, <3>2, NewBinding DEF Fresh
      <3>3. CASE b \notin DOMAIN bindings
        <4>1. PICK r \in Wanted(u, config) :
                /\ DOMAIN bindings' = DOMAIN bindings \cup {BindingName(SaName(u), r)}
                /\ bindings'[BindingName(SaName(u), r)]
                     = [account |-> SaName(u), role |-> r, live |-> post[u].live]
          BY <2>3, NewBinding
        <4>2. bindings'[b].account = SaName(u) /\ bindings'[b].live = post[u].live
          BY <1>4, <3>3, <4>1
        <4> QED BY <1>4, <3>1, <4>2 DEF Fresh
      <3> QED BY <3>2, <3>3
    <2> QED BY <2>1, <2>2, <2>3
  <1>5. ASSUME NEW w \in Users, At(w, "create")', SaName(w) = SaName(v)
        PROVE  post'[w].live
    <2>1. CASE w = u
      BY <1>3, <1>5, <2>1
    <2>2. CASE w # u
      BY <1>2, <1>5, <2>2 DEF OnlyPost, Fresh, At
    <2> QED BY <2>1, <2>2
  <1> QED BY <1>4, <1>5 DEF Fresh

LEMMA UndisturbedKeeps ==
  ASSUME NEW v \in Users, Undisturbed(v), post'[v] = post[v], config' = config,
         SaName(v) \in accounts => SaName(v) \in accounts',
         Fresh(SaName(v)) => Fresh(SaName(v))',
         \A r : Covered(v, r) => Covered(v, r)'
  PROVE  Undisturbed(v)'
  BY DEF Undisturbed, Done, At

\* An undisturbed handler has what it has gone through.
LEMMA CallUndisturbed ==
  ASSUME AskedInv, SureInv, NEW u \in Users, Call(u)
  PROVE  Undisturbed(u)'
  <1>1. NamesTypeOK /\ Asked(u) /\ Undisturbed(u) /\ CallsOn(u)
    BY CallAsked DEF AskedInv, SureInv
  <1>2. /\ accounts \subseteq accounts' /\ config' = config
        /\ \A r : Covered(u, r) => Covered(u, r)'
    BY HandlerKeeps
  <1> SUFFICES ASSUME post'[u].sure
               PROVE  Fresh(SaName(u))' /\ SaName(u) \in accounts' /\ Done(u)'
    BY DEF Undisturbed
  <1>3. post[u].sure /\ Fresh(SaName(u)) /\ Fresh(SaName(u))'
    BY <1>1, HandlerFresh DEF CallsOn, Undisturbed
  <1>4. CASE MakeAccount(u)
    <2>1. /\ post'[u].bind = Wanted(u, config) /\ SaName(u) \in accounts'
      BY <1>1, <1>4, AccountEffect DEF Asked, At
    <2> QED BY <1>2, <1>3, <2>1 DEF Done
  <1>5. ASSUME ~At(u, "account"),
               \A r \in post[u].bind \ post'[u].bind : Covered(u, r)'
        PROVE  SaName(u) \in accounts' /\ Done(u)'
    BY <1>1, <1>2, <1>3, <1>5 DEF Undisturbed, Done
  <1>6. CASE ReadOwner(u)
    BY <1>1, <1>3, <1>5, <1>6, OwnerEffect DEF At
  <1>7. ASSUME NEW g \in post[u].make, MakeRole(u, g)
        PROVE  SaName(u) \in accounts' /\ Done(u)'
    BY <1>1, <1>5, <1>7, RoleEffect DEF At
  <1>8. CASE MakeBinding(u)
    <2>1. /\ ~At(u, "account") /\ At(u, "create")
          /\ post'[u].bind = post[u].bind \ {post[u].role}
      BY <1>1, <1>8, BindingEffect DEF At
    <2>2. post[u].live = TRUE
      BY <1>1, <1>3, <2>1 DEF Fresh, NamesTypeOK, Posts
    <2>3. PICK r \in Wanted(u, config) :
            /\ r = post[u].role
            /\ DOMAIN bindings' = DOMAIN bindings \cup {BindingName(SaName(u), r)}
            /\ bindings'[BindingName(SaName(u), r)]
                 = [account |-> SaName(u), role |-> r, live |-> post[u].live]
      BY <1>8, NewBinding
    <2>4. Covered(u, r)'
      BY <2>2, <2>3 DEF Covered, Bound
    <2>5. SaName(u) \in accounts' /\ Done(u)'
      BY <1>5, <2>1, <2>3, <2>4
    <2> QED BY <1>3, <2>5
  <1>9. ASSUME NEW r \in post[u].bind, FindBinding(u, r)
        PROVE  SaName(u) \in accounts' /\ Done(u)'
    <2>1. /\ ~At(u, "account")
          /\ \/ /\ BindingName(SaName(u), r) \in DOMAIN bindings
                /\ post'[u].bind = post[u].bind \ {r}
             \/ post'[u].bind = post[u].bind
      BY <1>1, <1>9, FindEffect DEF At
    <2>2. BindingName(SaName(u), r) \in DOMAIN bindings => Covered(u, r)'
      BY <1>2, <1>3, FoundBinding
    <2> QED BY <1>5, <2>1, <2>2
  <1> QED BY <1>3, <1>4, <1>6, <1>7, <1>8, <1>9 DEF Call

\* What RolesBound says of one user.
HasRoles(u) == SaName(u) \in accounts /\ \A r \in Wanted(u, config) : Covered(u, r)

LEMMA RolesBoundIs == RolesBound <=> \A u \in granted : HasRoles(u)
  BY DEF RolesBound, HasRoles, Covered

LEMMA HandlerSure ==
  ASSUME AskedInv, SureInv, \A v \in granted : HasRoles(v),
         NEW u \in Users, Begin(u) \/ Call(u) \/ Fail(u) \/ Succeed(u)
  PROVE  SureInv' /\ \A v \in granted' : HasRoles(v)'
  <1>1. NamesTypeOK /\ Undisturbed(u) /\ Asked(u)
    BY DEF AskedInv, SureInv
  <1>2. /\ accounts \subseteq accounts' /\ config' = config
        /\ \A v \in Users : \A r : Covered(v, r) => Covered(v, r)'
    BY HandlerKeeps
  <1>3. OnlyPost(u)
    BY <1>1, BeginEffect, QuitEffect, CallAsked DEF CallsOn
  <1>4. Undisturbed(u)'
    <2>1. CASE Begin(u)
      <3>1. post'[u].sure = Fresh(SaName(u)) /\ At(u, "account")'
        BY <1>1, <2>1, BeginEffect DEF At
      <3>2. Fresh(SaName(u)) => Fresh(SaName(u))'
        BY <2>1, HandlerFresh
      <3> QED BY <3>1, <3>2 DEF Undisturbed
    <2>2. CASE Call(u)
      BY <2>2, CallUndisturbed
    <2>3. CASE Fail(u) \/ Succeed(u)
      BY <1>1, <2>3, QuitEffect DEF Undisturbed, NoPost
    <2> QED BY <2>1, <2>2, <2>3
  <1>5. ASSUME NEW v \in Users, v # u
        PROVE  Undisturbed(v)'
    <2>1. Undisturbed(v) /\ post'[v] = post[v]
      BY <1>3, <1>5 DEF SureInv, OnlyPost
    <2>2. Fresh(SaName(v)) => Fresh(SaName(v))'
      BY HandlerFresh
    <2> QED BY <1>2, <2>1, <2>2, UndisturbedKeeps
  <1>6. ASSUME NEW v \in granted', v \in granted
        PROVE  HasRoles(v)'
    BY <1>1, <1>2, <1>6 DEF HasRoles, NamesTypeOK
  <1>7. ASSUME NEW v \in granted', v \notin granted
        PROVE  HasRoles(v)'
    <2>1. Succeed(u) \/ UNCHANGED granted
      BY <1>1, BeginEffect, CallAsked DEF CallsOn, Fail
    <2>2. Succeed(u) /\ v = u /\ post[u].sure
      BY <1>7, <2>1 DEF Succeed
    <2>3. At(u, "objects") /\ post[u].bind = {}
      BY <2>2 DEF Succeed
    <2>4. HasRoles(u)
      BY <1>1, <2>2, <2>3 DEF Undisturbed, Done, HasRoles, At
    <2> QED BY <1>2, <2>2, <2>4 DEF HasRoles
  <1> QED BY <1>4, <1>5, <1>6, <1>7 DEF SureInv

\* DELETE concerns the users of its account, none of whom is granted or undisturbed
\* afterwards.
LEMMA DeleteSure ==
  ASSUME AskedInv, SureInv, \A v \in granted : HasRoles(v),
         NEW a \in accounts, Delete(a)
  PROVE  SureInv' /\ \A v \in granted' : HasRoles(v)'
  <1>1. /\ accounts' = accounts \ {a} /\ UNCHANGED <<config, mandates>>
        /\ granted' = {v \in granted : SaName(v) # a}
        /\ post' = [v \in Users |->
             IF SaName(v) = a THEN [post[v] EXCEPT !.live = FALSE, !.sure = FALSE] ELSE post[v]]
        /\ bindings' = [b \in DOMAIN bindings |->
             [bindings[b] EXCEPT !.live = @ /\ bindings[b].account # a]]
    BY DEF Delete
  <1>2. \A b \in DOMAIN bindings : bindings[b].account # a => bindings'[b] = bindings[b]
    BY <1>1 DEF AskedInv, NamesTypeOK, Owned
  <1>3. ASSUME NEW b \in DOMAIN bindings'
        PROVE  b \in DOMAIN bindings /\ bindings'[b].account = bindings[b].account
    BY <1>1 DEF AskedInv, NamesTypeOK, Owned
  <1>4. ASSUME NEW v \in Users, SaName(v) # a
        PROVE  /\ post'[v] = post[v]
               /\ Fresh(SaName(v)) => Fresh(SaName(v))'
               /\ \A r : Covered(v, r) => Covered(v, r)'
    <2>1. post'[v] = post[v]
      BY <1>1, <1>4
    <2>2. ASSUME NEW w \in Users, SaName(w) = SaName(v)
          PROVE  post'[w] = post[w]
      BY <1>1, <1>4, <2>2
    <2>3. Fresh(SaName(v)) => Fresh(SaName(v))'
      BY <1>2, <1>3, <1>4, <2>2 DEF Fresh, At
    <2>4. ASSUME NEW r, Covered(v, r)
          PROVE  Covered(v, r)'
      <3>1. ASSUME NEW b \in DOMAIN bindings,
                   bindings[b] = [account |-> SaName(v), role |-> r, live |-> TRUE]
            PROVE  b \in DOMAIN bindings' /\ bindings'[b] = bindings[b]
        <4>1. bindings[b].account # a
          BY <1>4, <3>1
        <4>2. DOMAIN bindings' = DOMAIN bindings
          BY <1>1
        <4> QED BY <1>2, <4>1, <4>2
      <3>2. mandates \subseteq mandates'
        BY <1>1
      <3> QED BY <2>4, <3>1, <3>2, CoveredKeeps
    <2> QED BY <2>1, <2>3, <2>4
  <1>5. ASSUME NEW v \in Users PROVE Undisturbed(v)'
    <2>1. CASE SaName(v) = a
      <3>1. post'[v] = [post[v] EXCEPT !.live = FALSE, !.sure = FALSE] /\ post[v] \in Posts
        BY <1>1, <2>1 DEF AskedInv, NamesTypeOK
      <3>2. ~post'[v].sure
        BY <3>1 DEF Posts
      <3> QED BY <3>2 DEF Undisturbed
    <2>2. CASE SaName(v) # a
      BY <1>1, <1>4, <2>2, UndisturbedKeeps DEF SureInv
    <2> QED BY <2>1, <2>2
  <1>6. ASSUME NEW v \in granted' PROVE HasRoles(v)'
    BY <1>1, <1>4 DEF HasRoles, AskedInv, NamesTypeOK
  <1> QED BY <1>5, <1>6 DEF SureInv

\* The collector takes nothing that is live.
LEMMA CollectSure ==
  ASSUME AskedInv, SureInv, \A v \in granted : HasRoles(v),
         NEW c \in DOMAIN bindings, Collect(c)
  PROVE  SureInv' /\ \A v \in granted' : HasRoles(v)'
  <1>1. /\ \A b \in DOMAIN bindings' : b \in DOMAIN bindings /\ bindings'[b] = bindings[b]
        /\ \A b \in DOMAIN bindings : b # c => b \in DOMAIN bindings'
        /\ ~bindings[c].live
        /\ UNCHANGED <<config, accounts, post, granted, mandates>>
    BY DEF Collect, Restrict
  <1>2. ASSUME NEW v \in Users
        PROVE  /\ Fresh(SaName(v)) => Fresh(SaName(v))'
               /\ \A r : Covered(v, r) => Covered(v, r)'
    <2>1. Fresh(SaName(v)) => Fresh(SaName(v))'
      BY <1>1 DEF Fresh, At
    <2>2. ASSUME NEW r, Covered(v, r)
          PROVE  Covered(v, r)'
      BY <1>1, <2>2, CoveredKeeps
    <2> QED BY <2>1, <2>2
  <1>3. ASSUME NEW v \in Users PROVE Undisturbed(v)'
    BY <1>1, <1>2, UndisturbedKeeps DEF SureInv
  <1>4. ASSUME NEW v \in granted' PROVE HasRoles(v)'
    BY <1>1, <1>2 DEF HasRoles, AskedInv, NamesTypeOK
  <1> QED BY <1>3, <1>4 DEF SureInv

LEMMA SureNext ==
  ASSUME AskedInv, SureInv, RolesBound, [Next]_vars
  PROVE  SureInv' /\ RolesBound'
  <1>1. \A v \in granted : HasRoles(v)
    BY RolesBoundIs
  <1>2. (\A v \in granted' : HasRoles(v)') => RolesBound'
    BY DEF RolesBound, HasRoles, Covered
  <1>3. ASSUME ~Alive, Configure
        PROVE  SureInv' /\ RolesBound'
    <2>1. \A u \in Users : ~post'[u].sure
      BY <1>3 DEF Configure, AskedInv, Quiet, Asked
    <2>2. RolesBound'
      BY <1>3 DEF Configure, RolesBound, Bound, NameShared
    <2> QED BY <2>1, <2>2 DEF SureInv, Undisturbed
  <1>4. ASSUME Abandon
        PROVE  SureInv' /\ RolesBound'
    BY <1>4 DEF Abandon, SureInv, Undisturbed, NoPost, RolesBound, Bound, NameShared
  <1>5. ASSUME UNCHANGED namesVars
        PROVE  SureInv' /\ RolesBound'
    BY <1>5 DEF namesVars, SureInv, Undisturbed, Fresh, Done, Covered, At, RolesBound, Bound,
       NameShared
  <1> QED BY <1>1, <1>2, <1>3, <1>4, <1>5, NamesSteps, HandlerSure, DeleteSure, CollectSure

\* A user whose POST was answered 201 has all the roles of the token until the account
\* is deleted, whatever other handlers, failures, deadlines and restarts come in
\* between, unless something of a deleted account was left when the POST ran, or the
\* name of a binding is shared.
THEOREM RolesBoundHolds == Spec => []RolesBound
  <1>1. Init => SureInv /\ RolesBound
    BY DEF Init, NamesInit, SureInv, Undisturbed, NoPost, RolesBound
  <1>2. AskedInv /\ SureInv /\ RolesBound /\ [Next]_vars => SureInv' /\ RolesBound'
    BY SureNext
  <1> QED BY <1>1, <1>2, AskedInvariant, PTL DEF Spec
=============================================================================
