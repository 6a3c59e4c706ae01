--------------------------- MODULE RbacResources ---------------------------
(***************************************************************************)
(* What jwt-to-rbac derives from a token and its configuration             *)
(* (rbac_handler.go, generateRbacResources), and what a cluster comes to   *)
(* hold when several users with such names post their tokens at the same   *)
(* time, while administrators delete accounts, the garbage collector takes *)
(* what an account has left and the operator changes the configuration.    *)
(* RbacProvisioning has the same calls with objects that are not           *)
(* jwt-to-rbac's; here all are, and the names are the point.  The module   *)
(* JwtToRbac has the process that takes these steps.  A name is a sequence *)
(* of words and of the signs "@", ".", ":" and "-".                        *)
(***************************************************************************)
EXTENDS Naturals, Sequences, SequencesExt, Functions

CONSTANTS
  Users,    \* tokens: records of connector, id, email and groups
  Configs   \* configurations: records of githubOrg and custom, groups and rules

ASSUME UsersAssumption ==
  \A u \in Users : DOMAIN u = {"connector", "id", "email", "groups"}

VARIABLES
  config,    \* the configuration in force
  accounts,  \* names of the service accounts that are there
  roles,     \* rules of each role that jwt-to-rbac has made, by its name
  bindings,  \* by its name: account, role, and whether the owner is live
  post,      \* what the handler of each user's POST is at
  granted,   \* users whose last undisturbed POST was answered 201, in this
             \* configuration and by this process or an earlier one
  mandates   \* history: accounts and roles that some POST has asked for

namesVars == <<config, accounts, roles, bindings, post, granted, mandates>>

\* An owner reference has the UID of an account.  It is live as long as this is the
\* UID of the account of that name: until the account is deleted, and never again.
-----------------------------------------------------------------------------
\* A token of any other connector is an error before anything is made.
Supported(user) == user.connector \in {"github", "ldap", "local"}

\* A GitHub user's account is named by the id, the others by the e-mail with "@"
\* and "." replaced.
SaName(user) ==
  IF user.connector = "github" THEN user.id
  ELSE [i \in DOMAIN user.email |->
          IF user.email[i] \in {"@", "."} THEN "-" ELSE user.email[i]]

\* githubRoleParser on one group: organisation and team, without the former if
\* it is the configured one.  A group without a colon is dropped.
Colon(group) == CHOOSE i \in DOMAIN group :
                  group[i] = ":" /\ \A j \in 1..(i - 1) : group[j] # ":"
TeamOf(group) == LET rest == SubSeq(group, Colon(group) + 1, Len(group))
                 IN IF Contains(rest, ":") THEN SubSeq(rest, 1, Colon(rest) - 1) ELSE rest
OrgOf(group) == SubSeq(group, 1, Colon(group) - 1)

GithubRoles(groups, org) ==
  {IF OrgOf(g) = org THEN TeamOf(g) ELSE OrgOf(g) \o <<"-">> \o TeamOf(g) :
     g \in {h \in groups : Contains(h, ":")}}

GroupsOf(user, cfg) ==
  IF user.connector = "github" THEN GithubRoles(user.groups, cfg.githubOrg)
  ELSE user.groups

\* The role of a group: one of Kubernetes, or one made by the group's rules.
Builtin == {<<"cluster", "-", "admin">>, <<"admin">>, <<"edit">>, <<"view">>}
FromJwt(group) == group \o <<"-", "from", "-", "jwt">>

RoleOf(group) ==
  CASE group \in Builtin -> group
    [] group = <<"admins">> -> <<"admin">>
    [] OTHER -> FromJwt(group)

Custom(user, cfg) ==
  {g \in GroupsOf(user, cfg) :
     g \notin Builtin \cup {<<"admins">>} /\ g \in DOMAIN cfg.custom}

\* A group that is neither known to Kubernetes nor configured is skipped.
Wanted(user, cfg) ==
  {RoleOf(g) : g \in {h \in GroupsOf(user, cfg) :
                        h \in Builtin \cup {<<"admins">>} \/ h \in Custom(user, cfg)}}

BindingName(account, role) == account \o <<"-">> \o role \o <<"-", "binding">>
-----------------------------------------------------------------------------
\* at is the next call, make the groups whose roles and bind the roles whose
\* bindings are still to be made, role the one that is being bound, live its owner.
\* sure is a history: nothing of a deleted account was in the way of this POST.
NoPost == [at |-> "idle", make |-> {}, bind |-> {}, role |-> <<>>, live |-> FALSE,
           sure |-> FALSE]

NamesInit ==
  /\ config \in Configs
  /\ accounts = {} /\ roles = <<>> /\ bindings = <<>>
  /\ post = [u \in Users |-> NoPost]
  /\ granted = {} /\ mandates = {}

At(u, step) == post[u].at = step

\* Nothing of an earlier account of this name is left: no binding, and no UID that
\* a handler has read and not yet used.
Fresh(account) ==
  /\ \A b \in DOMAIN bindings : bindings[b].account = account => bindings[b].live
  /\ \A v \in Users : At(v, "create") /\ SaName(v) = account => post[v].live
-----------------------------------------------------------------------------
(* POST: CreateRBAC, call by call.  A Get that finds nothing and the Create *)
(* after it are one step for accounts and roles: if somebody else is        *)
(* quicker, the Create fails, and Fail has that.                            *)

\* Mutant of Begin: the user is to be bound to every role that was ever made.
BeginAll(u) ==
  /\ At(u, "idle") /\ Supported(u)
  /\ post' = [post EXCEPT ![u] =
       [NoPost EXCEPT !.at = "account", !.make = Custom(u, config),
                      !.bind = Wanted(u, config) \cup DOMAIN roles, !.sure = Fresh(SaName(u))]]
  /\ mandates' = mandates \cup {<<SaName(u), r>> : r \in Wanted(u, config)}
  /\ UNCHANGED <<config, accounts, roles, bindings, granted>>

Begin(u) ==
  /\ At(u, "idle") /\ Supported(u)
  /\ post' = [post EXCEPT ![u] =
       [NoPost EXCEPT !.at = "account", !.make = Custom(u, config),
                      !.bind = Wanted(u, config), !.sure = Fresh(SaName(u))]]
  /\ mandates' = mandates \cup {<<SaName(u), r>> : r \in Wanted(u, config)}
  /\ UNCHANGED <<config, accounts, roles, bindings, granted>>

\* Mutant of MakeAccount: an account that is there counts as provisioned.
MakeAccountOnce(u) ==
  /\ At(u, "account")
  /\ accounts' = accounts \cup {SaName(u)}
  /\ post' = [post EXCEPT ![u].at = "objects",
                          ![u].bind = IF SaName(u) \in accounts THEN {} ELSE @]
  /\ UNCHANGED <<config, roles, bindings, granted, mandates>>

MakeAccount(u) ==
  /\ At(u, "account")
  /\ accounts' = accounts \cup {SaName(u)}
  /\ post' = [post EXCEPT ![u].at = "objects"]
  /\ UNCHANGED <<config, roles, bindings, granted, mandates>>

WithRole(g) == [r \in DOMAIN roles \cup {FromJwt(g)} |->
                  IF r \in DOMAIN roles THEN roles[r] ELSE config.custom[g]]

\* Mutant of MakeRole: a role that exists gets the rules of the configuration.
MakeRoleAnew(u, g) ==
  /\ At(u, "objects") /\ g \in post[u].make
  /\ roles' = [r \in DOMAIN roles \cup {FromJwt(g)} |->
                 IF r = FromJwt(g) THEN config.custom[g] ELSE roles[r]]
  /\ post' = [post EXCEPT ![u].make = @ \ {g}]
  /\ UNCHANGED <<config, accounts, bindings, granted, mandates>>

\* A role that exists stays as it is, whatever its rules.
MakeRole(u, g) ==
  /\ At(u, "objects") /\ g \in post[u].make
  /\ roles' = WithRole(g)
  /\ post' = [post EXCEPT ![u].make = @ \ {g}]
  /\ UNCHANGED <<config, accounts, bindings, granted, mandates>>

\* A binding that exists is accepted by its name, whatever it binds and whoever
\* owns it.  A Get that fails is the same as one that finds nothing.
FindBinding(u, r) ==
  /\ At(u, "objects") /\ post[u].make = {} /\ r \in post[u].bind
  /\ \/ /\ BindingName(SaName(u), r) \in DOMAIN bindings
        /\ post' = [post EXCEPT ![u].bind = @ \ {r}]
     \/ post' = [post EXCEPT ![u].at = "owner", ![u].role = r]
  /\ UNCHANGED <<config, accounts, roles, bindings, granted, mandates>>

\* getSAReference: without the account it fails.
ReadOwner(u) ==
  /\ At(u, "owner") /\ SaName(u) \in accounts
  /\ post' = [post EXCEPT ![u].at = "create", ![u].live = TRUE]
  /\ UNCHANGED <<config, accounts, roles, bindings, granted, mandates>>

\* With the UID read before, which may be that of a deleted account by now.
MakeBinding(u) ==
  LET r == post[u].role
      name == BindingName(SaName(u), r)
  IN /\ At(u, "create") /\ name \notin DOMAIN bindings
     /\ bindings' = [b \in DOMAIN bindings \cup {name} |->
                       IF b # name THEN bindings[b]
                       ELSE [account |-> SaName(u), role |-> r, live |-> post[u].live]]
     /\ post' = [post EXCEPT ![u].at = "objects", ![u].bind = @ \ {r},
                             ![u].role = <<>>, ![u].live = FALSE]
     /\ UNCHANGED <<config, accounts, roles, granted, mandates>>

Call(u) ==
  \/ MakeAccount(u) \/ ReadOwner(u) \/ MakeBinding(u)
  \/ \E g \in post[u].make : MakeRole(u, g)
  \/ \E r \in post[u].bind : FindBinding(u, r)

\* Any call may fail, also after its effect; the rest is not made then.
Fail(u) ==
  /\ ~At(u, "idle")
  /\ post' = [post EXCEPT ![u] = NoPost]
  /\ UNCHANGED <<config, accounts, roles, bindings, granted, mandates>>

\* 201.
Succeed(u) ==
  /\ At(u, "objects") /\ post[u].make = {} /\ post[u].bind = {}
  /\ post' = [post EXCEPT ![u] = NoPost]
  /\ granted' = IF post[u].sure THEN granted \cup {u} ELSE granted
  /\ UNCHANGED <<config, accounts, roles, bindings, mandates>>
-----------------------------------------------------------------------------
(* DELETE, the garbage collector and the operator                          *)

\* DELETE takes the account only.
Delete(account) ==
  /\ account \in accounts
  /\ accounts' = accounts \ {account}
  /\ bindings' = [b \in DOMAIN bindings |->
       [bindings[b] EXCEPT !.live = @ /\ bindings[b].account # account]]
  /\ post' = [u \in Users |-> IF SaName(u) = account
                              THEN [post[u] EXCEPT !.live = FALSE, !.sure = FALSE]
                              ELSE post[u]]
  /\ granted' = {u \in granted : SaName(u) # account}
  /\ UNCHANGED <<config, roles, mandates>>

\* The garbage collector takes a binding whose owner is not there any more.
Collect(b) ==
  /\ b \in DOMAIN bindings /\ ~bindings[b].live
  /\ bindings' = Restrict(bindings, DOMAIN bindings \ {b})
  /\ UNCHANGED <<config, accounts, roles, post, granted, mandates>>

\* The process ends, and with it its handlers.
Abandon ==
  /\ post' = [u \in Users |-> NoPost]
  /\ UNCHANGED <<config, accounts, roles, bindings, granted, mandates>>

\* jwt-to-rbac starts again, with the same configuration or with another one,
\* in which the groups of a token may mean something else.
Configure ==
  /\ config' \in Configs
  /\ granted' = IF config' = config THEN granted ELSE {}
  /\ UNCHANGED <<accounts, roles, bindings, post, mandates>>
-----------------------------------------------------------------------------
\* The binding is taken by another grant whose binding has the same name: nothing in
\* the code keeps apart the account "a" with the role "b-c" and the account "a-b"
\* with the role "c".
NameShared(u, r) ==
  \E m \in mandates : /\ m # <<SaName(u), r>>
                      /\ BindingName(m[1], m[2]) = BindingName(SaName(u), r)

Bound(u, r) ==
  \E b \in DOMAIN bindings :
    bindings[b] = [account |-> SaName(u), role |-> r, live |-> TRUE]

\* A user who was answered 201 has an account that is bound to every role that the
\* groups of the token stand for (README.md:80), whatever other handlers, failures
\* and restarts came in between, until the account is deleted.  Two things excuse
\* the code: what a deleted account of this name has left, if it was still there
\* during the POST (lines 236-238 and 265-270), and the binding of another user's
\* grant that has the same name.
RolesBound ==
  \A u \in granted :
    /\ SaName(u) \in accounts
    /\ \A r \in Wanted(u, config) : Bound(u, r) \/ NameShared(u, r)

\* Even where names collide, and whatever is accepted by its name, a binding never
\* joins an account with a role that no POST for that account has asked for (lines
\* 388-395).
GrantsTraceable ==
  \A b \in DOMAIN bindings : <<bindings[b].account, bindings[b].role>> \in mandates

\* A role keeps its rules over changes of the configuration: those who were
\* bound to it do not get other rights by the POST of somebody else (line 278).
RulesKept == [][\A r \in DOMAIN roles : r \in DOMAIN roles' /\ roles'[r] = roles[r]]_namesVars
=============================================================================
