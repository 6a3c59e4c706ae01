-------------------------- MODULE RbacProvisioning --------------------------
(***************************************************************************)
(* The /rbac endpoint of jwt-to-rbac: POST turns the groups of an ID token  *)
(* into a ServiceAccount, ClusterRoles and ClusterRoleBindings, DELETE      *)
(* removes the ServiceAccount and leaves its bindings to the garbage        *)
(* collector.                                                               *)
(*                                                                          *)
(* Every HTTP request is a goroutine that makes one Kubernetes API call     *)
(* after another.  One action is one API call together with the local code  *)
(* up to the next call, so requests interleave between any two calls.       *)
(* A call may fail without an effect ("error") or take effect while its     *)
(* reply is lost ("lost"); the process may crash between two calls.  A      *)
(* cluster administrator creates and deletes accounts of his own, and the   *)
(* garbage collector removes bindings whose owner is gone.                  *)
(***************************************************************************)
EXTENDS Naturals

CONSTANTS
  Requests,         \* slots for HTTP requests handled at the same time
  SaNames,          \* names of service accounts in the namespace "default"
  Groups,           \* groups that ID tokens may carry
  ConfigGroups,     \* groups with at least one rule in config.CustomGroups
  AdminNames,       \* account names the administrator creates or deletes, too
  MaxDisturbances   \* bound on DELETEs, faults, crashes and administrator's acts

ASSUME DisturbancesAssumption == MaxDisturbances \in Nat
ASSUME AdminAssumption == AdminNames \subseteq SaNames

VARIABLES
  sas,       \* sas[n]: the service account called n
  roles,     \* roles[g]: state of the cluster role g-from-jwt
  bindings,  \* bindings[<<n, role>>]: the binding n-role-binding
  nextUid,   \* the next unused object UID of the API server
  req,       \* req[r]: what the goroutine of request r does
  left,      \* disturbances left (the bound of this model)
  mandate    \* history: mandate[n] = roles that POSTs asked for account n
             \* since the last DELETE of n that was answered with 202

objects == <<sas, roles, bindings, nextUid>>
vars == <<sas, roles, bindings, nextUid, req, left, mandate>>
-----------------------------------------------------------------------------
BuiltinRoles == {"cluster-admin", "admin", "edit", "view"}

\* Groups that get a cluster role of their own; a custom group named like a
\* role of Kubernetes, or "admins", never gets that far in the switch.
CustomGroups == (Groups \cap ConfigGroups) \ (BuiltinRoles \cup {"admins"})

\* The groups that lead to a binding; any other group of a token is skipped.
KnownGroups == (Groups \cap (BuiltinRoles \cup {"admins"})) \cup CustomGroups

RoleOf(g) == [name   |-> IF g = "admins" THEN "admin" ELSE g,
              custom |-> g \in CustomGroups]

Roles == {RoleOf(g) : g \in KnownGroups}
BindingNames == SaNames \X Roles

ObjectState == {"absent", "managed", "foreign"}   \* managed: carries the label
NoUid == 0
Absent == [state |-> "absent", uid |-> NoUid]

\* A cluster role binding as createClusterRoleBinding builds it; the mutant
\* forgets SetOwnerReferences.
UnownedBinding(uid) == [state |-> "managed", uid |-> NoUid]
BoundBy(uid) == [state |-> "managed", uid |-> uid]

Idle == [pc |-> "idle", sa |-> "", asked |-> {}, todo |-> {}, group |-> "",
         owner |-> NoUid]

PostPcs == {"getSA", "createSA", "getRole", "createRole", "getBinding",
            "getOwner", "createBinding", "created"}
DeletePcs == {"checkSA", "deleteSA"}
-----------------------------------------------------------------------------
(* The loops of CreateRBAC: where a request goes once it is through with an *)
(* element, todo being what is left of the current loop.                    *)

StuckBindingLoop(q, todo) ==
  [q EXCEPT !.pc = IF q.asked = {} THEN "created" ELSE "getBinding",
            !.todo = q.asked, !.group = "", !.owner = NoUid]

BindingLoop(q, todo) ==
  [q EXCEPT !.pc = IF todo = {} THEN "created" ELSE "getBinding",
            !.todo = todo, !.group = "", !.owner = NoUid]

RoleLoop(q, todo) ==
  IF todo = {} THEN BindingLoop(q, q.asked)
  ELSE [q EXCEPT !.pc = "getRole", !.todo = todo, !.group = ""]

\* The custom groups of a token, for which cluster roles are made.
AllAskedGroups(q) == q.asked
AskedCustom(q) == q.asked \cap CustomGroups

BindingOf(q) == <<q.sa, RoleOf(q.group)>>
AskedRoles(q) == {RoleOf(g) : g \in q.asked}

\* How a call ends: a reply, an error with no effect, a lost reply.
Spend(outcome) ==
  /\ outcome # "reply" => left > 0
  /\ left' = IF outcome = "reply" THEN left ELSE left - 1

Disturb == left > 0 /\ left' = left - 1

Respond(r) == req' = [req EXCEPT ![r] = Idle]

\* getAndCheckSA, getAndCheckCRole, getAndCheckCRoleBinding: there is such an
\* object and it carries the label.  The mutants forget the label, or the check.
SAPresent(n) == sas[n].state # "absent"
SAChecked(n) == sas[n].state = "managed"
RolePresent(g) == roles[g] # "absent"
RoleUnchecked(g) == FALSE
RoleChecked(g) == roles[g] = "managed"
BindingChecked(b) == bindings[b].state = "managed"

\* Whether a call that creates an object does so: an object of that name makes
\* it fail.  The mutant writes over the object.
Overwrites(outcome, state) == outcome # "error"
Creates(outcome, state) == outcome # "error" /\ state = "absent"

\* DELETE is answered with 202 when the account was there and the call
\* succeeded.  The mutant drops the error of the call.
ErrorDropped(outcome, applied) == TRUE
DeleteAccepted(outcome, applied) == applied /\ outcome = "reply"
-----------------------------------------------------------------------------
Init ==
  /\ sas = [n \in SaNames |-> Absent]
  /\ roles \in [CustomGroups -> {"absent", "foreign"}]
  /\ bindings \in [BindingNames -> {Absent, [state |-> "foreign", uid |-> NoUid]}]
  /\ nextUid = 1
  /\ req = [r \in Requests |-> Idle]
  /\ left = MaxDisturbances
  /\ mandate = [n \in SaNames |-> {}]

\* POST /rbac with a token of user n in the groups gs, authorised by Dex.
Post(r, n, gs) ==
  /\ req[r].pc = "idle"
  /\ LET asked == gs \cap KnownGroups IN
     /\ req' = [req EXCEPT ![r] = [Idle EXCEPT !.pc = "getSA", !.sa = n,
                                               !.asked = asked]]
     /\ mandate' = [mandate EXCEPT ![n] = @ \cup {RoleOf(g) : g \in asked}]
  /\ UNCHANGED <<objects, left>>

\* createServiceAccount: any failure of the check leads to Create.
GetSA(r) ==
  /\ req[r].pc = "getSA"
  /\ \E outcome \in {"reply", "error"} :
       /\ Spend(outcome)
       /\ req' = [req EXCEPT ![r] =
            IF outcome = "reply" /\ SAChecked(@.sa)
            THEN RoleLoop(@, AskedCustom(@))
            ELSE [@ EXCEPT !.pc = "createSA"]]
  /\ UNCHANGED <<objects, mandate>>

CreateSA(r) ==
  /\ req[r].pc = "createSA"
  /\ \E outcome \in {"reply", "error", "lost"} :
       LET n == req[r].sa
           applied == Creates(outcome, sas[n].state)
       IN /\ Spend(outcome)
          /\ sas' = IF applied
                    THEN [sas EXCEPT ![n] = [state |-> "managed", uid |-> nextUid]]
                    ELSE sas
          /\ nextUid' = IF applied THEN nextUid + 1 ELSE nextUid
          /\ IF applied /\ outcome = "reply"
             THEN req' = [req EXCEPT ![r] = RoleLoop(@, AskedCustom(@))]
             ELSE Respond(r)
  /\ UNCHANGED <<roles, bindings, mandate>>

\* createClusterRole: a role that exists with the label is taken as it is.
GetRole(r) ==
  /\ req[r].pc = "getRole"
  /\ \E g \in req[r].todo, outcome \in {"reply", "error"} :
       /\ Spend(outcome)
       /\ req' = [req EXCEPT ![r] =
            IF outcome = "reply" /\ RoleChecked(g)
            THEN RoleLoop(@, @.todo \ {g})
            ELSE [@ EXCEPT !.pc = "createRole", !.group = g]]
  /\ UNCHANGED <<objects, mandate>>

CreateRole(r) ==
  /\ req[r].pc = "createRole"
  /\ \E outcome \in {"reply", "error", "lost"} :
       LET g == req[r].group
           applied == Creates(outcome, roles[g])
       IN /\ Spend(outcome)
          /\ roles' = IF applied THEN [roles EXCEPT ![g] = "managed"] ELSE roles
          /\ IF applied /\ outcome = "reply"
             THEN req' = [req EXCEPT ![r] = RoleLoop(@, @.todo \ {g})]
             ELSE Respond(r)
  /\ UNCHANGED <<sas, bindings, nextUid, mandate>>

\* createClusterRoleBinding: the check by name, whoever owns the binding ...
GetBinding(r) ==
  /\ req[r].pc = "getBinding"
  /\ \E g \in req[r].todo, outcome \in {"reply", "error"} :
       /\ Spend(outcome)
       /\ req' = [req EXCEPT ![r] =
            IF outcome = "reply" /\ BindingChecked(<<@.sa, RoleOf(g)>>)
            THEN BindingLoop(@, @.todo \ {g})
            ELSE [@ EXCEPT !.pc = "getOwner", !.group = g]]
  /\ UNCHANGED <<objects, mandate>>

\* ... then the UID of the account, read once more ...
GetOwner(r) ==
  /\ req[r].pc = "getOwner"
  /\ \E outcome \in {"reply", "error"} :
       /\ Spend(outcome)
       /\ IF outcome = "reply" /\ SAChecked(req[r].sa)
          THEN req' = [req EXCEPT ![r].pc = "createBinding",
                                  ![r].owner = sas[req[r].sa].uid]
          ELSE Respond(r)
  /\ UNCHANGED <<objects, mandate>>

\* ... and the creation, with that UID as the owner.
CreateBinding(r) ==
  /\ req[r].pc = "createBinding"
  /\ \E outcome \in {"reply", "error", "lost"} :
       LET b == BindingOf(req[r])
           applied == Creates(outcome, bindings[b].state)
       IN /\ Spend(outcome)
          /\ bindings' = IF applied
                         THEN [bindings EXCEPT ![b] = BoundBy(req[r].owner)]
                         ELSE bindings
          /\ IF applied /\ outcome = "reply"
             THEN req' = [req EXCEPT ![r] = BindingLoop(@, @.todo \ {@.group})]
             ELSE Respond(r)
  /\ UNCHANGED <<sas, roles, nextUid, mandate>>

\* 201 Created.
RespondCreated(r) ==
  /\ req[r].pc = "created"
  /\ Respond(r)
  /\ UNCHANGED <<objects, left, mandate>>

\* DELETE /rbac/n.
Delete(r, n) ==
  /\ req[r].pc = "idle"
  /\ Disturb
  /\ req' = [req EXCEPT ![r] = [Idle EXCEPT !.pc = "checkSA", !.sa = n]]
  /\ UNCHANGED <<objects, mandate>>

CheckSA(r) ==
  /\ req[r].pc = "checkSA"
  /\ \E outcome \in {"reply", "error"} :
       /\ Spend(outcome)
       /\ IF outcome = "reply" /\ SAChecked(req[r].sa)
          THEN req' = [req EXCEPT ![r].pc = "deleteSA"]
          ELSE Respond(r)
  /\ UNCHANGED <<objects, mandate>>

\* The deletion is by name.  With the answer 202 the account's mandate ends,
\* but for the POSTs that are still being handled.
DeleteSA(r) ==
  /\ req[r].pc = "deleteSA"
  /\ \E outcome \in {"reply", "error", "lost"} :
       LET n == req[r].sa
           applied == outcome # "error" /\ sas[n].state # "absent"
       IN /\ Spend(outcome)
          /\ sas' = IF applied THEN [sas EXCEPT ![n] = Absent] ELSE sas
          /\ mandate' =
               IF DeleteAccepted(outcome, applied)
               THEN [mandate EXCEPT ![n] =
                       UNION {AskedRoles(req[q]) :
                                q \in {p \in Requests :
                                          req[p].pc # "idle" /\ req[p].sa = n}}]
               ELSE mandate
  /\ Respond(r)
  /\ UNCHANGED <<roles, bindings, nextUid>>

\* The process dies and is started again; clients see a broken connection.
Crash ==
  /\ \E r \in Requests : req[r].pc # "idle"
  /\ Disturb
  /\ req' = [r \in Requests |-> Idle]
  /\ UNCHANGED <<objects, mandate>>
-----------------------------------------------------------------------------
(* The world around the process.                                            *)

AdminCreatesSA(n) ==
  /\ sas[n].state = "absent"
  /\ Disturb
  /\ sas' = [sas EXCEPT ![n] = [state |-> "foreign", uid |-> nextUid]]
  /\ nextUid' = nextUid + 1
  /\ UNCHANGED <<roles, bindings, req, mandate>>

AdminDeletesSA(n) ==
  /\ sas[n].state # "absent"
  /\ Disturb
  /\ sas' = [sas EXCEPT ![n] = Absent]
  /\ UNCHANGED <<roles, bindings, nextUid, req, mandate>>

\* The garbage collector: there is an owner reference and its UID is gone.
Collect(b) ==
  /\ bindings[b].uid # NoUid
  /\ bindings[b].uid # sas[b[1]].uid
  /\ bindings' = [bindings EXCEPT ![b] = Absent]
  /\ UNCHANGED <<sas, roles, nextUid, req, left, mandate>>
-----------------------------------------------------------------------------
Call(r) ==
  \/ GetSA(r) \/ CreateSA(r) \/ GetRole(r) \/ CreateRole(r)
  \/ GetBinding(r) \/ GetOwner(r) \/ CreateBinding(r) \/ RespondCreated(r)
  \/ CheckSA(r) \/ DeleteSA(r)

Client(r) ==
  \/ \E n \in SaNames, gs \in SUBSET Groups : Post(r, n, gs)
  \/ \E n \in SaNames : Delete(r, n)

Environment ==
  \/ \E n \in AdminNames : AdminCreatesSA(n) \/ AdminDeletesSA(n)
  \/ \E b \in BindingNames : Collect(b)

Next ==
  \/ \E r \in Requests : Call(r) \/ Client(r)
  \/ Environment
  \/ Crash

Spec == Init /\ [][Next]_vars

\* A goroutine with a call to make is scheduled, the collector runs; nobody
\* has to send requests, to fail or to crash.
FairSpec ==
  /\ Spec
  /\ \A r \in Requests : WF_vars(Call(r))
  /\ \A b \in BindingNames : WF_vars(Collect(b))

\* Every user logs in again and again, always with all of his groups.
UsersReturn == \A n \in SaNames : SF_vars(\E r \in Requests : Post(r, n, Groups))
-----------------------------------------------------------------------------
SaStates == [state : ObjectState, uid : Nat]

Request == [pc : {"idle"} \cup PostPcs \cup DeletePcs, sa : SaNames \cup {""},
            asked : SUBSET KnownGroups, todo : SUBSET KnownGroups,
            group : KnownGroups \cup {""}, owner : Nat]

\* The binding belongs to the account that exists now (createClusterRoleBinding
\* sets the owner reference), so the collector will not take it away.
Live(b) ==
  /\ bindings[b].state = "managed"
  /\ bindings[b].uid = sas[b[1]].uid
  /\ bindings[b].uid # NoUid

\* Each pc goes with the local variables that the code has set by then.
LocalsOK(q) ==
  /\ q.pc # "idle" => q.sa \in SaNames
  /\ q.pc \in {"getRole", "createRole"} => q.todo \subseteq CustomGroups
  /\ q.pc = "createRole" => q.group \in CustomGroups
  /\ q.pc \in {"getOwner", "createBinding"} => q.group \in q.asked
  /\ q.todo \subseteq q.asked

\* Type invariant: the objects and the local variables of the handlers have
\* the shapes the code gives them.
TypeOK ==
  /\ sas \in [SaNames -> SaStates]
  /\ roles \in [CustomGroups -> ObjectState]
  /\ bindings \in [BindingNames -> SaStates]
  /\ nextUid \in Nat \ {NoUid}
  /\ req \in [Requests -> Request]
  /\ left \in Nat
  /\ mandate \in [SaNames -> SUBSET Roles]
  /\ \A r \in Requests : LocalsOK(req[r])

\* A DELETE answered with 202 revokes: a role bound to the account that exists
\* now was asked for by a POST that was not over when the last such DELETE of
\* that name was answered, however deletions, re-creations, faults and crashes
\* interleave with the three calls that make a binding.
GrantsMandated ==
  \A b \in BindingNames : Live(b) => b[2] \in mandate[b[1]]

\* No account of somebody else is the owner of a generated binding: the label
\* is checked again when the UID is read (getSAReference), and UIDs are never
\* used twice.
OwnersManaged ==
  \A b \in BindingNames : Live(b) => sas[b[1]].state = "managed"

\* A generated binding to a custom role refers to a generated ClusterRole: the
\* role is there, and it is not one of the same name that somebody else wrote.
BoundRolesGenerated ==
  \A n \in SaNames, g \in CustomGroups :
     bindings[<<n, RoleOf(g)>>].state = "managed" => roles[g] = "managed"

\* Objects without the label are never changed or replaced by the handlers:
\* neither a role nor a binding that was there first.
ForeignObjectsKept ==
  [][/\ \A g \in CustomGroups : roles[g] = "foreign" => roles'[g] = "foreign"
     /\ \A b \in BindingNames :
          bindings[b].state = "foreign" => bindings'[b] = bindings[b]]_vars

-----------------------------------------------------------------------------
(* What makes the safety properties inductive.                              *)

\* The API server never hands out a UID twice.
UidsUsed ==
  /\ \A n \in SaNames : sas[n].uid < nextUid
  /\ \A b \in BindingNames : bindings[b].uid < nextUid
  /\ \A r \in Requests : req[r].owner < nextUid

\* What a POST is about to bind was asked for, and the UID it holds, if it is
\* still that of the account, was read from a generated one.
RequestsMandated ==
  \A r \in Requests : req[r].pc # "idle" =>
    /\ AskedRoles(req[r]) \subseteq mandate[req[r].sa]
    /\ req[r].owner # NoUid /\ req[r].owner = sas[req[r].sa].uid
         => sas[req[r].sa].state = "managed"

GrantInv ==
  /\ TypeOK
  /\ UidsUsed
  /\ RequestsMandated
  /\ GrantsMandated
  /\ OwnersManaged

\* A POST comes to the bindings once the roles it went through are generated.
Generated == {g \in CustomGroups : roles[g] = "managed"}

RolesReady(q, made) ==
  /\ q.pc \in {"getRole", "createRole"} =>
       (q.asked \cap CustomGroups) \ q.todo \subseteq made
  /\ q.pc \in {"getBinding", "getOwner", "createBinding", "created"} =>
       q.asked \cap CustomGroups \subseteq made

RolesMade == \A r \in Requests : RolesReady(req[r], Generated)

RoleInv ==
  /\ TypeOK
  /\ RolesMade
  /\ BoundRolesGenerated

\* The collector has nothing to do with bindings that have no owner.
ForeignInv ==
  /\ TypeOK
  /\ \A b \in BindingNames : bindings[b].state = "foreign" => bindings[b].uid = NoUid
-----------------------------------------------------------------------------
\* Every request is answered (or dropped by a crash).
Answered ==
  \A r \in Requests : req[r].pc # "idle" ~> req[r].pc = "idle"

\* An account that is gone for good leaves no generated binding behind, not even
\* one created after the deletion by a POST that had read the old UID.
DeleteRevokes ==
  \A n \in SaNames :
    <>[](sas[n].state = "absent")
      => <>[](\A role \in Roles : bindings[<<n, role>>].state # "managed")

\* Half-finished POSTs do no lasting harm: a user who keeps logging in ends up
\* with all his roles bound for good, unless an object of somebody else has one
\* of the names.  Every step of CreateRBAC finds and accepts what an earlier
\* attempt has left, and what it wrongly accepts is collected.
NoForeignObject ==
  /\ \A n \in SaNames : sas[n].state # "foreign"
  /\ \A g \in CustomGroups : roles[g] # "foreign"
  /\ \A b \in BindingNames : bindings[b].state # "foreign"

Converges ==
  (UsersReturn /\ <>[]NoForeignObject) => <>[](\A b \in BindingNames : Live(b))

\* The requests implement the ledger of AccessLedger: what is in force are the
\* bindings of accounts that exist, and however requests interleave and fail,
\* they change it by granting a claimed role or by revoking a whole account.
Ledger == INSTANCE AccessLedger
            WITH granted <- {b \in BindingNames : Live(b)}, claimed <- mandate
LedgerSpec == Ledger!Spec

\* README.md:267, after POST: "The ServiceAccount, ClusterRoles ... and
\* ClusterRoleBindings are created".  While the account exists when 201 is
\* answered, its bindings should too; one of a deleted account, waiting for the
\* collector, is none of them.
CreatedMeansBound ==
  [][\A r \in Requests :
       RespondCreated(r) /\ sas[req[r].sa].state = "managed" =>
         \A g \in req[r].asked : Live(<<req[r].sa, RoleOf(g)>>)]_vars
=============================================================================
