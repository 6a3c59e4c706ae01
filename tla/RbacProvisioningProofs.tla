----------------------- MODULE RbacProvisioningProofs -----------------------
(***************************************************************************)
(* Proofs about RbacProvisioning: type correctness, that what is bound was  *)
(* asked for, that bound roles exist, that objects of others are left alone, *)
(* and the refinement of AccessLedger.                                      *)
(***************************************************************************)
EXTENDS RbacProvisioning, TLAPS

(* Facts about the local steps of a request. *)

LEMMA IdleOK == Idle \in Request /\ LocalsOK(Idle) /\ Idle.pc = "idle"
  BY DEF Idle, Request, LocalsOK, PostPcs, DeletePcs, NoUid

LEMMA CustomKnown == CustomGroups \subseteq KnownGroups
  BY DEF KnownGroups

\* Where the loop over the bindings leads is a proper request again.
LEMMA BindingLoopOK ==
  ASSUME NEW q \in Request, q.sa \in SaNames, NEW todo \in SUBSET q.asked
  PROVE  /\ BindingLoop(q, todo) \in Request
         /\ LocalsOK(BindingLoop(q, todo))
  BY DEF BindingLoop, Request, LocalsOK, PostPcs, DeletePcs, NoUid

\* The same of the loop over the cluster roles.
LEMMA RoleLoopOK ==
  ASSUME NEW q \in Request, q.sa \in SaNames,
         NEW todo \in SUBSET (q.asked \cap CustomGroups)
  PROVE  /\ RoleLoop(q, todo) \in Request
         /\ LocalsOK(RoleLoop(q, todo))
  <1>1. CASE todo = {}
    BY <1>1, BindingLoopOK DEF RoleLoop
  <1>2. CASE todo # {}
    BY <1>2 DEF RoleLoop, Request, LocalsOK, PostPcs, DeletePcs, NoUid
  <1> QED BY <1>1, <1>2

\* A request that is replaced by a proper one leaves req well typed.
LEMMA ReqUpdate ==
  ASSUME req \in [Requests -> Request], \A s \in Requests : LocalsOK(req[s]),
         NEW r \in Requests, NEW q \in Request, LocalsOK(q),
         req' = [req EXCEPT ![r] = q]
  PROVE  /\ req' \in [Requests -> Request]
         /\ \A s \in Requests : LocalsOK(req[s])'
  <1>1. req' \in [Requests -> Request]
    OBVIOUS
  <1>2. \A s \in Requests : req'[s] = IF s = r THEN q ELSE req[s]
    OBVIOUS
  <1>3. \A s \in Requests : LocalsOK(req[s])'
    BY <1>2 DEF LocalsOK
  <1> QED BY <1>1, <1>3

LEMMA SpendOK ==
  ASSUME left \in Nat, NEW outcome, Spend(outcome)
  PROVE  left' \in Nat
  BY DEF Spend

LEMMA DisturbOK ==
  ASSUME left \in Nat, Disturb
  PROVE  left' \in Nat
  BY DEF Disturb
-----------------------------------------------------------------------------
\* Type correctness is inductive.
LEMMA TypeInit == Init => TypeOK
  BY IdleOK, DisturbancesAssumption
  DEF Init, TypeOK, SaStates, ObjectState, Absent, NoUid

LEMMA TypePost ==
  ASSUME TypeOK, NEW r \in Requests, NEW n \in SaNames, NEW gs \in SUBSET Groups,
         Post(r, n, gs)
  PROVE  TypeOK'
  <1> DEFINE q == [Idle EXCEPT !.pc = "getSA", !.sa = n, !.asked = gs \cap KnownGroups]
  <1>1. q \in Request /\ LocalsOK(q)
    BY DEF Idle, Request, LocalsOK, PostPcs, NoUid
  <1>2. req' = [req EXCEPT ![r] = q]
    BY DEF Post
  <1> HIDE DEF q
  <1>3. req' \in [Requests -> Request] /\ \A s \in Requests : LocalsOK(req[s])'
    BY <1>1, <1>2, ReqUpdate DEF TypeOK
  <1>4. mandate' \in [SaNames -> SUBSET Roles]
    BY DEF Post, TypeOK, Roles
  <1> QED BY <1>3, <1>4 DEF TypeOK, Post, objects

LEMMA TypeGetSA ==
  ASSUME TypeOK, NEW r \in Requests, GetSA(r)
  PROVE  TypeOK'
  <1>1. PICK outcome \in {"reply", "error"} :
          /\ Spend(outcome)
          /\ req' = [req EXCEPT ![r] =
               IF outcome = "reply" /\ SAChecked(req[r].sa)
               THEN RoleLoop(req[r], AskedCustom(req[r]))
               ELSE [req[r] EXCEPT !.pc = "createSA"]]
    BY DEF GetSA
  <1>2. req[r] \in Request /\ LocalsOK(req[r]) /\ req[r].pc = "getSA"
    BY DEF GetSA, TypeOK
  <1>3. req[r].sa \in SaNames
    BY <1>2 DEF LocalsOK
  <1>4. /\ RoleLoop(req[r], AskedCustom(req[r])) \in Request
        /\ LocalsOK(RoleLoop(req[r], AskedCustom(req[r])))
    BY <1>2, <1>3, RoleLoopOK DEF AskedCustom
  <1>5. /\ [req[r] EXCEPT !.pc = "createSA"] \in Request
        /\ LocalsOK([req[r] EXCEPT !.pc = "createSA"])
    BY <1>2, <1>3 DEF Request, LocalsOK, PostPcs
  <1>6. req' \in [Requests -> Request] /\ \A s \in Requests : LocalsOK(req[s])'
    BY <1>1, <1>4, <1>5, ReqUpdate DEF TypeOK
  <1> QED BY <1>1, <1>6, SpendOK DEF TypeOK, GetSA, objects

\* A request that answers leaves req well typed.
LEMMA RespondOK ==
  ASSUME TypeOK, NEW r \in Requests, Respond(r)
  PROVE  req' \in [Requests -> Request] /\ \A s \in Requests : LocalsOK(req[s])'
  BY IdleOK, ReqUpdate DEF Respond, TypeOK

LEMMA TypeCreateSA ==
  ASSUME TypeOK, NEW r \in Requests, CreateSA(r)
  PROVE  TypeOK'
  <1>1. PICK outcome \in {"reply", "error", "lost"} :
          LET n == req[r].sa
              applied == Creates(outcome, sas[n].state)
          IN /\ Spend(outcome)
             /\ sas' = IF applied
                       THEN [sas EXCEPT ![n] = [state |-> "managed", uid |-> nextUid]]
                       ELSE sas
             /\ nextUid' = IF applied THEN nextUid + 1 ELSE nextUid
             /\ IF applied /\ outcome = "reply"
                THEN req' = [req EXCEPT ![r] = RoleLoop(req[r], AskedCustom(req[r]))]
                ELSE Respond(r)
    BY DEF CreateSA
  <1>2. req[r] \in Request /\ LocalsOK(req[r]) /\ req[r].pc = "createSA"
    BY DEF CreateSA, TypeOK
  <1>3. req[r].sa \in SaNames
    BY <1>2 DEF LocalsOK
  <1>4. /\ RoleLoop(req[r], AskedCustom(req[r])) \in Request
        /\ LocalsOK(RoleLoop(req[r], AskedCustom(req[r])))
    BY <1>2, <1>3, RoleLoopOK DEF AskedCustom
  <1>5. req' \in [Requests -> Request] /\ \A s \in Requests : LocalsOK(req[s])'
    BY <1>1, <1>4, ReqUpdate, RespondOK DEF TypeOK
  <1>6. sas' \in [SaNames -> SaStates]
    BY <1>1, <1>3 DEF TypeOK, SaStates, ObjectState
  <1>7. nextUid' \in Nat \ {NoUid}
    BY <1>1 DEF TypeOK, NoUid
  <1> QED BY <1>1, <1>5, <1>6, <1>7, SpendOK DEF TypeOK, CreateSA

LEMMA TypeGetRole ==
  ASSUME TypeOK, NEW r \in Requests, GetRole(r)
  PROVE  TypeOK'
  <1>1. PICK g \in req[r].todo, outcome \in {"reply", "error"} :
          /\ Spend(outcome)
          /\ req' = [req EXCEPT ![r] =
               IF outcome = "reply" /\ RoleChecked(g)
               THEN RoleLoop(req[r], req[r].todo \ {g})
               ELSE [req[r] EXCEPT !.pc = "createRole", !.group = g]]
    BY DEF GetRole
  <1>2. req[r] \in Request /\ LocalsOK(req[r]) /\ req[r].pc = "getRole"
    BY DEF GetRole, TypeOK
  <1>3. /\ req[r].sa \in SaNames
        /\ req[r].todo \subseteq req[r].asked \cap CustomGroups
    BY <1>2 DEF LocalsOK
  <1>4. /\ RoleLoop(req[r], req[r].todo \ {g}) \in Request
        /\ LocalsOK(RoleLoop(req[r], req[r].todo \ {g}))
    BY <1>2, <1>3, RoleLoopOK
  <1>5. /\ [req[r] EXCEPT !.pc = "createRole", !.group = g] \in Request
        /\ LocalsOK([req[r] EXCEPT !.pc = "createRole", !.group = g])
    BY <1>2, <1>3, CustomKnown DEF Request, LocalsOK, PostPcs
  <1>6. req' \in [Requests -> Request] /\ \A s \in Requests : LocalsOK(req[s])'
    BY <1>1, <1>4, <1>5, ReqUpdate DEF TypeOK
  <1> QED BY <1>1, <1>6, SpendOK DEF TypeOK, GetRole, objects

LEMMA TypeCreateRole ==
  ASSUME TypeOK, NEW r \in Requests, CreateRole(r)
  PROVE  TypeOK'
  <1> DEFINE g == req[r].group
  <1>1. PICK outcome \in {"reply", "error", "lost"} :
          LET applied == Creates(outcome, roles[g])
          IN /\ Spend(outcome)
             /\ roles' = IF applied THEN [roles EXCEPT ![g] = "managed"] ELSE roles
             /\ IF applied /\ outcome = "reply"
                THEN req' = [req EXCEPT ![r] = RoleLoop(req[r], req[r].todo \ {g})]
                ELSE Respond(r)
    BY DEF CreateRole
  <1>2. req[r] \in Request /\ LocalsOK(req[r]) /\ req[r].pc = "createRole"
    BY DEF CreateRole, TypeOK
  <1>3. req[r].sa \in SaNames /\ g \in CustomGroups /\ req[r].todo \subseteq CustomGroups
    BY <1>2 DEF LocalsOK
  <1>4. /\ RoleLoop(req[r], req[r].todo \ {g}) \in Request
        /\ LocalsOK(RoleLoop(req[r], req[r].todo \ {g}))
    BY <1>2, <1>3, RoleLoopOK DEF LocalsOK
  <1>5. req' \in [Requests -> Request] /\ \A s \in Requests : LocalsOK(req[s])'
    BY <1>1, <1>4, ReqUpdate, RespondOK DEF TypeOK
  <1>6. roles' \in [CustomGroups -> ObjectState]
    BY <1>1, <1>3 DEF TypeOK, ObjectState
  <1> QED BY <1>1, <1>5, <1>6, SpendOK DEF TypeOK, CreateRole

LEMMA TypeGetBinding ==
  ASSUME TypeOK, NEW r \in Requests, GetBinding(r)
  PROVE  TypeOK'
  <1>1. PICK g \in req[r].todo, outcome \in {"reply", "error"} :
          /\ Spend(outcome)
          /\ req' = [req EXCEPT ![r] =
               IF outcome = "reply" /\ BindingChecked(<<req[r].sa, RoleOf(g)>>)
               THEN BindingLoop(req[r], req[r].todo \ {g})
               ELSE [req[r] EXCEPT !.pc = "getOwner", !.group = g]]
    BY DEF GetBinding
  <1>2. req[r] \in Request /\ LocalsOK(req[r]) /\ req[r].pc = "getBinding"
    BY DEF GetBinding, TypeOK
  <1>3. req[r].sa \in SaNames /\ req[r].todo \subseteq req[r].asked
    BY <1>2 DEF LocalsOK
  <1>4. /\ BindingLoop(req[r], req[r].todo \ {g}) \in Request
        /\ LocalsOK(BindingLoop(req[r], req[r].todo \ {g}))
    BY <1>2, <1>3, BindingLoopOK
  <1>5. /\ [req[r] EXCEPT !.pc = "getOwner", !.group = g] \in Request
        /\ LocalsOK([req[r] EXCEPT !.pc = "getOwner", !.group = g])
    BY <1>2, <1>3 DEF Request, LocalsOK, PostPcs
  <1>6. req' \in [Requests -> Request] /\ \A s \in Requests : LocalsOK(req[s])'
    BY <1>1, <1>4, <1>5, ReqUpdate DEF TypeOK
  <1> QED BY <1>1, <1>6, SpendOK DEF TypeOK, GetBinding, objects

LEMMA TypeGetOwner ==
  ASSUME TypeOK, NEW r \in Requests, GetOwner(r)
  PROVE  TypeOK'
  <1> DEFINE q == [req[r] EXCEPT !.pc = "createBinding", !.owner = sas[req[r].sa].uid]
  <1>1. PICK outcome \in {"reply", "error"} :
          /\ Spend(outcome)
          /\ req' = [req EXCEPT ![r] = q] \/ Respond(r)
    BY DEF GetOwner, TypeOK, Request
  <1>2. req[r] \in Request /\ LocalsOK(req[r]) /\ req[r].pc = "getOwner"
    BY DEF GetOwner, TypeOK
  <1>3. req[r].sa \in SaNames
    BY <1>2 DEF LocalsOK
  <1>4. sas[req[r].sa].uid \in Nat
    BY <1>3 DEF TypeOK, SaStates
  <1>5. q \in Request /\ LocalsOK(q)
    BY <1>2, <1>3, <1>4 DEF Request, LocalsOK, PostPcs
  <1> HIDE DEF q
  <1>6. req' \in [Requests -> Request] /\ \A s \in Requests : LocalsOK(req[s])'
    BY <1>1, <1>5, ReqUpdate, RespondOK DEF TypeOK
  <1> QED BY <1>1, <1>6, SpendOK DEF TypeOK, GetOwner, objects

LEMMA TypeCreateBinding ==
  ASSUME TypeOK, NEW r \in Requests, CreateBinding(r)
  PROVE  TypeOK'
  <1> DEFINE b == BindingOf(req[r])
  <1>1. PICK outcome \in {"reply", "error", "lost"} :
          LET applied == Creates(outcome, bindings[b].state)
          IN /\ Spend(outcome)
             /\ bindings' = IF applied
                            THEN [bindings EXCEPT ![b] = BoundBy(req[r].owner)]
                            ELSE bindings
             /\ IF applied /\ outcome = "reply"
                THEN req' = [req EXCEPT ![r] =
                               BindingLoop(req[r], req[r].todo \ {req[r].group})]
                ELSE Respond(r)
    BY DEF CreateBinding
  <1>2. req[r] \in Request /\ LocalsOK(req[r]) /\ req[r].pc = "createBinding"
    BY DEF CreateBinding, TypeOK
  <1>3. req[r].sa \in SaNames /\ req[r].todo \subseteq req[r].asked
    BY <1>2 DEF LocalsOK
  <1>4. /\ BindingLoop(req[r], req[r].todo \ {req[r].group}) \in Request
        /\ LocalsOK(BindingLoop(req[r], req[r].todo \ {req[r].group}))
    BY <1>2, <1>3, BindingLoopOK
  <1>5. req' \in [Requests -> Request] /\ \A s \in Requests : LocalsOK(req[s])'
    BY <1>1, <1>4, ReqUpdate, RespondOK DEF TypeOK
  <1>6. BoundBy(req[r].owner) \in SaStates
    BY <1>2 DEF BoundBy, SaStates, ObjectState, Request
  <1>7. bindings' \in [BindingNames -> SaStates]
    BY <1>1, <1>6 DEF TypeOK
  <1> QED BY <1>1, <1>5, <1>7, SpendOK DEF TypeOK, CreateBinding

LEMMA TypeDelete ==
  ASSUME TypeOK, NEW r \in Requests, NEW n \in SaNames, Delete(r, n)
  PROVE  TypeOK'
  <1> DEFINE q == [Idle EXCEPT !.pc = "checkSA", !.sa = n]
  <1>1. q \in Request /\ LocalsOK(q)
    BY DEF Idle, Request, LocalsOK, DeletePcs, NoUid
  <1>2. req' = [req EXCEPT ![r] = q]
    BY DEF Delete
  <1> HIDE DEF q
  <1>3. req' \in [Requests -> Request] /\ \A s \in Requests : LocalsOK(req[s])'
    BY <1>1, <1>2, ReqUpdate DEF TypeOK
  <1> QED BY <1>3, DisturbOK DEF TypeOK, Delete, objects

LEMMA TypeCheckSA ==
  ASSUME TypeOK, NEW r \in Requests, CheckSA(r)
  PROVE  TypeOK'
  <1> DEFINE q == [req[r] EXCEPT !.pc = "deleteSA"]
  <1>1. PICK outcome \in {"reply", "error"} :
          /\ Spend(outcome)
          /\ req' = [req EXCEPT ![r] = q] \/ Respond(r)
    BY DEF CheckSA
  <1>2. req[r] \in Request /\ LocalsOK(req[r]) /\ req[r].pc = "checkSA"
    BY DEF CheckSA, TypeOK
  <1>3. q \in Request /\ LocalsOK(q)
    BY <1>2 DEF Request, LocalsOK, DeletePcs
  <1> HIDE DEF q
  <1>4. req' \in [Requests -> Request] /\ \A s \in Requests : LocalsOK(req[s])'
    BY <1>1, <1>3, ReqUpdate, RespondOK DEF TypeOK
  <1> QED BY <1>1, <1>4, SpendOK DEF TypeOK, CheckSA, objects

LEMMA TypeDeleteSA ==
  ASSUME TypeOK, NEW r \in Requests, DeleteSA(r)
  PROVE  TypeOK'
  <1>1. req' \in [Requests -> Request] /\ \A s \in Requests : LocalsOK(req[s])'
    BY RespondOK DEF DeleteSA
  <1>2. left' \in Nat
    BY SpendOK DEF DeleteSA, TypeOK
  <1>3. sas' = sas \/ sas' = [sas EXCEPT ![req[r].sa] = Absent]
    BY DEF DeleteSA
  <1>4. sas' \in [SaNames -> SaStates]
    BY <1>3 DEF TypeOK, SaStates, ObjectState, Absent, NoUid
  <1> DEFINE kept == UNION {AskedRoles(req[q]) : q \in {p \in Requests : req[p].pc # "idle" /\ req[p].sa = req[r].sa}}
  <1>5. kept \subseteq Roles
    <2>1. \A q \in Requests : AskedRoles(req[q]) \subseteq Roles
      BY DEF TypeOK, Request, AskedRoles, Roles
    <2> QED BY <2>1
  <1>6. mandate' = mandate \/ mandate' = [mandate EXCEPT ![req[r].sa] = kept]
    BY DEF DeleteSA
  <1> HIDE DEF kept
  <1>7. mandate' \in [SaNames -> SUBSET Roles]
    BY <1>5, <1>6 DEF TypeOK
  <1> QED BY <1>1, <1>2, <1>4, <1>7 DEF TypeOK, DeleteSA

\* Every step keeps the types.
LEMMA TypeNext ==
  ASSUME TypeOK, [Next]_vars
  PROVE  TypeOK'
  <1>1. ASSUME NEW r \in Requests, Call(r) PROVE TypeOK'
    <2>1. CASE RespondCreated(r)
      BY <2>1, RespondOK DEF RespondCreated, TypeOK, objects
    <2> QED BY <1>1, <2>1, TypeGetSA, TypeCreateSA, TypeGetRole, TypeCreateRole,
               TypeGetBinding, TypeGetOwner, TypeCreateBinding, TypeCheckSA,
               TypeDeleteSA DEF Call
  <1>2. ASSUME NEW r \in Requests, Client(r) PROVE TypeOK'
    BY <1>2, TypePost, TypeDelete DEF Client
  <1>3. ASSUME NEW n \in AdminNames, AdminCreatesSA(n) PROVE TypeOK'
    BY <1>3, AdminAssumption, DisturbOK
    DEF AdminCreatesSA, TypeOK, SaStates, ObjectState, NoUid
  <1>4. ASSUME NEW n \in AdminNames, AdminDeletesSA(n) PROVE TypeOK'
    BY <1>4, AdminAssumption, DisturbOK
    DEF AdminDeletesSA, TypeOK, SaStates, ObjectState, Absent, NoUid
  <1>5. ASSUME NEW b \in BindingNames, Collect(b) PROVE TypeOK'
    BY <1>5 DEF Collect, TypeOK, SaStates, ObjectState, Absent, NoUid
  <1>6. CASE Crash
    BY <1>6, IdleOK, DisturbOK DEF Crash, TypeOK, objects
  <1>7. CASE UNCHANGED vars
    BY <1>7 DEF vars, TypeOK
  <1> QED BY <1>1, <1>2, <1>3, <1>4, <1>5, <1>6, <1>7 DEF Next, Environment

\* Objects and local variables keep their shapes in every behaviour.
THEOREM TypeCorrect == Spec => []TypeOK
  BY TypeInit, TypeNext, PTL DEF Spec
-----------------------------------------------------------------------------
(* What is bound was asked for.                                             *)

\* p is q further on, with no new UID in hand, or q answered.
Follows(p, q) ==
  \/ p = Idle
  \/ p.sa = q.sa /\ p.asked = q.asked /\ p.owner \in {NoUid, q.owner}

LEMMA LoopsFollow ==
  ASSUME NEW q \in Request, NEW todo
  PROVE  Follows(RoleLoop(q, todo), q) /\ Follows(BindingLoop(q, todo), q)
  BY DEF Follows, RoleLoop, BindingLoop, Request

\* The part of the invariant about requests.
RequestUids == \A r \in Requests : req[r].owner < nextUid

LEMMA FollowKeeps ==
  ASSUME GrantInv, NEW r \in Requests, NEW q, Follows(q, req[r]), req[r].pc # "idle",
         req' = [req EXCEPT ![r] = q], UNCHANGED <<sas, nextUid, mandate>>
  PROVE  RequestUids' /\ RequestsMandated'
  <1>1. \A s \in Requests : req'[s] = IF s = r THEN q ELSE req[s]
    BY DEF GrantInv, TypeOK
  <1>2. nextUid \in Nat \ {0} /\ \A s \in Requests : req[s].owner < nextUid
    BY DEF GrantInv, TypeOK, UidsUsed, NoUid
  <1>3. \A s \in Requests : req[s].pc # "idle" =>
          /\ AskedRoles(req[s]) \subseteq mandate[req[s].sa]
          /\ req[s].owner # NoUid /\ req[s].owner = sas[req[s].sa].uid
               => sas[req[s].sa].state = "managed"
    BY DEF GrantInv, RequestsMandated
  <1>4. CASE q = Idle
    <2>1. q.pc = "idle" /\ q.owner = 0
      BY <1>4 DEF Idle, NoUid
    <2>2. RequestUids'
      BY <1>1, <1>2, <2>1 DEF RequestUids
    <2>3. RequestsMandated'
      BY <1>1, <1>3, <2>1 DEF RequestsMandated, AskedRoles
    <2> QED BY <2>2, <2>3
  <1>5. CASE q # Idle
    <2>1. q.sa = req[r].sa /\ q.asked = req[r].asked /\ q.owner \in {NoUid, req[r].owner}
      BY <1>5 DEF Follows
    <2>2. RequestUids'
      BY <1>1, <1>2, <2>1 DEF RequestUids, NoUid
    <2>3. RequestsMandated'
      BY <1>1, <1>3, <2>1 DEF RequestsMandated, AskedRoles
    <2> QED BY <2>2, <2>3
  <1> QED BY <1>4, <1>5

\* A step of one request that changes neither accounts nor bindings.
LEMMA FollowInv ==
  ASSUME GrantInv, TypeOK', NEW r \in Requests, NEW q, Follows(q, req[r]),
         req[r].pc # "idle", req' = [req EXCEPT ![r] = q],
         UNCHANGED <<sas, bindings, nextUid, mandate>>
  PROVE  GrantInv'
  <1>1. RequestUids' /\ RequestsMandated'
    BY FollowKeeps
  <1>2. UidsUsed'
    BY <1>1 DEF GrantInv, UidsUsed, RequestUids
  <1>3. GrantsMandated' /\ OwnersManaged'
    BY DEF GrantInv, GrantsMandated, OwnersManaged, Live
  <1> QED BY <1>1, <1>2, <1>3 DEF GrantInv

LEMMA RequestTyped ==
  ASSUME TypeOK, NEW r \in Requests
  PROVE  req[r] \in Request /\ LocalsOK(req[r])
  BY DEF TypeOK

LEMMA GrantInit == Init => GrantInv
  <1> SUFFICES ASSUME Init PROVE GrantInv
    OBVIOUS
  <1>1. TypeOK
    BY TypeInit
  <1>2. UidsUsed
    <2>1. \A b \in BindingNames : bindings[b].uid = 0
      <3> SUFFICES ASSUME NEW b \in BindingNames PROVE bindings[b].uid = 0
        OBVIOUS
      <3>1. bindings[b] \in {Absent, [state |-> "foreign", uid |-> NoUid]}
        BY DEF Init
      <3> QED BY <3>1 DEF Absent, NoUid
    <2>2. \A n \in SaNames : sas[n].uid = 0
      BY DEF Init, Absent, NoUid
    <2>3. \A r \in Requests : req[r].owner = 0
      BY DEF Init, Idle, NoUid
    <2>4. nextUid = 1
      BY DEF Init
    <2> QED BY <2>1, <2>2, <2>3, <2>4 DEF UidsUsed
  <1>3. RequestsMandated
    BY DEF Init, RequestsMandated, Idle
  <1>4. \A b \in BindingNames : ~Live(b)
    BY DEF Init, Live, Absent
  <1> QED BY <1>1, <1>2, <1>3, <1>4 DEF GrantInv, GrantsMandated, OwnersManaged

LEMMA GrantPost ==
  ASSUME GrantInv, TypeOK', NEW r \in Requests, NEW n \in SaNames,
         NEW gs \in SUBSET Groups, Post(r, n, gs)
  PROVE  GrantInv'
  <1> DEFINE asked == gs \cap KnownGroups
             q == [Idle EXCEPT !.pc = "getSA", !.sa = n, !.asked = asked]
  <1>1. q.sa = n /\ q.asked = asked /\ q.owner = NoUid
    BY DEF Idle
  <1>2. /\ req' = [req EXCEPT ![r] = q]
        /\ mandate' = [mandate EXCEPT ![n] = @ \cup {RoleOf(g) : g \in asked}]
        /\ UNCHANGED objects
    BY DEF Post
  <1> HIDE DEF q
  <1>3. UidsUsed'
    BY <1>1, <1>2 DEF GrantInv, TypeOK, UidsUsed, objects, NoUid
  <1>4. \A m \in SaNames : mandate[m] \subseteq mandate'[m]
    BY <1>2 DEF GrantInv, TypeOK
  <1>5. AskedRoles(q) \subseteq mandate'[n]
    BY <1>1, <1>2 DEF GrantInv, TypeOK, AskedRoles
  <1>6. RequestsMandated'
    <2> SUFFICES ASSUME NEW s \in Requests, req'[s].pc # "idle"
                 PROVE  /\ AskedRoles(req'[s]) \subseteq mandate'[req'[s].sa]
                        /\ req'[s].owner # NoUid /\ req'[s].owner = sas'[req'[s].sa].uid
                             => sas'[req'[s].sa].state = "managed"
      BY DEF RequestsMandated, AskedRoles
    <2>1. CASE s = r
      BY <2>1, <1>1, <1>2, <1>5 DEF GrantInv, TypeOK
    <2>2. CASE s # r
      <3>1. req'[s] = req[s]
        BY <1>2, <2>2 DEF GrantInv, TypeOK
      <3>2. req[s].sa \in SaNames
        BY <3>1 DEF GrantInv, TypeOK, LocalsOK
      <3> QED BY <1>2, <1>4, <3>1, <3>2 DEF GrantInv, RequestsMandated, objects
    <2> QED BY <2>1, <2>2
  <1>7. GrantsMandated' /\ OwnersManaged'
    BY <1>2, <1>4 DEF GrantInv, GrantsMandated, OwnersManaged, Live, objects, BindingNames
  <1> QED BY <1>3, <1>6, <1>7 DEF GrantInv

LEMMA GrantGetSA ==
  ASSUME GrantInv, TypeOK', NEW r \in Requests, GetSA(r)
  PROVE  GrantInv'
  <1>1. PICK outcome \in {"reply", "error"} :
          req' = [req EXCEPT ![r] =
             IF outcome = "reply" /\ SAChecked(req[r].sa)
             THEN RoleLoop(req[r], AskedCustom(req[r]))
             ELSE [req[r] EXCEPT !.pc = "createSA"]]
    BY DEF GetSA
  <1>2. Follows([req[r] EXCEPT !.pc = "createSA"], req[r])
    BY RequestTyped DEF GrantInv, Follows, Request
  <1>3. Follows(RoleLoop(req[r], AskedCustom(req[r])), req[r])
    BY RequestTyped, LoopsFollow DEF GrantInv
  <1> QED BY <1>1, <1>2, <1>3, FollowInv DEF GetSA, objects

LEMMA GrantGetRole ==
  ASSUME GrantInv, TypeOK', NEW r \in Requests, GetRole(r)
  PROVE  GrantInv'
  <1>1. PICK g \in req[r].todo, outcome \in {"reply", "error"} :
          req' = [req EXCEPT ![r] =
             IF outcome = "reply" /\ RoleChecked(g)
             THEN RoleLoop(req[r], req[r].todo \ {g})
             ELSE [req[r] EXCEPT !.pc = "createRole", !.group = g]]
    BY DEF GetRole
  <1>2. Follows([req[r] EXCEPT !.pc = "createRole", !.group = g], req[r])
    BY RequestTyped DEF GrantInv, Follows, Request
  <1>3. Follows(RoleLoop(req[r], req[r].todo \ {g}), req[r])
    BY RequestTyped, LoopsFollow DEF GrantInv
  <1> QED BY <1>1, <1>2, <1>3, FollowInv DEF GetRole, objects

LEMMA GrantCreateRole ==
  ASSUME GrantInv, TypeOK', NEW r \in Requests, CreateRole(r)
  PROVE  GrantInv'
  <1>1. \/ Respond(r)
        \/ req' = [req EXCEPT ![r] = RoleLoop(req[r], req[r].todo \ {req[r].group})]
    BY DEF CreateRole
  <1>2. Follows(RoleLoop(req[r], req[r].todo \ {req[r].group}), req[r])
    BY RequestTyped, LoopsFollow DEF GrantInv
  <1>3. Follows(Idle, req[r])
    BY DEF Follows
  <1> QED BY <1>1, <1>2, <1>3, FollowInv DEF CreateRole, Respond

LEMMA GrantGetBinding ==
  ASSUME GrantInv, TypeOK', NEW r \in Requests, GetBinding(r)
  PROVE  GrantInv'
  <1>1. PICK g \in req[r].todo, outcome \in {"reply", "error"} :
          req' = [req EXCEPT ![r] =
             IF outcome = "reply" /\ BindingChecked(<<req[r].sa, RoleOf(g)>>)
             THEN BindingLoop(req[r], req[r].todo \ {g})
             ELSE [req[r] EXCEPT !.pc = "getOwner", !.group = g]]
    BY DEF GetBinding
  <1>2. Follows([req[r] EXCEPT !.pc = "getOwner", !.group = g], req[r])
    BY RequestTyped DEF GrantInv, Follows, Request
  <1>3. Follows(BindingLoop(req[r], req[r].todo \ {g}), req[r])
    BY RequestTyped, LoopsFollow DEF GrantInv
  <1> QED BY <1>1, <1>2, <1>3, FollowInv DEF GetBinding, objects

LEMMA GrantRespond ==
  ASSUME GrantInv, TypeOK', NEW r \in Requests, req[r].pc # "idle", Respond(r),
         UNCHANGED <<sas, bindings, nextUid, mandate>>
  PROVE  GrantInv'
  <1>1. Follows(Idle, req[r])
    BY DEF Follows
  <1> QED BY <1>1, FollowInv DEF Respond

LEMMA GrantCheckSA ==
  ASSUME GrantInv, TypeOK', NEW r \in Requests, CheckSA(r)
  PROVE  GrantInv'
  <1>1. Respond(r) \/ req' = [req EXCEPT ![r].pc = "deleteSA"]
    BY DEF CheckSA
  <1>2. CASE Respond(r)
    BY <1>2, GrantRespond DEF CheckSA, objects
  <1>3. CASE req' = [req EXCEPT ![r] = [req[r] EXCEPT !.pc = "deleteSA"]]
    <2>1. Follows([req[r] EXCEPT !.pc = "deleteSA"], req[r])
      BY RequestTyped DEF GrantInv, Follows, Request
    <2> QED BY <1>3, <2>1, FollowInv DEF CheckSA, objects
  <1> QED BY <1>1, <1>2, <1>3

\* The UID that the request gets in hand is that of a generated account.
LEMMA GrantGetOwner ==
  ASSUME GrantInv, TypeOK', NEW r \in Requests, GetOwner(r)
  PROVE  GrantInv'
  <1> DEFINE n == req[r].sa
             q == [req[r] EXCEPT !.pc = "createBinding", !.owner = sas[n].uid]
  <1>1. CASE Respond(r)
    BY <1>1, GrantRespond DEF GetOwner, objects
  <1>2. CASE ~Respond(r)
    <2>1. sas[n].state = "managed" /\ req' = [req EXCEPT ![r] = q]
      BY <1>2 DEF GetOwner, SAChecked
    <2>2. /\ q.sa = n /\ q.asked = req[r].asked /\ q.owner = sas[n].uid
          /\ n \in SaNames /\ req[r].pc = "getOwner"
      BY RequestTyped DEF GrantInv, Request, LocalsOK, GetOwner
    <2> HIDE DEF q
    <2>3. \A s \in Requests : req'[s] = IF s = r THEN q ELSE req[s]
      BY <2>1 DEF GrantInv, TypeOK
    <2>4. UNCHANGED <<sas, bindings, nextUid, mandate>>
      BY DEF GetOwner, objects
    <2>5. UidsUsed'
      BY <2>2, <2>3, <2>4 DEF GrantInv, UidsUsed
    <2>6. RequestsMandated'
      BY <2>1, <2>2, <2>3, <2>4 DEF GrantInv, RequestsMandated, AskedRoles
    <2>7. GrantsMandated' /\ OwnersManaged'
      BY <2>4 DEF GrantInv, GrantsMandated, OwnersManaged, Live
    <2> QED BY <2>5, <2>6, <2>7 DEF GrantInv
  <1> QED BY <1>1, <1>2

\* Every request goes on as before, or a step further with no new UID.
RequestsFollow ==
  \A s \in Requests :
    req'[s] = req[s] \/ (req[s].pc # "idle" /\ Follows(req'[s], req[s]))

LEMMA OneFollows ==
  ASSUME TypeOK, NEW r \in Requests, NEW q, Follows(q, req[r]), req[r].pc # "idle",
         req' = [req EXCEPT ![r] = q]
  PROVE  RequestsFollow
  BY DEF RequestsFollow, TypeOK

LEMMA FollowDetails ==
  ASSUME GrantInv, RequestsFollow, NEW s \in Requests
  PROVE  /\ req'[s].owner < nextUid
         /\ req'[s].pc # "idle" =>
              /\ req[s].pc # "idle"
              /\ req'[s].sa = req[s].sa /\ req[s].sa \in SaNames
              /\ AskedRoles(req'[s]) = AskedRoles(req[s])
              /\ req'[s].owner \in {NoUid, req[s].owner}
  <1>1. req[s] \in Request /\ LocalsOK(req[s]) /\ req[s].owner < nextUid
    BY RequestTyped DEF GrantInv, UidsUsed
  <1>2. nextUid \in Nat \ {0}
    BY DEF GrantInv, TypeOK, NoUid
  <1>3. CASE req'[s] = req[s]
    BY <1>1, <1>3 DEF LocalsOK, NoUid
  <1>4. CASE req'[s] = Idle
    <2>1. Idle.owner = 0 /\ Idle.pc = "idle"
      BY DEF Idle, NoUid
    <2> QED BY <1>2, <1>4, <2>1
  <1>5. CASE /\ req[s].pc # "idle" /\ req'[s].sa = req[s].sa
             /\ req'[s].asked = req[s].asked
             /\ req'[s].owner \in {NoUid, req[s].owner}
    <2>1. AskedRoles(req'[s]) = AskedRoles(req[s])
      BY <1>5 DEF AskedRoles
    <2>2. req'[s].owner < nextUid
      BY <1>1, <1>2, <1>5 DEF NoUid
    <2> QED BY <1>1, <1>5, <2>1, <2>2 DEF LocalsOK
  <1> QED BY <1>3, <1>4, <1>5 DEF RequestsFollow, Follows

\* A new account: its UID is in no binding and in no request's hands.
LEMMA NewAccount ==
  ASSUME GrantInv, TypeOK', RequestsFollow, NEW n \in SaNames, NEW state,
         sas' = [sas EXCEPT ![n] = [state |-> state, uid |-> nextUid]],
         nextUid' = nextUid + 1, UNCHANGED <<bindings, mandate>>
  PROVE  GrantInv'
  <1>1. nextUid \in Nat \ {0} /\ UidsUsed
    BY DEF GrantInv, TypeOK, NoUid
  <1>2. \A m \in SaNames : sas'[m] = IF m = n THEN [state |-> state, uid |-> nextUid]
                                           ELSE sas[m]
    BY DEF GrantInv, TypeOK
  <1>3. \A m \in SaNames : sas[m].uid \in Nat
    BY DEF GrantInv, TypeOK, SaStates
  <1>4. \A b \in BindingNames : bindings[b].uid \in Nat
    BY DEF GrantInv, TypeOK, SaStates
  <1>5. UidsUsed'
    <2>1. \A s \in Requests : req'[s].owner < nextUid /\ req'[s].owner \in Nat
      BY FollowDetails DEF TypeOK, Request
    <2>2. \A s \in Requests : req'[s].owner < nextUid'
      BY <1>1, <2>1
    <2>3. \A m \in SaNames : sas'[m].uid < nextUid'
      BY <1>1, <1>2, <1>3 DEF UidsUsed
    <2>4. \A b \in BindingNames : bindings'[b].uid < nextUid'
      BY <1>1, <1>4 DEF UidsUsed
    <2> QED BY <2>2, <2>3, <2>4 DEF UidsUsed
  <1>6. RequestsMandated'
    <2> SUFFICES ASSUME NEW s \in Requests, req'[s].pc # "idle"
                 PROVE  /\ AskedRoles(req'[s]) \subseteq mandate'[req'[s].sa]
                        /\ req'[s].owner # NoUid /\ req'[s].owner = sas'[req'[s].sa].uid
                             => sas'[req'[s].sa].state = "managed"
      BY DEF RequestsMandated, AskedRoles
    <2>1. /\ AskedRoles(req[s]) \subseteq mandate[req[s].sa]
          /\ req[s].owner # NoUid /\ req[s].owner = sas[req[s].sa].uid
               => sas[req[s].sa].state = "managed"
      BY FollowDetails DEF GrantInv, RequestsMandated
    <2>2. req'[s].owner < nextUid /\ req'[s].owner \in Nat
      BY FollowDetails DEF TypeOK, Request
    <2> QED BY <1>1, <1>2, <2>1, <2>2, FollowDetails
  <1>7. \A b \in BindingNames : Live(b)' => b[1] # n /\ Live(b)
    BY <1>1, <1>2 DEF Live, UidsUsed, BindingNames
  <1>8. GrantsMandated' /\ OwnersManaged'
    BY <1>2, <1>7 DEF GrantInv, GrantsMandated, OwnersManaged, BindingNames
  <1> QED BY <1>5, <1>6, <1>8 DEF GrantInv

\* An account that goes takes its grants with it.
LEMMA GoneAccount ==
  ASSUME GrantInv, TypeOK', RequestsFollow, NEW n \in SaNames,
         sas' = [sas EXCEPT ![n] = Absent], UNCHANGED <<nextUid, bindings>>,
         \A m \in SaNames \ {n} : mandate'[m] = mandate[m],
         \A s \in Requests : req'[s].pc # "idle" /\ req'[s].sa = n =>
                               AskedRoles(req'[s]) \subseteq mandate'[n]
  PROVE  GrantInv'
  <1>1. \A m \in SaNames : sas'[m] = IF m = n THEN Absent ELSE sas[m]
    BY DEF GrantInv, TypeOK
  <1>2. UidsUsed'
    BY <1>1, FollowDetails DEF GrantInv, UidsUsed, TypeOK, Absent, NoUid
  <1>3. RequestsMandated'
    <2> SUFFICES ASSUME NEW s \in Requests, req'[s].pc # "idle"
                 PROVE  /\ AskedRoles(req'[s]) \subseteq mandate'[req'[s].sa]
                        /\ req'[s].owner # NoUid /\ req'[s].owner = sas'[req'[s].sa].uid
                             => sas'[req'[s].sa].state = "managed"
      BY DEF RequestsMandated, AskedRoles
    <2>1. /\ AskedRoles(req[s]) \subseteq mandate[req[s].sa]
          /\ req[s].owner # NoUid /\ req[s].owner = sas[req[s].sa].uid
               => sas[req[s].sa].state = "managed"
      BY FollowDetails DEF GrantInv, RequestsMandated
    <2>2. CASE req[s].sa = n
      BY <1>1, <2>2, FollowDetails DEF Absent
    <2>3. CASE req[s].sa # n
      BY <1>1, <2>1, <2>3, FollowDetails
    <2> QED BY <2>2, <2>3
  <1>4. \A b \in BindingNames : Live(b)' => b[1] # n /\ Live(b)
    BY <1>1 DEF Live, BindingNames, Absent
  <1>5. GrantsMandated' /\ OwnersManaged'
    BY <1>1, <1>4 DEF GrantInv, GrantsMandated, OwnersManaged, BindingNames
  <1> QED BY <1>2, <1>3, <1>5 DEF GrantInv

LEMMA GrantCreateSA ==
  ASSUME GrantInv, TypeOK', NEW r \in Requests, CreateSA(r)
  PROVE  GrantInv'
  <1> DEFINE n == req[r].sa
  <1>1. \/ Respond(r)
        \/ req' = [req EXCEPT ![r] = RoleLoop(req[r], AskedCustom(req[r]))]
    BY DEF CreateSA
  <1>2. Follows(Idle, req[r]) /\ Follows(RoleLoop(req[r], AskedCustom(req[r])), req[r])
    BY RequestTyped, LoopsFollow DEF GrantInv, Follows
  <1>3. n \in SaNames /\ req[r].pc # "idle"
    BY RequestTyped DEF GrantInv, CreateSA, LocalsOK
  <1>4. CASE /\ sas' = [sas EXCEPT ![n] = [state |-> "managed", uid |-> nextUid]]
             /\ nextUid' = nextUid + 1
    <2>1. RequestsFollow
      BY <1>1, <1>2, <1>3, OneFollows DEF GrantInv, Respond
    <2> QED BY <1>3, <1>4, <2>1, NewAccount DEF CreateSA
  <1>5. CASE UNCHANGED <<sas, nextUid>>
    BY <1>1, <1>2, <1>3, <1>5, FollowInv DEF Respond, CreateSA
  <1> QED BY <1>4, <1>5 DEF CreateSA

\* The heart of it: the role was asked for, and a UID that is still the
\* account's is a generated account's.
LEMMA GrantCreateBinding ==
  ASSUME GrantInv, TypeOK', NEW r \in Requests, CreateBinding(r)
  PROVE  GrantInv'
  <1> DEFINE b == BindingOf(req[r])
  <1>1. \/ Respond(r)
        \/ req' = [req EXCEPT ![r] =
                     BindingLoop(req[r], req[r].todo \ {req[r].group})]
    BY DEF CreateBinding
  <1>2. /\ Follows(Idle, req[r])
        /\ Follows(BindingLoop(req[r], req[r].todo \ {req[r].group}), req[r])
    BY RequestTyped, LoopsFollow DEF GrantInv, Follows
  <1>3. /\ req[r].sa \in SaNames /\ req[r].group \in req[r].asked
        /\ req[r].asked \subseteq KnownGroups /\ req[r].pc # "idle"
    BY RequestTyped DEF GrantInv, CreateBinding, LocalsOK, Request
  <1>4. CASE bindings' = bindings
    BY <1>1, <1>2, <1>3, <1>4, FollowInv DEF Respond, CreateBinding
  <1>5. CASE bindings' = [bindings EXCEPT ![b] = BoundBy(req[r].owner)]
    <2>1. RequestUids' /\ RequestsMandated'
      BY <1>1, <1>2, <1>3, FollowKeeps DEF Respond, CreateBinding
    <2>2. b \in BindingNames /\ b[1] = req[r].sa /\ b[2] = RoleOf(req[r].group)
      BY <1>3 DEF BindingOf, BindingNames, Roles
    <2>3. /\ \A c \in BindingNames :
               bindings'[c] = IF c = b THEN BoundBy(req[r].owner) ELSE bindings[c]
          /\ UNCHANGED <<sas, nextUid, mandate>>
      BY <1>5 DEF GrantInv, TypeOK, CreateBinding
    <2>4. /\ req[r].owner < nextUid
          /\ b[2] \in mandate[req[r].sa]
          /\ req[r].owner # NoUid /\ req[r].owner = sas[req[r].sa].uid
                 => sas[req[r].sa].state = "managed"
      BY <1>3, <2>2 DEF GrantInv, UidsUsed, RequestsMandated, AskedRoles
    <2> HIDE DEF b
    <2>5. UidsUsed'
      BY <2>1, <2>2, <2>3, <2>4 DEF GrantInv, UidsUsed, RequestUids, BoundBy
    <2>6. GrantsMandated' /\ OwnersManaged'
      BY <2>2, <2>3, <2>4 DEF GrantInv, GrantsMandated, OwnersManaged, Live, BoundBy
    <2> QED BY <2>1, <2>5, <2>6 DEF GrantInv
  <1> QED BY <1>4, <1>5 DEF CreateBinding

LEMMA GrantDeleteSA ==
  ASSUME GrantInv, TypeOK', NEW r \in Requests, DeleteSA(r)
  PROVE  GrantInv'
  <1> DEFINE n == req[r].sa
             kept == UNION {AskedRoles(req[q]) :
                              q \in {p \in Requests : req[p].pc # "idle" /\ req[p].sa = n}}
  <1>1. n \in SaNames /\ req[r].pc # "idle" /\ Respond(r)
    BY RequestTyped DEF GrantInv, DeleteSA, LocalsOK
  <1>2. RequestsFollow
    BY <1>1, OneFollows DEF GrantInv, Respond, Follows
  <1>3. \/ sas' = sas /\ mandate' = mandate
        \/ sas' = [sas EXCEPT ![n] = Absent] /\ mandate' = mandate
        \/ sas' = [sas EXCEPT ![n] = Absent] /\ mandate' = [mandate EXCEPT ![n] = kept]
    BY DEF DeleteSA, DeleteAccepted
  <1>4. CASE sas' = sas /\ mandate' = mandate
    BY <1>1, <1>4, GrantRespond DEF DeleteSA
  <1>5. CASE sas' = [sas EXCEPT ![n] = Absent] /\ mandate' = mandate
    <2>1. \A s \in Requests : req'[s].pc # "idle" /\ req'[s].sa = n =>
                               AskedRoles(req'[s]) \subseteq mandate'[n]
      BY <1>2, <1>5, FollowDetails DEF GrantInv, RequestsMandated
    <2> QED BY <1>1, <1>2, <1>5, <2>1, GoneAccount DEF DeleteSA
  <1>6. CASE sas' = [sas EXCEPT ![n] = Absent] /\ mandate' = [mandate EXCEPT ![n] = kept]
    <2>1. mandate'[n] = kept /\ \A m \in SaNames \ {n} : mandate'[m] = mandate[m]
      BY <1>1, <1>6 DEF GrantInv, TypeOK
    <2>2. \A s \in Requests : req[s].pc # "idle" /\ req[s].sa = n =>
                              AskedRoles(req[s]) \subseteq kept
      OBVIOUS
    <2> HIDE DEF kept
    <2>3. \A s \in Requests : req'[s].pc # "idle" /\ req'[s].sa = n =>
                               AskedRoles(req'[s]) \subseteq mandate'[n]
      BY <1>2, <2>1, <2>2, FollowDetails
    <2> QED BY <1>1, <1>2, <1>6, <2>1, <2>3, GoneAccount DEF DeleteSA
  <1> QED BY <1>3, <1>4, <1>5, <1>6

LEMMA GrantDelete ==
  ASSUME GrantInv, TypeOK', NEW r \in Requests, NEW n \in SaNames, Delete(r, n)
  PROVE  GrantInv'
  <1> DEFINE q == [Idle EXCEPT !.pc = "checkSA", !.sa = n]
  <1>1. q.sa = n /\ q.asked = {} /\ q.owner = NoUid
    BY DEF Idle
  <1>2. req' = [req EXCEPT ![r] = q] /\ UNCHANGED <<sas, bindings, nextUid, mandate>>
    BY DEF Delete, objects
  <1> HIDE DEF q
  <1>3. \A s \in Requests : req'[s] = IF s = r THEN q ELSE req[s]
    BY <1>2 DEF GrantInv, TypeOK
  <1>4. UidsUsed'
    BY <1>1, <1>2, <1>3 DEF GrantInv, TypeOK, UidsUsed, NoUid
  <1>5. RequestsMandated'
    BY <1>1, <1>2, <1>3 DEF GrantInv, RequestsMandated, AskedRoles
  <1>6. GrantsMandated' /\ OwnersManaged'
    BY <1>2 DEF GrantInv, GrantsMandated, OwnersManaged, Live
  <1> QED BY <1>4, <1>5, <1>6 DEF GrantInv

LEMMA GrantCrash ==
  ASSUME GrantInv, TypeOK', Crash
  PROVE  GrantInv'
  <1>1. \A s \in Requests : req'[s].pc = "idle" /\ req'[s].owner = NoUid
    BY DEF Crash, Idle
  <1>2. UNCHANGED <<sas, bindings, nextUid, mandate>>
    BY DEF Crash, objects
  <1>3. UidsUsed'
    BY <1>1, <1>2 DEF GrantInv, TypeOK, UidsUsed, NoUid
  <1>4. RequestsMandated'
    BY <1>1 DEF RequestsMandated
  <1>5. GrantsMandated' /\ OwnersManaged'
    BY <1>2 DEF GrantInv, GrantsMandated, OwnersManaged, Live
  <1> QED BY <1>3, <1>4, <1>5 DEF GrantInv

LEMMA GrantCollect ==
  ASSUME GrantInv, TypeOK', NEW b \in BindingNames, Collect(b)
  PROVE  GrantInv'
  <1>1. /\ \A c \in BindingNames : bindings'[c] = IF c = b THEN Absent ELSE bindings[c]
        /\ UNCHANGED <<sas, nextUid, req, mandate>>
    BY DEF Collect, GrantInv, TypeOK
  <1>2. UidsUsed'
    BY <1>1 DEF GrantInv, TypeOK, UidsUsed, Absent, NoUid
  <1>3. RequestsMandated'
    BY <1>1 DEF GrantInv, RequestsMandated, AskedRoles
  <1>4. \A c \in BindingNames : Live(c)' => Live(c)
    BY <1>1 DEF Live, Absent
  <1>5. GrantsMandated' /\ OwnersManaged'
    BY <1>1, <1>4 DEF GrantInv, GrantsMandated, OwnersManaged
  <1> QED BY <1>2, <1>3, <1>5 DEF GrantInv

LEMMA GrantNext ==
  ASSUME GrantInv, [Next]_vars
  PROVE  GrantInv'
  <1>1. TypeOK'
    BY TypeNext DEF GrantInv
  <1>2. ASSUME NEW r \in Requests, Call(r) PROVE GrantInv'
    <2>1. CASE RespondCreated(r)
      BY <1>1, <2>1, GrantRespond DEF RespondCreated, objects
    <2> QED BY <1>1, <1>2, <2>1, GrantGetSA, GrantCreateSA, GrantGetRole,
               GrantCreateRole, GrantGetBinding, GrantGetOwner,
               GrantCreateBinding, GrantCheckSA, GrantDeleteSA DEF Call
  <1>3. ASSUME NEW r \in Requests, Client(r) PROVE GrantInv'
    BY <1>1, <1>3, GrantPost, GrantDelete DEF Client
  <1>4. ASSUME UNCHANGED req PROVE RequestsFollow
    BY <1>4 DEF RequestsFollow
  <1>5. ASSUME NEW n \in AdminNames, AdminCreatesSA(n) PROVE GrantInv'
    BY <1>1, <1>4, <1>5, AdminAssumption, NewAccount DEF AdminCreatesSA
  <1>6. ASSUME NEW n \in AdminNames, AdminDeletesSA(n) PROVE GrantInv'
    <2>1. \A s \in Requests : req'[s].pc # "idle" /\ req'[s].sa = n =>
                               AskedRoles(req'[s]) \subseteq mandate'[n]
      BY <1>6 DEF AdminDeletesSA, GrantInv, RequestsMandated
    <2> QED BY <1>1, <1>4, <1>6, <2>1, AdminAssumption, GoneAccount DEF AdminDeletesSA
  <1>7. ASSUME NEW b \in BindingNames, Collect(b) PROVE GrantInv'
    BY <1>1, <1>7, GrantCollect
  <1>8. CASE Crash
    BY <1>1, <1>8, GrantCrash
  <1>9. CASE UNCHANGED vars
    BY <1>1, <1>9 DEF vars, GrantInv, UidsUsed, RequestsMandated, GrantsMandated,
                      OwnersManaged, Live, AskedRoles
  <1> QED BY <1>2, <1>3, <1>5, <1>6, <1>7, <1>8, <1>9 DEF Next, Environment

LEMMA GrantInvariant == Spec => []GrantInv
  BY GrantInit, GrantNext, PTL DEF Spec

\* A DELETE answered with 202 revokes, and whatever is bound later was asked for
\* by a POST that was not over then.
THEOREM GrantsAreMandated == Spec => []GrantsMandated
  <1>1. GrantInv => GrantsMandated
    BY DEF GrantInv
  <1> QED BY <1>1, GrantInvariant, PTL

\* No binding is ever owned by an account that jwt-to-rbac did not generate.
THEOREM OwnersAreManaged == Spec => []OwnersManaged
  <1>1. GrantInv => OwnersManaged
    BY DEF GrantInv
  <1> QED BY <1>1, GrantInvariant, PTL
-----------------------------------------------------------------------------
(* Bound roles are there.                                                   *)

\* Two groups share a role only when both lead to the role "admin".
LEMMA RoleOfCustom ==
  ASSUME NEW g \in CustomGroups, NEW h, RoleOf(h) = RoleOf(g)
  PROVE  h = g
  <1>1. RoleOf(g).custom /\ RoleOf(g).name = g
    BY DEF RoleOf, CustomGroups
  <1>2. h \in CustomGroups
    BY <1>1 DEF RoleOf
  <1>3. RoleOf(h).name = h
    BY <1>2 DEF RoleOf, CustomGroups
  <1> QED BY <1>1, <1>3

\* Where the loops lead when the roles left behind are made.
LEMMA BindingLoopReady ==
  ASSUME NEW q \in Request, NEW todo, NEW made, q.asked \cap CustomGroups \subseteq made
  PROVE  RolesReady(BindingLoop(q, todo), made)
  BY DEF RolesReady, BindingLoop, Request

LEMMA RoleLoopReady ==
  ASSUME NEW q \in Request, NEW todo, NEW made,
         (q.asked \cap CustomGroups) \ todo \subseteq made
  PROVE  RolesReady(RoleLoop(q, todo), made)
  <1>1. CASE todo = {}
    BY <1>1, BindingLoopReady DEF RoleLoop
  <1>2. CASE todo # {}
    BY <1>2 DEF RoleLoop, RolesReady, Request
  <1> QED BY <1>1, <1>2

LEMMA IdleReady == \A made : RolesReady(Idle, made)
  BY DEF RolesReady, Idle

\* A step of one request; generated roles stay, new bindings to custom roles
\* refer to generated ones.
LEMMA ReadyKeeps ==
  ASSUME RoleInv, TypeOK', NEW r \in Requests, NEW q,
         req' = [req EXCEPT ![r] = q], Generated \subseteq Generated',
         RolesReady(q, Generated'),
         \A n \in SaNames, g \in CustomGroups :
           bindings'[<<n, RoleOf(g)>>].state = "managed" =>
             bindings[<<n, RoleOf(g)>>].state = "managed" \/ g \in Generated'
  PROVE  RoleInv'
  <1>1. \A s \in Requests : req'[s] = IF s = r THEN q ELSE req[s]
    BY DEF RoleInv, TypeOK
  <1>2. \A s \in Requests : RolesReady(req[s], Generated')
    BY DEF RoleInv, RolesMade, RolesReady
  <1>3. RolesMade'
    BY <1>1, <1>2 DEF RolesMade, RolesReady
  <1>4. BoundRolesGenerated'
    BY DEF RoleInv, BoundRolesGenerated, Generated
  <1> QED BY <1>3, <1>4 DEF RoleInv

\* The many steps that change neither roles nor bindings.
LEMMA ReadyStep ==
  ASSUME RoleInv, TypeOK', NEW r \in Requests, NEW q, RolesReady(q, Generated),
         req' = [req EXCEPT ![r] = q], UNCHANGED <<roles, bindings>>
  PROVE  RoleInv'
  <1>1. Generated' = Generated
    BY DEF Generated
  <1> QED BY <1>1, ReadyKeeps

LEMMA RespondReady ==
  ASSUME RoleInv, TypeOK', NEW r \in Requests, Respond(r), UNCHANGED <<roles, bindings>>
  PROVE  RoleInv'
  BY IdleReady, ReadyStep DEF Respond

LEMMA RoleInit == Init => RoleInv
  <1> SUFFICES ASSUME Init PROVE RoleInv
    OBVIOUS
  <1>1. TypeOK
    BY TypeInit
  <1>2. RolesMade
    BY IdleReady DEF Init, RolesMade
  <1>3. \A b \in BindingNames : bindings[b].state # "managed"
    BY DEF Init, Absent
  <1>4. \A n \in SaNames, g \in CustomGroups : <<n, RoleOf(g)>> \in BindingNames
    BY CustomKnown DEF BindingNames, Roles
  <1>5. BoundRolesGenerated
    BY <1>3, <1>4 DEF BoundRolesGenerated
  <1> QED BY <1>1, <1>2, <1>5 DEF RoleInv

LEMMA RoleRoleSteps ==
  ASSUME RoleInv, TypeOK', NEW r \in Requests, GetRole(r) \/ CreateRole(r)
  PROVE  RoleInv'
  <1>1. req[r] \in Request /\ LocalsOK(req[r]) /\ RolesReady(req[r], Generated)
    BY RequestTyped DEF RoleInv, RolesMade
  <1>2. CASE GetRole(r)
    <2>1. PICK g \in req[r].todo, outcome \in {"reply", "error"} :
            req' = [req EXCEPT ![r] =
               IF outcome = "reply" /\ RoleChecked(g)
               THEN RoleLoop(req[r], req[r].todo \ {g})
               ELSE [req[r] EXCEPT !.pc = "createRole", !.group = g]]
      BY <1>2 DEF GetRole
    <2>2. req[r].pc = "getRole" /\ g \in CustomGroups
      BY <1>1, <1>2 DEF GetRole, LocalsOK
    <2>3. RoleChecked(g) => RolesReady(RoleLoop(req[r], req[r].todo \ {g}), Generated)
      BY <1>1, <2>2, RoleLoopReady DEF RoleChecked, Generated, RolesReady
    <2>4. RolesReady([req[r] EXCEPT !.pc = "createRole", !.group = g], Generated)
      BY <1>1, <2>2 DEF RolesReady, Request
    <2> QED BY <1>2, <2>1, <2>3, <2>4, ReadyStep DEF GetRole, objects
  <1>3. CASE CreateRole(r)
    <2> DEFINE g == req[r].group
    <2>1. /\ req[r].pc = "createRole" /\ g \in CustomGroups /\ UNCHANGED bindings
      BY <1>1, <1>3 DEF CreateRole, LocalsOK
    <2>2. \/ UNCHANGED roles /\ Respond(r)
          \/ roles' = [roles EXCEPT ![g] = "managed"] /\ Respond(r)
          \/ /\ roles' = [roles EXCEPT ![g] = "managed"]
             /\ req' = [req EXCEPT ![r] = RoleLoop(req[r], req[r].todo \ {g})]
      BY <1>3 DEF CreateRole
    <2>3. CASE UNCHANGED roles /\ Respond(r)
      BY <2>1, <2>3, RespondReady
    <2>4. CASE roles' = [roles EXCEPT ![g] = "managed"]
      <3>1. Generated' = Generated \cup {g}
        BY <2>1, <2>4 DEF Generated, RoleInv, TypeOK
      <3>2. RolesReady(RoleLoop(req[r], req[r].todo \ {g}), Generated')
        BY <1>1, <2>1, <3>1, RoleLoopReady DEF RolesReady
      <3>3. PICK q \in {Idle, RoleLoop(req[r], req[r].todo \ {g})} :
              req' = [req EXCEPT ![r] = q]
        BY <2>2, <2>4 DEF Respond
      <3>4. RolesReady(q, Generated')
        BY <3>2, IdleReady
      <3> QED BY <2>1, <3>1, <3>3, <3>4, ReadyKeeps
    <2> QED BY <2>2, <2>3, <2>4
  <1> QED BY <1>2, <1>3

LEMMA RoleAccountSteps ==
  ASSUME RoleInv, TypeOK', NEW r \in Requests,
         GetSA(r) \/ CreateSA(r) \/ CheckSA(r) \/ DeleteSA(r) \/ RespondCreated(r)
  PROVE  RoleInv'
  <1>1. req[r] \in Request /\ RolesReady(req[r], Generated)
    BY RequestTyped DEF RoleInv, RolesMade
  <1>2. RolesReady(RoleLoop(req[r], AskedCustom(req[r])), Generated)
    BY <1>1, RoleLoopReady DEF AskedCustom
  <1>3. \A pc \in {"createSA", "deleteSA"} : RolesReady([req[r] EXCEPT !.pc = pc], Generated)
    BY <1>1 DEF RolesReady, Request
  <1>4. UNCHANGED <<roles, bindings>>
    BY DEF GetSA, CreateSA, CheckSA, DeleteSA, RespondCreated, objects
  <1>5. \/ Respond(r)
        \/ req' = [req EXCEPT ![r] = RoleLoop(req[r], AskedCustom(req[r]))]
        \/ \E pc \in {"createSA", "deleteSA"} : req' = [req EXCEPT ![r].pc = pc]
    BY DEF GetSA, CreateSA, CheckSA, DeleteSA, RespondCreated
  <1> QED BY <1>2, <1>3, <1>4, <1>5, RespondReady, ReadyStep

\* A request makes a binding only once the role it refers to is generated.
LEMMA RoleBindingSteps ==
  ASSUME RoleInv, TypeOK', NEW r \in Requests,
         GetBinding(r) \/ GetOwner(r) \/ CreateBinding(r)
  PROVE  RoleInv'
  <1>1. req[r] \in Request /\ LocalsOK(req[r]) /\ RolesReady(req[r], Generated)
    BY RequestTyped DEF RoleInv, RolesMade
  <1>2. req[r].asked \cap CustomGroups \subseteq Generated
    BY <1>1 DEF RolesReady, GetBinding, GetOwner, CreateBinding
  <1>3. \A todo : RolesReady(BindingLoop(req[r], todo), Generated)
    BY <1>1, <1>2, BindingLoopReady
  <1>4. CASE GetBinding(r)
    <2>1. PICK g \in req[r].todo :
            \/ req' = [req EXCEPT ![r] = BindingLoop(req[r], req[r].todo \ {g})]
            \/ req' = [req EXCEPT ![r] = [req[r] EXCEPT !.pc = "getOwner", !.group = g]]
      BY <1>4 DEF GetBinding
    <2>2. RolesReady([req[r] EXCEPT !.pc = "getOwner", !.group = g], Generated)
      BY <1>1, <1>2 DEF RolesReady, Request
    <2> QED BY <1>3, <1>4, <2>1, <2>2, ReadyStep DEF GetBinding, objects
  <1>5. CASE GetOwner(r)
    <2> DEFINE q == [req[r] EXCEPT !.pc = "createBinding", !.owner = sas[req[r].sa].uid]
    <2>1. RolesReady(q, Generated)
      BY <1>1, <1>2 DEF RolesReady, Request
    <2>2. Respond(r) \/ req' = [req EXCEPT ![r] = q]
      BY <1>5 DEF GetOwner
    <2> HIDE DEF q
    <2> QED BY <1>5, <2>1, <2>2, RespondReady, ReadyStep DEF GetOwner, objects
  <1>6. CASE CreateBinding(r)
    <2> DEFINE b == BindingOf(req[r])
    <2>1. Generated' = Generated /\ roles' = roles
      BY <1>6 DEF CreateBinding, Generated
    <2>2. PICK q : req' = [req EXCEPT ![r] = q] /\ RolesReady(q, Generated)
      BY <1>3, <1>6, IdleReady DEF CreateBinding, Respond
    <2>3. b = <<req[r].sa, RoleOf(req[r].group)>> /\ req[r].group \in req[r].asked
      BY <1>1, <1>6 DEF BindingOf, LocalsOK, CreateBinding
    <2>4. bindings' = bindings \/ bindings' = [bindings EXCEPT ![b] = BoundBy(req[r].owner)]
      BY <1>6 DEF CreateBinding
    <2>5. \A n \in SaNames, g \in CustomGroups :
            bindings'[<<n, RoleOf(g)>>].state = "managed" =>
              bindings[<<n, RoleOf(g)>>].state = "managed" \/ g \in Generated'
      <3> SUFFICES ASSUME NEW n \in SaNames, NEW g \in CustomGroups
                   PROVE  bindings'[<<n, RoleOf(g)>>] = bindings[<<n, RoleOf(g)>>]
                            \/ g \in Generated
        BY <2>1
      <3>1. CASE b = <<n, RoleOf(g)>>
        BY <1>2, <2>3, <3>1, RoleOfCustom
      <3>2. CASE b # <<n, RoleOf(g)>>
        <4>1. <<n, RoleOf(g)>> \in BindingNames
          BY CustomKnown DEF BindingNames, Roles
        <4> HIDE DEF b
        <4> QED BY <2>4, <3>2, <4>1 DEF RoleInv, TypeOK
      <3> QED BY <3>1, <3>2
    <2> QED BY <2>1, <2>2, <2>5, ReadyKeeps
  <1> QED BY <1>4, <1>5, <1>6

LEMMA RoleNext ==
  ASSUME RoleInv, [Next]_vars
  PROVE  RoleInv'
  <1>1. TypeOK'
    BY TypeNext DEF RoleInv
  <1>2. ASSUME NEW r \in Requests, Call(r) PROVE RoleInv'
    BY <1>1, <1>2, RoleRoleSteps, RoleAccountSteps, RoleBindingSteps DEF Call
  <1>3. ASSUME NEW r \in Requests, Client(r) PROVE RoleInv'
    <2>1. UNCHANGED <<roles, bindings>>
      BY <1>3 DEF Client, Post, Delete, objects
    <2>2. ASSUME NEW n \in SaNames, NEW gs \in SUBSET Groups, Post(r, n, gs)
          PROVE  RoleInv'
      <3> DEFINE q == [Idle EXCEPT !.pc = "getSA", !.sa = n, !.asked = gs \cap KnownGroups]
      <3>1. RolesReady(q, Generated)
        BY DEF Idle, RolesReady
      <3>2. req' = [req EXCEPT ![r] = q]
        BY <2>2 DEF Post
      <3> HIDE DEF q
      <3> QED BY <1>1, <2>1, <3>1, <3>2, ReadyStep
    <2>3. ASSUME NEW n \in SaNames, Delete(r, n) PROVE RoleInv'
      <3> DEFINE q == [Idle EXCEPT !.pc = "checkSA", !.sa = n]
      <3>1. RolesReady(q, Generated)
        BY DEF Idle, RolesReady
      <3>2. req' = [req EXCEPT ![r] = q]
        BY <2>3 DEF Delete
      <3> HIDE DEF q
      <3> QED BY <1>1, <2>1, <3>1, <3>2, ReadyStep
    <2> QED BY <1>3, <2>2, <2>3 DEF Client
  <1>4. ASSUME UNCHANGED roles, \A s \in Requests : req'[s] \in {Idle, req[s]},
               \A b \in BindingNames : bindings'[b] \in {Absent, bindings[b]}
        PROVE  RoleInv'
    <2>1. Generated' = Generated
      BY <1>4 DEF Generated
    <2>2. RolesMade'
      BY <1>4, <2>1, IdleReady DEF RoleInv, RolesMade
    <2>3. \A n \in SaNames, g \in CustomGroups : <<n, RoleOf(g)>> \in BindingNames
      BY CustomKnown DEF BindingNames, Roles
    <2>4. BoundRolesGenerated'
      BY <1>4, <2>3 DEF RoleInv, BoundRolesGenerated, Absent
    <2> QED BY <1>1, <2>2, <2>4 DEF RoleInv
  <1>5. CASE Environment
    <2>1. /\ UNCHANGED <<roles, req>>
          /\ \A b \in BindingNames : bindings'[b] \in {Absent, bindings[b]}
      BY <1>5 DEF Environment, AdminCreatesSA, AdminDeletesSA, Collect, RoleInv, TypeOK
    <2> QED BY <1>4, <2>1
  <1>6. CASE Crash
    BY <1>4, <1>6 DEF Crash, objects
  <1>7. CASE UNCHANGED vars
    BY <1>4, <1>7 DEF vars
  <1> QED BY <1>2, <1>3, <1>5, <1>6, <1>7 DEF Next

\* A generated binding to a custom role refers to a generated cluster role.
THEOREM BoundRolesAreGenerated == Spec => []BoundRolesGenerated
  <1>1. Spec => []RoleInv
    BY RoleInit, RoleNext, PTL DEF Spec
  <1>2. RoleInv => BoundRolesGenerated
    BY DEF RoleInv
  <1> QED BY <1>1, <1>2, PTL
-----------------------------------------------------------------------------
(* Objects of others are left alone.                                        *)

\* What a step may do to a role and to a binding.
RoleStep(g) == roles'[g] = roles[g] \/ roles[g] = "absent"

BindingStep(b) ==
  \/ bindings'[b] = bindings[b]
  \/ bindings[b].state = "absent" /\ bindings'[b].state = "managed"
  \/ bindings[b].uid # NoUid /\ bindings'[b] = Absent

LEMMA RoleSteps ==
  ASSUME TypeOK, [Next]_vars, NEW g \in CustomGroups
  PROVE  RoleStep(g)
  <1>1. ASSUME NEW r \in Requests, CreateRole(r) PROVE RoleStep(g)
    <2> DEFINE h == req[r].group
    <2>1. \/ roles' = roles
          \/ /\ roles[h] = "absent"
             /\ roles' = [roles EXCEPT ![h] = "managed"]
      <3>1. PICK outcome \in {"reply", "error", "lost"} :
              roles' = IF Creates(outcome, roles[h])
                       THEN [roles EXCEPT ![h] = "managed"] ELSE roles
        BY <1>1 DEF CreateRole
      <3> QED BY <3>1 DEF Creates
    <2> QED BY <2>1 DEF RoleStep, TypeOK
  <1>2. CASE UNCHANGED roles
    BY <1>2 DEF RoleStep
  <1>3. ASSUME NEW r \in Requests, Call(r) PROVE RoleStep(g)
    <2>1. GetSA(r) => UNCHANGED roles
      BY DEF GetSA, objects
    <2>2. CreateSA(r) => UNCHANGED roles
      BY DEF CreateSA
    <2>3. GetRole(r) => UNCHANGED roles
      BY DEF GetRole, objects
    <2>4. CreateBinding(r) => UNCHANGED roles
      BY DEF CreateBinding
    <2>5. GetBinding(r) => UNCHANGED roles
      BY DEF GetBinding, objects
    <2>6. GetOwner(r) => UNCHANGED roles
      BY DEF GetOwner, objects
    <2>7. RespondCreated(r) => UNCHANGED roles
      BY DEF RespondCreated, objects
    <2>8. CheckSA(r) => UNCHANGED roles
      BY DEF CheckSA, objects
    <2>9. DeleteSA(r) => UNCHANGED roles
      BY DEF DeleteSA
    <2> QED BY <1>1, <1>2, <1>3, <2>1, <2>2, <2>3, <2>4, <2>5, <2>6, <2>7, <2>8, <2>9 DEF Call
  <1>4. ASSUME NEW r \in Requests, Client(r) PROVE RoleStep(g)
    BY <1>2, <1>4 DEF Client, Post, Delete, objects
  <1>5. CASE Environment
    BY <1>2, <1>5 DEF Environment, AdminCreatesSA, AdminDeletesSA, Collect
  <1>6. CASE Crash \/ UNCHANGED vars
    BY <1>2, <1>6 DEF Crash, objects, vars
  <1> QED BY <1>3, <1>4, <1>5, <1>6 DEF Next

LEMMA BindingSteps ==
  ASSUME TypeOK, [Next]_vars, NEW b \in BindingNames
  PROVE  BindingStep(b)
  <1>1. ASSUME NEW r \in Requests, CreateBinding(r) PROVE BindingStep(b)
    <2> DEFINE c == BindingOf(req[r])
    <2>1. \/ bindings' = bindings
          \/ /\ bindings[c].state = "absent"
             /\ bindings' = [bindings EXCEPT ![c] = BoundBy(req[r].owner)]
      <3>1. PICK outcome \in {"reply", "error", "lost"} :
              bindings' = IF Creates(outcome, bindings[c].state)
                          THEN [bindings EXCEPT ![c] = BoundBy(req[r].owner)]
                          ELSE bindings
        BY <1>1 DEF CreateBinding
      <3> QED BY <3>1 DEF Creates
    <2>2. BoundBy(req[r].owner).state = "managed"
      BY DEF BoundBy
    <2> QED BY <2>1, <2>2 DEF BindingStep, TypeOK
  <1>2. CASE UNCHANGED bindings
    BY <1>2 DEF BindingStep
  <1>3. ASSUME NEW r \in Requests, Call(r) PROVE BindingStep(b)
    <2>1. GetSA(r) => UNCHANGED bindings
      BY DEF GetSA, objects
    <2>2. CreateSA(r) => UNCHANGED bindings
      BY DEF CreateSA
    <2>3. GetRole(r) => UNCHANGED bindings
      BY DEF GetRole, objects
    <2>4. CreateRole(r) => UNCHANGED bindings
      BY DEF CreateRole
    <2>5. GetBinding(r) => UNCHANGED bindings
      BY DEF GetBinding, objects
    <2>6. GetOwner(r) => UNCHANGED bindings
      BY DEF GetOwner, objects
    <2>7. RespondCreated(r) => UNCHANGED bindings
      BY DEF RespondCreated, objects
    <2>8. CheckSA(r) => UNCHANGED bindings
      BY DEF CheckSA, objects
    <2>9. DeleteSA(r) => UNCHANGED bindings
      BY DEF DeleteSA
    <2> QED BY <1>1, <1>2, <1>3, <2>1, <2>2, <2>3, <2>4, <2>5, <2>6, <2>7, <2>8, <2>9 DEF Call
  <1>4. ASSUME NEW r \in Requests, Client(r) PROVE BindingStep(b)
    BY <1>2, <1>4 DEF Client, Post, Delete, objects
  <1>5. ASSUME NEW c \in BindingNames, Collect(c) PROVE BindingStep(b)
    BY <1>5 DEF Collect, BindingStep, TypeOK
  <1>6. CASE Environment
    BY <1>2, <1>5, <1>6 DEF Environment, AdminCreatesSA, AdminDeletesSA
  <1>7. CASE Crash \/ UNCHANGED vars
    BY <1>2, <1>7 DEF Crash, objects, vars
  <1> QED BY <1>3, <1>4, <1>6, <1>7 DEF Next

LEMMA ForeignInit == Init => ForeignInv
  BY TypeInit DEF Init, ForeignInv, Absent

LEMMA ForeignNext == ForeignInv /\ [Next]_vars => ForeignInv'
  <1> SUFFICES ASSUME ForeignInv, [Next]_vars PROVE ForeignInv'
    OBVIOUS
  <1>1. TypeOK'
    BY TypeNext DEF ForeignInv
  <1>2. \A b \in BindingNames : BindingStep(b)
    BY BindingSteps DEF ForeignInv
  <1>3. \A b \in BindingNames :
          bindings'[b].state = "foreign" => bindings'[b].uid = NoUid
    BY <1>2 DEF ForeignInv, BindingStep, Absent
  <1> QED BY <1>1, <1>3 DEF ForeignInv

\* No handler changes or replaces a role or a binding that is not its own, and
\* the collector has no reason to.
THEOREM ForeignObjectsAreKept == Spec => ForeignObjectsKept
  <1>1. ForeignInv /\ [Next]_vars =>
          [/\ \A g \in CustomGroups : roles[g] = "foreign" => roles'[g] = "foreign"
           /\ \A b \in BindingNames :
                bindings[b].state = "foreign" => bindings'[b] = bindings[b]]_vars
    <2> SUFFICES ASSUME ForeignInv, [Next]_vars
                 PROVE  /\ \A g \in CustomGroups :
                              roles[g] = "foreign" => roles'[g] = "foreign"
                        /\ \A b \in BindingNames :
                              bindings[b].state = "foreign" => bindings'[b] = bindings[b]
      OBVIOUS
    <2>1. \A g \in CustomGroups : RoleStep(g)
      BY RoleSteps DEF ForeignInv
    <2>2. \A b \in BindingNames : BindingStep(b)
      BY BindingSteps DEF ForeignInv
    <2> QED BY <2>1, <2>2 DEF ForeignInv, RoleStep, BindingStep
  <1>2. Spec => []ForeignInv
    BY ForeignInit, ForeignNext, PTL DEF Spec
  <1> QED BY <1>1, <1>2, PTL DEF Spec, ForeignObjectsKept
-----------------------------------------------------------------------------
(* The handlers implement the ledger.                                       *)

Granted == {b \in BindingNames : Live(b)}

LEMMA LedgerInit == Init => Ledger!Init
  <1> SUFFICES ASSUME Init PROVE Ledger!Init
    OBVIOUS
  <1>1. \A b \in BindingNames : ~Live(b)
    BY DEF Init, Live, Absent
  <1> QED BY <1>1 DEF Ledger!Init, Init

\* Steps that the ledger does not see.
LEMMA LedgerStutter ==
  ASSUME UNCHANGED mandate, \A b \in BindingNames : Live(b)' <=> Live(b)
  PROVE  UNCHANGED Ledger!vars
  BY DEF Ledger!vars

\* An account that comes has no live binding, one that goes loses all.
LEMMA LedgerNewAccount ==
  ASSUME GrantInv, NEW n \in SaNames, NEW state, sas[n].state = "absent",
         sas' = [sas EXCEPT ![n] = [state |-> state, uid |-> nextUid]],
         UNCHANGED <<bindings, mandate>>
  PROVE  UNCHANGED Ledger!vars
  <1>1. \A m \in SaNames : sas'[m] = IF m = n THEN [state |-> state, uid |-> nextUid]
                                           ELSE sas[m]
    BY DEF GrantInv, TypeOK
  <1>2. nextUid \in Nat /\ \A b \in BindingNames : bindings[b].uid \in Nat /\ bindings[b].uid < nextUid
    BY DEF GrantInv, TypeOK, UidsUsed, SaStates
  <1>3. \A b \in BindingNames : b[1] \in SaNames /\ (b[1] = n => ~Live(b))
    BY DEF GrantInv, OwnersManaged, BindingNames
  <1>4. \A b \in BindingNames : Live(b)' <=> Live(b)
    BY <1>1, <1>2, <1>3 DEF Live
  <1> QED BY <1>4, LedgerStutter

LEMMA LedgerGoneAccount ==
  ASSUME GrantInv, NEW n \in SaNames, NEW kept \in SUBSET mandate[n],
         sas' = [sas EXCEPT ![n] = Absent], UNCHANGED bindings,
         mandate' = [mandate EXCEPT ![n] = kept]
  PROVE  Ledger!Next
  <1>1. \A m \in SaNames : sas'[m] = IF m = n THEN Absent ELSE sas[m]
    BY DEF GrantInv, TypeOK
  <1>2. \A b \in BindingNames : b[1] \in SaNames
    BY DEF BindingNames
  <1>3. \A b \in BindingNames : Live(b)' <=> Live(b) /\ b[1] # n
    BY <1>1, <1>2 DEF Live, Absent
  <1>4. Granted' = {b \in Granted : b[1] # n}
    BY <1>3 DEF Granted
  <1>5. Ledger!Revoke(n, kept)
    BY <1>4 DEF Ledger!Revoke, Granted
  <1> QED BY <1>5 DEF Ledger!Next

LEMMA LedgerPost ==
  ASSUME GrantInv, NEW r \in Requests, NEW n \in SaNames, NEW gs \in SUBSET Groups,
         Post(r, n, gs)
  PROVE  Ledger!Next
  <1> DEFINE R == {RoleOf(g) : g \in gs \cap KnownGroups}
  <1>1. R \in SUBSET Roles
    BY DEF Roles
  <1>2. mandate' = [mandate EXCEPT ![n] = @ \cup R]
    BY DEF Post
  <1> HIDE DEF R
  <1>3. \A b \in BindingNames : Live(b)' <=> Live(b)
    BY DEF Post, objects, Live
  <1>4. Ledger!Claim(n, R)
    BY <1>2, <1>3 DEF Ledger!Claim
  <1> QED BY <1>1, <1>4 DEF Ledger!Next

LEMMA LedgerCreateBinding ==
  ASSUME GrantInv, NEW r \in Requests, CreateBinding(r)
  PROVE  Ledger!Next \/ UNCHANGED Ledger!vars
  <1>1. /\ req[r].sa \in SaNames /\ req[r].group \in req[r].asked
        /\ req[r].asked \subseteq KnownGroups /\ req[r].pc # "idle"
    BY RequestTyped DEF GrantInv, CreateBinding, LocalsOK, Request
  <1>2. PICK n \in SaNames, role \in Roles, b \in BindingNames :
          /\ b = BindingOf(req[r]) /\ b = <<n, role>> /\ role \in mandate[n]
    <2>1. RoleOf(req[r].group) \in mandate[req[r].sa]
      BY <1>1 DEF GrantInv, RequestsMandated, AskedRoles
    <2>2. RoleOf(req[r].group) \in Roles
      BY <1>1 DEF Roles
    <2>3. BindingOf(req[r]) = <<req[r].sa, RoleOf(req[r].group)>>
      BY DEF BindingOf
    <2>4. BindingOf(req[r]) \in BindingNames
      BY <1>1, <2>2, <2>3 DEF BindingNames
    <2> QED BY <1>1, <2>1, <2>2, <2>3, <2>4
  <1>3. UNCHANGED <<sas, mandate>>
    BY DEF CreateBinding
  <1>4. CASE bindings' = bindings
    BY <1>3, <1>4, LedgerStutter DEF Live
  <1>5. CASE /\ bindings[b].state = "absent"
             /\ bindings' = [bindings EXCEPT ![b] = BoundBy(req[r].owner)]
    <2>1. \A c \in BindingNames : c # b => bindings'[c] = bindings[c]
      BY <1>2, <1>5 DEF GrantInv, TypeOK
    <2>2. ~Live(b) /\ \A c \in BindingNames : c # b => (Live(c)' <=> Live(c))
      BY <1>3, <1>5, <2>1 DEF Live
    <2>3. CASE Live(b)'
      <3>1. Granted' = Granted \cup {<<n, role>>}
        <4>1. \A c \in BindingNames : Live(c)' <=> Live(c) \/ c = b
          BY <2>2, <2>3
        <4>2. Granted' = Granted \cup {b}
          BY <1>2, <4>1 DEF Granted
        <4> QED BY <1>2, <4>2
      <3>2. Ledger!Grant(n, role)
        BY <1>2, <1>3, <3>1 DEF Ledger!Grant, Granted
      <3> QED BY <3>2 DEF Ledger!Next
    <2>4. CASE ~Live(b)'
      <3>1. \A c \in BindingNames : Live(c)' <=> Live(c)
        BY <2>2, <2>4
      <3> QED BY <1>3, <3>1, LedgerStutter
    <2> QED BY <2>3, <2>4
  <1> QED BY <1>2, <1>4, <1>5 DEF CreateBinding, Creates

LEMMA LedgerDeleteSA ==
  ASSUME GrantInv, NEW r \in Requests, DeleteSA(r)
  PROVE  Ledger!Next \/ UNCHANGED Ledger!vars
  <1> DEFINE n == req[r].sa
             kept == UNION {AskedRoles(req[q]) :
                              q \in {p \in Requests : req[p].pc # "idle" /\ req[p].sa = n}}
  <1>1. n \in SaNames
    BY RequestTyped DEF GrantInv, DeleteSA, LocalsOK
  <1>2. \A q \in Requests : req[q].pc # "idle" /\ req[q].sa = n =>
                           AskedRoles(req[q]) \subseteq mandate[n]
    BY DEF GrantInv, RequestsMandated
  <1>3. kept \subseteq mandate[n]
    BY <1>2
  <1>4. \/ sas' = sas /\ mandate' = mandate
        \/ sas' = [sas EXCEPT ![n] = Absent] /\ mandate' = mandate
        \/ sas' = [sas EXCEPT ![n] = Absent] /\ mandate' = [mandate EXCEPT ![n] = kept]
    BY DEF DeleteSA, DeleteAccepted
  <1>5. mandate = [mandate EXCEPT ![n] = mandate[n]] /\ UNCHANGED bindings
    BY <1>1 DEF GrantInv, TypeOK, DeleteSA
  <1> HIDE DEF n, kept
  <1>6. CASE sas' = sas /\ mandate' = mandate
    BY <1>5, <1>6, LedgerStutter DEF Live
  <1>7. CASE sas' = [sas EXCEPT ![n] = Absent] /\ mandate' = mandate
    BY <1>1, <1>5, <1>7, LedgerGoneAccount
  <1>8. CASE sas' = [sas EXCEPT ![n] = Absent] /\ mandate' = [mandate EXCEPT ![n] = kept]
    BY <1>1, <1>3, <1>5, <1>8, LedgerGoneAccount
  <1> QED BY <1>4, <1>6, <1>7, <1>8

LEMMA LedgerNext ==
  ASSUME GrantInv, [Next]_vars
  PROVE  Ledger!Next \/ UNCHANGED Ledger!vars
  <1>1. ASSUME UNCHANGED <<sas, bindings, mandate>> PROVE UNCHANGED Ledger!vars
    BY <1>1, LedgerStutter DEF Live
  <1>2. ASSUME NEW r \in Requests, Call(r)
        PROVE  Ledger!Next \/ UNCHANGED Ledger!vars
    <2>1. CASE CreateSA(r)
      <3>1. req[r].sa \in SaNames
        BY <2>1, RequestTyped DEF GrantInv, CreateSA, LocalsOK
      <3>2. CASE sas' = sas
        BY <1>1, <2>1, <3>2 DEF CreateSA
      <3>3. CASE /\ sas[req[r].sa].state = "absent"
                 /\ sas' = [sas EXCEPT ![req[r].sa] = [state |-> "managed", uid |-> nextUid]]
        BY <2>1, <3>1, <3>3, LedgerNewAccount DEF CreateSA
      <3> QED BY <2>1, <3>2, <3>3 DEF CreateSA, Creates
    <2>2. CASE CreateBinding(r)
      BY <2>2, LedgerCreateBinding
    <2>3. CASE DeleteSA(r)
      BY <2>3, LedgerDeleteSA
    <2>4. CASE \/ GetSA(r) \/ GetRole(r) \/ CreateRole(r) \/ GetBinding(r)
               \/ GetOwner(r) \/ RespondCreated(r) \/ CheckSA(r)
      BY <1>1, <2>4 DEF GetSA, GetRole, CreateRole, GetBinding, GetOwner,
                        RespondCreated, CheckSA, objects
    <2> QED BY <1>2, <2>1, <2>2, <2>3, <2>4 DEF Call
  <1>3. ASSUME NEW r \in Requests, Client(r)
        PROVE  Ledger!Next \/ UNCHANGED Ledger!vars
    <2>1. ASSUME NEW n \in SaNames, Delete(r, n) PROVE UNCHANGED Ledger!vars
      BY <1>1, <2>1 DEF Delete, objects
    <2> QED BY <1>3, <2>1, LedgerPost DEF Client
  <1>4. ASSUME NEW n \in AdminNames, AdminCreatesSA(n) PROVE UNCHANGED Ledger!vars
    BY <1>4, AdminAssumption, LedgerNewAccount DEF AdminCreatesSA
  <1>5. ASSUME NEW n \in AdminNames, AdminDeletesSA(n) PROVE Ledger!Next
    <2>1. mandate = [mandate EXCEPT ![n] = mandate[n]]
      BY <1>5, AdminAssumption DEF GrantInv, TypeOK
    <2> QED BY <1>5, <2>1, AdminAssumption, LedgerGoneAccount DEF AdminDeletesSA
  <1>6. ASSUME NEW b \in BindingNames, Collect(b) PROVE UNCHANGED Ledger!vars
    <2>1. /\ \A c \in BindingNames : bindings'[c] = IF c = b THEN Absent ELSE bindings[c]
          /\ bindings[b].uid # sas[b[1]].uid /\ UNCHANGED <<sas, mandate>>
      BY <1>6 DEF Collect, GrantInv, TypeOK
    <2>2. \A c \in BindingNames : Live(c)' <=> Live(c)
      BY <2>1 DEF Live, Absent
    <2> QED BY <2>1, <2>2, LedgerStutter
  <1>7. CASE Crash
    BY <1>1, <1>7 DEF Crash, objects
  <1>8. CASE UNCHANGED vars
    BY <1>1, <1>8 DEF vars
  <1> QED BY <1>2, <1>3, <1>4, <1>5, <1>6, <1>7, <1>8 DEF Next, Environment

\* The handlers, interleaved call by call and failing as they may, implement
\* the ledger: grants are claimed, and revocation is of a whole account.
THEOREM ImplementsLedger == Spec => LedgerSpec
  <1>1. GrantInv /\ [Next]_vars => [Ledger!Next]_(Ledger!vars)
    BY LedgerNext
  <1> QED BY <1>1, LedgerInit, GrantInvariant, PTL DEF Spec, LedgerSpec, Ledger!Spec
=============================================================================
