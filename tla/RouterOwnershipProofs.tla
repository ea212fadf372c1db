------------------------ MODULE RouterOwnershipProofs ------------------------
(***************************************************************************)
(* The routing objects keep to the safety part of the ownership protocol:   *)
(* every step of the CellRouter reconciler and of the cluster around it is  *)
(* a step of module Ownership, or none, for any constants.                  *)
(***************************************************************************)
EXTENDS RouterControllerProofs

\* UIDs grow: what exists or is referred to was handed out before.
UidsHandedOut ==
  /\ \A r \in Routers : Live(r) => routers[r].uid <= uids[r]
  /\ \A t \in Managed : Owner(t) # NoObject => Owner(t).uid <= uids[Owner(t).name]

\* Nothing is owned by a living CellRouter that is not under its finalizer.
OwnedImpliesFinalizer ==
  \A t \in Managed :
    Owner(t) # NoObject /\ OwnerAlive(Owner(t)) => routers[Owner(t).name].finalizer

IInv ==
  /\ TypeOK
  /\ PassInv
  /\ PinInv
  /\ UidsHandedOut
  /\ OwnedImpliesFinalizer

-----------------------------------------------------------------------------
(* What one step does to the lives of routers and to the owners of objects. *)

\* Users create r, delete it before or after it is managed; the operator adds its
\* finalizer or removes it.
Born(r) ==
  /\ routers[r] = NoObject /\ routers'[r] # NoObject
  /\ ~routers'[r].deleting /\ ~routers'[r].finalizer
  /\ routers'[r].uid = uids[r] + 1 /\ uids'[r] = uids[r] + 1
Gone(r) == routers[r] # NoObject /\ routers'[r] = NoObject /\ uids'[r] = uids[r]
Ages(r) ==
  /\ routers[r] # NoObject /\ routers'[r] # NoObject
  /\ routers'[r].uid = routers[r].uid /\ routers'[r].finalizer /\ uids'[r] = uids[r]

LifeChange(r) ==
  /\ \A q \in Routers \ {r} : SameLife(routers[q], routers'[q]) /\ uids'[q] = uids[q]
  /\ \/ Born(r)
     \/ Gone(r) /\ (routers[r].deleting \/ ~routers[r].finalizer)
     \/ Ages(r) /\ ~routers[r].deleting /\ ~routers[r].finalizer /\ ~routers'[r].deleting
     \/ Ages(r) /\ ~routers[r].deleting /\ routers[r].finalizer /\ routers'[r].deleting

LivesKept == SameLives /\ \A r \in Routers : uids'[r] = uids[r]

OwnersKept == \A t \in Managed : Owner(t)' = Owner(t)

\* u disappears, or the pass writes it.
Dropped(u) == \A t \in Managed : Owner(t)' = IF t = u THEN NoObject ELSE Owner(t)
Taken(u) ==
  /\ pc \in NormalSteps
  /\ \A t \in Managed : Owner(t)' = IF t = u THEN Ref(cur, snap) ELSE Owner(t)
  /\ Owner(u) = NoObject \/ Owner(u).name = cur

OwnershipStep ==
  \/ LivesKept /\ OwnersKept
  \/ LivesKept /\ \E u \in Managed : Dropped(u) \/ Taken(u)
  \/ OwnersKept /\ \E r \in Routers : LifeChange(r)

\* The owner recorded in an object.
OwnerIn(object) == IF object = NoObject THEN NoObject ELSE object.owner

\* Owner looks it up, before and after a step.
LEMMA OwnersOf ==
  /\ \A n : Owner(<<"Gateway", n>>) = gateways[n] /\ Owner(<<"Gateway", n>>)' = gateways'[n]
  /\ \A k : /\ Owner(<<"HTTPRoute", k>>) = OwnerIn(routes[k])
            /\ Owner(<<"HTTPRoute", k>>)' = OwnerIn(routes'[k])
  /\ \A g : /\ Owner(<<"ReferenceGrant", g>>) = OwnerIn(grants[g])
            /\ Owner(<<"ReferenceGrant", g>>)' = OwnerIn(grants'[g])
  BY DEF Owner, OwnerIn

\* Managed objects are Gateways, HTTPRoutes and ReferenceGrants.
LEMMA ManagedKinds ==
  /\ \A t \in Managed : \/ \E n \in GatewayNamespaces : t = <<"Gateway", n>>
                        \/ \E k \in RouteKeys : t = <<"HTTPRoute", k>>
                        \/ \E g \in GrantKeys : t = <<"ReferenceGrant", g>>
  /\ \A n \in GatewayNamespaces : <<"Gateway", n>> \in Managed
  /\ \A k \in RouteKeys : <<"HTTPRoute", k>> \in Managed
  /\ \A g \in GrantKeys : <<"ReferenceGrant", g>> \in Managed
  BY DEF Managed

\* An owner is a reference or nothing.
LEMMA OwnerType ==
  ASSUME ClusterOK, NEW t \in Managed
  PROVE  /\ Owner(t) \in OwnerRef \cup {NoObject}
         /\ Owner(t) # NoObject => Owner(t).name \in Routers /\ Owner(t).uid \in Nat
<1>1. Owner(t) \in OwnerRef \cup {NoObject}
  BY ManagedKinds, OwnersOf DEF ClusterOK, Gateway, HTTPRoute, ReferenceGrant, OwnerIn
<1> QED
  BY <1>1 DEF OwnerRef

\* A step that leaves the objects alone.
LEMMA OwnersUntouched == ASSUME UNCHANGED <<gateways, routes, grants>> PROVE OwnersKept
  BY ManagedKinds, OwnersOf DEF OwnersKept

\* A step that changes one Gateway.
LEMMA GatewayOwner ==
  ASSUME ClusterOK, NEW n \in GatewayNamespaces, NEW new,
         gateways' = [gateways EXCEPT ![n] = new], UNCHANGED <<routes, grants>>
  PROVE  \A t \in Managed : Owner(t)' = IF t = <<"Gateway", n>> THEN new ELSE Owner(t)
<1>1. \A m \in GatewayNamespaces : gateways'[m] = IF m = n THEN new ELSE gateways[m]
  BY DEF ClusterOK
<1> QED
  BY <1>1, ManagedKinds, OwnersOf

\* A step that changes one HTTPRoute.
LEMMA RouteOwner ==
  ASSUME ClusterOK, NEW k \in RouteKeys, NEW new,
         routes' = [routes EXCEPT ![k] = new], UNCHANGED <<gateways, grants>>
  PROVE  \A t \in Managed : Owner(t)' = IF t = <<"HTTPRoute", k>> THEN OwnerIn(new) ELSE Owner(t)
<1>1. \A j \in RouteKeys : routes'[j] = IF j = k THEN new ELSE routes[j]
  BY DEF ClusterOK
<1> QED
  BY <1>1, ManagedKinds, OwnersOf

\* A step that changes one ReferenceGrant.
LEMMA GrantOwner ==
  ASSUME ClusterOK, NEW g \in GrantKeys, NEW new,
         grants' = [grants EXCEPT ![g] = new], UNCHANGED <<gateways, routes>>
  PROVE  \A t \in Managed : Owner(t)' = IF t = <<"ReferenceGrant", g>> THEN OwnerIn(new) ELSE Owner(t)
<1>1. \A h \in GrantKeys : grants'[h] = IF h = g THEN new ELSE grants[h]
  BY DEF ClusterOK
<1> QED
  BY <1>1, ManagedKinds, OwnersOf

\* The router that a step changes, and the ones it does not.
LEMMA OneLife ==
  ASSUME ClusterOK, NEW r \in Routers, NEW new, routers' = [routers EXCEPT ![r] = new],
         \A q \in Routers \ {r} : uids'[q] = uids[q]
  PROVE  /\ routers'[r] = new
         /\ \A q \in Routers \ {r} : SameLife(routers[q], routers'[q]) /\ uids'[q] = uids[q]
  BY SameLifeRefl DEF ClusterOK

\* The steps of a pass that write an object.
LEMMA OwnersWritten ==
  ASSUME ClusterOK, WorkerOK, PassInv,
         ReconcileGateway \/ ReconcileReferenceGrant \/ ReconcileHTTPRoute
  PROVE  LivesKept /\ (OwnersKept \/ \E u \in Managed : Taken(u))
<1> USE DEF inputVars, managedVars, cacheVars, envVars
<1>l. LivesKept
  BY SameLifeRefl DEF LivesKept, SameLives, ReconcileGateway, ReconcileReferenceGrant,
                      ReconcileHTTPRoute
<1>1. ASSUME ReconcileGateway, gateways' # gateways PROVE \E u \in Managed : Taken(u)
  <2> DEFINE n == snap.spec.gateway
             u == <<"Gateway", n>>
  <2>1. pc = "gateway" /\ UNCHANGED <<routes, grants>>
    BY <1>1 DEF ReconcileGateway
  <2>2. n \in GatewayNamespaces
    BY <2>1, RouterParts DEF WorkerOK
  <2>3. /\ gateways' = [gateways EXCEPT ![n] = Ref(cur, snap)]
        /\ \/ Creates(gateways[n], cGateways[n])
           \/ Rewrites(gateways[n], cGateways[n], cGateways[n], Ref(cur, snap))
    BY <1>1 DEF ReconcileGateway
  <2> HIDE DEF n
  <2>4. gateways[n] = NoObject \/ gateways[n].name = cur
    BY <2>3 DEF Creates, Rewrites, Adoptable, Ref
  <2>5. \A t \in Managed : Owner(t)' = IF t = u THEN Ref(cur, snap) ELSE Owner(t)
    BY <2>1, <2>2, <2>3, GatewayOwner
  <2>6. u \in Managed /\ Owner(u) = gateways[n]
    BY <2>2, ManagedKinds, OwnersOf
  <2>7. pc \in NormalSteps
    BY <2>1 DEF NormalSteps
  <2> QED
    BY <2>4, <2>5, <2>6, <2>7 DEF Taken
<1>2. ASSUME ReconcileHTTPRoute, routes' # routes PROVE \E u \in Managed : Taken(u)
  <2>1. pc = "route" /\ UNCHANGED <<gateways, grants>>
    BY <1>2 DEF ReconcileHTTPRoute
  <2>2. PICK k \in RouteKeys : /\ routes' = [routes EXCEPT ![k] = DesiredRoute(k)]
                               /\ Written(routes[k], DesiredRoute(k), cRoutes[k])
    BY <1>2, Writes
  <2> DEFINE u == <<"HTTPRoute", k>>
             new == DesiredRoute(k)
  <2>3. OwnerIn(new) = Ref(cur, snap) /\ (routes[k] = NoObject \/ routes[k].owner.name = cur)
    BY <2>2 DEF Written, OwnerIn
  <2>a. routes' = [routes EXCEPT ![k] = new]
    BY <2>2
  <2> HIDE DEF new
  <2>4. \A t \in Managed : Owner(t)' = IF t = u THEN OwnerIn(new) ELSE Owner(t)
    BY <2>1, <2>a, RouteOwner
  <2>5. u \in Managed /\ Owner(u) = OwnerIn(routes[k])
    BY ManagedKinds, OwnersOf
  <2>6. pc \in NormalSteps
    BY <2>1 DEF NormalSteps
  <2> QED
    BY <2>3, <2>4, <2>5, <2>6 DEF Taken, OwnerIn
<1>3. ASSUME ReconcileReferenceGrant, grants' # grants PROVE \E u \in Managed : Taken(u)
  <2>1. pc = "grant" /\ UNCHANGED <<gateways, routes>>
    BY <1>3 DEF ReconcileReferenceGrant
  <2>2. PICK g \in GrantKeys : /\ grants' = [grants EXCEPT ![g] = DesiredGrant]
                               /\ Written(grants[g], DesiredGrant, cGrants[g])
    BY <1>3, Writes
  <2> DEFINE u == <<"ReferenceGrant", g>>
  <2>3. OwnerIn(DesiredGrant) = Ref(cur, snap) /\ (grants[g] = NoObject \/ grants[g].owner.name = cur)
    BY <2>2 DEF Written, OwnerIn
  <2>4. \A t \in Managed : Owner(t)' = IF t = u THEN OwnerIn(DesiredGrant) ELSE Owner(t)
    BY <2>1, <2>2, GrantOwner
  <2>5. u \in Managed /\ Owner(u) = OwnerIn(grants[g])
    BY ManagedKinds, OwnersOf
  <2>6. pc \in NormalSteps
    BY <2>1 DEF NormalSteps
  <2> QED
    BY <2>3, <2>4, <2>5, <2>6 DEF Taken, OwnerIn
<1>4. CASE UNCHANGED <<gateways, routes, grants>>
  BY <1>4, <1>l, OwnersUntouched
<1> QED
  BY <1>l, <1>1, <1>2, <1>3, <1>4 DEF ReconcileGateway, ReconcileReferenceGrant, ReconcileHTTPRoute

\* The steps that delete an object, of a pass, of a user or of the garbage collector.
LEMMA OwnersDropped ==
  ASSUME ClusterOK, WorkerOK, PassInv, UNCHANGED <<routers, uids>>,
         \/ DeleteStaleRoute \/ DeleteStaleGrant \/ DeleteManagedGateway
         \/ \E k \in RouteKeys : CollectRoute(k) \/ UserDeletesRoute(k)
         \/ \E g \in GrantKeys : CollectGrant(g) \/ UserDeletesGrant(g)
         \/ \E n \in GatewayNamespaces : CollectGateway(n) \/ UserDeletesGateway(n)
  PROVE  LivesKept /\ (OwnersKept \/ \E u \in Managed : Dropped(u))
<1>l. LivesKept
  BY SameLifeRefl DEF LivesKept, SameLives
<1>1. ASSUME NEW k \in RouteKeys, routes' = [routes EXCEPT ![k] = NoObject],
             UNCHANGED <<gateways, grants>>
      PROVE  \E u \in Managed : Dropped(u)
  <2>1. \A t \in Managed : Owner(t)' = IF t = <<"HTTPRoute", k>> THEN OwnerIn(NoObject) ELSE Owner(t)
    BY <1>1, RouteOwner
  <2> QED
    BY <2>1, ManagedKinds DEF Dropped, OwnerIn
<1>2. ASSUME NEW g \in GrantKeys, grants' = [grants EXCEPT ![g] = NoObject],
             UNCHANGED <<gateways, routes>>
      PROVE  \E u \in Managed : Dropped(u)
  <2>1. \A t \in Managed :
          Owner(t)' = IF t = <<"ReferenceGrant", g>> THEN OwnerIn(NoObject) ELSE Owner(t)
    BY <1>2, GrantOwner
  <2> QED
    BY <2>1, ManagedKinds DEF Dropped, OwnerIn
<1>3. ASSUME NEW n \in GatewayNamespaces, gateways' = [gateways EXCEPT ![n] = NoObject],
             UNCHANGED <<routes, grants>>
      PROVE  \E u \in Managed : Dropped(u)
  <2>1. \A t \in Managed : Owner(t)' = IF t = <<"Gateway", n>> THEN NoObject ELSE Owner(t)
    BY <1>3, GatewayOwner
  <2> QED
    BY <2>1, ManagedKinds DEF Dropped
<1>4. CASE DeleteStaleRoute
  <2>1. PICK k \in pass.stale : routes' = [routes EXCEPT ![k] = NoObject]
    BY <1>4 DEF DeleteStaleRoute
  <2>2. k \in RouteKeys /\ UNCHANGED <<gateways, grants>>
    BY <1>4 DEF DeleteStaleRoute, PassInv, Fits
  <2> QED
    BY <1>l, <1>1, <2>1, <2>2
<1>5. CASE DeleteStaleGrant
  <2>1. PICK g \in pass.stale : grants' = [grants EXCEPT ![g] = NoObject]
    BY <1>5 DEF DeleteStaleGrant
  <2>2. g \in GrantKeys /\ UNCHANGED <<gateways, routes>>
    BY <1>5 DEF DeleteStaleGrant, PassInv, Fits
  <2> QED
    BY <1>l, <1>2, <2>1, <2>2
<1>6. CASE DeleteManagedGateway
  <2> DEFINE n == snap.spec.gateway
  <2>1. pc = "deleteGateway" /\ UNCHANGED <<routes, grants>>
    BY <1>6 DEF DeleteManagedGateway
  <2>2. n \in GatewayNamespaces
    BY <2>1, RouterParts DEF WorkerOK
  <2>3. gateways' = gateways \/ gateways' = [gateways EXCEPT ![n] = NoObject]
    BY <1>6 DEF DeleteManagedGateway
  <2> QED
    BY <1>l, <1>3, <2>1, <2>2, <2>3, OwnersUntouched
<1>7. CASE \E k \in RouteKeys : CollectRoute(k) \/ UserDeletesRoute(k)
  BY <1>l, <1>1, <1>7 DEF CollectRoute, UserDeletesRoute
<1>8. CASE \E g \in GrantKeys : CollectGrant(g) \/ UserDeletesGrant(g)
  BY <1>l, <1>2, <1>8 DEF CollectGrant, UserDeletesGrant
<1>9. CASE \E n \in GatewayNamespaces : CollectGateway(n) \/ UserDeletesGateway(n)
  BY <1>l, <1>3, <1>9 DEF CollectGateway, UserDeletesGateway
<1> QED
  BY <1>4, <1>5, <1>6, <1>7, <1>8, <1>9

\* Users create, edit and delete CellRouters.
LEMMA LivesOfUsers ==
  ASSUME ClusterOK, PinInv, NEW r \in Routers,
         \/ \E spec \in RouterSpecs[r] \ {NoObject} : CreateRouter(r, spec) \/ EditRouter(r, spec)
         \/ DeleteRouter(r)
  PROVE  LivesKept \/ LifeChange(r)
<1>t. uids[r] \in Nat /\ uids \in [Routers \cup Placements -> Nat]
  BY DEF ClusterOK
<1>1. ASSUME NEW spec \in RouterSpecs[r] \ {NoObject}, CreateRouter(r, spec) PROVE LifeChange(r)
  <2> DEFINE new == NewRouter(spec, uids[r] + 1)
  <2>1. new \in Router
    BY <1>t, SpecsAssumption
    DEF NewRouter, Router, EmptyRouterStatus, RouterStatus, Absent, Condition
  <2>2. new # NoObject /\ ~new.deleting /\ ~new.finalizer /\ new.uid = uids[r] + 1
    BY <2>1, SentinelAssumption DEF NewRouter
  <2>3. routers[r] = NoObject /\ routers' = [routers EXCEPT ![r] = new]
    BY <1>1 DEF CreateRouter
  <2>4. uids'[r] = uids[r] + 1 /\ \A q \in Routers \ {r} : uids'[q] = uids[q]
    BY <1>t, <1>1 DEF CreateRouter
  <2> HIDE DEF new
  <2> QED
    BY <2>2, <2>3, <2>4, OneLife DEF LifeChange, Born
<1>2. ASSUME NEW spec \in RouterSpecs[r] \ {NoObject}, EditRouter(r, spec) PROVE LivesKept
  <2> DEFINE new == [routers[r] EXCEPT !.spec = spec, !.generation = routers[r].generation + 1]
  <2>1. routers[r] \in Router /\ routers[r] # NoObject /\ spec \in RouterSpec
    BY <1>2, SpecsAssumption DEF ClusterOK, EditRouter
  <2>2. routers[r].generation + 1 \in Nat
    BY <2>1 DEF Router
  <2>3. /\ new \in Router /\ new.uid = routers[r].uid /\ new.deleting = routers[r].deleting
        /\ new.finalizer = routers[r].finalizer
    BY <2>1, <2>2 DEF Router
  <2>4. new # NoObject
    BY <2>3, SentinelAssumption
  <2>5. routers' = [routers EXCEPT ![r] = new] /\ uids' = uids
    BY <1>2 DEF EditRouter
  <2> HIDE DEF new
  <2>6. SameLife(routers[r], new)
    BY <2>1, <2>3, <2>4 DEF SameLife
  <2> QED
    BY <2>5, <2>6, OneLife DEF LivesKept, SameLives
<1>3. ASSUME DeleteRouter(r) PROVE LifeChange(r)
  <2> DEFINE new == [routers[r] EXCEPT !.deleting = TRUE, !.generation = routers[r].generation + 1]
  <2>1. routers[r] \in Router /\ routers[r] # NoObject /\ ~routers[r].deleting
    BY <1>3 DEF ClusterOK, DeleteRouter
  <2>2. routers[r].generation + 1 \in Nat
    BY <2>1 DEF Router
  <2>3. new \in Router /\ new.deleting /\ new.uid = routers[r].uid /\ new.finalizer = routers[r].finalizer
    BY <2>1, <2>2 DEF Router
  <2>4. new # NoObject
    BY <2>3, SentinelAssumption
  <2>5. /\ uids' = uids
        /\ IF routers[r].finalizer THEN routers' = [routers EXCEPT ![r] = new]
                                   ELSE routers' = [routers EXCEPT ![r] = NoObject]
    BY <1>3 DEF DeleteRouter
  <2> HIDE DEF new
  <2> QED
    BY <2>1, <2>3, <2>4, <2>5, OneLife DEF LifeChange, Gone, Ages
<1> QED
  BY <1>1, <1>2, <1>3

\* A pass adds the finalizer, or removes it, and touches no object meanwhile.
LEMMA LivesOfPasses ==
  ASSUME ClusterOK, WorkerOK, PassInv, PinInv, ReconcileStep
  PROVE  \/ LivesKept
         \/ OwnersKept /\ \E r \in Routers : LifeChange(r)
<1>0. cur \in Routers /\ uids' = uids
  BY StepFrame
<1>1. CASE EnsureFinalizer /\ routers[cur] # NoObject
  <2> DEFINE new == [routers[cur] EXCEPT !.finalizer = TRUE]
  <2>1. routers[cur] \in Router
    BY <1>0, <1>1 DEF ClusterOK
  <2>2. /\ new \in Router /\ new.uid = routers[cur].uid /\ new.finalizer
        /\ new.deleting = routers[cur].deleting
    BY <2>1 DEF Router
  <2>3. new # NoObject
    BY <2>2, SentinelAssumption
  <2>4. routers' = [routers EXCEPT ![cur] = new] /\ UNCHANGED <<gateways, routes, grants>>
    BY <1>1 DEF EnsureFinalizer, managedVars
  <2> HIDE DEF new
  <2>5. OwnersKept
    BY <2>4, OwnersUntouched
  <2>6. CASE routers[cur].finalizer
    <3>1. new.finalizer = routers[cur].finalizer
      BY <2>1, <2>2, <2>6 DEF Router
    <3>2. SameLife(routers[cur], new)
      BY <1>1, <2>2, <2>3, <3>1 DEF SameLife
    <3> QED
      BY <1>0, <2>4, <3>2, OneLife DEF LivesKept, SameLives
  <2>7. CASE ~routers[cur].finalizer
    <3>1. ~routers[cur].deleting
      BY <1>0, <1>1, <2>7 DEF PinInv, DeletingHasFinalizer
    <3>2. /\ routers'[cur] = new
          /\ \A q \in Routers \ {cur} : SameLife(routers[q], routers'[q]) /\ uids'[q] = uids[q]
      BY <1>0, <2>4, OneLife
    <3>3. Ages(cur) /\ ~routers'[cur].deleting
      BY <1>0, <1>1, <2>2, <2>3, <3>1, <3>2 DEF Ages
    <3> QED
      BY <1>0, <2>5, <2>7, <3>1, <3>2, <3>3 DEF LifeChange
  <2> QED
    BY <2>6, <2>7
<1>2. CASE RemoveFinalizer /\ routers[cur] # NoObject
  <2>1. OwnersKept
    BY <1>2, OwnersUntouched DEF RemoveFinalizer, managedVars
  <2>2. CASE SameLives
    BY <1>0, <2>2 DEF LivesKept
  <2>3. CASE routers[cur].deleting /\ routers' = [routers EXCEPT ![cur] = NoObject]
    BY <1>0, <1>2, <2>1, <2>3, OneLife DEF LifeChange, Gone
  <2> QED
    BY <1>2, <2>2, <2>3, RemovesDeleted
<1>3. CASE SameLives
  BY <1>0, <1>3 DEF LivesKept
<1> QED
  BY <1>1, <1>2, <1>3, StepFrame

\* Every step changes lives, or one owner, or neither.
LEMMA OwnershipSteps ==
  ASSUME TypeOK, PassInv, PinInv, [Next]_vars
  PROVE  OwnershipStep
<1> USE DEF inputVars, managedVars, cacheVars, workerVars, envVars, Undisturbed
<1>t. ClusterOK /\ WorkerOK
  BY TypeParts
<1>u. ASSUME UNCHANGED <<routers, gateways, routes, grants>>, \A r \in Routers : uids'[r] = uids[r]
      PROVE  OwnershipStep
  BY <1>u, OwnersUntouched, SameLifeRefl DEF OwnershipStep, LivesKept, SameLives
<1>1. CASE ReconcileGateway \/ ReconcileReferenceGrant \/ ReconcileHTTPRoute
  BY <1>1, <1>t, OwnersWritten DEF OwnershipStep
<1>2. CASE DeleteStaleRoute \/ DeleteStaleGrant \/ DeleteManagedGateway
  <2>1. UNCHANGED <<routers, uids>>
    BY <1>2 DEF DeleteStaleRoute, DeleteStaleGrant, DeleteManagedGateway
  <2> QED
    BY <1>2, <1>t, <2>1, OwnersDropped DEF OwnershipStep
<1>3. CASE \/ EnsureFinalizer \/ ReconcileGatewayNamespace \/ BuildRoutePlans
           \/ PatchInvalidPlacement \/ ResolveBackends \/ PatchPlacement \/ ListRoutes
           \/ ListGrants \/ PatchStatus \/ PatchFailure \/ RemoveFinalizer
  <2>1. UNCHANGED <<gateways, routes, grants>>
    BY <1>3
    DEF EnsureFinalizer, ReconcileGatewayNamespace, BuildRoutePlans, PatchInvalidPlacement,
        ResolveBackends, PatchPlacement, ListRoutes, ListGrants, PatchStatus, PatchFailure,
        RemoveFinalizer
  <2>2. ReconcileStep
    BY <1>3 DEF ReconcileStep
  <2> QED
    BY <1>t, <2>1, <2>2, OwnersUntouched, LivesOfPasses DEF OwnershipStep
<1>4. CASE UNCHANGED vars \/ Informers \/ \E r \in Routers : StartReconcile(r)
  BY <1>4, <1>u
  DEF vars, Informers, SyncRouter, SyncPlacement, SyncCell, SyncGateway, SyncRoute, SyncGrant,
      StartReconcile
<1>5. ASSUME NEW k \in RouteKeys, ReportRoute(k) PROVE OwnershipStep
  <2> DEFINE new == [routes[k] EXCEPT !.parents = Report(k)]
  <2>1. routes[k] \in HTTPRoute /\ Report(k) \in SUBSET ParentStatus
    BY <1>t, <1>5 DEF ClusterOK, ReportRoute, Report, ParentStatus, Granted
  <2>2. new \in HTTPRoute /\ new.owner = routes[k].owner
    BY <2>1 DEF HTTPRoute
  <2>3. OwnerIn(new) = OwnerIn(routes[k])
    BY <1>5, <2>2, SentinelAssumption DEF ReportRoute, OwnerIn
  <2>4. /\ routes' = [routes EXCEPT ![k] = new]
        /\ UNCHANGED <<routers, uids, gateways, grants>>
    BY <1>5 DEF ReportRoute
  <2> HIDE DEF new
  <2>5. \A t \in Managed : Owner(t)' = IF t = <<"HTTPRoute", k>> THEN OwnerIn(new) ELSE Owner(t)
    BY <1>t, <2>4, RouteOwner
  <2>6. Owner(<<"HTTPRoute", k>>) = OwnerIn(routes[k])
    BY OwnersOf
  <2>7. OwnersKept
    BY <2>3, <2>5, <2>6 DEF OwnersKept
  <2> QED
    BY <2>4, <2>7, SameLifeRefl DEF OwnershipStep, LivesKept, SameLives
<1>6. CASE \/ \E k \in RouteKeys : CollectRoute(k) \/ UserDeletesRoute(k)
           \/ \E g \in GrantKeys : CollectGrant(g) \/ UserDeletesGrant(g)
           \/ \E n \in GatewayNamespaces : CollectGateway(n) \/ UserDeletesGateway(n)
  <2>1. UNCHANGED <<routers, uids>>
    BY <1>6 DEF CollectRoute, UserDeletesRoute, CollectGrant, UserDeletesGrant, CollectGateway,
                UserDeletesGateway
  <2> QED
    BY <1>6, <1>t, <2>1, OwnersDropped DEF OwnershipStep
<1>7. ASSUME NEW r \in Routers,
             \/ \E spec \in RouterSpecs[r] \ {NoObject} : CreateRouter(r, spec) \/ EditRouter(r, spec)
             \/ DeleteRouter(r)
      PROVE  OwnershipStep
  <2>1. UNCHANGED <<gateways, routes, grants>>
    BY <1>7 DEF CreateRouter, EditRouter, DeleteRouter
  <2> QED
    BY <1>7, <1>t, <2>1, OwnersUntouched, LivesOfUsers DEF OwnershipStep
<1>8. ASSUME NEW p \in Placements,
             \/ \E spec \in PlacementSpecs[p] \ {NoObject} :
                  CreatePlacement(p, spec) \/ EditPlacement(p, spec)
             \/ DeletePlacement(p)
      PROVE  OwnershipStep
  <2>1. UNCHANGED <<routers, gateways, routes, grants>>
    BY <1>8 DEF CreatePlacement, EditPlacement, DeletePlacement
  <2>2. uids' = uids \/ uids' = [uids EXCEPT ![p] = uids[p] + 1]
    BY <1>8 DEF CreatePlacement, EditPlacement, DeletePlacement
  <2>3. \A r \in Routers : uids'[r] = uids[r]
    BY <1>t, <2>2, NamesAssumption DEF ClusterOK
  <2> QED
    BY <1>u, <2>1, <2>3
<1>9. CASE \/ \E c \in Cells : \E view \in CellViews[c] : CellChanges(c, view)
           \/ CallFails \/ Restart
  BY <1>9, <1>u DEF CellChanges, CallFails, Restart
<1> QED
  BY <1>1, <1>2, <1>3, <1>4, <1>5, <1>6, <1>7, <1>8, <1>9
  DEF Next, ReconcileStep, Cluster, Environment

-----------------------------------------------------------------------------
(* The inductive invariant.                                                *)

\* ref is to a CellRouter that lives after the step.
StillAlive(ref) == routers'[ref.name] # NoObject /\ routers'[ref.name].uid = ref.uid

\* An owner reference is alive after a step that kept lives iff it was before.
LEMMA AliveKept ==
  ASSUME NEW ref \in OwnerRef, SameLife(routers[ref.name], routers'[ref.name])
  PROVE  StillAlive(ref) <=> OwnerAlive(ref)
  BY DEF StillAlive, OwnerAlive, SameLife

\* The invariant speaks of the owners after a step in terms of StillAlive.
LEMMA AliveAfter == \A t : OwnerAlive(Owner(t))' <=> StillAlive(Owner(t)')
  BY DEF OwnerAlive, StillAlive

\* A pass that takes an object does so for a CellRouter under its finalizer.
LEMMA TakerManaged ==
  ASSUME ClusterOK, WorkerOK, PassInv, PinInv, pc \in NormalSteps
  PROVE  /\ cur \in Routers /\ snap \in Router /\ routers[cur] \in Router
         /\ Live(cur) /\ routers[cur].uid = snap.uid /\ routers[cur].finalizer
         /\ Ref(cur, snap) \in OwnerRef /\ Ref(cur, snap).name = cur
         /\ Ref(cur, snap).uid = snap.uid /\ Ref(cur, snap) # NoObject /\ OwnerAlive(Ref(cur, snap))
<1>1. pc # "idle" /\ ~pass.finalizing
  BY DEF NormalSteps, PassInv, Fits
<1>2. cur \in Routers /\ snap \in Router
  BY <1>1 DEF WorkerOK
<1>3. Live(cur) /\ routers[cur].uid = snap.uid /\ routers[cur].finalizer
  BY <1>1 DEF PinInv, FinalizerPinsPass
<1>4. Ref(cur, snap) \in OwnerRef /\ Ref(cur, snap).name = cur /\ Ref(cur, snap).uid = snap.uid
  BY <1>2, RouterParts DEF Ref
<1>5. Ref(cur, snap) # NoObject
  BY <1>4, SentinelAssumption DEF Gateway
<1>6. OwnerAlive(Ref(cur, snap)) /\ routers[cur] \in Router
  BY <1>2, <1>3, <1>4 DEF OwnerAlive, Live, ClusterOK
<1> QED
  BY <1>2, <1>3, <1>4, <1>5, <1>6

\* UIDs stay handed out.
LEMMA UidsNext ==
  ASSUME TypeOK, PassInv, PinInv, UidsHandedOut, OwnershipStep
  PROVE  UidsHandedOut'
<1>t. ClusterOK /\ WorkerOK
  BY TypeParts
<1>o. \A t \in Managed : Owner(t) # NoObject => Owner(t).name \in Routers /\ Owner(t).uid \in Nat
  BY <1>t, OwnerType
<1>n. \A r \in Routers : uids[r] \in Nat
  BY <1>t DEF ClusterOK
<1>1. \A r \in Routers : uids'[r] \in {uids[r], uids[r] + 1}
  BY DEF OwnershipStep, LivesKept, LifeChange, Born, Gone, Ages
<1>2. \A r \in Routers : routers'[r] # NoObject =>
        \/ routers[r] # NoObject /\ routers'[r].uid = routers[r].uid
        \/ routers'[r].uid = uids'[r] /\ uids'[r] \in Nat
  BY <1>n DEF OwnershipStep, LivesKept, SameLives, SameLife, LifeChange, Born, Gone, Ages
<1>3. \A r \in Routers : routers[r] # NoObject => routers[r].uid \in Nat /\ routers[r].uid <= uids[r]
  BY <1>t, RouterParts DEF UidsHandedOut, Live, ClusterOK
<1>4. \A r \in Routers : routers'[r] # NoObject => routers'[r].uid <= uids'[r]
  BY <1>1, <1>2, <1>3, <1>n
<1>5. \A t \in Managed : Owner(t)' # NoObject =>
        \/ Owner(t) # NoObject /\ Owner(t)' = Owner(t)
        \/ pc \in NormalSteps /\ Owner(t)' = Ref(cur, snap)
  BY DEF OwnershipStep, OwnersKept, Dropped, Taken
<1>6. ASSUME NEW t \in Managed, Owner(t)' # NoObject
      PROVE  Owner(t)'.uid <= uids'[Owner(t)'.name]
  <2>1. CASE Owner(t) # NoObject /\ Owner(t)' = Owner(t)
    BY <1>1, <1>n, <1>o, <2>1 DEF UidsHandedOut
  <2>2. CASE pc \in NormalSteps /\ Owner(t)' = Ref(cur, snap)
    <3>1. /\ cur \in Routers /\ Live(cur) /\ routers[cur].uid = snap.uid
          /\ Ref(cur, snap).name = cur /\ Ref(cur, snap).uid = snap.uid
      BY <1>t, <2>2, TakerManaged
    <3> QED
      BY <1>1, <1>3, <1>n, <2>2, <3>1 DEF Live
  <2> QED
    BY <1>5, <1>6, <2>1, <2>2
<1> QED
  BY <1>4, <1>6 DEF UidsHandedOut, Live

\* What a living CellRouter owns stays under its finalizer.
LEMMA OwnedNext ==
  ASSUME TypeOK, PassInv, PinInv, UidsHandedOut, OwnedImpliesFinalizer, OwnershipStep
  PROVE  OwnedImpliesFinalizer'
<1>t. ClusterOK /\ WorkerOK
  BY TypeParts
<1>n. \A r \in Routers : uids[r] \in Nat
  BY <1>t DEF ClusterOK
<1> SUFFICES ASSUME NEW t \in Managed, Owner(t)' # NoObject, StillAlive(Owner(t)')
             PROVE  routers'[Owner(t)'.name].finalizer
  BY AliveAfter DEF OwnedImpliesFinalizer
<1>1. CASE LivesKept /\ Owner(t)' = Owner(t)
  <2>1. Owner(t) \in OwnerRef /\ Owner(t).name \in Routers
    BY <1>1, <1>t, OwnerType
  <2>2. OwnerAlive(Owner(t))
    BY <1>1, <2>1, AliveKept DEF LivesKept, SameLives
  <2>3. routers[Owner(t).name].finalizer /\ routers[Owner(t).name] # NoObject
    BY <1>1, <2>2 DEF OwnedImpliesFinalizer, OwnerAlive
  <2> QED
    BY <1>1, <2>1, <2>3 DEF LivesKept, SameLives, SameLife
<1>2. CASE LivesKept /\ pc \in NormalSteps /\ Owner(t)' = Ref(cur, snap)
  BY <1>2, <1>t, TakerManaged DEF LivesKept, SameLives, SameLife, Live
<1>3. ASSUME OwnersKept, NEW r \in Routers, LifeChange(r) PROVE routers'[Owner(t)'.name].finalizer
  <2>1. Owner(t)' = Owner(t)
    BY <1>3 DEF OwnersKept
  <2>2. Owner(t) \in OwnerRef /\ Owner(t).name \in Routers /\ Owner(t).uid \in Nat
    BY <1>t, <2>1, OwnerType
  <2>3. CASE Owner(t).name # r
    <3>1. SameLife(routers[Owner(t).name], routers'[Owner(t).name])
      BY <1>3, <2>2, <2>3 DEF LifeChange
    <3>2. OwnerAlive(Owner(t))
      BY <2>1, <2>2, <3>1, AliveKept
    <3> QED
      BY <2>1, <3>1, <3>2 DEF OwnedImpliesFinalizer, OwnerAlive, SameLife
  <2>4. CASE Owner(t).name = r
    <3>1. ~Born(r)
      <4>1. Owner(t).uid <= uids[r]
        BY <2>1, <2>4 DEF UidsHandedOut
      <4> QED
        BY <1>n, <2>1, <2>2, <2>4, <4>1 DEF Born, StillAlive
    <3>2. ~Gone(r)
      BY <2>1, <2>4 DEF Gone, StillAlive
    <3> QED
      BY <1>3, <2>1, <2>4, <3>1, <3>2 DEF LifeChange, Ages
  <2> QED
    BY <2>3, <2>4
<1> QED
  BY <1>1, <1>2, <1>3 DEF OwnershipStep, OwnersKept, Dropped, Taken

\* The invariant holds at the start.
LEMMA OwnershipInit == Init => IInv
<1> SUFFICES ASSUME Init PROVE IInv
  OBVIOUS
<1>1. TypeOK /\ PassInv /\ PinInv
  BY TypeInit, TypeParts, PinInit
<1>2. \A t \in Managed : Owner(t) = NoObject
  BY ManagedKinds, OwnersOf DEF Init, OwnerIn
<1>3. \A r \in Routers : Live(r) => routers[r].uid = 1 /\ uids[r] = 1
  BY DEF Init, NewRouter, Live
<1> QED
  BY <1>1, <1>2, <1>3 DEF IInv, UidsHandedOut, OwnedImpliesFinalizer

\* Every step keeps it.
LEMMA OwnershipNext ==
  ASSUME IInv, [Next]_vars
  PROVE  IInv' /\ OwnershipStep
<1>1. TypeOK /\ PassInv /\ PinInv /\ UidsHandedOut /\ OwnedImpliesFinalizer
  BY DEF IInv
<1>2. TypeOK' /\ PassInv' /\ PinInv'
  BY <1>1, NextType, PinNext
<1>3. OwnershipStep
  BY <1>1, OwnershipSteps
<1>4. UidsHandedOut' /\ OwnedImpliesFinalizer'
  BY <1>1, <1>3, UidsNext, OwnedNext
<1> QED
  BY <1>2, <1>3, <1>4 DEF IInv

\* A Gateway, HTTPRoute or ReferenceGrant whose owner reference names a living
\* CellRouter belongs to one under the operator's finalizer: deleting that router
\* always runs reconcileDeletion, and never leaves it to the garbage collector alone.
THEOREM OwnedUnderFinalizer == Spec => []OwnedImpliesFinalizer
<1>1. IInv /\ [Next]_vars => IInv'
  BY OwnershipNext
<1>2. IInv => OwnedImpliesFinalizer
  BY DEF IInv
<1> QED
  BY <1>1, <1>2, OwnershipInit, PTL DEF Spec

-----------------------------------------------------------------------------
(* Every step is a step of the ownership protocol, or none.                *)

\* The three variables of the protocol, as the reconciler shows them.
Holder(t) == IF Owner(t) = NoObject THEN NoObject ELSE Owner(t).name
Orphan(t) == Owner(t) # NoObject /\ ~OwnerAlive(Owner(t))

phaseBar == [r \in Routers |-> Phase(r)]
holderBar == [t \in Managed |-> Holder(t)]
orphansBar == {t \in Managed : Orphan(t)}

\* The actions of the protocol, in these terms: nothing happens, ...
LEMMA AbstractStutter ==
  ASSUME UNCHANGED <<phaseBar, holderBar, orphansBar>> PROVE UNCHANGED Contract!vars
  BY DEF Contract!vars, phaseBar, holderBar, orphansBar, Holder, Orphan

\* ... a CellRouter is created, managed or deleted, ...
LEMMA AbstractLife ==
  ASSUME NEW n \in Routers, UNCHANGED <<holderBar, orphansBar>>,
         \/ phaseBar[n] = "absent" /\ phaseBar' = [phaseBar EXCEPT ![n] = "new"]
         \/ phaseBar[n] = "new" /\ phaseBar' = [phaseBar EXCEPT ![n] = "absent"]
         \/ phaseBar[n] = "new" /\ phaseBar' = [phaseBar EXCEPT ![n] = "managed"]
         \/ phaseBar[n] = "managed" /\ phaseBar' = [phaseBar EXCEPT ![n] = "deleting"]
  PROVE  Contract!Next
  BY DEF Contract!Next, Contract!Create, Contract!Vanish, Contract!Manage, Contract!Delete,
         Contract!Becomes, phaseBar, holderBar, orphansBar, Holder, Orphan

\* ... a deletion ends, ...
LEMMA AbstractFinalize ==
  ASSUME NEW n \in Routers, phaseBar[n] = "deleting", phaseBar' = [phaseBar EXCEPT ![n] = "absent"],
         UNCHANGED holderBar,
         orphansBar' = orphansBar \cup {t \in Managed : holderBar[t] = n}
  PROVE  Contract!Next
  BY DEF Contract!Next, Contract!Finalize, Contract!Becomes, phaseBar, holderBar, orphansBar,
         Holder, Orphan

\* ... an object is acquired, ...
LEMMA AbstractAcquire ==
  ASSUME NEW n \in Routers, NEW t \in Managed, phaseBar[n] \in {"managed", "deleting"},
         holderBar[t] = NoObject \/ (holderBar[t] = n /\ t \in orphansBar),
         holderBar' = [holderBar EXCEPT ![t] = n], orphansBar' = orphansBar \ {t},
         UNCHANGED phaseBar
  PROVE  Contract!Next
  BY DEF Contract!Next, Contract!Acquire, phaseBar, holderBar, orphansBar, Holder, Orphan

\* ... or objects go.
LEMMA AbstractRelease ==
  ASSUME NEW t \in Managed,
         holderBar' = [u \in Managed |-> IF u \in {t} THEN NoObject ELSE holderBar[u]],
         orphansBar' = orphansBar \ {t}, UNCHANGED phaseBar
  PROVE  Contract!Next
<1>1. Contract!Release({t})
  BY DEF Contract!Release, phaseBar, holderBar, orphansBar, Holder, Orphan
<1> QED
  BY <1>1 DEF Contract!Next

\* A step that keeps lives keeps phases; one that changes one life changes one phase.
LEMMA PhaseKept ==
  ASSUME NEW r \in Routers, SameLife(routers[r], routers'[r])
  PROVE  Phase(r)' = Phase(r)
  BY DEF Phase, Live, SameLife

\* Who holds t, and whether it is an orphan, after a step that keeps its owner.
LEMMA HolderKept ==
  ASSUME ClusterOK, NEW t \in Managed, Owner(t)' = Owner(t)
  PROVE  /\ Holder(t)' = Holder(t)
         /\ Owner(t) # NoObject /\ SameLife(routers[Owner(t).name], routers'[Owner(t).name]) =>
              (Orphan(t)' <=> Orphan(t))
         /\ Owner(t) = NoObject => ~Orphan(t)' /\ ~Orphan(t)
<1>1. Holder(t)' = Holder(t)
  BY DEF Holder
<1>2. ASSUME Owner(t) # NoObject, SameLife(routers[Owner(t).name], routers'[Owner(t).name])
      PROVE  Orphan(t)' <=> Orphan(t)
  <2>1. Owner(t) \in OwnerRef
    BY <1>2, OwnerType
  <2> QED
    BY <1>2, <2>1, AliveKept, AliveAfter DEF Orphan
<1>3. Owner(t) = NoObject => ~Orphan(t)' /\ ~Orphan(t)
  BY DEF Orphan
<1> QED
  BY <1>1, <1>2, <1>3

\* Steps of the reconciler that keep all lives.
LEMMA StepsWithinLives ==
  ASSUME IInv, LivesKept,
         OwnersKept \/ \E u \in Managed : Dropped(u) \/ Taken(u)
  PROVE  Contract!Next \/ UNCHANGED Contract!vars
<1>t. ClusterOK /\ WorkerOK /\ PassInv /\ PinInv
  BY TypeParts DEF IInv
<1>p. phaseBar' = phaseBar
  BY PhaseKept DEF phaseBar, LivesKept, SameLives
<1>k. \A t \in Managed : Owner(t)' = Owner(t) => Holder(t)' = Holder(t) /\ (Orphan(t)' <=> Orphan(t))
  <2> SUFFICES ASSUME NEW t \in Managed, Owner(t)' = Owner(t)
               PROVE  Holder(t)' = Holder(t) /\ (Orphan(t)' <=> Orphan(t))
    OBVIOUS
  <2>1. Owner(t) # NoObject => Owner(t).name \in Routers
    BY <1>t, OwnerType
  <2> QED
    BY <1>t, <2>1, HolderKept DEF LivesKept, SameLives
<1>1. CASE OwnersKept
  <2>1. holderBar' = holderBar /\ orphansBar' = orphansBar
    BY <1>1, <1>k DEF OwnersKept, holderBar, orphansBar
  <2> QED
    BY <1>p, <2>1, AbstractStutter
<1>2. ASSUME NEW u \in Managed, Dropped(u) PROVE Contract!Next
  <2>1. Holder(u)' = NoObject /\ ~Orphan(u)'
    BY <1>2 DEF Dropped, Holder, Orphan
  <2>2. \A t \in Managed \ {u} : Holder(t)' = Holder(t) /\ (Orphan(t)' <=> Orphan(t))
    BY <1>2, <1>k DEF Dropped
  <2>3. holderBar' = [t \in Managed |-> IF t \in {u} THEN NoObject ELSE holderBar[t]]
    BY <2>1, <2>2 DEF holderBar
  <2>4. orphansBar' = orphansBar \ {u}
    BY <2>1, <2>2 DEF orphansBar
  <2> QED
    BY <1>p, <2>3, <2>4, AbstractRelease
<1>3. ASSUME NEW u \in Managed, Taken(u) PROVE Contract!Next \/ UNCHANGED Contract!vars
  <2>0. pc \in NormalSteps
    BY <1>3 DEF Taken
  <2>m. /\ cur \in Routers /\ routers[cur] \in Router
        /\ Live(cur) /\ routers[cur].uid = snap.uid /\ routers[cur].finalizer
        /\ Ref(cur, snap) \in OwnerRef /\ Ref(cur, snap).name = cur
        /\ Ref(cur, snap).uid = snap.uid /\ Ref(cur, snap) # NoObject /\ OwnerAlive(Ref(cur, snap))
    BY <1>t, <2>0, TakerManaged
  <2>1. /\ Owner(u)' = Ref(cur, snap)
        /\ \A t \in Managed \ {u} : Owner(t)' = Owner(t)
        /\ Owner(u) = NoObject \/ Owner(u).name = cur
    BY <1>3 DEF Taken
  <2>2. Holder(u)' = cur /\ (Holder(u) = NoObject \/ Holder(u) = cur)
    BY <2>1, <2>m DEF Holder
  <2>3. StillAlive(Ref(cur, snap))
    BY <2>m, AliveKept DEF LivesKept, SameLives
  <2>4. ~Orphan(u)'
    BY <2>1, <2>3, AliveAfter DEF Orphan
  <2>5. \A t \in Managed \ {u} : Holder(t)' = Holder(t) /\ (Orphan(t)' <=> Orphan(t))
    BY <1>k, <2>1
  <2>6. orphansBar' = orphansBar \ {u}
    BY <2>4, <2>5 DEF orphansBar
  <2>7. holderBar' = [holderBar EXCEPT ![u] = cur]
    BY <2>2, <2>5 DEF holderBar
  <2>8. CASE Holder(u) = cur /\ ~Orphan(u)
    <3>1. holderBar' = holderBar /\ orphansBar' = orphansBar
      BY <2>2, <2>4, <2>5, <2>8 DEF holderBar, orphansBar
    <3> QED
      BY <1>p, <3>1, AbstractStutter
  <2>9. CASE Holder(u) = NoObject \/ (Holder(u) = cur /\ Orphan(u))
    <3>1. phaseBar[cur] \in {"managed", "deleting"}
      BY <2>m, RouterParts DEF phaseBar, Phase
    <3>2. holderBar[u] = NoObject \/ (holderBar[u] = cur /\ u \in orphansBar)
      BY <2>9 DEF holderBar, orphansBar
    <3> QED
      BY <1>p, <2>m, <2>6, <2>7, <3>1, <3>2, AbstractAcquire
  <2> QED
    BY <2>2, <2>8, <2>9
<1> QED
  BY <1>1, <1>2, <1>3

\* Steps that change the life of one CellRouter.
LEMMA StepsOfLife ==
  ASSUME IInv, OwnersKept, NEW r \in Routers, LifeChange(r)
  PROVE  Contract!Next
<1>t. ClusterOK /\ PinInv /\ UidsHandedOut /\ OwnedImpliesFinalizer
  BY TypeParts DEF IInv
<1>n. uids[r] \in Nat /\ (routers[r] # NoObject => routers[r] \in Router)
  BY <1>t DEF ClusterOK
<1>o. \A t \in Managed : Owner(t) # NoObject =>
        Owner(t) \in OwnerRef /\ Owner(t).name \in Routers /\ Owner(t).uid \in Nat
  BY <1>t, OwnerType
<1>h. holderBar' = holderBar
  BY <1>t, HolderKept DEF OwnersKept, holderBar
<1>p. phaseBar' = [phaseBar EXCEPT ![r] = Phase(r)']
  BY PhaseKept DEF LifeChange, phaseBar
<1>k. ASSUME NEW t \in Managed, Owner(t) = NoObject \/ Owner(t).name # r
      PROVE  Orphan(t)' <=> Orphan(t)
  BY <1>t, <1>o, <1>k, HolderKept DEF OwnersKept, LifeChange
<1>r. ASSUME NEW t \in Managed, Owner(t) # NoObject, Owner(t).name = r
      PROVE  /\ Orphan(t) <=> ~(routers[r] # NoObject /\ routers[r].uid = Owner(t).uid)
             /\ Orphan(t)' <=> ~(routers'[r] # NoObject /\ routers'[r].uid = Owner(t).uid)
             /\ Owner(t).uid \in Nat /\ Owner(t).uid <= uids[r]
             /\ ~Orphan(t) => routers[r].finalizer
  <2>1. Owner(t)' = Owner(t)
    BY DEF OwnersKept
  <2>2. Orphan(t) <=> ~(routers[r] # NoObject /\ routers[r].uid = Owner(t).uid)
    BY <1>r DEF Orphan, OwnerAlive
  <2>3. Orphan(t)' <=> ~(routers'[r] # NoObject /\ routers'[r].uid = Owner(t).uid)
    BY <1>r, <2>1, AliveAfter DEF Orphan, StillAlive
  <2>4. Owner(t).uid \in Nat /\ Owner(t).uid <= uids[r]
    BY <1>t, <1>o, <1>r DEF UidsHandedOut
  <2>5. ~Orphan(t) => routers[r].finalizer
    BY <1>t, <1>r DEF OwnedImpliesFinalizer, Orphan
  <2> QED
    BY <2>2, <2>3, <2>4, <2>5
<1>1. CASE Born(r)
  <2>1. phaseBar[r] = "absent" /\ Phase(r)' = "new"
    BY <1>1 DEF Born, phaseBar, Phase, Live
  <2>2. \A t \in Managed : Orphan(t)' <=> Orphan(t)
    BY <1>1, <1>k, <1>n, <1>r DEF Born
  <2>3. orphansBar' = orphansBar
    BY <2>2 DEF orphansBar
  <2> QED
    BY <1>h, <1>p, <2>1, <2>3, AbstractLife
<1>2. CASE Gone(r) /\ ~routers[r].finalizer
  <2>0. ~routers[r].deleting
    BY <1>t, <1>2 DEF PinInv, DeletingHasFinalizer, Gone
  <2>1. phaseBar[r] = "new" /\ Phase(r)' = "absent"
    BY <1>2, <2>0 DEF Gone, phaseBar, Phase, Live
  <2>2. \A t \in Managed : Orphan(t)' <=> Orphan(t)
    BY <1>2, <1>k, <1>r DEF Gone
  <2>3. orphansBar' = orphansBar
    BY <2>2 DEF orphansBar
  <2> QED
    BY <1>h, <1>p, <2>1, <2>3, AbstractLife
<1>3. CASE Gone(r) /\ routers[r].deleting
  <2>1. phaseBar[r] = "deleting" /\ Phase(r)' = "absent"
    BY <1>3 DEF Gone, phaseBar, Phase, Live
  <2>2. \A t \in Managed : Orphan(t)' <=> Orphan(t) \/ Holder(t) = r
    <3>1. ASSUME NEW t \in Managed, Holder(t) = r PROVE Orphan(t)'
      <4>1. Owner(t) # NoObject /\ Owner(t).name = r
        BY <3>1, SentinelAssumption DEF Holder
      <4> QED
        BY <1>3, <1>r, <4>1 DEF Gone
    <3>2. ASSUME NEW t \in Managed, Holder(t) # r PROVE Orphan(t)' <=> Orphan(t)
      BY <1>k, <3>2 DEF Holder
    <3> QED
      BY <3>1, <3>2
  <2>3. orphansBar' = orphansBar \cup {t \in Managed : holderBar[t] = r}
    BY <2>2 DEF orphansBar, holderBar
  <2> QED
    BY <1>h, <1>p, <2>1, <2>3, AbstractFinalize
<1>4. CASE /\ Ages(r) /\ ~routers[r].deleting
           /\ \/ ~routers[r].finalizer /\ ~routers'[r].deleting
              \/ routers[r].finalizer /\ routers'[r].deleting
  <2>1. \/ phaseBar[r] = "new" /\ Phase(r)' = "managed"
        \/ phaseBar[r] = "managed" /\ Phase(r)' = "deleting"
    BY <1>4 DEF Ages, phaseBar, Phase, Live
  <2>2. \A t \in Managed : Orphan(t)' <=> Orphan(t)
    BY <1>4, <1>k, <1>r DEF Ages
  <2>3. orphansBar' = orphansBar
    BY <2>2 DEF orphansBar
  <2> QED
    BY <1>h, <1>p, <2>1, <2>3, AbstractLife
<1> QED
  BY <1>1, <1>2, <1>3, <1>4 DEF LifeChange

\* The start is a start of the protocol.
LEMMA AbstractInit == Init => Contract!Init
<1> SUFFICES ASSUME Init PROVE Contract!Init
  OBVIOUS
<1>1. \A r \in Routers : Phase(r) \in {"absent", "new"}
  BY DEF Init, NewRouter, Phase, Live
<1>2. \A t \in Managed : Owner(t) = NoObject
  BY ManagedKinds, OwnersOf DEF Init, OwnerIn
<1>3. phaseBar \in [Routers -> {"absent", "new"}]
  BY <1>1 DEF phaseBar
<1>4. holderBar = [t \in Managed |-> NoObject] /\ orphansBar = {}
  BY <1>2 DEF holderBar, orphansBar, Holder, Orphan
<1> QED
  BY <1>3, <1>4 DEF Contract!Init, phaseBar, holderBar, orphansBar, Holder, Orphan

\* The routing objects keep to the ownership protocol, for any routers, placements,
\* Cells, specs and disturbances: no pass, however stale its caches, writes for a
\* CellRouter that is gone or not under its finalizer, an object never passes from one
\* router to another, and what a finished router leaves behind is an orphan until it
\* is collected or taken over.
THEOREM RouterKeepsOwnership == Spec => Contract!Safety
<1>1. IInv /\ [Next]_vars => IInv' /\ [Contract!Next]_(Contract!vars)
  BY OwnershipNext, StepsWithinLives, StepsOfLife DEF OwnershipStep
<1> QED
  BY <1>1, OwnershipInit, AbstractInit, PTL DEF Spec, Contract!Safety
=============================================================================
