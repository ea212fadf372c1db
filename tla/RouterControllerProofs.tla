----------------------- MODULE RouterControllerProofs -----------------------
(***************************************************************************)
(* What TLAPS proves about the CellRouter reconciler, for any routers,     *)
(* placements, Cells, specs and number of disturbances.                    *)
(***************************************************************************)
EXTENDS RouterController, SequenceTheorems, FiniteSetTheorems, TLAPS

\* What a step of a pass finds in its locals p: a placement to patch, a plan in
\* hand, a grant to write, keys of the right kind to delete.
Fits(step, p) ==
  /\ step \in NormalSteps \cup {"addFinalizer"} => ~p.finalizing
  /\ step \in DeletionSteps => p.finalizing
  /\ step = "invalid" => p.invalid # << >>
  /\ step \in {"resolve", "placement", "grant", "route"} => p.plans # << >>
  /\ step = "placement" => Head(p.plans).isPlacement
  /\ step = "grant" => p.grants # {}
  /\ step = "sweepRoutes" => p.stale \subseteq RouteKeys
  /\ step = "sweepGrants" => p.stale \subseteq GrantKeys

PassInv == Fits(pc, pass)

\* A CellRouter that is being deleted still has its finalizer, on the API server
\* and in the cache.
DeletingHasFinalizer ==
  /\ \A r \in Routers : routers[r] # NoObject /\ routers[r].deleting => routers[r].finalizer
  /\ \A r \in Routers : cRouters[r] # NoObject /\ cRouters[r].deleting => cRouters[r].finalizer

\* A cached CellRouter under finalizer that nobody deletes is the one on the server.
CacheUnderFinalizer ==
  \A r \in Routers :
    cRouters[r] # NoObject /\ cRouters[r].finalizer /\ ~cRouters[r].deleting =>
      Live(r) /\ routers[r].uid = cRouters[r].uid /\ routers[r].finalizer

\* Under finalizer, and nobody deletes it.
Reserved(router) == router # NoObject /\ router.finalizer /\ ~router.deleting

\* A finalization that is seen in the cache or in progress is not of such a router.
FinalizesOnlyDeleted ==
  /\ \A r \in Routers : cRouters[r] # NoObject /\ cRouters[r].deleting => ~Reserved(routers[r])
  /\ pc # "idle" /\ pass.finalizing => ~Reserved(routers[cur]) /\ ~Reserved(cRouters[cur])
  /\ pc = "addFinalizer" /\ cRouters[cur] # NoObject /\ cRouters[cur].deleting =>
       Live(cur) /\ routers[cur].deleting

PinInv ==
  /\ DeletingHasFinalizer
  /\ CacheUnderFinalizer
  /\ FinalizesOnlyDeleted
  /\ FinalizerPinsPass

\* A cached route or grant that still exists on the server has the owner it had, and
\* what a sweep is about to delete by name belongs to the router of the pass.
ApartInv ==
  /\ \A k \in RouteKeys :
       cRoutes[k] # NoObject /\ routes[k] # NoObject =>
         routes[k].owner.name = cRoutes[k].owner.name
  /\ \A g \in GrantKeys :
       cGrants[g] # NoObject /\ grants[g] # NoObject =>
         grants[g].owner.name = cGrants[g].owner.name
  /\ pc = "sweepRoutes" =>
       \A k \in pass.stale : routes[k] # NoObject => routes[k].owner.name = cur
  /\ pc = "sweepGrants" =>
       \A g \in pass.stale : grants[g] # NoObject => grants[g].owner.name = cur

-----------------------------------------------------------------------------
(* The parts of the type invariant: the cluster with its caches, and the    *)
(* worker with the locals of its pass.                                      *)

ClusterOK ==
  /\ routers \in [Routers -> Router \cup {NoObject}]
  /\ cRouters \in [Routers -> Router \cup {NoObject}]
  /\ placements \in [Placements -> Placement \cup {NoObject}]
  /\ cPlacements \in [Placements -> Placement \cup {NoObject}]
  /\ cells \in [Cells -> CellView \cup {NoObject}]
  /\ cCells \in [Cells -> CellView \cup {NoObject}]
  /\ gatewayNamespaces \subseteq GatewayNamespaces
  /\ gateways \in [GatewayNamespaces -> Gateway \cup {NoObject}]
  /\ cGateways \in [GatewayNamespaces -> Gateway \cup {NoObject}]
  /\ routes \in [RouteKeys -> HTTPRoute \cup {NoObject}]
  /\ cRoutes \in [RouteKeys -> HTTPRoute \cup {NoObject}]
  /\ grants \in [GrantKeys -> ReferenceGrant \cup {NoObject}]
  /\ cGrants \in [GrantKeys -> ReferenceGrant \cup {NoObject}]
  /\ uids \in [Routers \cup Placements -> Nat]
  /\ disturbances \in 0..MaxDisturbances

PassOK(p) ==
  /\ p \in Pass
  /\ ToSet(p.invalid) \subseteq NamesIn(p.listed)
  /\ \A plan \in ToSet(p.plans) : plan.isPlacement => plan.name \in NamesIn(p.listed)
  /\ {ReferenceGrantName(g) : g \in p.grants} \subseteq p.expectedGrants

WorkerOK ==
  /\ queue \subseteq Routers
  /\ pc \in Steps
  /\ cur \in Routers \cup {NoObject}
  /\ snap \in Router \cup {NoObject}
  /\ pc # "idle" => cur \in Routers /\ snap \in Router
  /\ PassOK(pass)

\* The type invariant is the conjunction of the two.
LEMMA TypeParts == TypeOK <=> ClusterOK /\ WorkerOK
  BY DEF TypeOK, ClusterOK, WorkerOK, PassOK

-----------------------------------------------------------------------------
(* Types of the helpers.                                                   *)

\* Parts of the objects that the steps use.
LEMMA RouterParts ==
  ASSUME NEW router \in Router, NEW r \in Routers
  PROVE  /\ router # NoObject
         /\ router.spec \in RouterSpec /\ router.spec.gateway \in GatewayNamespaces
         /\ router.status \in RouterStatus
         /\ router.generation \in Nat /\ router.uid \in Nat
         /\ router.deleting \in BOOLEAN /\ router.finalizer \in BOOLEAN
         /\ Ref(r, router) \in OwnerRef
  BY SentinelAssumption DEF Router, RouterSpec, Ref, OwnerRef

\* Each field of a router may be replaced by one of its type.
LEMMA RouterUpdates ==
  ASSUME NEW router \in Router, NEW spec \in RouterSpec, NEW status \in RouterStatus,
         NEW b \in BOOLEAN, NEW n \in Nat
  PROVE  /\ [router EXCEPT !.finalizer = b] \in Router
         /\ [router EXCEPT !.status = status] \in Router
         /\ [router EXCEPT !.spec = spec, !.generation = n] \in Router
         /\ [router EXCEPT !.deleting = b, !.generation = n] \in Router
  BY DEF Router

\* A merge patch takes every field from a well-typed status.
LEMMA MergePatchType ==
  /\ \A a, b, n \in RouterStatus : MergePatch(a, b, n) \in RouterStatus
  /\ \A a, b, n \in PlacementStatus : MergePatch(a, b, n) \in PlacementStatus
  BY DEF MergePatch, RouterStatus, PlacementStatus

\* The Ready condition is well-typed.
LEMMA ReadyType ==
  ASSUME NEW b \in BOOLEAN, NEW gen \in Nat PROVE ReadyCondition(b, gen) \in Condition
  BY DEF ReadyCondition, Condition

\* The first of a sequence and the rest.
LEMMA HeadTail ==
  ASSUME NEW S, NEW s \in Seq(S), s # << >>
  PROVE  /\ Head(s) \in S /\ Head(s) \in ToSet(s)
         /\ Tail(s) \in Seq(S) /\ ToSet(Tail(s)) \subseteq ToSet(s)
  BY DEF ToSet

\* An order of a set of placements is a sequence of them.
LEMMA OrderType ==
  ASSUME NEW S \in SUBSET Placements, NEW s \in SetToSeqs(S)
  PROVE  s \in Seq(S) /\ ToSet(s) \subseteq S
<1>1. IsFiniteSet(S)
  BY NamesAssumption, FS_Subset
<1>2. Cardinality(S) \in Nat
  BY <1>1, FS_CardinalityType
<1>3. s \in [1..Cardinality(S) -> S]
  BY DEF SetToSeqs
<1> QED
  BY <1>2, <1>3 DEF ToSet

\* The plans of explicit routes have no placement.
LEMMA StaticPlansType ==
  ASSUME NEW spec \in RouterSpec
  PROVE  /\ StaticPlans(spec) \in Seq(RoutePlan)
         /\ \A plan \in ToSet(StaticPlans(spec)) : ~plan.isPlacement
<1> DEFINE plan(i) == Plan(spec.routes[i].name, FALSE, spec.routes[i].cells, spec.routes[i].fallback)
<1>1. spec.routes \in Seq(RouteSpec)
  BY DEF RouterSpec
<1>2. \A i \in 1..Len(spec.routes) : spec.routes[i] \in RouteSpec
  BY <1>1
<1>3. \A i \in 1..Len(spec.routes) : plan(i) \in RoutePlan /\ ~plan(i).isPlacement
  BY <1>2 DEF RouteSpec, RoutePlan, Plan
<1>4. Len(spec.routes) \in Nat /\ DOMAIN spec.routes = 1..Len(spec.routes)
  BY <1>1
<1>5. StaticPlans(spec) = [i \in 1..Len(spec.routes) |-> plan(i)]
  BY <1>4 DEF StaticPlans
<1> HIDE DEF plan
<1> QED
  BY <1>3, <1>4, <1>5 DEF ToSet

\* Those of placements have one that was listed.
LEMMA PlacementPlansType ==
  ASSUME NEW listed \in [Placements -> Placement \cup {NoObject}],
         NEW order \in Seq(NamesIn(listed))
  PROVE  /\ PlacementPlans(listed, order) \in Seq(RoutePlan)
         /\ \A plan \in ToSet(PlacementPlans(listed, order)) : plan.name \in NamesIn(listed)
<1>1. \A p \in NamesIn(listed) : listed[p].spec.cells \in SUBSET Cells /\ p \in RouteNames
  BY NamesAssumption DEF NamesIn, Placement, PlacementSpec
<1>2. Len(order) \in Nat /\ DOMAIN order = 1..Len(order)
  OBVIOUS
<1>3. \A i \in 1..Len(order) : order[i] \in NamesIn(listed)
  OBVIOUS
<1>4. \A i \in 1..Len(order) :
        Plan(order[i], TRUE, listed[order[i]].spec.cells, NoObject) \in RoutePlan
  BY <1>1, <1>3 DEF Plan, RoutePlan
<1> QED
  BY <1>2, <1>3, <1>4 DEF PlacementPlans, ToSet, Plan

\* A list of placements, filtered by the router.
LEMMA ListType ==
  ASSUME ClusterOK, NEW r
  PROVE  /\ ListPlacements(cPlacements, r) \in [Placements -> Placement \cup {NoObject}]
         /\ InvalidPlacements(ListPlacements(cPlacements, r))
              \subseteq NamesIn(ListPlacements(cPlacements, r))
  BY DEF ClusterOK, ListPlacements, InvalidPlacements

\* Two sequences of plans in one.
LEMMA ConcatPlans ==
  ASSUME NEW a \in Seq(RoutePlan), NEW b \in Seq(RoutePlan)
  PROVE  a \o b \in Seq(RoutePlan) /\ ToSet(a \o b) \subseteq ToSet(a) \cup ToSet(b)
<1>1. a \o b \in Seq(RoutePlan) /\ Len(a \o b) = Len(a) + Len(b)
  OBVIOUS
<1>2. \A i \in 1..Len(a \o b) : (a \o b)[i] = IF i <= Len(a) THEN a[i] ELSE b[i - Len(a)]
  BY ConcatProperties
<1>3. ASSUME NEW i \in 1..Len(a \o b) PROVE (a \o b)[i] \in ToSet(a) \cup ToSet(b)
  <2>1. CASE i <= Len(a)
    BY <1>2, <2>1 DEF ToSet
  <2>2. CASE i > Len(a)
    <3>1. i - Len(a) \in 1..Len(b)
      BY <1>1, <2>2
    <3> QED
      BY <1>2, <2>2, <3>1 DEF ToSet
  <2> QED
    BY <2>1, <2>2
<1> QED
  BY <1>1, <1>3 DEF ToSet

\* Backends are Cells and Services of the model.
LEMMA BackendsType ==
  ASSUME ClusterOK, NEW plan \in RoutePlan
  PROVE  ResolveRouteBackends(cCells, plan) \in SUBSET [cell : Cells, service : Services]
<1>1. ASSUME NEW targets \in SUBSET Cells
      PROVE  ResolveBackendCandidates(cCells, targets) \in SUBSET [cell : Cells, service : Services]
  BY DEF ResolveBackendCandidates, IsCellTrafficReady, ClusterOK, CellView
<1>2. plan.cells \in SUBSET Cells /\ plan.fallback \in Cells \cup {NoObject}
  BY DEF RoutePlan
<1> QED
  BY <1>1, <1>2 DEF ResolveRouteBackends

\* The grants of a plan are keys of the model, and their names as well.
LEMMA GrantsType ==
  ASSUME NEW name \in RouteNames, NEW backends \in SUBSET [cell : Cells, service : Services]
  PROVE  /\ BackendServices(backends) \in SUBSET Services
         /\ BackendCells(backends) \in SUBSET Cells
         /\ ReferenceGrantKeys(name, backends) \in SUBSET GrantKeys
         /\ {ReferenceGrantName(g) : g \in ReferenceGrantKeys(name, backends)}
              \in SUBSET (RouteNames \X Nat)
<1>1. BackendServices(backends) \in SUBSET Services /\ BackendCells(backends) \in SUBSET Cells
  BY DEF BackendServices, BackendCells
<1>2. ReferenceGrantKeys(name, backends) \in SUBSET GrantKeys
  BY <1>1 DEF ReferenceGrantKeys, GrantKeys
<1>3. \A g \in GrantKeys : ReferenceGrantName(g) \in RouteNames \X Nat
  BY HashAssumption DEF ReferenceGrantName, GrantKeys
<1> QED
  BY <1>1, <1>2, <1>3

-----------------------------------------------------------------------------
(* What the steps make of the locals of a pass.                            *)

\* A pass starts, and fails, with nothing in its locals.
LEMMA EmptyPassOK ==
  ASSUME NEW b \in BOOLEAN
  PROVE  /\ PassOK(EmptyPass) /\ EmptyPass.finalizing = FALSE
         /\ PassOK([EmptyPass EXCEPT !.finalizing = b])
         /\ [EmptyPass EXCEPT !.finalizing = b].finalizing = b
<1>1. EmptyPass \in Pass
  BY DEF EmptyPass, Pass
<1>2. /\ EmptyPass.invalid = << >> /\ EmptyPass.plans = << >> /\ EmptyPass.grants = {}
      /\ EmptyPass.finalizing = FALSE
  BY DEF EmptyPass
<1>3. ToSet(<< >>) = {}
  BY DEF ToSet
<1> DEFINE q == [EmptyPass EXCEPT !.finalizing = b]
<1>4. /\ q \in Pass /\ q.finalizing = b
      /\ q.invalid = EmptyPass.invalid /\ q.plans = EmptyPass.plans /\ q.grants = EmptyPass.grants
  BY <1>1 DEF Pass
<1> HIDE DEF q
<1>5. PassOK(EmptyPass)
  BY <1>1, <1>2, <1>3 DEF PassOK
<1>6. PassOK(q)
  BY <1>2, <1>3, <1>4 DEF PassOK
<1> QED
  BY <1>2, <1>4, <1>5, <1>6 DEF q

\* The lists of placements and plans, as BuildRoutePlans fills them in.
Planned(p, listed, invalid, plans) ==
  [p EXCEPT !.listed = listed, !.invalid = invalid, !.plans = plans]

\* That leaves the locals well-typed.
LEMMA PlannedPassOK ==
  ASSUME NEW p, PassOK(p),
         NEW listed \in [Placements -> Placement \cup {NoObject}],
         NEW invalid \in Seq(Placements), ToSet(invalid) \subseteq NamesIn(listed),
         NEW plans \in Seq(RoutePlan),
         \A plan \in ToSet(plans) : plan.isPlacement => plan.name \in NamesIn(listed)
  PROVE  LET q == Planned(p, listed, invalid, plans)
         IN  PassOK(q) /\ q.finalizing = p.finalizing
<1> DEFINE q == [p EXCEPT !.listed = listed, !.invalid = invalid, !.plans = plans]
<1>1. /\ q \in Pass /\ q.listed = listed /\ q.invalid = invalid /\ q.plans = plans
      /\ q.grants = p.grants /\ q.expectedGrants = p.expectedGrants
      /\ q.finalizing = p.finalizing
  BY DEF PassOK, Pass
<1> HIDE DEF q
<1>2. PassOK(q) /\ q.finalizing = p.finalizing
  BY <1>1 DEF PassOK
<1> QED
  BY <1>2 DEF q, Planned

\* One invalid placement is done.
InvalidDone(p, entry) ==
  [p EXCEPT !.invalid = Tail(@), !.allReady = FALSE, !.statuses = Append(@, entry)]

\* That leaves the locals well-typed.
LEMMA InvalidDoneOK ==
  ASSUME NEW p, PassOK(p), p.invalid # << >>, NEW entry \in ManagedRoute
  PROVE  LET q == InvalidDone(p, entry)
         IN  PassOK(q) /\ q.finalizing = p.finalizing
<1> DEFINE rest == Tail(p.invalid)
           st == Append(p.statuses, entry)
           q == [p EXCEPT !.invalid = rest, !.allReady = FALSE, !.statuses = st]
<1>1. p.invalid \in Seq(Placements) /\ p.statuses \in Seq(ManagedRoute)
  BY DEF PassOK, Pass
<1>2. rest \in Seq(Placements) /\ ToSet(rest) \subseteq ToSet(p.invalid)
  BY <1>1, HeadTail
<1>3. st \in Seq(ManagedRoute)
  BY <1>1
<1> HIDE DEF rest, st
<1>4. /\ q \in Pass /\ q.listed = p.listed /\ q.invalid = rest /\ q.plans = p.plans
      /\ q.grants = p.grants /\ q.expectedGrants = p.expectedGrants
      /\ q.finalizing = p.finalizing
  BY <1>2, <1>3 DEF PassOK, Pass
<1> HIDE DEF q
<1>5. PassOK(q) /\ q.finalizing = p.finalizing
  BY <1>2, <1>4 DEF PassOK
<1> QED
  BY <1>5 DEF q, rest, st, InvalidDone

\* One plan is done, with a route or without.
PlanDone(p, backends, ready, requeue, entry) ==
  [p EXCEPT !.plans = Tail(@), !.backends = backends, !.allReady = ready,
            !.needsRequeue = requeue, !.statuses = Append(@, entry)]

\* That leaves the locals well-typed.
LEMMA PlanDoneOK ==
  ASSUME NEW p, PassOK(p), p.plans # << >>, NEW backends \in SUBSET [cell : Cells, service : Services],
         NEW ready \in BOOLEAN, NEW requeue \in BOOLEAN, NEW entry \in ManagedRoute
  PROVE  LET q == PlanDone(p, backends, ready, requeue, entry)
         IN  PassOK(q) /\ q.finalizing = p.finalizing
<1> DEFINE rest == Tail(p.plans)
           st == Append(p.statuses, entry)
           q == [p EXCEPT !.plans = rest, !.backends = backends, !.allReady = ready,
                          !.needsRequeue = requeue, !.statuses = st]
<1>1. p.plans \in Seq(RoutePlan) /\ p.statuses \in Seq(ManagedRoute)
  BY DEF PassOK, Pass
<1>2. rest \in Seq(RoutePlan) /\ ToSet(rest) \subseteq ToSet(p.plans)
  BY <1>1, HeadTail
<1>3. st \in Seq(ManagedRoute)
  BY <1>1
<1> HIDE DEF rest, st
<1>4. /\ q \in Pass /\ q.listed = p.listed /\ q.invalid = p.invalid /\ q.plans = rest
      /\ q.grants = p.grants /\ q.expectedGrants = p.expectedGrants
      /\ q.finalizing = p.finalizing
  BY <1>2, <1>3 DEF PassOK, Pass
<1> HIDE DEF q
<1>5. PassOK(q) /\ q.finalizing = p.finalizing
  BY <1>2, <1>4 DEF PassOK
<1> QED
  BY <1>5 DEF q, rest, st, PlanDone

\* The backends of a plan are known.
LEMMA ResolvedOK ==
  ASSUME NEW p, PassOK(p), NEW backends \in SUBSET [cell : Cells, service : Services]
  PROVE  LET q == [p EXCEPT !.backends = backends]
         IN  /\ PassOK(q) /\ q.finalizing = p.finalizing /\ q.plans = p.plans
             /\ q.backends = backends
  BY DEF PassOK, Pass

\* The grants of a plan are to be written.
LEMMA GrantsDueOK ==
  ASSUME NEW p, PassOK(p), NEW due \in SUBSET GrantKeys, NEW name \in RouteNames
  PROVE  LET q == [p EXCEPT !.grants = due, !.expectedRoutes = @ \cup {name},
                            !.expectedGrants = @ \cup {ReferenceGrantName(g) : g \in due}]
         IN  PassOK(q) /\ q.finalizing = p.finalizing /\ q.plans = p.plans /\ q.grants = due
<1> DEFINE names == p.expectedRoutes \cup {name}
           grantNames == p.expectedGrants \cup {ReferenceGrantName(g) : g \in due}
           q == [p EXCEPT !.grants = due, !.expectedRoutes = names, !.expectedGrants = grantNames]
<1>1. \A g \in GrantKeys : ReferenceGrantName(g) \in RouteNames \X Nat
  BY HashAssumption DEF ReferenceGrantName, GrantKeys
<1>2. names \in SUBSET RouteNames /\ grantNames \in SUBSET (RouteNames \X Nat)
  BY <1>1 DEF PassOK, Pass
<1>3. {ReferenceGrantName(g) : g \in due} \subseteq grantNames
  OBVIOUS
<1> HIDE DEF names, grantNames
<1>4. /\ q \in Pass /\ q.listed = p.listed /\ q.invalid = p.invalid /\ q.plans = p.plans
      /\ q.grants = due /\ q.expectedGrants = grantNames /\ q.finalizing = p.finalizing
  BY <1>2 DEF PassOK, Pass
<1> HIDE DEF q
<1>5. PassOK(q) /\ q.finalizing = p.finalizing /\ q.plans = p.plans /\ q.grants = due
  BY <1>3, <1>4 DEF PassOK
<1> QED
  BY <1>5 DEF q, names, grantNames

\* One grant is written.
LEMMA GrantDoneOK ==
  ASSUME NEW p, PassOK(p), NEW g
  PROVE  LET q == [p EXCEPT !.grants = @ \ {g}]
         IN  PassOK(q) /\ q.finalizing = p.finalizing /\ q.plans = p.plans /\ q.grants = p.grants \ {g}
<1> DEFINE q == [p EXCEPT !.grants = @ \ {g}]
<1>1. /\ q \in Pass /\ q.listed = p.listed /\ q.invalid = p.invalid /\ q.plans = p.plans
      /\ q.grants = p.grants \ {g} /\ q.expectedGrants = p.expectedGrants
      /\ q.finalizing = p.finalizing
  BY DEF PassOK, Pass
<1> HIDE DEF q
<1>2. PassOK(q)
  BY <1>1 DEF PassOK
<1> QED
  BY <1>1, <1>2 DEF q

\* What is left to delete is known.
LEMMA StaleOK ==
  ASSUME NEW p, PassOK(p), NEW stale \in SUBSET (RouteKeys \cup GrantKeys)
  PROVE  LET q == [p EXCEPT !.stale = stale]
         IN  PassOK(q) /\ q.finalizing = p.finalizing /\ q.stale = stale
<1> DEFINE q == [p EXCEPT !.stale = stale]
<1>1. /\ q \in Pass /\ q.listed = p.listed /\ q.invalid = p.invalid /\ q.plans = p.plans
      /\ q.grants = p.grants /\ q.expectedGrants = p.expectedGrants
      /\ q.finalizing = p.finalizing /\ q.stale = stale
  BY DEF PassOK, Pass
<1> HIDE DEF q
<1>2. PassOK(q)
  BY <1>1 DEF PassOK
<1> QED
  BY <1>1, <1>2 DEF q

-----------------------------------------------------------------------------
(* The control flow of a pass.                                             *)

\* A step hands over to the next with locals that fit it.
LEMMA GoToOK ==
  ASSUME WorkerOK, pc # "idle", NEW step \in Steps, GoTo(step),
         PassOK(pass'), Fits(step, pass')
  PROVE  WorkerOK' /\ PassInv'
<1>1. WorkerOK'
  BY DEF WorkerOK, GoTo
<1>2. PassInv'
  BY DEF PassInv, GoTo
<1> QED
  BY <1>1, <1>2

\* The pass ends, and may ask for another one.
LEMMA ReturnOK ==
  ASSUME WorkerOK, pc # "idle", NEW b \in BOOLEAN, Return(b)
  PROVE  WorkerOK' /\ PassInv'
<1>1. PassOK(pass')
  BY EmptyPassOK DEF Return
<1>2. WorkerOK'
  BY <1>1 DEF WorkerOK, Return, Steps
<1>3. PassInv'
  BY DEF PassInv, Fits, Return, NormalSteps, DeletionSteps
<1> QED
  BY <1>2, <1>3

\* The pass goes on to report an error.
LEMMA FailedOK ==
  ASSUME WorkerOK, pc # "idle", Failed
  PROVE  WorkerOK' /\ PassInv'
<1>1. PassOK(pass') /\ ~pass'.finalizing
  BY EmptyPassOK DEF Failed
<1>2. Fits("patchFailure", pass') /\ "patchFailure" \in Steps
  BY <1>1 DEF Fits, Steps, NormalSteps, DeletionSteps
<1> QED
  BY <1>1, <1>2, GoToOK DEF Failed

\* The loops of reconcileRoutes go on.
LEMMA ContinueOK ==
  ASSUME WorkerOK, pc # "idle", NEW p, PassOK(p), ~p.finalizing, Continue(p)
  PROVE  WorkerOK' /\ PassInv'
<1> DEFINE step == CASE p.invalid # << >> -> "invalid"
                     [] p.invalid = << >> /\ p.plans # << >> -> "resolve"
                     [] OTHER -> "listRoutes"
<1>1. step \in Steps
  BY DEF Steps, NormalSteps, SweepSteps
<1>2. Fits(step, p)
  BY DEF Fits, NormalSteps, DeletionSteps
<1>3. GoTo(step) /\ pass' = p
  BY DEF Continue
<1> HIDE DEF step
<1> QED
  BY <1>1, <1>2, <1>3, GoToOK

\* A plan with resolved backends gets its grants, one without is done.
LEMMA AfterPlacementOK ==
  ASSUME WorkerOK, pc # "idle", NEW p, PassOK(p), ~p.finalizing, p.plans # << >>,
         AfterPlacement(p)
  PROVE  WorkerOK' /\ PassInv'
<1> DEFINE plan == Head(p.plans)
           needed == ReferenceGrantKeys(plan.name, p.backends)
           entry == [name |-> plan.name, cells |-> {}]
<1>1. p.plans \in Seq(RoutePlan) /\ p.backends \in SUBSET [cell : Cells, service : Services]
  BY DEF PassOK, Pass
<1>2. plan.name \in RouteNames
  <2>1. plan \in RoutePlan
    BY <1>1, HeadTail
  <2> QED
    BY <2>1 DEF RoutePlan
<1>3. needed \in SUBSET GrantKeys
  BY <1>1, <1>2, GrantsType
<1>4. CASE p.backends = {}
  <2> DEFINE q == PlanDone(p, {}, FALSE, TRUE, entry)
             r == [p EXCEPT !.plans = Tail(@), !.allReady = FALSE,
                            !.needsRequeue = TRUE, !.statuses = Append(@, entry)]
  <2>1. entry \in ManagedRoute
    BY <1>2 DEF ManagedRoute
  <2> HIDE DEF entry
  <2>2. PassOK(q) /\ q.finalizing = p.finalizing
    BY <2>1, PlanDoneOK
  <2>3. r = q
    BY <1>4 DEF PassOK, Pass, PlanDone
  <2>4. Continue(r)
    BY <1>4 DEF AfterPlacement, entry
  <2> HIDE DEF q, r
  <2> QED
    BY <2>2, <2>3, <2>4, ContinueOK
<1>5. CASE p.backends # {}
  <2> DEFINE q == [p EXCEPT !.grants = needed, !.expectedRoutes = @ \cup {plan.name},
                            !.expectedGrants = @ \cup {ReferenceGrantName(g) : g \in needed}]
  <2>1. pass' = q /\ GoTo("grant")
    BY <1>5 DEF AfterPlacement
  <2>2. needed # {}
    <3>1. PICK b \in p.backends : TRUE
      BY <1>5
    <3>2. <<plan.name, b.service>> \in needed
      BY DEF ReferenceGrantKeys, BackendServices
    <3> QED
      BY <3>2
  <2> HIDE DEF needed, plan
  <2>3. PassOK(q) /\ q.finalizing = p.finalizing /\ q.plans = p.plans /\ q.grants = needed
    BY <1>2, <1>3, GrantsDueOK
  <2> HIDE DEF q
  <2>4. Fits("grant", q) /\ "grant" \in Steps
    BY <2>2, <2>3 DEF Fits, DeletionSteps, Steps, NormalSteps
  <2> QED
    BY <2>1, <2>3, <2>4, GoToOK
<1> QED
  BY <1>4, <1>5

\* The initial state is well-typed, and no pass runs.
LEMMA TypeInit == Init => ClusterOK /\ WorkerOK /\ PassInv
<1> SUFFICES ASSUME Init PROVE ClusterOK /\ WorkerOK /\ PassInv
  OBVIOUS
<1>1. EmptyRouterStatus \in RouterStatus /\ EmptyPlacementStatus \in PlacementStatus
  BY DEF EmptyRouterStatus, EmptyPlacementStatus, RouterStatus, PlacementStatus, Absent, Condition
<1>2. \A spec \in RouterSpec : NewRouter(spec, 1) \in Router
  BY <1>1 DEF NewRouter, Router
<1>3. \A spec \in PlacementSpec : NewPlacement(spec, 1) \in Placement
  BY <1>1 DEF NewPlacement, Placement
<1>4. routers \in [Routers -> Router \cup {NoObject}]
  BY <1>2, SpecsAssumption DEF Init, OneEach
<1>5. placements \in [Placements -> Placement \cup {NoObject}]
  BY <1>3, SpecsAssumption DEF Init, OneEach
<1>6. cells \in [Cells -> CellView \cup {NoObject}]
  BY ViewsAssumption DEF Init, OneEach
<1>7. 0 \in 0..MaxDisturbances
  BY NamesAssumption
<1>8. ClusterOK
  BY <1>4, <1>5, <1>6, <1>7 DEF ClusterOK, Init
<1>9. WorkerOK
  BY EmptyPassOK DEF WorkerOK, Init, Steps
<1>10. PassInv
  BY DEF PassInv, Fits, Init, NormalSteps, DeletionSteps
<1> QED
  BY <1>8, <1>9, <1>10

-----------------------------------------------------------------------------
(* Type correctness, step by step.                                         *)

\* A patch of a status keeps the server's CellRouters and CellPlacements.
LEMMA PatchesType ==
  ASSUME ClusterOK
  PROVE  /\ \A new \in RouterStatus :
              WorkerOK /\ pc # "idle" /\ routers[cur] # NoObject =>
                PatchedRouters(new) \in [Routers -> Router \cup {NoObject}]
         /\ \A p \in Placements, ready \in BOOLEAN, resolved \in SUBSET Cells :
              WorkerOK /\ p \in NamesIn(pass.listed) /\ placements[p] # NoObject =>
                PatchedPlacement(p, ready, resolved) \in [Placements -> Placement \cup {NoObject}]
<1>1. ASSUME NEW new \in RouterStatus, WorkerOK, pc # "idle", routers[cur] # NoObject
      PROVE  PatchedRouters(new) \in [Routers -> Router \cup {NoObject}]
  <2> DEFINE st == MergePatch(routers[cur].status, snap.status, new)
  <2>1. cur \in Routers /\ routers[cur] \in Router /\ snap \in Router
    BY <1>1 DEF ClusterOK, WorkerOK
  <2>2. routers[cur].status \in RouterStatus /\ snap.status \in RouterStatus
    BY <2>1 DEF Router
  <2>3. st \in RouterStatus
    BY <1>1, <2>2, MergePatchType
  <2>4. PatchedRouters(new) = [routers EXCEPT ![cur] = [routers[cur] EXCEPT !.status = st]]
    BY DEF PatchedRouters
  <2> HIDE DEF st
  <2>5. [routers[cur] EXCEPT !.status = st] \in Router
    BY <2>1, <2>3 DEF Router
  <2> QED
    BY <2>1, <2>4, <2>5 DEF ClusterOK
<1>2. ASSUME NEW p \in Placements, NEW ready \in BOOLEAN, NEW resolved \in SUBSET Cells,
             WorkerOK, p \in NamesIn(pass.listed), placements[p] # NoObject
      PROVE  PatchedPlacement(p, ready, resolved) \in [Placements -> Placement \cup {NoObject}]
  <2> DEFINE copy == pass.listed[p]
             new == [ready |-> ReadyCondition(ready, copy.generation),
                     observedGeneration |-> copy.generation, resolvedBackends |-> resolved]
             st == MergePatch(placements[p].status, copy.status, new)
  <2>1. pass.listed \in [Placements -> Placement \cup {NoObject}]
    BY <1>2 DEF WorkerOK, PassOK, Pass
  <2>2. copy \in Placement /\ placements[p] \in Placement
    BY <1>2, <2>1 DEF NamesIn, ClusterOK
  <2>3. /\ copy.generation \in Nat /\ copy.status \in PlacementStatus
        /\ placements[p].status \in PlacementStatus
    BY <2>2 DEF Placement
  <2> HIDE DEF copy
  <2>4. new \in PlacementStatus
    BY <1>2, <2>3, ReadyType DEF PlacementStatus
  <2>5. st \in PlacementStatus
    BY <2>3, <2>4, MergePatchType
  <2>6. PatchedPlacement(p, ready, resolved)
          = [placements EXCEPT ![p] = [placements[p] EXCEPT !.status = st]]
    BY DEF PatchedPlacement, copy
  <2> HIDE DEF st
  <2>7. [placements[p] EXCEPT !.status = st] \in Placement
    BY <2>2, <2>5 DEF Placement
  <2> QED
    BY <2>6, <2>7 DEF ClusterOK
<1> QED
  BY <1>1, <1>2

\* What a pass writes for the plan in hand.
DesiredGrant == [owner |-> Ref(cur, snap), from |-> snap.spec.gateway]
DesiredRoute(k) ==
  [owner |-> Ref(cur, snap), backends |-> BackendServices(pass.backends),
   parents |-> IF cRoutes[k] = NoObject THEN {} ELSE cRoutes[k].parents]

\* Both are well-typed objects.
LEMMA DesiredType ==
  ASSUME ClusterOK, WorkerOK, pc # "idle"
  PROVE  /\ DesiredGrant \in ReferenceGrant /\ DesiredGrant # NoObject
         /\ \A k \in RouteKeys : DesiredRoute(k) \in HTTPRoute /\ DesiredRoute(k) # NoObject
<1>1. Ref(cur, snap) \in OwnerRef /\ snap.spec.gateway \in GatewayNamespaces
  BY RouterParts DEF WorkerOK
<1>2. DesiredGrant \in ReferenceGrant
  BY <1>1 DEF DesiredGrant, ReferenceGrant
<1>3. ASSUME NEW k \in RouteKeys PROVE DesiredRoute(k) \in HTTPRoute
  <2> DEFINE parents == IF cRoutes[k] = NoObject THEN {} ELSE cRoutes[k].parents
             backends == BackendServices(pass.backends)
  <2>1. parents \in SUBSET ParentStatus
    BY DEF ClusterOK, HTTPRoute
  <2>2. pass.backends \in SUBSET [cell : Cells, service : Services]
    BY DEF WorkerOK, PassOK, Pass
  <2>3. backends \in SUBSET Services
    BY <2>2 DEF BackendServices
  <2>4. DesiredRoute(k) = [owner |-> Ref(cur, snap), backends |-> backends, parents |-> parents]
    BY DEF DesiredRoute
  <2> HIDE DEF parents, backends
  <2> QED
    BY <1>1, <2>1, <2>3, <2>4 DEF HTTPRoute
<1> QED
  BY <1>2, <1>3, SentinelAssumption

\* A pass that starts has what its first step needs.
LEMMA StartType ==
  ASSUME ClusterOK, WorkerOK, PassInv, NEW r \in Routers, StartReconcile(r)
  PROVE  ClusterOK' /\ WorkerOK' /\ PassInv'
<1>1. ClusterOK'
  BY DEF ClusterOK, StartReconcile, inputVars, managedVars, cacheVars, envVars
<1>2. CASE cRouters[r] = NoObject
  <2>1. queue' = queue \ {r} /\ UNCHANGED <<pc, cur, snap, pass>>
    BY <1>2 DEF StartReconcile, workerVars
  <2>2. WorkerOK'
    BY <2>1 DEF WorkerOK
  <2> QED
    BY <1>1, <2>1, <2>2 DEF PassInv
<1>3. CASE cRouters[r] # NoObject
  <2>1. cRouters[r] \in Router /\ cRouters[r].deleting \in BOOLEAN /\ cRouters[r].finalizer \in BOOLEAN
    BY <1>3, RouterParts DEF ClusterOK
  <2>2. /\ queue' = queue \ {r} /\ cur' = r /\ snap' = cRouters[r]
        /\ pass' = [EmptyPass EXCEPT !.finalizing = cRouters[r].deleting]
        /\ \/ cRouters[r].deleting /\ pc' = "listRoutes"
           \/ ~cRouters[r].deleting /\ pc' \in {"addFinalizer", "gatewayNamespace"}
    BY <1>3, <2>1 DEF StartReconcile
  <2>3. PassOK(pass') /\ pass'.finalizing = cRouters[r].deleting
    BY <2>1, <2>2, EmptyPassOK
  <2>4. WorkerOK'
    BY <2>1, <2>2, <2>3 DEF WorkerOK, Steps, NormalSteps, SweepSteps
  <2>5. PassInv'
    BY <2>2, <2>3 DEF PassInv, Fits, NormalSteps, DeletionSteps
  <2> QED
    BY <1>1, <2>4, <2>5
<1> QED
  BY <1>2, <1>3

\* Every step of a pass keeps the state well-typed.
LEMMA ReconcileStepType ==
  ASSUME ClusterOK, WorkerOK, PassInv, ReconcileStep
  PROVE  ClusterOK' /\ WorkerOK' /\ PassInv'
<1> USE DEF inputVars, managedVars, cacheVars, envVars
<1>0. pc # "idle" /\ cur \in Routers /\ snap \in Router
  <2>1. pc # "idle"
    BY DEF ReconcileStep, EnsureFinalizer, ReconcileGatewayNamespace, ReconcileGateway,
           BuildRoutePlans, PatchInvalidPlacement, ResolveBackends, PatchPlacement,
           ReconcileReferenceGrant, ReconcileHTTPRoute, ListRoutes, DeleteStaleRoute,
           ListGrants, DeleteStaleGrant, PatchStatus, PatchFailure, DeleteManagedGateway,
           RemoveFinalizer
  <2> QED
    BY <2>1 DEF WorkerOK
<1>s. /\ snap.spec \in RouterSpec /\ snap.spec.gateway \in GatewayNamespaces
      /\ snap.generation \in Nat /\ snap.status \in RouterStatus
      /\ Ref(cur, snap) \in OwnerRef
  BY <1>0, RouterParts
<1>p. PassOK(pass) /\ pass \in Pass
  BY DEF WorkerOK, PassOK
<1>h. ASSUME pass.plans # << >>
      PROVE  /\ Head(pass.plans) \in RoutePlan /\ Head(pass.plans).name \in RouteNames
             /\ Head(pass.plans).isPlacement =>
                  Head(pass.plans).name \in NamesIn(pass.listed)
  <2>1. pass.plans \in Seq(RoutePlan)
    BY <1>p DEF Pass
  <2>2. Head(pass.plans) \in RoutePlan /\ Head(pass.plans) \in ToSet(pass.plans)
    BY <1>h, <2>1, HeadTail
  <2> QED
    BY <1>p, <2>2 DEF PassOK, RoutePlan
<1>1. CASE EnsureFinalizer
  <2>1. CASE routers[cur] = NoObject
    <3>1. Return(TRUE) /\ UNCHANGED routers
      BY <1>1, <2>1 DEF EnsureFinalizer
    <3>2. ClusterOK'
      BY <1>1, <3>1 DEF ClusterOK, EnsureFinalizer
    <3> QED
      BY <1>0, <3>1, <3>2, ReturnOK
  <2>2. CASE routers[cur] # NoObject
    <3> DEFINE new == [routers[cur] EXCEPT !.finalizer = TRUE]
    <3>1. routers[cur] \in Router
      BY <1>0, <2>2 DEF ClusterOK
    <3>2. new \in Router
      BY <3>1 DEF Router
    <3>3. routers' = [routers EXCEPT ![cur] = new]
      BY <1>1, <2>2 DEF EnsureFinalizer
    <3> HIDE DEF new
    <3>4. routers' \in [Routers -> Router \cup {NoObject}] /\ routers'[cur] \in Router
      BY <1>0, <3>2, <3>3 DEF ClusterOK
    <3>5. ClusterOK'
      BY <1>1, <3>4 DEF ClusterOK, EnsureFinalizer
    <3>6. /\ pc = "addFinalizer" /\ pc' = "gatewayNamespace" /\ snap' = routers'[cur]
          /\ UNCHANGED <<cur, queue, pass>>
      BY <1>1, <2>2 DEF EnsureFinalizer
    <3>7. WorkerOK'
      BY <1>0, <1>p, <3>4, <3>6 DEF WorkerOK, Steps, NormalSteps
    <3>8. PassInv'
      BY <3>6 DEF PassInv, Fits, NormalSteps, DeletionSteps
    <3> QED
      BY <3>5, <3>7, <3>8
  <2> QED
    BY <2>1, <2>2
<1>2. CASE ReconcileGatewayNamespace
  <2>1. ClusterOK'
    BY <1>2, <1>s DEF ClusterOK, ReconcileGatewayNamespace
  <2>2. pc = "gatewayNamespace" /\ GoTo("gateway") /\ UNCHANGED pass
    BY <1>2 DEF ReconcileGatewayNamespace
  <2>3. Fits("gateway", pass') /\ "gateway" \in Steps
    BY <2>2 DEF PassInv, Fits, Steps, NormalSteps, DeletionSteps
  <2> QED
    BY <1>0, <1>p, <2>1, <2>2, <2>3, GoToOK
<1>3. CASE ReconcileGateway
  <2>1. gateways' = gateways \/ gateways' = [gateways EXCEPT ![snap.spec.gateway] = Ref(cur, snap)]
    BY <1>3 DEF ReconcileGateway
  <2>2. ClusterOK'
    BY <1>3, <1>s, <2>1 DEF ClusterOK, ReconcileGateway, Gateway
  <2>3. pc = "gateway" /\ (Failed \/ (GoTo("plan") /\ UNCHANGED pass))
    BY <1>3 DEF ReconcileGateway
  <2>4. Fits("plan", pass) /\ "plan" \in Steps
    BY <2>3 DEF PassInv, Fits, Steps, NormalSteps, DeletionSteps
  <2>5. CASE Failed
    BY <1>0, <2>2, <2>5, FailedOK
  <2>6. CASE GoTo("plan") /\ UNCHANGED pass
    BY <1>0, <1>p, <2>2, <2>4, <2>6, GoToOK
  <2> QED
    BY <2>3, <2>5, <2>6
<1>4. CASE BuildRoutePlans
  <2> DEFINE listed == ListPlacements(cPlacements, cur)
             bad == InvalidPlacements(listed)
  <2>1. ClusterOK'
    BY <1>4 DEF ClusterOK, BuildRoutePlans
  <2>2. ~pass.finalizing
    BY <1>4 DEF BuildRoutePlans, PassInv, Fits, NormalSteps
  <2>3. CASE Failed
    BY <1>0, <2>1, <2>3, FailedOK
  <2>4. ASSUME NEW invalid \in SetToSeqs(bad), NEW order \in SetToSeqs(NamesIn(listed) \ bad),
               Continue([pass EXCEPT
                 !.listed = listed, !.invalid = invalid,
                 !.plans = StaticPlans(snap.spec) \o PlacementPlans(listed, order)])
        PROVE  WorkerOK' /\ PassInv'
    <3> DEFINE static == StaticPlans(snap.spec)
               placed == PlacementPlans(listed, order)
    <3>1. /\ listed \in [Placements -> Placement \cup {NoObject}]
          /\ bad \subseteq NamesIn(listed) /\ NamesIn(listed) \in SUBSET Placements
      BY ListType DEF NamesIn
    <3> HIDE DEF bad, listed
    <3>2. invalid \in Seq(bad) /\ ToSet(invalid) \subseteq NamesIn(listed)
      BY <3>1, OrderType
    <3>3. invalid \in Seq(Placements)
      BY <3>1, <3>2
    <3>4. order \in Seq(NamesIn(listed) \ bad)
      BY <3>1, OrderType
    <3>5. order \in Seq(NamesIn(listed))
      BY <3>4
    <3>6. /\ placed \in Seq(RoutePlan)
          /\ \A plan \in ToSet(placed) : plan.name \in NamesIn(listed)
      BY <3>1, <3>5, PlacementPlansType
    <3>7. static \in Seq(RoutePlan) /\ \A plan \in ToSet(static) : ~plan.isPlacement
      BY <1>s, StaticPlansType
    <3> HIDE DEF static, placed
    <3> DEFINE plans == static \o placed
               q == Planned(pass, listed, invalid, plans)
    <3>8. /\ plans \in Seq(RoutePlan)
          /\ \A plan \in ToSet(plans) : plan.isPlacement => plan.name \in NamesIn(listed)
      BY <3>6, <3>7, ConcatPlans
    <3>9. Continue(q)
      BY <2>4 DEF static, placed, Planned
    <3> HIDE DEF plans
    <3>10. PassOK(q) /\ q.finalizing = pass.finalizing
      BY <1>p, <3>1, <3>2, <3>3, <3>8, PlannedPassOK
    <3> HIDE DEF q
    <3> QED
      BY <1>0, <2>2, <3>9, <3>10, ContinueOK
  <2>5. \/ Failed
        \/ \E invalid \in SetToSeqs(bad), order \in SetToSeqs(NamesIn(listed) \ bad) :
             Continue([pass EXCEPT
               !.listed = listed, !.invalid = invalid,
               !.plans = StaticPlans(snap.spec) \o PlacementPlans(listed, order)])
    BY <1>4 DEF BuildRoutePlans
  <2> HIDE DEF listed, bad
  <2> QED
    BY <2>1, <2>3, <2>4, <2>5
<1>5. CASE PatchInvalidPlacement
  <2> DEFINE p == Head(pass.invalid)
             entry == [name |-> p, cells |-> {}]
  <2>0. pc = "invalid" /\ UNCHANGED <<routers, cells, managedVars, cacheVars, envVars>>
    BY <1>5 DEF PatchInvalidPlacement
  <2>1. pass.invalid # << >> /\ ~pass.finalizing
    BY <2>0 DEF PassInv, Fits, NormalSteps
  <2>2. pass.invalid \in Seq(Placements)
    BY <1>p DEF Pass
  <2>3. p \in Placements /\ p \in ToSet(pass.invalid)
    BY <2>1, <2>2, HeadTail
  <2>4. p \in NamesIn(pass.listed) /\ entry \in ManagedRoute
    BY <1>p, <2>3, NamesAssumption DEF PassOK, ManagedRoute
  <2>5. CASE placements[p] = NoObject
    <3>1. Failed /\ UNCHANGED placements
      BY <1>5, <2>5 DEF PatchInvalidPlacement
    <3>2. ClusterOK'
      BY <2>0, <3>1 DEF ClusterOK
    <3> QED
      BY <1>0, <3>1, <3>2, FailedOK
  <2>6. CASE placements[p] # NoObject
    <3>1. placements' = PatchedPlacement(p, FALSE, {}) /\ Continue(InvalidDone(pass, entry))
      BY <1>5, <2>6 DEF PatchInvalidPlacement, InvalidDone
    <3> HIDE DEF p, entry
    <3>2. placements' \in [Placements -> Placement \cup {NoObject}]
      BY <2>3, <2>4, <2>6, <3>1, PatchesType
    <3>3. ClusterOK'
      BY <2>0, <3>2 DEF ClusterOK
    <3>4. PassOK(InvalidDone(pass, entry)) /\ ~InvalidDone(pass, entry).finalizing
      BY <1>p, <2>1, <2>4, InvalidDoneOK
    <3> QED
      BY <1>0, <3>1, <3>3, <3>4, ContinueOK
  <2> QED
    BY <2>5, <2>6
<1>6. CASE ResolveBackends
  <2> DEFINE plan == Head(pass.plans)
             found == ResolveRouteBackends(cCells, plan)
             resolved == [pass EXCEPT !.backends = found]
  <2>0. pc = "resolve" /\ UNCHANGED <<inputVars, managedVars, cacheVars, envVars>>
    BY <1>6 DEF ResolveBackends
  <2>1. pass.plans # << >> /\ ~pass.finalizing
    BY <2>0 DEF PassInv, Fits, NormalSteps
  <2>2. found \in SUBSET [cell : Cells, service : Services]
    BY <1>h, <2>1, BackendsType
  <2>3. ClusterOK'
    BY <2>0 DEF ClusterOK
  <2>4. \/ plan.isPlacement /\ pass' = resolved /\ GoTo("placement")
        \/ AfterPlacement(resolved)
    BY <1>6 DEF ResolveBackends
  <2> HIDE DEF found
  <2>5. PassOK(resolved) /\ resolved.finalizing = pass.finalizing /\ resolved.plans = pass.plans
    BY <1>p, <2>2, ResolvedOK
  <2> HIDE DEF resolved
  <2>6. CASE plan.isPlacement /\ pass' = resolved /\ GoTo("placement")
    <3>1. Fits("placement", resolved) /\ "placement" \in Steps
      BY <2>1, <2>5, <2>6 DEF Fits, Steps, NormalSteps, DeletionSteps
    <3> QED
      BY <1>0, <2>3, <2>5, <2>6, <3>1, GoToOK
  <2>7. CASE AfterPlacement(resolved)
    BY <1>0, <2>1, <2>3, <2>5, <2>7, AfterPlacementOK
  <2> QED
    BY <2>4, <2>6, <2>7
<1>7. CASE PatchPlacement
  <2> DEFINE p == Head(pass.plans).name
             resolved == BackendCells(pass.backends)
             ready == pass.backends # {}
  <2>0. pc = "placement" /\ UNCHANGED <<routers, cells, managedVars, cacheVars, envVars>>
    BY <1>7 DEF PatchPlacement
  <2>1. pass.plans # << >> /\ ~pass.finalizing /\ Head(pass.plans).isPlacement
    BY <2>0 DEF PassInv, Fits, NormalSteps
  <2>2. p \in NamesIn(pass.listed) /\ p \in Placements
    BY <1>h, <2>1 DEF NamesIn
  <2>3. resolved \in SUBSET Cells /\ ready \in BOOLEAN
    <3>1. pass.backends \in SUBSET [cell : Cells, service : Services]
      BY <1>p DEF Pass
    <3> QED
      BY <3>1 DEF BackendCells
  <2>4. CASE placements[p] = NoObject
    <3>1. Failed /\ UNCHANGED placements
      BY <1>7, <2>4 DEF PatchPlacement
    <3>2. ClusterOK'
      BY <2>0, <3>1 DEF ClusterOK
    <3> QED
      BY <1>0, <3>1, <3>2, FailedOK
  <2>5. CASE placements[p] # NoObject
    <3>1. placements' = PatchedPlacement(p, ready, resolved) /\ AfterPlacement(pass)
      BY <1>7, <2>5 DEF PatchPlacement
    <3> HIDE DEF p, ready, resolved
    <3>2. placements' \in [Placements -> Placement \cup {NoObject}]
      BY <2>2, <2>3, <2>5, <3>1, PatchesType
    <3>3. ClusterOK'
      BY <2>0, <3>2 DEF ClusterOK
    <3> QED
      BY <1>0, <1>p, <2>1, <3>1, <3>3, AfterPlacementOK
  <2> QED
    BY <2>4, <2>5
<1>8. CASE ReconcileReferenceGrant
  <2> DEFINE g == NextGrant
             q == [pass EXCEPT !.grants = @ \ {g}]
             step == IF pass.grants = {g} THEN "route" ELSE "grant"
  <2>0. pc = "grant" /\ UNCHANGED <<inputVars, gatewayNamespaces, gateways, routes, cacheVars, envVars>>
    BY <1>8 DEF ReconcileReferenceGrant
  <2>1. pass.grants # {} /\ pass.plans # << >> /\ ~pass.finalizing
    BY <2>0 DEF PassInv, Fits, NormalSteps
  <2>2. g \in pass.grants /\ g \in GrantKeys
    BY <1>p, <2>1 DEF NextGrant, Pass
  <2>3. DesiredGrant \in ReferenceGrant
    BY <1>0, DesiredType
  <2>4. grants' = grants \/ grants' = [grants EXCEPT ![g] = DesiredGrant]
    BY <1>8 DEF ReconcileReferenceGrant, DesiredGrant
  <2>5. Failed \/ (pass' = q /\ GoTo(step))
    BY <1>8 DEF ReconcileReferenceGrant
  <2> HIDE DEF g
  <2>6. ClusterOK'
    BY <2>0, <2>2, <2>3, <2>4 DEF ClusterOK
  <2>7. /\ PassOK(q) /\ q.finalizing = pass.finalizing /\ q.plans = pass.plans
        /\ q.grants = pass.grants \ {g}
    BY <1>p, GrantDoneOK
  <2> HIDE DEF q
  <2>8. Fits(step, q) /\ step \in Steps
    BY <2>1, <2>2, <2>7 DEF Fits, Steps, NormalSteps, DeletionSteps
  <2> HIDE DEF step
  <2>9. CASE Failed
    BY <1>0, <2>6, <2>9, FailedOK
  <2>10. CASE pass' = q /\ GoTo(step)
    BY <1>0, <2>6, <2>7, <2>8, <2>10, GoToOK
  <2> QED
    BY <2>5, <2>9, <2>10
<1>9. CASE ReconcileHTTPRoute
  <2> DEFINE plan == Head(pass.plans)
             k == <<snap.spec.gateway, plan.name>>
             ready == IsRouteReady(DesiredRoute(k).parents)
             entry == [name |-> plan.name, cells |-> BackendCells(pass.backends)]
             allReady == pass.allReady /\ ready
             needsRequeue == pass.needsRequeue \/ ~ready
             q == PlanDone(pass, {}, allReady, needsRequeue, entry)
  <2>0. pc = "route" /\ UNCHANGED <<inputVars, gatewayNamespaces, gateways, grants, cacheVars, envVars>>
    BY <1>9 DEF ReconcileHTTPRoute
  <2>1. pass.plans # << >> /\ ~pass.finalizing
    BY <2>0 DEF PassInv, Fits, NormalSteps
  <2>2. k \in RouteKeys
    BY <1>h, <1>s, <2>1 DEF RouteKeys
  <2>3. BackendCells(pass.backends) \in SUBSET Cells
    <3>1. pass.backends \in SUBSET [cell : Cells, service : Services]
      BY <1>p DEF Pass
    <3> QED
      BY <3>1 DEF BackendCells
  <2>4. DesiredRoute(k) \in HTTPRoute
    BY <1>0, <2>2, DesiredType
  <2>5. entry \in ManagedRoute
    BY <1>h, <2>1, <2>3 DEF ManagedRoute
  <2>6. routes' = routes \/ routes' = [routes EXCEPT ![k] = DesiredRoute(k)]
    BY <1>9 DEF ReconcileHTTPRoute, DesiredRoute
  <2>7. Failed \/ Continue(q)
    BY <1>9 DEF ReconcileHTTPRoute, PlanDone, DesiredRoute
  <2>8. ClusterOK'
    <3> HIDE DEF k
    <3> QED
      BY <2>0, <2>2, <2>4, <2>6 DEF ClusterOK
  <2>9. allReady \in BOOLEAN /\ needsRequeue \in BOOLEAN
    BY DEF IsRouteReady
  <2> HIDE DEF allReady, needsRequeue, entry
  <2>10. PassOK(q) /\ q.finalizing = pass.finalizing
    BY <1>p, <2>1, <2>5, <2>9, PlanDoneOK
  <2> HIDE DEF q
  <2>11. CASE Failed
    BY <1>0, <2>8, <2>11, FailedOK
  <2>12. CASE Continue(q)
    BY <1>0, <2>1, <2>8, <2>10, <2>12, ContinueOK
  <2> QED
    BY <2>7, <2>11, <2>12
<1>10. CASE ListRoutes
  <2> DEFINE stale == IF pass.finalizing THEN ManagedRoutes ELSE StaleRoutes
             q == [pass EXCEPT !.stale = stale]
             step == IF stale = {} THEN "listGrants" ELSE "sweepRoutes"
  <2>0. /\ pc = "listRoutes" /\ pass' = q /\ GoTo(step)
        /\ UNCHANGED <<inputVars, managedVars, cacheVars, envVars>>
    BY <1>10 DEF ListRoutes
  <2>1. stale \in SUBSET RouteKeys
    BY DEF ManagedRoutes, StaleRoutes
  <2>2. ClusterOK'
    BY <2>0 DEF ClusterOK
  <2> HIDE DEF stale
  <2>3. stale \in SUBSET (RouteKeys \cup GrantKeys)
    BY <2>1
  <2>4. PassOK(q) /\ q.finalizing = pass.finalizing /\ q.stale = stale
    BY <1>p, <2>3, StaleOK
  <2> HIDE DEF q
  <2>5. Fits(step, q) /\ step \in Steps
    BY <2>1, <2>4 DEF Fits, Steps, NormalSteps, DeletionSteps, SweepSteps
  <2> HIDE DEF step
  <2> QED
    BY <1>0, <2>0, <2>2, <2>4, <2>5, GoToOK
<1>11. CASE DeleteStaleRoute
  <2>1. PICK k \in pass.stale :
          /\ routes' = [routes EXCEPT ![k] = NoObject]
          /\ pass' = [pass EXCEPT !.stale = @ \ {k}]
          /\ GoTo(IF pass.stale = {k} THEN "listGrants" ELSE "sweepRoutes")
    BY <1>11 DEF DeleteStaleRoute
  <2> DEFINE stale == pass.stale \ {k}
             q == [pass EXCEPT !.stale = stale]
             step == IF pass.stale = {k} THEN "listGrants" ELSE "sweepRoutes"
  <2>0. pc = "sweepRoutes" /\ UNCHANGED <<inputVars, gatewayNamespaces, gateways, grants, cacheVars, envVars>>
    BY <1>11 DEF DeleteStaleRoute
  <2>2. pass.stale \in SUBSET RouteKeys
    BY <2>0 DEF PassInv, Fits
  <2>3. ClusterOK'
    BY <2>0, <2>1 DEF ClusterOK
  <2>4. stale \in SUBSET (RouteKeys \cup GrantKeys) /\ stale \in SUBSET RouteKeys
    BY <2>2
  <2>5. pass' = q /\ GoTo(step)
    BY <2>1
  <2> HIDE DEF stale
  <2>6. PassOK(q) /\ q.finalizing = pass.finalizing /\ q.stale = stale
    BY <1>p, <2>4, StaleOK
  <2> HIDE DEF q
  <2>7. Fits(step, q) /\ step \in Steps
    BY <2>4, <2>6 DEF Fits, Steps, NormalSteps, DeletionSteps, SweepSteps
  <2> HIDE DEF step
  <2> QED
    BY <1>0, <2>3, <2>5, <2>6, <2>7, GoToOK
<1>a. AfterSweep \in Steps /\ \A q : q.finalizing = pass.finalizing => Fits(AfterSweep, q)
  <2>1. pass.finalizing \in BOOLEAN
    BY <1>p DEF Pass
  <2> QED
    BY <2>1 DEF AfterSweep, Fits, Steps, NormalSteps, DeletionSteps
<1>12. CASE ListGrants
  <2> DEFINE stale == IF pass.finalizing THEN ManagedGrants ELSE StaleGrants
             q == [pass EXCEPT !.stale = stale]
             step == IF stale = {} THEN AfterSweep ELSE "sweepGrants"
  <2>0. /\ pc = "listGrants" /\ pass' = q /\ GoTo(step)
        /\ UNCHANGED <<inputVars, managedVars, cacheVars, envVars>>
    BY <1>12 DEF ListGrants
  <2>1. stale \in SUBSET GrantKeys
    BY DEF ManagedGrants, StaleGrants
  <2>2. ClusterOK'
    BY <2>0 DEF ClusterOK
  <2> HIDE DEF stale
  <2>3. stale \in SUBSET (RouteKeys \cup GrantKeys)
    BY <2>1
  <2>4. PassOK(q) /\ q.finalizing = pass.finalizing /\ q.stale = stale
    BY <1>p, <2>3, StaleOK
  <2> HIDE DEF q
  <2>5. Fits("sweepGrants", q) /\ "sweepGrants" \in Steps
    BY <2>1, <2>4 DEF Fits, Steps, NormalSteps, DeletionSteps, SweepSteps
  <2>6. Fits(step, q) /\ step \in Steps
    BY <1>a, <2>4, <2>5
  <2> HIDE DEF step
  <2> QED
    BY <1>0, <2>0, <2>2, <2>4, <2>6, GoToOK
<1>13. CASE DeleteStaleGrant
  <2>1. PICK g \in pass.stale :
          /\ grants' = [grants EXCEPT ![g] = NoObject]
          /\ pass' = [pass EXCEPT !.stale = @ \ {g}]
          /\ GoTo(IF pass.stale = {g} THEN AfterSweep ELSE "sweepGrants")
    BY <1>13 DEF DeleteStaleGrant
  <2> DEFINE stale == pass.stale \ {g}
             q == [pass EXCEPT !.stale = stale]
             step == IF pass.stale = {g} THEN AfterSweep ELSE "sweepGrants"
  <2>0. pc = "sweepGrants" /\ UNCHANGED <<inputVars, gatewayNamespaces, gateways, routes, cacheVars, envVars>>
    BY <1>13 DEF DeleteStaleGrant
  <2>2. pass.stale \in SUBSET GrantKeys
    BY <2>0 DEF PassInv, Fits
  <2>3. ClusterOK'
    BY <2>0, <2>1 DEF ClusterOK
  <2>4. stale \in SUBSET (RouteKeys \cup GrantKeys) /\ stale \in SUBSET GrantKeys
    BY <2>2
  <2>5. pass' = q /\ GoTo(step)
    BY <2>1
  <2> HIDE DEF stale
  <2>6. PassOK(q) /\ q.finalizing = pass.finalizing /\ q.stale = stale
    BY <1>p, <2>4, StaleOK
  <2> HIDE DEF q
  <2>7. Fits("sweepGrants", q) /\ "sweepGrants" \in Steps
    BY <2>4, <2>6 DEF Fits, Steps, NormalSteps, DeletionSteps, SweepSteps
  <2>8. Fits(step, q) /\ step \in Steps
    BY <1>a, <2>6, <2>7
  <2> HIDE DEF step
  <2> QED
    BY <1>0, <2>3, <2>5, <2>6, <2>8, GoToOK
<1>14. CASE PatchStatus
  <2> DEFINE new == [ready |-> ReadyCondition(pass.allReady, snap.generation),
                     observedGeneration |-> snap.generation,
                     managedRoutes |-> pass.statuses]
  <2>0. UNCHANGED <<placements, cells, managedVars, cacheVars, envVars>>
    BY <1>14 DEF PatchStatus
  <2>1. /\ pass.allReady \in BOOLEAN /\ pass.needsRequeue \in BOOLEAN
        /\ pass.statuses \in Seq(ManagedRoute)
    BY <1>p DEF Pass
  <2>2. new \in RouterStatus
    BY <1>s, <2>1, ReadyType DEF RouterStatus
  <2>3. CASE routers[cur] = NoObject
    <3>1. UNCHANGED routers /\ Return(TRUE)
      BY <1>14, <2>3 DEF PatchStatus
    <3>2. ClusterOK'
      BY <2>0, <3>1 DEF ClusterOK
    <3> QED
      BY <1>0, <3>1, <3>2, ReturnOK
  <2>4. CASE routers[cur] # NoObject
    <3>1. routers' = PatchedRouters(new) /\ Return(pass.needsRequeue)
      BY <1>14, <2>4 DEF PatchStatus
    <3> HIDE DEF new
    <3>2. routers' \in [Routers -> Router \cup {NoObject}]
      BY <1>0, <2>2, <2>4, <3>1, PatchesType
    <3>3. ClusterOK'
      BY <2>0, <3>2 DEF ClusterOK
    <3> QED
      BY <1>0, <2>1, <3>1, <3>3, ReturnOK
  <2> QED
    BY <2>3, <2>4
<1>15. CASE PatchFailure
  <2> DEFINE new == [snap.status EXCEPT !.ready = ReadyCondition(FALSE, snap.generation)]
  <2>0. UNCHANGED <<placements, cells, managedVars, cacheVars, envVars>> /\ Return(TRUE)
    BY <1>15 DEF PatchFailure
  <2>1. new \in RouterStatus
    BY <1>s, ReadyType DEF RouterStatus
  <2>2. routers' = routers \/ (routers[cur] # NoObject /\ routers' = PatchedRouters(new))
    BY <1>15 DEF PatchFailure
  <2> HIDE DEF new
  <2>3. routers' \in [Routers -> Router \cup {NoObject}]
    BY <1>0, <2>1, <2>2, PatchesType DEF ClusterOK
  <2>4. ClusterOK'
    BY <2>0, <2>3 DEF ClusterOK
  <2> QED
    BY <1>0, <2>0, <2>4, ReturnOK
<1>16. CASE DeleteManagedGateway
  <2>0. pc = "deleteGateway" /\ GoTo("removeFinalizer") /\ UNCHANGED pass
    BY <1>16 DEF DeleteManagedGateway
  <2>1. gateways' = gateways \/ gateways' = [gateways EXCEPT ![snap.spec.gateway] = NoObject]
    BY <1>16 DEF DeleteManagedGateway
  <2>2. ClusterOK'
    BY <1>16, <2>1 DEF ClusterOK, DeleteManagedGateway
  <2>3. Fits("removeFinalizer", pass) /\ "removeFinalizer" \in Steps
    BY <2>0 DEF PassInv, Fits, Steps, NormalSteps, DeletionSteps
  <2> QED
    BY <1>0, <1>p, <2>0, <2>2, <2>3, GoToOK
<1>17. CASE RemoveFinalizer
  <2>0. UNCHANGED <<placements, cells, managedVars, cacheVars, envVars>>
    BY <1>17 DEF RemoveFinalizer
  <2>1. Return(TRUE) \/ Return(FALSE)
    BY <1>17 DEF RemoveFinalizer
  <2>2. \/ routers' = routers
        \/ routers' = [routers EXCEPT ![cur] = NoObject]
        \/ /\ routers[cur] # NoObject
           /\ routers' = [routers EXCEPT ![cur] = [routers[cur] EXCEPT !.finalizer = FALSE]]
    BY <1>17 DEF RemoveFinalizer
  <2>3. routers[cur] # NoObject => [routers[cur] EXCEPT !.finalizer = FALSE] \in Router
    BY <1>0 DEF ClusterOK, Router
  <2>4. routers' \in [Routers -> Router \cup {NoObject}]
    BY <1>0, <2>2, <2>3 DEF ClusterOK
  <2>5. ClusterOK'
    BY <2>0, <2>4 DEF ClusterOK
  <2> QED
    BY <1>0, <2>1, <2>5, ReturnOK
<1> QED
  BY <1>1, <1>2, <1>3, <1>4, <1>5, <1>6, <1>7, <1>8, <1>9, <1>10, <1>11, <1>12, <1>13, <1>14,
     <1>15, <1>16, <1>17 DEF ReconcileStep

\* Informers keep the state well-typed.
LEMMA InformersType ==
  ASSUME ClusterOK, WorkerOK, PassInv, Informers
  PROVE  ClusterOK' /\ WorkerOK' /\ PassInv'
<1> USE DEF inputVars, managedVars, workerVars, envVars
<1>w. ASSUME UNCHANGED workerVars, queue' \subseteq Routers PROVE WorkerOK' /\ PassInv'
  BY <1>w DEF WorkerOK, PassInv
<1>1. ASSUME NEW r \in Routers, SyncRouter(r) PROVE ClusterOK' /\ WorkerOK' /\ PassInv'
  <2>1. ClusterOK'
    BY <1>1 DEF ClusterOK, SyncRouter
  <2>2. queue' \subseteq Routers /\ UNCHANGED workerVars
    BY <1>1 DEF WorkerOK, SyncRouter
  <2> QED
    BY <1>w, <2>1, <2>2
<1>2. ASSUME NEW p \in Placements, SyncPlacement(p) PROVE ClusterOK' /\ WorkerOK' /\ PassInv'
  <2>1. ClusterOK'
    BY <1>2 DEF ClusterOK, SyncPlacement
  <2>2. \A object \in Placement \cup {NoObject} : RequestsForPlacement(object) \subseteq Routers
    BY DEF RequestsForPlacement, Placement, PlacementSpec
  <2>3. queue' \subseteq Routers /\ UNCHANGED workerVars
    BY <1>2, <2>2 DEF WorkerOK, ClusterOK, SyncPlacement
  <2> QED
    BY <1>w, <2>1, <2>3
<1>3. ASSUME NEW c \in Cells, SyncCell(c) PROVE ClusterOK' /\ WorkerOK' /\ PassInv'
  <2>1. ClusterOK'
    BY <1>3 DEF ClusterOK, SyncCell
  <2>2. queue' \subseteq Routers /\ UNCHANGED workerVars
    BY <1>3 DEF WorkerOK, SyncCell, RequestsForCell
  <2> QED
    BY <1>w, <2>1, <2>2
<1>4. ASSUME NEW n \in GatewayNamespaces, SyncGateway(n) PROVE ClusterOK' /\ WorkerOK' /\ PassInv'
  <2>1. ClusterOK'
    BY <1>4 DEF ClusterOK, SyncGateway
  <2>2. queue' \subseteq Routers /\ UNCHANGED workerVars
    BY <1>4 DEF WorkerOK, ClusterOK, SyncGateway, Gateway, OwnerRef
  <2> QED
    BY <1>w, <2>1, <2>2
<1>5. ASSUME NEW k \in RouteKeys, SyncRoute(k) PROVE ClusterOK' /\ WorkerOK' /\ PassInv'
  <2>1. ClusterOK'
    BY <1>5 DEF ClusterOK, SyncRoute
  <2>2. queue' \subseteq Routers /\ UNCHANGED workerVars
    BY <1>5 DEF WorkerOK, ClusterOK, SyncRoute, OwnerRequests, HTTPRoute, OwnerRef
  <2> QED
    BY <1>w, <2>1, <2>2
<1>6. ASSUME NEW g \in GrantKeys, SyncGrant(g) PROVE ClusterOK' /\ WorkerOK' /\ PassInv'
  <2>1. ClusterOK'
    BY <1>6 DEF ClusterOK, SyncGrant
  <2>2. queue' \subseteq Routers /\ UNCHANGED workerVars
    BY <1>6 DEF WorkerOK, ClusterOK, SyncGrant, OwnerRequests, ReferenceGrant, OwnerRef
  <2> QED
    BY <1>w, <2>1, <2>2
<1> QED
  BY <1>1, <1>2, <1>3, <1>4, <1>5, <1>6 DEF Informers

\* So do the Gateway implementation and the garbage collector.
LEMMA ClusterType ==
  ASSUME ClusterOK, WorkerOK, PassInv, Cluster
  PROVE  ClusterOK' /\ WorkerOK' /\ PassInv'
<1> USE DEF inputVars, cacheVars, workerVars, envVars
<1>1. ASSUME NEW k \in RouteKeys, ReportRoute(k) PROVE ClusterOK'
  <2> DEFINE new == [routes[k] EXCEPT !.parents = Report(k)]
  <2>1. routes[k] \in HTTPRoute
    BY <1>1 DEF ClusterOK, ReportRoute
  <2>2. Report(k) \in SUBSET ParentStatus
    BY DEF Report, ParentStatus, Granted
  <2>3. new \in HTTPRoute
    BY <2>1, <2>2 DEF HTTPRoute
  <2>4. routes' = [routes EXCEPT ![k] = new]
    BY <1>1 DEF ReportRoute
  <2> HIDE DEF new
  <2> QED
    BY <1>1, <2>3, <2>4 DEF ClusterOK, ReportRoute
<1>2. ASSUME NEW k \in RouteKeys, CollectRoute(k) PROVE ClusterOK'
  BY <1>2 DEF ClusterOK, CollectRoute
<1>3. ASSUME NEW g \in GrantKeys, CollectGrant(g) PROVE ClusterOK'
  BY <1>3 DEF ClusterOK, CollectGrant
<1>4. ASSUME NEW n \in GatewayNamespaces, CollectGateway(n) PROVE ClusterOK'
  BY <1>4 DEF ClusterOK, CollectGateway
<1>5. UNCHANGED <<queue, workerVars>>
  BY DEF Cluster, ReportRoute, CollectRoute, CollectGrant, CollectGateway
<1>6. WorkerOK' /\ PassInv'
  BY <1>5 DEF WorkerOK, PassInv
<1> QED
  BY <1>1, <1>2, <1>3, <1>4, <1>6 DEF Cluster

\* So do users, faults and restarts.
LEMMA EnvironmentType ==
  ASSUME ClusterOK, WorkerOK, PassInv, Environment
  PROVE  ClusterOK' /\ WorkerOK' /\ PassInv'
<1> USE DEF inputVars, managedVars, cacheVars, workerVars, Undisturbed
<1>0. ASSUME NEW kind, Disturb(kind) PROVE disturbances' \in 0..MaxDisturbances
  BY <1>0, NamesAssumption DEF Disturb, ClusterOK
<1>u. ASSUME Undisturbed PROVE WorkerOK' /\ PassInv'
  BY <1>u DEF WorkerOK, PassInv
<1>e. EmptyRouterStatus \in RouterStatus /\ EmptyPlacementStatus \in PlacementStatus
  BY DEF EmptyRouterStatus, EmptyPlacementStatus, RouterStatus, PlacementStatus, Absent, Condition
<1>1. ASSUME NEW r \in Routers, NEW spec \in RouterSpecs[r] \ {NoObject}, CreateRouter(r, spec)
      PROVE  ClusterOK' /\ WorkerOK' /\ PassInv'
  <2>1. uids[r] + 1 \in Nat
    BY DEF ClusterOK
  <2>2. NewRouter(spec, uids[r] + 1) \in Router
    BY <1>e, <2>1, SpecsAssumption DEF NewRouter, Router
  <2>3. routers' \in [Routers -> Router \cup {NoObject}] /\ uids' \in [Routers \cup Placements -> Nat]
    BY <1>1, <2>1, <2>2 DEF ClusterOK, CreateRouter
  <2>4. ClusterOK'
    BY <1>0, <1>1, <2>3 DEF ClusterOK, CreateRouter
  <2> QED
    BY <1>1, <1>u, <2>4 DEF CreateRouter
<1>2. ASSUME NEW r \in Routers, NEW spec \in RouterSpecs[r] \ {NoObject}, EditRouter(r, spec)
      PROVE  ClusterOK' /\ WorkerOK' /\ PassInv'
  <2> DEFINE new == [routers[r] EXCEPT !.spec = spec, !.generation = routers[r].generation + 1]
  <2>1. spec \in RouterSpec /\ routers[r] \in Router
    BY <1>2, SpecsAssumption DEF ClusterOK, EditRouter
  <2>2. routers[r].generation + 1 \in Nat
    BY <2>1 DEF Router
  <2>3. new \in Router
    BY <2>1, <2>2 DEF Router
  <2>4. routers' = [routers EXCEPT ![r] = new]
    BY <1>2 DEF EditRouter
  <2> HIDE DEF new
  <2>5. routers' \in [Routers -> Router \cup {NoObject}]
    BY <2>3, <2>4 DEF ClusterOK
  <2>6. Disturb("routerSpec") /\ UNCHANGED <<placements, cells, managedVars, cacheVars, uids>>
    BY <1>2 DEF EditRouter
  <2>7. ClusterOK'
    BY <1>0, <2>5, <2>6 DEF ClusterOK
  <2> QED
    BY <1>2, <1>u, <2>7 DEF EditRouter
<1>3. ASSUME NEW r \in Routers, DeleteRouter(r) PROVE ClusterOK' /\ WorkerOK' /\ PassInv'
  <2> DEFINE new == [routers[r] EXCEPT !.deleting = TRUE, !.generation = routers[r].generation + 1]
  <2>1. routers[r] \in Router
    BY <1>3 DEF ClusterOK, DeleteRouter
  <2>2. routers[r].generation + 1 \in Nat
    BY <2>1 DEF Router
  <2>3. new \in Router
    BY <2>1, <2>2 DEF Router
  <2>4. routers' = [routers EXCEPT ![r] = new] \/ routers' = [routers EXCEPT ![r] = NoObject]
    BY <1>3 DEF DeleteRouter
  <2> HIDE DEF new
  <2>5. ClusterOK'
    BY <1>0, <1>3, <2>3, <2>4, ZenonT(60) DEF ClusterOK, DeleteRouter
  <2> QED
    BY <1>3, <1>u, <2>5 DEF DeleteRouter
<1>4. ASSUME NEW p \in Placements, NEW spec \in PlacementSpecs[p] \ {NoObject}, CreatePlacement(p, spec)
      PROVE  ClusterOK' /\ WorkerOK' /\ PassInv'
  <2>1. uids[p] + 1 \in Nat
    BY DEF ClusterOK
  <2>2. NewPlacement(spec, uids[p] + 1) \in Placement
    BY <1>e, <2>1, SpecsAssumption DEF NewPlacement, Placement
  <2>3. /\ placements' \in [Placements -> Placement \cup {NoObject}]
        /\ uids' \in [Routers \cup Placements -> Nat]
    BY <1>4, <2>1, <2>2 DEF ClusterOK, CreatePlacement
  <2>4. ClusterOK'
    BY <1>0, <1>4, <2>3 DEF ClusterOK, CreatePlacement
  <2> QED
    BY <1>4, <1>u, <2>4 DEF CreatePlacement
<1>5. ASSUME NEW p \in Placements, NEW spec \in PlacementSpecs[p] \ {NoObject}, EditPlacement(p, spec)
      PROVE  ClusterOK' /\ WorkerOK' /\ PassInv'
  <2> DEFINE new == [placements[p] EXCEPT !.spec = spec, !.generation = placements[p].generation + 1]
  <2>1. spec \in PlacementSpec /\ placements[p] \in Placement
    BY <1>5, SpecsAssumption DEF ClusterOK, EditPlacement
  <2>2. placements[p].generation + 1 \in Nat
    BY <2>1 DEF Placement
  <2>3. new \in Placement
    BY <2>1, <2>2 DEF Placement
  <2>4. placements' = [placements EXCEPT ![p] = new]
    BY <1>5 DEF EditPlacement
  <2> HIDE DEF new
  <2>5. placements' \in [Placements -> Placement \cup {NoObject}]
    BY <2>3, <2>4 DEF ClusterOK
  <2>6. Disturb("placement") /\ UNCHANGED <<routers, cells, managedVars, cacheVars, uids>>
    BY <1>5 DEF EditPlacement
  <2>7. ClusterOK'
    BY <1>0, <2>5, <2>6 DEF ClusterOK
  <2> QED
    BY <1>5, <1>u, <2>7 DEF EditPlacement
<1>6. ASSUME NEW p \in Placements, DeletePlacement(p) PROVE ClusterOK' /\ WorkerOK' /\ PassInv'
  <2>1. ClusterOK'
    BY <1>0, <1>6 DEF ClusterOK, DeletePlacement
  <2> QED
    BY <1>6, <1>u, <2>1 DEF DeletePlacement
<1>7. ASSUME NEW c \in Cells, NEW view \in CellViews[c], CellChanges(c, view)
      PROVE  ClusterOK' /\ WorkerOK' /\ PassInv'
  <2>1. view \in CellView \cup {NoObject}
    BY ViewsAssumption
  <2>2. ClusterOK'
    BY <1>0, <1>7, <2>1 DEF ClusterOK, CellChanges
  <2> QED
    BY <1>7, <1>u, <2>2 DEF CellChanges
<1>8. ASSUME NEW k \in RouteKeys, UserDeletesRoute(k) PROVE ClusterOK' /\ WorkerOK' /\ PassInv'
  <2>1. ClusterOK'
    BY <1>0, <1>8 DEF ClusterOK, UserDeletesRoute
  <2> QED
    BY <1>8, <1>u, <2>1 DEF UserDeletesRoute
<1>9. ASSUME NEW g \in GrantKeys, UserDeletesGrant(g) PROVE ClusterOK' /\ WorkerOK' /\ PassInv'
  <2>1. ClusterOK'
    BY <1>0, <1>9 DEF ClusterOK, UserDeletesGrant
  <2> QED
    BY <1>9, <1>u, <2>1 DEF UserDeletesGrant
<1>10. ASSUME NEW n \in GatewayNamespaces, UserDeletesGateway(n)
       PROVE  ClusterOK' /\ WorkerOK' /\ PassInv'
  <2>1. ClusterOK'
    BY <1>0, <1>10 DEF ClusterOK, UserDeletesGateway
  <2> QED
    BY <1>10, <1>u, <2>1 DEF UserDeletesGateway
<1>11. CASE CallFails
  <2>1. ClusterOK'
    BY <1>0, <1>11 DEF ClusterOK, CallFails
  <2>2. pc # "idle" /\ (Failed \/ Return(TRUE))
    BY <1>11 DEF CallFails
  <2> QED
    BY <2>1, <2>2, FailedOK, ReturnOK
<1>12. CASE Restart
  <2>1. ClusterOK'
    BY <1>0, <1>12 DEF ClusterOK, Restart
  <2>2. PassOK(pass')
    BY <1>12, EmptyPassOK DEF Restart
  <2>3. WorkerOK'
    BY <1>12, <2>2 DEF WorkerOK, Restart, Steps
  <2>4. PassInv'
    BY <1>12 DEF Restart, PassInv, Fits, NormalSteps, DeletionSteps
  <2> QED
    BY <2>1, <2>3, <2>4
<1> QED
  BY <1>1, <1>2, <1>3, <1>4, <1>5, <1>6, <1>7, <1>8, <1>9, <1>10, <1>11, <1>12 DEF Environment

\* Every step keeps the state well-typed.
LEMMA NextType ==
  ASSUME TypeOK, PassInv, [Next]_vars
  PROVE  TypeOK' /\ PassInv'
<1>1. ClusterOK /\ WorkerOK
  BY TypeParts
<1>2. ClusterOK' /\ WorkerOK' /\ PassInv'
  <2>1. ASSUME NEW r \in Routers, StartReconcile(r) PROVE ClusterOK' /\ WorkerOK' /\ PassInv'
    BY <1>1, <2>1, StartType
  <2>2. CASE ReconcileStep
    BY <1>1, <2>2, ReconcileStepType
  <2>3. CASE Informers
    BY <1>1, <2>3, InformersType
  <2>4. CASE Cluster
    BY <1>1, <2>4, ClusterType
  <2>5. CASE Environment
    BY <1>1, <2>5, EnvironmentType
  <2>6. CASE UNCHANGED vars
    BY <1>1, <2>6 DEF ClusterOK, WorkerOK, PassInv, vars, inputVars, managedVars, cacheVars,
                      workerVars, envVars
  <2> QED
    BY <2>1, <2>2, <2>3, <2>4, <2>5, <2>6 DEF Next
<1>3. TypeOK'
  BY <1>2 DEF TypeOK, ClusterOK, WorkerOK, PassOK
<1> QED
  BY <1>2, <1>3

\* Every variable of the CellRouter reconciler keeps its type: no step of a pass, a
\* list of a stale cache or a restart leaves a pass without a router in hand, a
\* placement that was not listed or a grant that the sweep does not expect.
THEOREM TypeCorrect == Spec => []TypeOK
<1>1. Init => TypeOK /\ PassInv
  BY TypeInit, TypeParts
<1>2. TypeOK /\ PassInv /\ [Next]_vars => TypeOK' /\ PassInv'
  BY NextType
<1> QED
  BY <1>1, <1>2, PTL DEF Spec

-----------------------------------------------------------------------------
(* The finalizer protocol.                                                 *)

\* b is a CellRouter whose life is where that of a is: only its spec, its generation
\* and its status may differ.
SameLife(a, b) ==
  /\ a = NoObject <=> b = NoObject
  /\ a # NoObject => b.uid = a.uid /\ b.deleting = a.deleting /\ b.finalizer = a.finalizer

SameLives == \A r \in Routers : SameLife(routers[r], routers'[r])

\* The worker ends its pass or goes on with it in the same mode.
SamePass ==
  \/ pc' = "idle"
  \/ /\ pc # "idle" /\ UNCHANGED <<cur, snap>>
     /\ pass'.finalizing = pass.finalizing
     /\ pc' \in NormalSteps \cup SweepSteps /\ ~pass.finalizing => pc \in NormalSteps \cup SweepSteps
     /\ pc' = "addFinalizer" => pc = "addFinalizer"

\* An object is as alive as it was.
LEMMA SameLifeRefl == \A a : SameLife(a, a)
  BY DEF SameLife

\* A patched router lives as it did.
LEMMA PatchedLives ==
  ASSUME ClusterOK, WorkerOK, pc # "idle", routers[cur] # NoObject, NEW new \in RouterStatus,
         routers' = PatchedRouters(new)
  PROVE  SameLives
<1> DEFINE st == MergePatch(routers[cur].status, snap.status, new)
           patched == [routers[cur] EXCEPT !.status = st]
<1>1. cur \in Routers /\ routers[cur] \in Router
  BY DEF ClusterOK, WorkerOK
<1>2. routers' = [routers EXCEPT ![cur] = patched]
  BY DEF PatchedRouters
<1> HIDE DEF st
<1>3. /\ patched.uid = routers[cur].uid /\ patched.deleting = routers[cur].deleting
      /\ patched.finalizer = routers[cur].finalizer
  BY <1>1 DEF Router
<1>4. routers' \in [Routers -> Router \cup {NoObject}]
  BY PatchesType
<1> HIDE DEF patched
<1>5. \A r \in Routers : routers'[r] = IF r = cur THEN patched ELSE routers[r]
  BY <1>2 DEF ClusterOK
<1>6. patched # NoObject
  <2>1. [routers[cur] EXCEPT !.status = st] \in Router
    BY <1>1, MergePatchType DEF ClusterOK, WorkerOK, Router, st
  <2> QED
    BY <2>1, SentinelAssumption DEF patched
<1> QED
  BY <1>1, <1>3, <1>5, <1>6, SameLifeRefl DEF SameLives, SameLife

\* Only two steps of a pass touch the life of a router, and all keep to its mode.
LEMMA StepFrame ==
  ASSUME ClusterOK, WorkerOK, PassInv, ReconcileStep
  PROVE  /\ cur \in Routers /\ UNCHANGED <<cRouters, uids>>
         /\ \/ EnsureFinalizer /\ routers[cur] # NoObject
            \/ RemoveFinalizer /\ routers[cur] # NoObject
            \/ SameLives /\ SamePass
<1> USE DEF inputVars, managedVars, cacheVars, envVars
<1>p. pass \in Pass
  BY DEF WorkerOK, PassOK
<1>n. /\ {"gatewayNamespace", "gateway", "plan", "invalid", "resolve", "placement", "grant",
          "route", "patchStatus", "patchFailure"} = NormalSteps
      /\ {"listRoutes", "sweepRoutes", "listGrants", "sweepGrants"} = SweepSteps
      /\ {"deleteGateway", "removeFinalizer"} = DeletionSteps
  BY DEF NormalSteps, SweepSteps, DeletionSteps
<1>m. pc \in NormalSteps => pass.finalizing = FALSE
  BY <1>p DEF PassInv, Fits, Pass
<1>0. pc # "idle" /\ cur \in Routers /\ snap \in Router /\ UNCHANGED <<cRouters, uids>>
  <2>1. pc # "idle" /\ UNCHANGED <<cRouters, uids>>
    BY DEF ReconcileStep, EnsureFinalizer, ReconcileGatewayNamespace, ReconcileGateway,
           BuildRoutePlans, PatchInvalidPlacement, ResolveBackends, PatchPlacement,
           ReconcileReferenceGrant, ReconcileHTTPRoute, ListRoutes, DeleteStaleRoute,
           ListGrants, DeleteStaleGrant, PatchStatus, PatchFailure, DeleteManagedGateway,
           RemoveFinalizer
  <2> QED
    BY <2>1 DEF WorkerOK
<1>u. routers' = routers => SameLives
  BY SameLifeRefl DEF SameLives
<1>f. ASSUME pc \in NormalSteps, Failed PROVE SamePass
  BY <1>f, <1>m, <1>n, EmptyPassOK DEF SamePass, Failed, GoTo
<1>g. ASSUME NEW step, GoTo(step), pass'.finalizing = pass.finalizing, step # "addFinalizer",
             pc \in NormalSteps \cup SweepSteps \/ pass.finalizing
      PROVE  SamePass
  BY <1>0, <1>g DEF SamePass, GoTo
<1>c. ASSUME pc \in NormalSteps, NEW q, Continue(q), q.finalizing = pass.finalizing PROVE SamePass
  BY <1>c, <1>g DEF Continue
<1>a. ASSUME pc \in NormalSteps, NEW q, AfterPlacement(q), PassOK(q), q.finalizing = pass.finalizing
      PROVE SamePass
  <2> DEFINE plan == Head(q.plans)
             entry == [name |-> plan.name, cells |-> {}]
             needed == ReferenceGrantKeys(plan.name, q.backends)
             a == [q EXCEPT !.plans = Tail(@), !.allReady = FALSE, !.needsRequeue = TRUE,
                            !.statuses = Append(@, entry)]
             b == [q EXCEPT !.grants = needed, !.expectedRoutes = @ \cup {plan.name},
                            !.expectedGrants = @ \cup {ReferenceGrantName(g) : g \in needed}]
  <2>1. Continue(a) \/ (pass' = b /\ GoTo("grant"))
    BY <1>a DEF AfterPlacement
  <2> HIDE DEF entry, needed, plan
  <2>2. a.finalizing = q.finalizing /\ b.finalizing = q.finalizing
    BY <1>a DEF PassOK, Pass
  <2> HIDE DEF a, b
  <2> QED
    BY <1>a, <1>c, <1>g, <2>1, <2>2
<1>1. CASE EnsureFinalizer /\ routers[cur] = NoObject
  BY <1>0, <1>1, <1>u DEF EnsureFinalizer, Return, SamePass
<1>2. CASE ReconcileGatewayNamespace
  BY <1>0, <1>2, <1>g, <1>n, <1>u DEF ReconcileGatewayNamespace
<1>3. CASE ReconcileGateway
  BY <1>0, <1>3, <1>f, <1>g, <1>n, <1>u DEF ReconcileGateway
<1>4. CASE BuildRoutePlans
  <2>1. pc \in NormalSteps /\ routers' = routers
    BY <1>4, <1>n DEF BuildRoutePlans
  <2>2. CASE Failed
    BY <1>0, <1>f, <1>u, <2>1, <2>2
  <2>3. CASE \E l, i, p : Continue([pass EXCEPT !.listed = l, !.invalid = i, !.plans = p])
    <3>1. PICK l, i, p : Continue([pass EXCEPT !.listed = l, !.invalid = i, !.plans = p])
      BY <2>3
    <3> DEFINE q == [pass EXCEPT !.listed = l, !.invalid = i, !.plans = p]
    <3>2. q.finalizing = pass.finalizing
      BY <1>p DEF Pass
    <3>3. Continue(q)
      BY <3>1
    <3> HIDE DEF q
    <3> QED
      BY <1>0, <1>c, <1>u, <2>1, <3>2, <3>3
  <2> QED
    BY <1>4, <2>2, <2>3 DEF BuildRoutePlans
<1>5. CASE PatchInvalidPlacement
  <2>1. pc \in NormalSteps /\ routers' = routers
    BY <1>5, <1>n DEF PatchInvalidPlacement
  <2>2. CASE Failed
    BY <1>0, <1>f, <1>u, <2>1, <2>2
  <2>3. CASE \E i, a, s : Continue([pass EXCEPT !.invalid = i, !.allReady = a, !.statuses = s])
    <3>1. PICK i, a, s : Continue([pass EXCEPT !.invalid = i, !.allReady = a, !.statuses = s])
      BY <2>3
    <3> DEFINE q == [pass EXCEPT !.invalid = i, !.allReady = a, !.statuses = s]
    <3>2. q.finalizing = pass.finalizing
      BY <1>p DEF Pass
    <3>3. Continue(q)
      BY <3>1
    <3> HIDE DEF q
    <3> QED
      BY <1>0, <1>c, <1>u, <2>1, <3>2, <3>3
  <2> QED
    BY <1>5, <2>2, <2>3 DEF PatchInvalidPlacement
<1>6. CASE ResolveBackends
  <2> DEFINE found == ResolveRouteBackends(cCells, Head(pass.plans))
             q == [pass EXCEPT !.backends = found]
  <2>1. pc \in NormalSteps /\ routers' = routers /\ pass.plans # << >>
    BY <1>6, <1>n DEF ResolveBackends, PassInv, Fits
  <2>2. (pass' = q /\ GoTo("placement")) \/ AfterPlacement(q)
    BY <1>6 DEF ResolveBackends
  <2>3. found \in SUBSET [cell : Cells, service : Services]
    <3>1. pass.plans \in Seq(RoutePlan)
      BY <1>p DEF Pass
    <3> QED
      BY <2>1, <3>1, HeadTail, BackendsType
  <2> HIDE DEF found
  <2>4. PassOK(q) /\ q.finalizing = pass.finalizing
    BY <2>3, ResolvedOK DEF WorkerOK
  <2> HIDE DEF q
  <2> QED
    BY <1>0, <1>a, <1>g, <1>u, <2>1, <2>2, <2>4
<1>7. CASE PatchPlacement
  BY <1>0, <1>7, <1>a, <1>f, <1>n, <1>u DEF PatchPlacement, WorkerOK
<1>8. CASE ReconcileReferenceGrant
  <2>1. \A q : [pass EXCEPT !.grants = q].finalizing = pass.finalizing
    BY <1>p DEF Pass
  <2>2. pc \in NormalSteps /\ routers' = routers
    BY <1>8, <1>n DEF ReconcileReferenceGrant
  <2>3. \/ Failed
        \/ \E q : pass' = [pass EXCEPT !.grants = q] /\ (GoTo("route") \/ GoTo("grant"))
    BY <1>8 DEF ReconcileReferenceGrant
  <2> QED
    BY <1>0, <1>f, <1>g, <1>u, <2>1, <2>2, <2>3
<1>9. CASE ReconcileHTTPRoute
  <2>1. pc \in NormalSteps /\ routers' = routers
    BY <1>9, <1>n DEF ReconcileHTTPRoute
  <2>2. CASE Failed
    BY <1>0, <1>f, <1>u, <2>1, <2>2
  <2>3. CASE \E ps, b, a, n, s : Continue([pass EXCEPT !.plans = ps, !.backends = b, !.allReady = a,
                                        !.needsRequeue = n, !.statuses = s])
    <3>1. PICK ps, b, a, n, s : Continue([pass EXCEPT !.plans = ps, !.backends = b, !.allReady = a,
                                        !.needsRequeue = n, !.statuses = s])
      BY <2>3
    <3> DEFINE q == [pass EXCEPT !.plans = ps, !.backends = b, !.allReady = a,
                                        !.needsRequeue = n, !.statuses = s]
    <3>2. q.finalizing = pass.finalizing
      BY <1>p DEF Pass
    <3>3. Continue(q)
      BY <3>1
    <3> HIDE DEF q
    <3> QED
      BY <1>0, <1>c, <1>u, <2>1, <3>2, <3>3
  <2> QED
    BY <1>9, <2>2, <2>3 DEF ReconcileHTTPRoute
<1>10. CASE ListRoutes \/ DeleteStaleRoute \/ ListGrants \/ DeleteStaleGrant
  <2>1. \A q : [pass EXCEPT !.stale = q].finalizing = pass.finalizing
    BY <1>p DEF Pass
  <2>2. pc \in SweepSteps /\ routers' = routers
    BY <1>10, <1>n DEF ListRoutes, DeleteStaleRoute, ListGrants, DeleteStaleGrant
  <2>3. \E q, step : pass' = [pass EXCEPT !.stale = q] /\ step # "addFinalizer" /\ GoTo(step)
    BY <1>10 DEF ListRoutes, DeleteStaleRoute, ListGrants, DeleteStaleGrant, AfterSweep
  <2> QED
    BY <1>0, <1>g, <1>u, <2>1, <2>2, <2>3
<1>11. CASE PatchStatus \/ PatchFailure
  <2> DEFINE new == [ready |-> ReadyCondition(pass.allReady, snap.generation),
                     observedGeneration |-> snap.generation,
                     managedRoutes |-> pass.statuses]
             err == [snap.status EXCEPT !.ready = ReadyCondition(FALSE, snap.generation)]
  <2>1. snap.generation \in Nat /\ snap.status \in RouterStatus
    BY <1>0, RouterParts
  <2>2. new \in RouterStatus /\ err \in RouterStatus
    BY <1>p, <2>1, ReadyType DEF RouterStatus, Pass
  <2>3. pc' = "idle"
    BY <1>11 DEF PatchStatus, PatchFailure, Return
  <2>4. \/ routers' = routers
        \/ routers[cur] # NoObject /\ (routers' = PatchedRouters(new) \/ routers' = PatchedRouters(err))
    BY <1>11 DEF PatchStatus, PatchFailure
  <2> HIDE DEF new, err
  <2> QED
    BY <1>0, <1>u, <2>2, <2>3, <2>4, PatchedLives DEF SamePass
<1>12. CASE DeleteManagedGateway
  <2>1. pass.finalizing
    BY <1>12, <1>n DEF DeleteManagedGateway, PassInv, Fits
  <2> QED
    BY <1>0, <1>12, <1>g, <1>u, <2>1 DEF DeleteManagedGateway
<1>13. CASE RemoveFinalizer /\ routers[cur] = NoObject
  BY <1>0, <1>13, <1>u DEF RemoveFinalizer, Return, SamePass
<1> QED
  BY <1>0, <1>1, <1>2, <1>3, <1>4, <1>5, <1>6, <1>7, <1>8, <1>9, <1>10, <1>11, <1>12, <1>13
  DEF ReconcileStep

\* A step that touches the life of no router, nor the cache of routers, and keeps to
\* the mode of the pass, keeps the invariant of the protocol.
LEMMA PinFrame ==
  ASSUME WorkerOK, PinInv, SameLives, UNCHANGED cRouters, SamePass
  PROVE  PinInv'
<1>l. \A r \in Routers : SameLife(routers[r], routers'[r])
  BY DEF SameLives
<1>c. pc # "idle" => cur \in Routers
  BY DEF WorkerOK
<1>1. DeletingHasFinalizer'
  BY <1>l DEF PinInv, DeletingHasFinalizer, SameLife
<1>2. CacheUnderFinalizer'
  BY <1>l DEF PinInv, CacheUnderFinalizer, SameLife, Live
<1>3. FinalizesOnlyDeleted'
  <2>1. \A r \in Routers : Reserved(routers'[r]) => Reserved(routers[r])
    BY <1>l DEF SameLife, Reserved
  <2>2. \A r \in Routers : Live(r) /\ routers[r].deleting => routers'[r] # NoObject /\ routers'[r].deleting
    BY <1>l DEF SameLife, Live
  <2> QED
    BY <1>c, <2>1, <2>2 DEF PinInv, FinalizesOnlyDeleted, SamePass, Live
<1>4. FinalizerPinsPass'
  <2>1. \A r \in Routers : Live(r) => /\ routers'[r] # NoObject /\ routers'[r].uid = routers[r].uid
                                     /\ routers'[r].finalizer = routers[r].finalizer
    BY <1>l DEF SameLife, Live
  <2>2. "idle" \notin NormalSteps \cup SweepSteps
    BY DEF NormalSteps, SweepSteps
  <2> QED
    BY <1>c, <2>1, <2>2 DEF PinInv, FinalizerPinsPass, SamePass, Live
<1> QED
  BY <1>1, <1>2, <1>3, <1>4 DEF PinInv

\* Finding the router in the cache puts the pass on the right path.
LEMMA PinStart ==
  ASSUME ClusterOK, WorkerOK, PassInv, PinInv, NEW r \in Routers, StartReconcile(r)
  PROVE  PinInv'
<1>0. UNCHANGED <<routers, cRouters>>
  BY DEF StartReconcile, inputVars, cacheVars
<1>1. CASE cRouters[r] = NoObject
  BY <1>0, <1>1, PinFrame, SameLifeRefl DEF StartReconcile, workerVars, SameLives, SamePass
<1>2. CASE cRouters[r] # NoObject
  <2>1. cRouters[r].deleting \in BOOLEAN /\ cRouters[r].finalizer \in BOOLEAN
    BY <1>2, RouterParts DEF ClusterOK
  <2>2. /\ cur' = r /\ snap' = cRouters[r]
        /\ pass' = [EmptyPass EXCEPT !.finalizing = cRouters[r].deleting]
        /\ \/ cRouters[r].deleting /\ pc' = "listRoutes"
           \/ ~cRouters[r].deleting /\ ~cRouters[r].finalizer /\ pc' = "addFinalizer"
           \/ ~cRouters[r].deleting /\ cRouters[r].finalizer /\ pc' = "gatewayNamespace"
    BY <1>2, <2>1 DEF StartReconcile
  <2>3. pass'.finalizing = cRouters[r].deleting
    BY <2>1, <2>2, EmptyPassOK
  <2>4. DeletingHasFinalizer' /\ CacheUnderFinalizer'
    BY <1>0 DEF PinInv, DeletingHasFinalizer, CacheUnderFinalizer, Live
  <2>5. FinalizesOnlyDeleted'
    BY <1>0, <1>2, <2>2, <2>3 DEF PinInv, FinalizesOnlyDeleted, Reserved
  <2>6. FinalizerPinsPass'
    BY <1>0, <1>2, <2>2, <2>3
    DEF PinInv, FinalizerPinsPass, CacheUnderFinalizer, NormalSteps, SweepSteps, Live
  <2> QED
    BY <2>4, <2>5, <2>6 DEF PinInv
<1> QED
  BY <1>1, <1>2

\* Adding the finalizer to the router on the server, whatever the cache showed.
LEMMA PinEnsure ==
  ASSUME ClusterOK, WorkerOK, PassInv, PinInv, EnsureFinalizer, routers[cur] # NoObject
  PROVE  PinInv'
<1> DEFINE new == [routers[cur] EXCEPT !.finalizer = TRUE]
<1>0. pc = "addFinalizer" /\ cur \in Routers /\ ~pass.finalizing
  BY DEF EnsureFinalizer, WorkerOK, PassInv, Fits
<1>1. routers[cur] \in Router
  BY <1>0 DEF ClusterOK
<1>2. /\ new \in Router /\ new.uid = routers[cur].uid /\ new.finalizer
      /\ new.deleting = routers[cur].deleting
  BY <1>1 DEF Router
<1>3. new # NoObject
  BY <1>2, SentinelAssumption
<1>4. /\ routers' = [routers EXCEPT ![cur] = new] /\ snap' = routers'[cur]
      /\ pc' = "gatewayNamespace" /\ UNCHANGED <<cur, pass, cRouters>>
  BY DEF EnsureFinalizer, cacheVars
<1> HIDE DEF new
<1>5. \A r \in Routers : routers'[r] = IF r = cur THEN new ELSE routers[r]
  BY <1>4 DEF ClusterOK
<1>6. DeletingHasFinalizer'
  BY <1>2, <1>4, <1>5 DEF PinInv, DeletingHasFinalizer
<1>7. CacheUnderFinalizer'
  BY <1>2, <1>3, <1>4, <1>5 DEF PinInv, CacheUnderFinalizer, Live
<1>8. FinalizesOnlyDeleted'
  BY <1>0, <1>2, <1>4, <1>5 DEF PinInv, FinalizesOnlyDeleted, Reserved, Live
<1>9. FinalizerPinsPass'
  BY <1>0, <1>2, <1>3, <1>4, <1>5 DEF FinalizerPinsPass, Live
<1> QED
  BY <1>6, <1>7, <1>8, <1>9 DEF PinInv

\* Removing it ends the life of a router that is deleted, and of no other.
LEMMA RemovesDeleted ==
  ASSUME ClusterOK, WorkerOK, PassInv, PinInv, RemoveFinalizer, routers[cur] # NoObject
  PROVE  \/ routers[cur].deleting /\ routers' = [routers EXCEPT ![cur] = NoObject]
         \/ SameLives
<1>0. pc # "idle" /\ pass.finalizing /\ cur \in Routers
  BY DEF RemoveFinalizer, PassInv, Fits, WorkerOK, DeletionSteps
<1>1. CASE ~routers[cur].deleting
  <2> DEFINE new == [routers[cur] EXCEPT !.finalizer = FALSE]
  <2>1. routers[cur] \in Router /\ routers[cur].finalizer = FALSE
    BY <1>0, <1>1 DEF ClusterOK, PinInv, FinalizesOnlyDeleted, Reserved, Router
  <2>2. new = routers[cur]
    BY <2>1 DEF Router
  <2>3. routers' = [routers EXCEPT ![cur] = new]
    BY <1>1 DEF RemoveFinalizer
  <2> HIDE DEF new
  <2>4. \A r \in Routers : routers'[r] = routers[r]
    BY <2>2, <2>3 DEF ClusterOK
  <2> QED
    BY <2>4, SameLifeRefl DEF SameLives
<1>2. CASE routers[cur].deleting
  BY <1>2 DEF RemoveFinalizer
<1> QED
  BY <1>1, <1>2

\* The steps of a pass keep the invariant of the protocol.
LEMMA PinReconcileStep ==
  ASSUME ClusterOK, WorkerOK, PassInv, PinInv, ReconcileStep
  PROVE  PinInv'
<1>1. CASE EnsureFinalizer /\ routers[cur] # NoObject
  BY <1>1, PinEnsure
<1>2. CASE RemoveFinalizer /\ routers[cur] # NoObject
  <2>0. pc # "idle" /\ pass.finalizing /\ cur \in Routers
    BY <1>2 DEF RemoveFinalizer, PassInv, Fits, WorkerOK, DeletionSteps
  <2>1. pc' = "idle" /\ UNCHANGED cRouters
    BY <1>2 DEF RemoveFinalizer, Return, cacheVars
  <2>2. CASE SameLives
    BY <2>1, <2>2, PinFrame DEF SamePass
  <2>3. CASE routers' = [routers EXCEPT ![cur] = NoObject]
    <3>1. \A r \in Routers : routers'[r] = IF r = cur THEN NoObject ELSE routers[r]
      BY <2>3 DEF ClusterOK
    <3>2. DeletingHasFinalizer' /\ FinalizesOnlyDeleted'
      BY <2>1, <3>1 DEF PinInv, DeletingHasFinalizer, FinalizesOnlyDeleted, Reserved
    <3>3. CacheUnderFinalizer'
      BY <2>0, <2>1, <3>1 DEF PinInv, CacheUnderFinalizer, FinalizesOnlyDeleted, Reserved, Live
    <3>4. FinalizerPinsPass'
      BY <2>1 DEF FinalizerPinsPass, NormalSteps, SweepSteps
    <3> QED
      BY <3>2, <3>3, <3>4 DEF PinInv
  <2> QED
    BY <1>2, <2>2, <2>3, RemovesDeleted
<1>3. CASE SameLives /\ SamePass
  BY <1>3, StepFrame, PinFrame
<1> QED
  BY <1>1, <1>2, <1>3, StepFrame

\* A fresh copy in the cache, of one router or of all.
LEMMA PinCached ==
  ASSUME ClusterOK, WorkerOK, PinInv, UNCHANGED routers, SamePass,
         \A r \in Routers : cRouters'[r] \in {cRouters[r], routers[r]}
  PROVE  PinInv'
<1>c. pc # "idle" => cur \in Routers
  BY DEF WorkerOK
<1>1. DeletingHasFinalizer'
  BY DEF PinInv, DeletingHasFinalizer
<1>2. CacheUnderFinalizer'
  BY DEF PinInv, CacheUnderFinalizer, Live
<1>3. FinalizesOnlyDeleted'
  BY <1>c DEF PinInv, FinalizesOnlyDeleted, Reserved, SamePass, Live
<1>4. FinalizerPinsPass'
  <2>1. "idle" \notin NormalSteps \cup SweepSteps
    BY DEF NormalSteps, SweepSteps
  <2> QED
    BY <2>1 DEF PinInv, FinalizerPinsPass, SamePass, Live
<1> QED
  BY <1>1, <1>2, <1>3, <1>4 DEF PinInv

\* A CellRouter that users create or delete.
LEMMA PinUsers ==
  ASSUME ClusterOK, WorkerOK, PinInv, UNCHANGED <<cRouters, workerVars>>, NEW r \in Routers, NEW new,
         routers' = [routers EXCEPT ![r] = new],
         \/ routers[r] = NoObject /\ new # NoObject /\ ~new.deleting /\ ~new.finalizer
         \/ routers[r] # NoObject /\ ~routers[r].finalizer /\ new = NoObject
         \/ /\ routers[r] # NoObject /\ routers[r].finalizer /\ new # NoObject
            /\ new.deleting /\ new.finalizer /\ new.uid = routers[r].uid
  PROVE  PinInv'
<1>c. pc # "idle" => cur \in Routers
  BY DEF WorkerOK
<1>n. pc \in NormalSteps \cup SweepSteps => pc # "idle"
  BY DEF NormalSteps, SweepSteps
<1>0. \A q \in Routers : routers'[q] = IF q = r THEN new ELSE routers[q]
  BY DEF ClusterOK
<1>1. DeletingHasFinalizer'
  BY <1>0 DEF PinInv, DeletingHasFinalizer
<1>2. CacheUnderFinalizer'
  BY <1>0 DEF PinInv, CacheUnderFinalizer, Live
<1>3. FinalizesOnlyDeleted'
  <2>1. \A q \in Routers : Reserved(routers'[q]) => Reserved(routers[q])
    BY <1>0 DEF Reserved
  <2>2. \A q \in Routers : Live(q) /\ routers[q].deleting => routers'[q] # NoObject /\ routers'[q].deleting
    BY <1>0 DEF PinInv, DeletingHasFinalizer, Live
  <2> QED
    BY <1>c, <2>1, <2>2 DEF PinInv, FinalizesOnlyDeleted, workerVars, Live
<1>4. FinalizerPinsPass'
  BY <1>0, <1>c, <1>n DEF PinInv, FinalizerPinsPass, workerVars, Live
<1> QED
  BY <1>1, <1>2, <1>3, <1>4 DEF PinInv

\* Informers, garbage collection and the Gateway implementation.
LEMMA PinAround ==
  ASSUME ClusterOK, WorkerOK, PinInv, Informers \/ Cluster
  PROVE  PinInv'
<1>1. UNCHANGED <<routers, workerVars>>
  BY DEF Informers, SyncRouter, SyncPlacement, SyncCell, SyncGateway, SyncRoute, SyncGrant,
         Cluster, ReportRoute, CollectRoute, CollectGrant, CollectGateway, inputVars
<1>2. SamePass
  BY <1>1 DEF SamePass, workerVars
<1>3. \A r \in Routers : cRouters'[r] \in {cRouters[r], routers[r]}
  <2>1. CASE \E r \in Routers : SyncRouter(r)
    BY <2>1 DEF SyncRouter, ClusterOK
  <2>2. CASE UNCHANGED cRouters
    BY <2>2
  <2> QED
    BY <2>1, <2>2
    DEF Informers, SyncPlacement, SyncCell, SyncGateway, SyncRoute, SyncGrant,
        Cluster, ReportRoute, CollectRoute, CollectGrant, CollectGateway, cacheVars
<1> QED
  BY <1>1, <1>2, <1>3, PinCached

\* Users, faults and restarts.
LEMMA PinEnvironment ==
  ASSUME ClusterOK, WorkerOK, PassInv, PinInv, Environment
  PROVE  PinInv'
<1> USE DEF inputVars, managedVars, cacheVars, Undisturbed
<1>u. routers' = routers => SameLives
  BY SameLifeRefl DEF SameLives
<1>w. UNCHANGED workerVars => SamePass
  BY DEF SamePass, workerVars
<1>1. ASSUME NEW r \in Routers, NEW spec \in RouterSpecs[r] \ {NoObject}, CreateRouter(r, spec)
      PROVE  PinInv'
  <2> DEFINE new == NewRouter(spec, uids[r] + 1)
  <2>1. uids[r] + 1 \in Nat
    BY DEF ClusterOK
  <2>2. new \in Router
    BY <2>1, SpecsAssumption
    DEF NewRouter, Router, EmptyRouterStatus, RouterStatus, Absent, Condition
  <2>3. new # NoObject /\ ~new.deleting /\ ~new.finalizer
    BY <2>2, SentinelAssumption DEF NewRouter
  <2>4. /\ routers[r] = NoObject /\ routers' = [routers EXCEPT ![r] = new]
        /\ UNCHANGED <<cRouters, workerVars>>
    BY <1>1 DEF CreateRouter
  <2> HIDE DEF new
  <2> QED
    BY <2>3, <2>4, PinUsers
<1>2. ASSUME NEW r \in Routers, NEW spec \in RouterSpecs[r] \ {NoObject}, EditRouter(r, spec)
      PROVE  PinInv'
  <2> DEFINE new == [routers[r] EXCEPT !.spec = spec, !.generation = routers[r].generation + 1]
  <2>1. routers[r] \in Router /\ spec \in RouterSpec
    BY <1>2, SpecsAssumption DEF ClusterOK, EditRouter
  <2>2. routers[r].generation + 1 \in Nat
    BY <2>1 DEF Router
  <2>3. /\ new \in Router /\ new.uid = routers[r].uid /\ new.deleting = routers[r].deleting
        /\ new.finalizer = routers[r].finalizer
    BY <2>1, <2>2 DEF Router
  <2>4. new # NoObject
    BY <2>3, SentinelAssumption
  <2>5. routers' = [routers EXCEPT ![r] = new] /\ UNCHANGED <<cRouters, workerVars>>
    BY <1>2 DEF EditRouter
  <2> HIDE DEF new
  <2>6. \A q \in Routers : routers'[q] = IF q = r THEN new ELSE routers[q]
    BY <2>5 DEF ClusterOK
  <2>7. SameLives
    BY <1>2, <2>3, <2>4, <2>6, SameLifeRefl DEF SameLives, SameLife, EditRouter
  <2> QED
    BY <1>w, <2>5, <2>7, PinFrame
<1>3. ASSUME NEW r \in Routers, DeleteRouter(r) PROVE PinInv'
  <2> DEFINE new == [routers[r] EXCEPT !.deleting = TRUE, !.generation = routers[r].generation + 1]
  <2>1. routers[r] \in Router /\ routers[r] # NoObject
    BY <1>3 DEF ClusterOK, DeleteRouter
  <2>2. routers[r].generation + 1 \in Nat
    BY <2>1 DEF Router
  <2>3. new \in Router /\ new.deleting /\ new.uid = routers[r].uid /\ new.finalizer = routers[r].finalizer
    BY <2>1, <2>2 DEF Router
  <2>4. new # NoObject
    BY <2>3, SentinelAssumption
  <2>5. /\ UNCHANGED <<cRouters, workerVars>>
        /\ IF routers[r].finalizer THEN routers' = [routers EXCEPT ![r] = new]
                                   ELSE routers' = [routers EXCEPT ![r] = NoObject]
    BY <1>3 DEF DeleteRouter
  <2> HIDE DEF new
  <2> QED
    BY <2>1, <2>3, <2>4, <2>5, PinUsers
<1>4. CASE UNCHANGED <<routers, cRouters, workerVars>>
  BY <1>4, <1>u, <1>w, PinFrame
<1>5. ASSUME NEW p \in Placements,
             \/ \E spec : CreatePlacement(p, spec) \/ EditPlacement(p, spec)
             \/ DeletePlacement(p)
      PROVE  PinInv'
  BY <1>4, <1>5 DEF CreatePlacement, EditPlacement, DeletePlacement
<1>6. CASE \/ \E c \in Cells : \E view \in CellViews[c] : CellChanges(c, view)
           \/ \E k \in RouteKeys : UserDeletesRoute(k)
           \/ \E g \in GrantKeys : UserDeletesGrant(g)
           \/ \E n \in GatewayNamespaces : UserDeletesGateway(n)
  BY <1>4, <1>6 DEF CellChanges, UserDeletesRoute, UserDeletesGrant, UserDeletesGateway
<1>7. CASE CallFails
  <2>1. UNCHANGED <<routers, cRouters>> /\ pc # "idle"
    BY <1>7 DEF CallFails
  <2>2. SamePass
    <3>1. CASE Return(TRUE)
      BY <3>1 DEF Return, SamePass
    <3>2. CASE Failed /\ pc \in NormalSteps \cup SweepSteps /\ ~pass.finalizing
      <4>1. pass'.finalizing = FALSE /\ pass.finalizing = FALSE
        BY <3>2, EmptyPassOK DEF Failed, WorkerOK, PassOK, Pass
      <4> QED
        BY <2>1, <3>2, <4>1 DEF Failed, GoTo, SamePass
    <3> QED
      BY <1>7, <3>1, <3>2 DEF CallFails, PassInv, Fits
  <2> QED
    BY <1>u, <2>1, <2>2, PinFrame
<1>8. CASE Restart
  BY <1>8, PinCached DEF Restart, SamePass
<1> QED
  BY <1>1, <1>2, <1>3, <1>5, <1>6, <1>7, <1>8 DEF Environment

\* Every step keeps the invariant of the protocol.
LEMMA PinNext ==
  ASSUME TypeOK, PassInv, PinInv, [Next]_vars
  PROVE  PinInv'
<1>t. ClusterOK /\ WorkerOK
  BY TypeParts
<1>1. ASSUME NEW r \in Routers, StartReconcile(r) PROVE PinInv'
  BY <1>t, <1>1, PinStart
<1>2. CASE ReconcileStep
  BY <1>t, <1>2, PinReconcileStep
<1>3. CASE Informers \/ Cluster
  BY <1>t, <1>3, PinAround
<1>4. CASE Environment
  BY <1>t, <1>4, PinEnvironment
<1>5. CASE UNCHANGED vars
  <2>1. UNCHANGED <<routers, cRouters>> /\ SamePass
    BY <1>5 DEF vars, inputVars, cacheVars, workerVars, SamePass
  <2>2. SameLives
    BY <2>1, SameLifeRefl DEF SameLives
  <2> QED
    BY <1>t, <2>1, <2>2, PinFrame
<1> QED
  BY <1>1, <1>2, <1>3, <1>4, <1>5 DEF Next

\* Initially no router is under its finalizer, and no pass runs.
LEMMA PinInit == Init => PinInv
<1> SUFFICES ASSUME Init PROVE PinInv
  OBVIOUS
<1>1. \A r \in Routers : routers[r] # NoObject => ~routers[r].deleting /\ ~routers[r].finalizer
  BY DEF Init, NewRouter
<1>2. cRouters = routers /\ pc = "idle"
  BY DEF Init
<1> QED
  BY <1>1, <1>2 DEF PinInv, DeletingHasFinalizer, CacheUnderFinalizer, FinalizesOnlyDeleted,
                    FinalizerPinsPass, Reserved, NormalSteps, SweepSteps

\* While a normal pass runs, the API server holds the CellRouter that the pass
\* started from, under its finalizer: whatever is deleted, created again, missed by
\* the cache or restarted, no pass writes for a CellRouter of a later life.
THEOREM PassPinned == Spec => []FinalizerPinsPass
<1>1. Init => TypeOK /\ PassInv /\ PinInv
  BY TypeInit, TypeParts, PinInit
<1>2. TypeOK /\ PassInv /\ PinInv /\ [Next]_vars => (TypeOK /\ PassInv /\ PinInv)'
  BY NextType, PinNext
<1>3. PinInv => FinalizerPinsPass
  BY DEF PinInv
<1> QED
  BY <1>1, <1>2, <1>3, PTL DEF Spec

-----------------------------------------------------------------------------
(* Who changes routes and grants.                                          *)

\* The pass wrote b, over nothing or over what the cache showed of its own router's.
Written(a, b, seen) ==
  /\ b # NoObject /\ b.owner = Ref(cur, snap)
  /\ \/ a = NoObject /\ seen = NoObject
     \/ a # NoObject /\ a = seen /\ a.owner.name = cur

\* What one step may do to an object: nothing, a deletion (by a pass only of what its
\* sweep holds), a report of the Gateway implementation, or a write of the pass.
Changes(a, b, seen, sweeps, writes) ==
  \/ b = a
  \/ b = NoObject /\ (sweeps \/ UNCHANGED <<pc, pass>>)
  \/ a # NoObject /\ b # NoObject /\ b.owner = a.owner
  \/ writes /\ Written(a, b, seen)

ObjectsChange ==
  /\ \A k \in RouteKeys :
       Changes(routes[k], routes'[k], cRoutes[k], pc = "sweepRoutes" /\ k \in pass.stale, pc = "route")
  /\ \A g \in GrantKeys :
       Changes(grants[g], grants'[g], cGrants[g], pc = "sweepGrants" /\ g \in pass.stale, pc = "grant")

\* A create or an update of the cached version is such a write.
LEMMA WrittenOK ==
  ASSUME NEW a, NEW seen, NEW b, b # NoObject, b.owner = Ref(cur, snap),
         \/ Creates(a, seen)
         \/ Rewrites(a, seen, seen.owner, b.owner)
  PROVE  Written(a, b, seen)
  BY DEF Written, Creates, Rewrites, Adoptable, Ref

\* The two steps that write do so under these conditions.
LEMMA Writes ==
  ASSUME ClusterOK, WorkerOK, PassInv
  PROVE  /\ ReconcileHTTPRoute =>
              \/ routes' = routes
              \/ \E k \in RouteKeys : /\ routes' = [routes EXCEPT ![k] = DesiredRoute(k)]
                                      /\ Written(routes[k], DesiredRoute(k), cRoutes[k])
         /\ ReconcileReferenceGrant =>
              \/ grants' = grants
              \/ \E g \in GrantKeys : /\ grants' = [grants EXCEPT ![g] = DesiredGrant]
                                      /\ Written(grants[g], DesiredGrant, cGrants[g])
<1>1. ASSUME ReconcileHTTPRoute, routes' # routes
      PROVE  \E k \in RouteKeys : /\ routes' = [routes EXCEPT ![k] = DesiredRoute(k)]
                                  /\ Written(routes[k], DesiredRoute(k), cRoutes[k])
  <2> DEFINE k == <<snap.spec.gateway, Head(pass.plans).name>>
  <2>1. pc = "route" /\ pass.plans # << >>
    BY <1>1 DEF ReconcileHTTPRoute, PassInv, Fits
  <2>2. pass.plans \in Seq(RoutePlan)
    BY DEF WorkerOK, PassOK, Pass
  <2>3. Head(pass.plans) \in RoutePlan
    BY <2>1, <2>2, HeadTail
  <2>4. k \in RouteKeys
    BY <2>1, <2>3, RouterParts DEF RouteKeys, RoutePlan, WorkerOK
  <2>5. DesiredRoute(k).owner = Ref(cur, snap)
    BY DEF DesiredRoute
  <2>6. /\ routes' = [routes EXCEPT ![k] = DesiredRoute(k)]
        /\ \/ Creates(routes[k], cRoutes[k])
           \/ Rewrites(routes[k], cRoutes[k], cRoutes[k].owner, DesiredRoute(k).owner)
    BY <1>1 DEF ReconcileHTTPRoute, DesiredRoute
  <2> HIDE DEF k
  <2>7. Written(routes[k], DesiredRoute(k), cRoutes[k])
    BY <2>1, <2>4, <2>5, <2>6, DesiredType, WrittenOK
  <2> QED
    BY <2>4, <2>6, <2>7
<1>2. ASSUME ReconcileReferenceGrant, grants' # grants
      PROVE  \E g \in GrantKeys : /\ grants' = [grants EXCEPT ![g] = DesiredGrant]
                                  /\ Written(grants[g], DesiredGrant, cGrants[g])
  <2> DEFINE g == NextGrant
  <2>1. pc = "grant" /\ pass.grants # {}
    BY <1>2 DEF ReconcileReferenceGrant, PassInv, Fits
  <2>2. g \in GrantKeys
    BY <2>1 DEF NextGrant, WorkerOK, PassOK, Pass
  <2>3. DesiredGrant.owner = Ref(cur, snap)
    BY DEF DesiredGrant
  <2>4. /\ grants' = [grants EXCEPT ![g] = DesiredGrant]
        /\ \/ Creates(grants[g], cGrants[g])
           \/ Rewrites(grants[g], cGrants[g], cGrants[g].owner, DesiredGrant.owner)
    BY <1>2 DEF ReconcileReferenceGrant, DesiredGrant
  <2> HIDE DEF g
  <2>5. Written(grants[g], DesiredGrant, cGrants[g])
    BY <2>1, <2>2, <2>3, <2>4, DesiredType, WrittenOK
  <2> QED
    BY <2>2, <2>4, <2>5
<1> QED
  BY <1>1, <1>2

\* Every step changes routes and grants in this way only.
LEMMA ObjectsStep ==
  ASSUME TypeOK, PassInv, [Next]_vars
  PROVE  ObjectsChange
<1> USE DEF inputVars, managedVars, cacheVars, workerVars, envVars, Undisturbed
<1>t. ClusterOK /\ WorkerOK
  BY TypeParts
<1>u. ASSUME UNCHANGED <<routes, grants>> PROVE ObjectsChange
  BY <1>u DEF ObjectsChange, Changes
<1>1. CASE ReconcileHTTPRoute
  <2>1. pc = "route" /\ grants' = grants
    BY <1>1 DEF ReconcileHTTPRoute
  <2>2. ASSUME NEW k \in RouteKeys, routes' = [routes EXCEPT ![k] = DesiredRoute(k)],
               Written(routes[k], DesiredRoute(k), cRoutes[k])
        PROVE  ObjectsChange
    <3>1. \A j \in RouteKeys : routes'[j] = IF j = k THEN DesiredRoute(k) ELSE routes[j]
      BY <1>t, <2>2 DEF ClusterOK
    <3> QED
      BY <2>1, <2>2, <3>1 DEF ObjectsChange, Changes
  <2> QED
    BY <1>1, <1>t, <1>u, <2>1, <2>2, Writes
<1>2. CASE ReconcileReferenceGrant
  <2>1. pc = "grant" /\ routes' = routes
    BY <1>2 DEF ReconcileReferenceGrant
  <2>2. ASSUME NEW g \in GrantKeys, grants' = [grants EXCEPT ![g] = DesiredGrant],
               Written(grants[g], DesiredGrant, cGrants[g])
        PROVE  ObjectsChange
    <3>1. \A h \in GrantKeys : grants'[h] = IF h = g THEN DesiredGrant ELSE grants[h]
      BY <1>t, <2>2 DEF ClusterOK
    <3> QED
      BY <2>1, <2>2, <3>1 DEF ObjectsChange, Changes
  <2> QED
    BY <1>2, <1>t, <1>u, <2>1, <2>2, Writes
<1>3. CASE DeleteStaleRoute
  <2>1. PICK k \in pass.stale : routes' = [routes EXCEPT ![k] = NoObject]
    BY <1>3 DEF DeleteStaleRoute
  <2>2. pc = "sweepRoutes" /\ grants' = grants
    BY <1>3 DEF DeleteStaleRoute
  <2>3. \A j \in RouteKeys : routes'[j] = IF j = k THEN NoObject ELSE routes[j]
    BY <1>t, <2>1 DEF ClusterOK
  <2> QED
    BY <2>1, <2>2, <2>3 DEF ObjectsChange, Changes
<1>4. CASE DeleteStaleGrant
  <2>1. PICK g \in pass.stale : grants' = [grants EXCEPT ![g] = NoObject]
    BY <1>4 DEF DeleteStaleGrant
  <2>2. pc = "sweepGrants" /\ routes' = routes
    BY <1>4 DEF DeleteStaleGrant
  <2>3. \A h \in GrantKeys : grants'[h] = IF h = g THEN NoObject ELSE grants[h]
    BY <1>t, <2>1 DEF ClusterOK
  <2> QED
    BY <2>1, <2>2, <2>3 DEF ObjectsChange, Changes
<1>5. CASE \/ EnsureFinalizer \/ ReconcileGatewayNamespace \/ ReconcileGateway \/ BuildRoutePlans
           \/ PatchInvalidPlacement \/ ResolveBackends \/ PatchPlacement \/ ListRoutes
           \/ ListGrants \/ PatchStatus \/ PatchFailure \/ DeleteManagedGateway \/ RemoveFinalizer
  BY <1>5, <1>u
  DEF EnsureFinalizer, ReconcileGatewayNamespace, ReconcileGateway, BuildRoutePlans,
      PatchInvalidPlacement, ResolveBackends, PatchPlacement, ListRoutes, ListGrants,
      PatchStatus, PatchFailure, DeleteManagedGateway, RemoveFinalizer
<1>6. CASE UNCHANGED vars \/ Informers \/ \E r \in Routers : StartReconcile(r)
  BY <1>6, <1>u
  DEF vars, Informers, SyncRouter, SyncPlacement, SyncCell, SyncGateway, SyncRoute, SyncGrant,
      StartReconcile
<1>7. ASSUME NEW k \in RouteKeys, ReportRoute(k) PROVE ObjectsChange
  <2> DEFINE new == [routes[k] EXCEPT !.parents = Report(k)]
  <2>1. routes[k] \in HTTPRoute /\ Report(k) \in SUBSET ParentStatus
    BY <1>t, <1>7 DEF ClusterOK, ReportRoute, Report, ParentStatus, Granted
  <2>2. new \in HTTPRoute /\ new.owner = routes[k].owner
    BY <2>1 DEF HTTPRoute
  <2>3. new # NoObject /\ routes[k] # NoObject
    BY <1>7, <2>2, SentinelAssumption DEF ReportRoute
  <2>4. routes' = [routes EXCEPT ![k] = new] /\ grants' = grants
    BY <1>7 DEF ReportRoute
  <2> HIDE DEF new
  <2>5. \A j \in RouteKeys : routes'[j] = IF j = k THEN new ELSE routes[j]
    BY <1>t, <2>4 DEF ClusterOK
  <2> QED
    BY <2>2, <2>3, <2>4, <2>5 DEF ObjectsChange, Changes
<1>8. ASSUME NEW k \in RouteKeys, CollectRoute(k) \/ UserDeletesRoute(k) PROVE ObjectsChange
  <2>1. /\ routes' = [routes EXCEPT ![k] = NoObject] /\ UNCHANGED <<grants, pc, pass>>
    BY <1>8 DEF CollectRoute, UserDeletesRoute
  <2>2. \A j \in RouteKeys : routes'[j] = IF j = k THEN NoObject ELSE routes[j]
    BY <1>t, <2>1 DEF ClusterOK
  <2> QED
    BY <2>1, <2>2 DEF ObjectsChange, Changes
<1>9. ASSUME NEW g \in GrantKeys, CollectGrant(g) \/ UserDeletesGrant(g) PROVE ObjectsChange
  <2>1. /\ grants' = [grants EXCEPT ![g] = NoObject] /\ UNCHANGED <<routes, pc, pass>>
    BY <1>9 DEF CollectGrant, UserDeletesGrant
  <2>2. \A h \in GrantKeys : grants'[h] = IF h = g THEN NoObject ELSE grants[h]
    BY <1>t, <2>1 DEF ClusterOK
  <2> QED
    BY <2>1, <2>2 DEF ObjectsChange, Changes
<1>10. ASSUME NEW n \in GatewayNamespaces, CollectGateway(n) \/ UserDeletesGateway(n)
       PROVE  ObjectsChange
  BY <1>10, <1>u DEF CollectGateway, UserDeletesGateway
<1>11. ASSUME NEW r \in Routers,
              \/ \E spec \in RouterSpecs[r] \ {NoObject} : CreateRouter(r, spec) \/ EditRouter(r, spec)
              \/ DeleteRouter(r)
       PROVE  ObjectsChange
  BY <1>11, <1>u DEF CreateRouter, EditRouter, DeleteRouter
<1>12. ASSUME NEW p \in Placements,
              \/ \E spec \in PlacementSpecs[p] \ {NoObject} :
                   CreatePlacement(p, spec) \/ EditPlacement(p, spec)
              \/ DeletePlacement(p)
       PROVE  ObjectsChange
  BY <1>12, <1>u DEF CreatePlacement, EditPlacement, DeletePlacement
<1>13. CASE \/ \E c \in Cells : \E view \in CellViews[c] : CellChanges(c, view)
            \/ CallFails \/ Restart
  BY <1>13, <1>u DEF CellChanges, CallFails, Restart
<1> QED
  BY <1>1, <1>2, <1>3, <1>4, <1>5, <1>6, <1>7, <1>8, <1>9, <1>10, <1>11, <1>12, <1>13
  DEF Next, ReconcileStep, Cluster, Environment

\* The caches of routes and grants change only towards what the server holds, in a
\* step that leaves the server alone.
CachesChange ==
  /\ \/ UNCHANGED cRoutes
     \/ UNCHANGED routes /\ \A k \in RouteKeys : cRoutes'[k] \in {cRoutes[k], routes[k]}
  /\ \/ UNCHANGED cGrants
     \/ UNCHANGED grants /\ \A g \in GrantKeys : cGrants'[g] \in {cGrants[g], grants[g]}

\* A sweep goes on with what it holds, or begins with what the cache lists as the
\* router's.
SweepsChange ==
  /\ pc' = "sweepRoutes" =>
       /\ cur' = cur
       /\ \/ pc = "sweepRoutes" /\ pass'.stale \subseteq pass.stale
          \/ /\ UNCHANGED routes
             /\ \A k \in pass'.stale :
                  k \in RouteKeys /\ cRoutes[k] # NoObject /\ cRoutes[k].owner.name = cur
  /\ pc' = "sweepGrants" =>
       /\ cur' = cur
       /\ \/ pc = "sweepGrants" /\ pass'.stale \subseteq pass.stale
          \/ /\ UNCHANGED grants
             /\ \A g \in pass'.stale :
                  g \in GrantKeys /\ cGrants[g] # NoObject /\ cGrants[g].owner.name = cur

\* Every step changes the caches in this way only.
LEMMA CachesStep == ASSUME TypeOK, [Next]_vars PROVE CachesChange
<1> USE DEF inputVars, managedVars, cacheVars, workerVars, envVars, Undisturbed
<1>u. UNCHANGED <<cRoutes, cGrants>> => CachesChange
  BY DEF CachesChange
<1>1. CASE ReconcileStep
  BY <1>1, <1>u
  DEF ReconcileStep, EnsureFinalizer, ReconcileGatewayNamespace, ReconcileGateway,
      BuildRoutePlans, PatchInvalidPlacement, ResolveBackends, PatchPlacement,
      ReconcileReferenceGrant, ReconcileHTTPRoute, ListRoutes, DeleteStaleRoute,
      ListGrants, DeleteStaleGrant, PatchStatus, PatchFailure, DeleteManagedGateway,
      RemoveFinalizer
<1>2. CASE UNCHANGED vars \/ Cluster \/ \E r \in Routers : StartReconcile(r)
  BY <1>2, <1>u
  DEF vars, Cluster, ReportRoute, CollectRoute, CollectGrant, CollectGateway, StartReconcile
<1>3. CASE Informers
  <2>1. ASSUME NEW k \in RouteKeys, SyncRoute(k) PROVE CachesChange
    BY <2>1 DEF CachesChange, TypeOK, SyncRoute
  <2>2. ASSUME NEW g \in GrantKeys, SyncGrant(g) PROVE CachesChange
    BY <2>2 DEF CachesChange, TypeOK, SyncGrant
  <2>3. CASE \/ \E r \in Routers : SyncRouter(r)
             \/ \E p \in Placements : SyncPlacement(p)
             \/ \E c \in Cells : SyncCell(c)
             \/ \E n \in GatewayNamespaces : SyncGateway(n)
    BY <1>u, <2>3 DEF SyncRouter, SyncPlacement, SyncCell, SyncGateway
  <2> QED
    BY <1>3, <2>1, <2>2, <2>3 DEF Informers
<1>4. CASE Restart
  BY <1>4 DEF CachesChange, Restart
<1>5. CASE Environment /\ ~Restart
  BY <1>5, <1>u
  DEF Environment, CreateRouter, EditRouter, DeleteRouter, CreatePlacement, EditPlacement,
      DeletePlacement, CellChanges, UserDeletesRoute, UserDeletesGrant, UserDeletesGateway,
      CallFails
<1> QED
  BY <1>1, <1>2, <1>3, <1>4, <1>5 DEF Next

\* Every step changes the sweep in this way only.
LEMMA SweepsStep == ASSUME TypeOK, PassInv, [Next]_vars PROVE SweepsChange
<1> USE DEF inputVars, managedVars, cacheVars, workerVars, envVars, Undisturbed
<1>t. ClusterOK /\ WorkerOK /\ pass \in Pass
  BY TypeParts DEF WorkerOK, PassOK
<1>u. UNCHANGED <<pc, cur, pass>> => SweepsChange
  BY DEF SweepsChange
<1>n. pc' \notin {"sweepRoutes", "sweepGrants"} => SweepsChange
  BY DEF SweepsChange
<1>s. \A q : [pass EXCEPT !.stale = q].stale = q
  BY <1>t DEF Pass
<1>1. CASE ListRoutes
  <2> DEFINE stale == IF pass.finalizing THEN ManagedRoutes ELSE StaleRoutes
  <2>1. /\ pass' = [pass EXCEPT !.stale = stale] /\ cur' = cur /\ routes' = routes
        /\ pc' \in {"listGrants", "sweepRoutes"}
    BY <1>1 DEF ListRoutes, GoTo
  <2>2. \A k \in stale : k \in RouteKeys /\ cRoutes[k] # NoObject /\ cRoutes[k].owner.name = cur
    BY DEF ManagedRoutes, StaleRoutes, Ref
  <2>3. pass'.stale = stale
    BY <1>s, <2>1
  <2> HIDE DEF stale
  <2> QED
    BY <2>1, <2>2, <2>3 DEF SweepsChange
<1>2. CASE ListGrants
  <2> DEFINE stale == IF pass.finalizing THEN ManagedGrants ELSE StaleGrants
  <2>1. /\ pass' = [pass EXCEPT !.stale = stale] /\ cur' = cur /\ grants' = grants
        /\ pc' \in {"deleteGateway", "patchStatus", "sweepGrants"}
    BY <1>2 DEF ListGrants, GoTo, AfterSweep
  <2>2. \A g \in stale : g \in GrantKeys /\ cGrants[g] # NoObject /\ cGrants[g].owner.name = cur
    BY DEF ManagedGrants, StaleGrants, Ref
  <2>3. pass'.stale = stale
    BY <1>s, <2>1
  <2> HIDE DEF stale
  <2> QED
    BY <2>1, <2>2, <2>3 DEF SweepsChange
<1>3. CASE DeleteStaleRoute
  <2>1. PICK k \in pass.stale : pass' = [pass EXCEPT !.stale = @ \ {k}]
    BY <1>3 DEF DeleteStaleRoute
  <2>2. pass'.stale = pass.stale \ {k}
    BY <1>s, <2>1
  <2> QED
    BY <1>3, <2>2 DEF DeleteStaleRoute, GoTo, SweepsChange
<1>4. CASE DeleteStaleGrant
  <2>1. PICK g \in pass.stale : pass' = [pass EXCEPT !.stale = @ \ {g}]
    BY <1>4 DEF DeleteStaleGrant
  <2>2. pass'.stale = pass.stale \ {g}
    BY <1>s, <2>1
  <2> QED
    BY <1>4, <2>2 DEF DeleteStaleGrant, GoTo, AfterSweep, SweepsChange
<1>5. CASE \/ EnsureFinalizer \/ ReconcileGatewayNamespace \/ ReconcileGateway \/ BuildRoutePlans
           \/ PatchInvalidPlacement \/ ResolveBackends \/ PatchPlacement
           \/ ReconcileReferenceGrant \/ ReconcileHTTPRoute
           \/ PatchStatus \/ PatchFailure \/ DeleteManagedGateway \/ RemoveFinalizer
  <2>1. pc' \notin {"sweepRoutes", "sweepGrants"}
    BY <1>5
    DEF EnsureFinalizer, ReconcileGatewayNamespace, ReconcileGateway, BuildRoutePlans,
        PatchInvalidPlacement, ResolveBackends, PatchPlacement, ReconcileReferenceGrant,
        ReconcileHTTPRoute, PatchStatus, PatchFailure, DeleteManagedGateway, RemoveFinalizer,
        AfterPlacement, Continue, Failed, Return, GoTo
  <2> QED
    BY <1>n, <2>1
<1>6. ASSUME NEW r \in Routers, StartReconcile(r) PROVE SweepsChange
  BY <1>6, <1>n, <1>u DEF StartReconcile
<1>7. CASE UNCHANGED vars \/ Cluster \/ Informers
  BY <1>7, <1>u
  DEF vars, Cluster, ReportRoute, CollectRoute, CollectGrant, CollectGateway, Informers,
      SyncRouter, SyncPlacement, SyncCell, SyncGateway, SyncRoute, SyncGrant
<1>8. CASE Restart \/ CallFails
  BY <1>8, <1>n DEF Restart, CallFails, Failed, Return, GoTo
<1>9. CASE Environment /\ ~Restart /\ ~CallFails
  BY <1>9, <1>u
  DEF Environment, CreateRouter, EditRouter, DeleteRouter, CreatePlacement, EditPlacement,
      DeletePlacement, CellChanges, UserDeletesRoute, UserDeletesGrant, UserDeletesGateway
<1> QED
  BY <1>1, <1>2, <1>3, <1>4, <1>5, <1>6, <1>7, <1>8, <1>9 DEF Next, ReconcileStep

\* Every step keeps the owners of cached and real objects in line.
LEMMA ApartNext ==
  ASSUME TypeOK, PassInv, ApartInv, [Next]_vars
  PROVE  ApartInv'
<1>1. ObjectsChange /\ CachesChange /\ SweepsChange
  BY ObjectsStep, CachesStep, SweepsStep
<1>f. PassInv'
  BY NextType
<1>2. ASSUME NEW k \in RouteKeys, cRoutes'[k] # NoObject, routes'[k] # NoObject
      PROVE  routes'[k].owner.name = cRoutes'[k].owner.name
  <2>1. CASE routes'[k] = routes[k]
    BY <1>1, <1>2, <2>1 DEF ApartInv, CachesChange
  <2>2. CASE cRoutes'[k] = cRoutes[k] /\ routes'[k] # routes[k]
    <3>1. CASE routes[k] # NoObject /\ routes'[k].owner = routes[k].owner
      BY <1>2, <2>2, <3>1 DEF ApartInv
    <3>2. CASE Written(routes[k], routes'[k], cRoutes[k])
      BY <1>2, <2>2, <3>2 DEF Written, Ref
    <3> QED
      BY <1>1, <1>2, <2>2, <3>1, <3>2 DEF ObjectsChange, Changes
  <2> QED
    BY <1>1, <2>1, <2>2 DEF CachesChange
<1>3. ASSUME NEW g \in GrantKeys, cGrants'[g] # NoObject, grants'[g] # NoObject
      PROVE  grants'[g].owner.name = cGrants'[g].owner.name
  <2>1. CASE grants'[g] = grants[g]
    BY <1>1, <1>3, <2>1 DEF ApartInv, CachesChange
  <2>2. CASE cGrants'[g] = cGrants[g] /\ grants'[g] # grants[g]
    <3>1. CASE grants[g] # NoObject /\ grants'[g].owner = grants[g].owner
      BY <1>3, <2>2, <3>1 DEF ApartInv
    <3>2. CASE Written(grants[g], grants'[g], cGrants[g])
      BY <1>3, <2>2, <3>2 DEF Written, Ref
    <3> QED
      BY <1>1, <1>3, <2>2, <3>1, <3>2 DEF ObjectsChange, Changes
  <2> QED
    BY <1>1, <2>1, <2>2 DEF CachesChange
<1>4. ASSUME pc' = "sweepRoutes", NEW k \in pass'.stale, routes'[k] # NoObject
      PROVE  routes'[k].owner.name = cur'
  <2>0. k \in RouteKeys
    BY <1>4, <1>f DEF PassInv, Fits
  <2>1. CASE pc = "sweepRoutes" /\ k \in pass.stale
    BY <1>1, <1>4, <2>0, <2>1 DEF ApartInv, ObjectsChange, Changes, SweepsChange
  <2>2. CASE routes' = routes /\ cRoutes[k] # NoObject /\ cRoutes[k].owner.name = cur
    BY <1>1, <1>4, <2>0, <2>2 DEF ApartInv, SweepsChange
  <2> QED
    BY <1>1, <1>4, <2>1, <2>2 DEF SweepsChange
<1>5. ASSUME pc' = "sweepGrants", NEW g \in pass'.stale, grants'[g] # NoObject
      PROVE  grants'[g].owner.name = cur'
  <2>0. g \in GrantKeys
    BY <1>5, <1>f DEF PassInv, Fits
  <2>1. CASE pc = "sweepGrants" /\ g \in pass.stale
    BY <1>1, <1>5, <2>0, <2>1 DEF ApartInv, ObjectsChange, Changes, SweepsChange
  <2>2. CASE grants' = grants /\ cGrants[g] # NoObject /\ cGrants[g].owner.name = cur
    BY <1>1, <1>5, <2>0, <2>2 DEF ApartInv, SweepsChange
  <2> QED
    BY <1>1, <1>5, <2>1, <2>2 DEF SweepsChange
<1> QED
  BY <1>2, <1>3, <1>4, <1>5 DEF ApartInv

\* Nothing exists at first.
LEMMA ApartInit == Init => ApartInv
  BY DEF Init, ApartInv

\* What a step does to one object, in the words of RoutersKeepApart.
KeptApart ==
  LET byWorker == <<pc, pass>>' # <<pc, pass>>
      kept(object, next) ==
        object # NoObject =>
          /\ next # NoObject => next.owner.name = object.owner.name
          /\ next = NoObject /\ byWorker => object.owner.name = cur
  IN  /\ \A k \in RouteKeys : kept(routes[k], routes'[k])
      /\ \A g \in GrantKeys : kept(grants[g], grants'[g])

\* A pass for one CellRouter neither takes over nor deletes a route or a grant of
\* another, however stale the labels and owners are that it sees in its caches, and
\* although it deletes by name what it listed several calls ago.
THEOREM RoutersApart == Spec => RoutersKeepApart
<1>1. Init => TypeOK /\ PassInv /\ ApartInv
  BY TypeInit, TypeParts, ApartInit
<1>2. TypeOK /\ PassInv /\ ApartInv /\ [Next]_vars => (TypeOK /\ PassInv /\ ApartInv)'
  BY NextType, ApartNext
<1>3. ASSUME TypeOK, PassInv, ApartInv, [Next]_vars PROVE KeptApart
  <2>1. ObjectsChange
    BY <1>3, ObjectsStep
  <2>2. ASSUME NEW k \in RouteKeys, routes[k] # NoObject
        PROVE  /\ routes'[k] # NoObject => routes'[k].owner.name = routes[k].owner.name
               /\ routes'[k] = NoObject /\ ~UNCHANGED <<pc, pass>> => routes[k].owner.name = cur
    BY <1>3, <2>1, <2>2 DEF ObjectsChange, Changes, Written, Ref, ApartInv
  <2>3. ASSUME NEW g \in GrantKeys, grants[g] # NoObject
        PROVE  /\ grants'[g] # NoObject => grants'[g].owner.name = grants[g].owner.name
               /\ grants'[g] = NoObject /\ ~UNCHANGED <<pc, pass>> => grants[g].owner.name = cur
    BY <1>3, <2>1, <2>3 DEF ObjectsChange, Changes, Written, Ref, ApartInv
  <2> QED
    BY <2>2, <2>3 DEF KeptApart
<1>4. TypeOK /\ PassInv /\ ApartInv /\ [Next]_vars => [KeptApart]_vars
  BY <1>3
<1>5. RoutersKeepApart <=> [][KeptApart]_vars
  BY DEF RoutersKeepApart, KeptApart
<1> QED
  BY <1>1, <1>2, <1>4, <1>5, PTL DEF Spec
=============================================================================
