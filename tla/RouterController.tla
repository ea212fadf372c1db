-------------------------- MODULE RouterController --------------------------
(***************************************************************************)
(* The CellRouter reconciler (internal/controller/cellrouter_controller.go)*)
(* which turns explicit routes and CellPlacements into HTTPRoutes and      *)
(* ReferenceGrants for the Cells that are ready for traffic.  One worker,  *)
(* one API call per step, reads from informer caches.  Cells are changed   *)
(* by the environment: their reconciler is module CellController.  What    *)
(* makes placements overlap and compile is module Placement.               *)
(***************************************************************************)
EXTENDS Naturals, Sequences, FiniteSets, SequencesExt

CONSTANTS
  Routers,            \* names of CellRouters
  RouteNames,         \* names of explicit routes and of HTTPRoutes
  Placements,         \* names of CellPlacements, which name their HTTPRoutes
  Cells,              \* names of Cells
  Services,           \* entrypoint Services, each in a namespace of its own
  GatewayNamespaces,  \* namespaces of Gateways; one Gateway name is used
  RouterSpecs,        \* the specs users write for each CellRouter; NoObject: none at first
  PlacementSpecs,     \* the same for each CellPlacement
  CellViews,          \* what a router may see of each Cell
  GrantHash,          \* the 32-bit hash in the name of a ReferenceGrant
  Disturbances,       \* bound: the kinds of disturbance that happen
  MaxDisturbances,    \* bound: how many of them happen
  NoObject            \* "not found"

ASSUME NamesAssumption ==
  /\ Placements \subseteq RouteNames /\ Placements \cap Routers = {}
  /\ IsFiniteSet(Placements)  \* a List returns finitely many
  /\ MaxDisturbances \in Nat

RouteSpec == [name : RouteNames, cells : SUBSET Cells, fallback : Cells \cup {NoObject}]

\* The CRD asks for at least one explicit route.
RouterSpec == [gateway : GatewayNamespaces, routes : Seq(RouteSpec) \ {<< >>}]

\* Placements of one partition overlap; an invalid one does not compile.
PlacementSpec == [router : Routers, partition : Nat, valid : BOOLEAN, cells : SUBSET Cells]

ASSUME SpecsAssumption ==
  /\ \A r \in Routers : \A spec \in RouterSpecs[r] : spec = NoObject \/ spec \in RouterSpec
  /\ \A p \in Placements : \A spec \in PlacementSpecs[p] : spec = NoObject \/ spec \in PlacementSpec

\* ready: BackendReady and Ready are True; service: what resolveBackend returns.
CellView ==
  [state : {"Active", "Draining", "Disabled"}, ready : BOOLEAN, service : Services]

ASSUME ViewsAssumption == CellViews \in [Cells -> SUBSET (CellView \cup {NoObject})]

OwnerRef == [name : Routers, uid : Nat]

RouteKeys == GatewayNamespaces \X RouteNames
GrantKeys == RouteNames \X Services  \* in the namespace of the Service

ASSUME HashAssumption == GrantHash \in [GrantKeys -> Nat]

\* ReferenceGrantName: the router is not part of it.
ReferenceGrantName(g) == <<g[1], GrantHash[g]>>

\* parents: what the Gateway implementation last reported.  One that does not
\* expose ResolvedRefs counts as one that reports it true.
ParentStatus == [accepted : BOOLEAN, resolvedRefs : BOOLEAN]
\* A Gateway is its owner: the rest of it is the same after every pass.
Gateway == OwnerRef
HTTPRoute == [owner : OwnerRef, backends : SUBSET Services, parents : SUBSET ParentStatus]
ReferenceGrant == [owner : OwnerRef, from : GatewayNamespaces]

ManagedRoute == [name : RouteNames, cells : SUBSET Cells]

\* Of the conditions, Ready is kept: the others only report on a pass.
Condition == [status : {"Absent", "True", "False"}, observedGeneration : Nat]

RouterStatus ==
  [ready : Condition, observedGeneration : Nat, managedRoutes : Seq(ManagedRoute)]

PlacementStatus ==
  [ready : Condition, observedGeneration : Nat, resolvedBackends : SUBSET Cells]

Router ==
  [uid : Nat, spec : RouterSpec, generation : Nat, deleting : BOOLEAN,
   finalizer : BOOLEAN, status : RouterStatus]

Placement ==
  [uid : Nat, spec : PlacementSpec, generation : Nat, status : PlacementStatus]

ASSUME SentinelAssumption ==
  /\ NoObject \notin Routers \cup Cells \cup Services
  /\ NoObject \notin Router \cup Placement \cup CellView
  /\ NoObject \notin Gateway \cup HTTPRoute \cup ReferenceGrant

\* A route or placement that has to be materialized.
RoutePlan ==
  [name : RouteNames, isPlacement : BOOLEAN, cells : SUBSET Cells, fallback : Cells \cup {NoObject}]

\* The locals of reconcileRoutes and of the sweeps.
Pass ==
  [listed : [Placements -> Placement \cup {NoObject}],
   invalid : Seq(Placements), plans : Seq(RoutePlan),
   backends : SUBSET [cell : Cells, service : Services], grants : SUBSET GrantKeys,
   expectedRoutes : SUBSET RouteNames, expectedGrants : SUBSET (RouteNames \X Nat),
   allReady : BOOLEAN, needsRequeue : BOOLEAN, statuses : Seq(ManagedRoute),
   stale : SUBSET (RouteKeys \cup GrantKeys), finalizing : BOOLEAN]

VARIABLES
  routers, placements, cells,                \* the API server: what users write
  gatewayNamespaces, gateways, routes, grants,  \* the API server: what is managed
  cRouters, cPlacements, cCells,             \* the informer caches
  cGateways, cRoutes, cGrants,
  queue,                                     \* CellRouter names to reconcile
  pc, cur, snap, pass,                       \* the worker and its locals
  uids,                                      \* UIDs handed out per name
  disturbances                               \* counts up to MaxDisturbances

inputVars == <<routers, placements, cells>>
managedVars == <<gatewayNamespaces, gateways, routes, grants>>
cacheVars == <<cRouters, cPlacements, cCells, cGateways, cRoutes, cGrants>>
workerVars == <<pc, cur, snap, pass>>
envVars == <<uids, disturbances>>
vars == <<inputVars, managedVars, cacheVars, queue, workerVars, envVars>>

NormalSteps == {"gatewayNamespace", "gateway", "plan", "invalid", "resolve", "placement",
                "grant", "route", "patchStatus", "patchFailure"}
SweepSteps == {"listRoutes", "sweepRoutes", "listGrants", "sweepGrants"}
DeletionSteps == {"deleteGateway", "removeFinalizer"}
Steps == {"idle", "addFinalizer"} \cup NormalSteps \cup SweepSteps \cup DeletionSteps

NamesIn(listed) == {p \in Placements : listed[p] # NoObject}

\* Every variable has its type; a running pass has a CellRouter in hand, and its
\* locals name what exists: placements it listed, grants it also expects.
TypeOK ==
  /\ routers \in [Routers -> Router \cup {NoObject}]
  /\ cRouters \in [Routers -> Router \cup {NoObject}]
  /\ placements \in [Placements -> Placement \cup {NoObject}]
  /\ cPlacements \in [Placements -> Placement \cup {NoObject}]
  /\ cells \in [Cells -> CellView \cup {NoObject}]
  /\ cCells \in [Cells -> CellView \cup {NoObject}]
  /\ gatewayNamespaces \subseteq GatewayNamespaces
  /\ gateways \in [GatewayNamespaces -> Gateway \cup {NoObject}]
  /\ cGateways \in [GatewayNamespaces -> Gateway \cup {NoObject}]
  /\ routes \in [RouteKeys -> HTTPRoute \cup {NoObject}]
  /\ cRoutes \in [RouteKeys -> HTTPRoute \cup {NoObject}]
  /\ grants \in [GrantKeys -> ReferenceGrant \cup {NoObject}]
  /\ cGrants \in [GrantKeys -> ReferenceGrant \cup {NoObject}]
  /\ queue \subseteq Routers
  /\ pc \in Steps
  /\ cur \in Routers \cup {NoObject}
  /\ snap \in Router \cup {NoObject}
  /\ pc # "idle" => cur \in Routers /\ snap \in Router
  /\ pass \in Pass
  /\ ToSet(pass.invalid) \subseteq NamesIn(pass.listed)
  /\ \A plan \in ToSet(pass.plans) : plan.isPlacement => plan.name \in NamesIn(pass.listed)
  /\ {ReferenceGrantName(g) : g \in pass.grants} \subseteq pass.expectedGrants
  /\ uids \in [Routers \cup Placements -> Nat]
  /\ disturbances \in 0..MaxDisturbances

\* The locals of reconcileRoutes.
EmptyPass ==
  [listed |-> [p \in Placements |-> NoObject],           \* the placements of the router
   invalid |-> << >>, plans |-> << >>,                    \* names, plans to do
   backends |-> {}, grants |-> {},                        \* of the plan in hand
   expectedRoutes |-> {}, expectedGrants |-> {},
   allReady |-> TRUE, needsRequeue |-> FALSE, statuses |-> << >>,
   stale |-> {},                                          \* left to delete
   finalizing |-> FALSE]                                  \* reconcileDeletion

Absent == [status |-> "Absent", observedGeneration |-> 0]

EmptyRouterStatus == [ready |-> Absent, observedGeneration |-> 0, managedRoutes |-> << >>]

EmptyPlacementStatus == [ready |-> Absent, observedGeneration |-> 0, resolvedBackends |-> {}]

NewRouter(spec, uid) ==
  [uid |-> uid, spec |-> spec, generation |-> 1, deleting |-> FALSE, finalizer |-> FALSE,
   status |-> EmptyRouterStatus]

NewPlacement(spec, uid) ==
  [uid |-> uid, spec |-> spec, generation |-> 1, status |-> EmptyPlacementStatus]

\* One of the options of each name.
OneEach(names, options) ==
  {f \in [names -> UNION {options[n] : n \in names}] : \A n \in names : f[n] \in options[n]}

\* The operator starts in a cluster where users have already created what they
\* like: its first lists are fresh, and bring one event per CellRouter.
Init ==
  /\ \E specs \in OneEach(Routers, RouterSpecs) :
       routers = [r \in Routers |-> IF specs[r] = NoObject THEN NoObject ELSE NewRouter(specs[r], 1)]
  /\ \E specs \in OneEach(Placements, PlacementSpecs) :
       placements = [p \in Placements |->
                       IF specs[p] = NoObject THEN NoObject ELSE NewPlacement(specs[p], 1)]
  /\ cells \in OneEach(Cells, CellViews)
  /\ gatewayNamespaces = {}
  /\ gateways = [n \in GatewayNamespaces |-> NoObject]
  /\ routes = [k \in RouteKeys |-> NoObject]
  /\ grants = [g \in GrantKeys |-> NoObject]
  /\ cRouters = routers /\ cPlacements = placements /\ cCells = cells
  /\ cGateways = gateways /\ cRoutes = routes /\ cGrants = grants
  /\ queue = {r \in Routers : routers[r] # NoObject}
  /\ pc = "idle" /\ cur = NoObject /\ snap = NoObject /\ pass = EmptyPass
  /\ uids = [name \in Routers \cup Placements |-> 1] /\ disturbances = 0

-----------------------------------------------------------------------------
(* Helpers of the reconciler.                                              *)

Ref(r, router) == [name |-> r, uid |-> router.uid]

\* SetControllerReference compares names, so a later incarnation takes over.
Adoptable(owner, ref) == owner.name = ref.name

Plan(name, isPlacement, targets, fallback) ==
  [name |-> name, isPlacement |-> isPlacement, cells |-> targets, fallback |-> fallback]

StaticPlans(spec) ==
  [i \in DOMAIN spec.routes |->
     Plan(spec.routes[i].name, FALSE, spec.routes[i].cells, spec.routes[i].fallback)]

\* A placement has no fallback.
PlacementPlans(listed, order) ==
  [i \in DOMAIN order |-> Plan(order[i], TRUE, listed[order[i]].spec.cells, NoObject)]

\* The placements that refer to r, as the cache has them.
ListPlacements(view, r) ==
  [p \in Placements |->
     IF view[p] # NoObject /\ view[p].spec.router = r THEN view[p] ELSE NoObject]

\* Two explicit routes, or a route and a placement, of one name.
DuplicateNames(spec, listed) ==
  \/ \E i, j \in DOMAIN spec.routes : i # j /\ spec.routes[i].name = spec.routes[j].name
  \/ \E i \in DOMAIN spec.routes : spec.routes[i].name \in NamesIn(listed)

InvalidPlacements(listed) ==
  {p \in NamesIn(listed) :
     \/ ~listed[p].spec.valid
     \/ \E q \in NamesIn(listed) \ {p} : listed[q].spec.partition = listed[p].spec.partition}

\* isCellTrafficReady: the spec's state and both conditions, whatever their
\* generation, and also of a Cell that is being deleted.
IsCellTrafficReady(cell) == cell # NoObject /\ cell.state = "Active" /\ cell.ready

\* The targets that are ready, each with the Service it resolves to.
ResolveBackendCandidates(view, targets) ==
  {[cell |-> c, service |-> view[c].service] :
     c \in {c \in targets : IsCellTrafficReady(view[c])}}

\* Mutant: the fallback is not looked at.
ResolvePrimaryBackends(view, plan) == ResolveBackendCandidates(view, plan.cells)

ResolveRouteBackends(view, plan) ==
  LET primary == ResolveBackendCandidates(view, plan.cells)
  IN  IF primary # {} \/ plan.fallback = NoObject THEN primary
      ELSE ResolveBackendCandidates(view, {plan.fallback})

BackendCells(backends) == {b.cell : b \in backends}
BackendServices(backends) == {b.service : b \in backends}

ReferenceGrantKeys(name, backends) == {<<name, s>> : s \in BackendServices(backends)}

\* isRouteReady: one parent that accepts the route is enough.
IsRouteReady(parents) == \E p \in parents : p.accepted /\ p.resolvedRefs

\* setRouterCondition: the condition, stamped with the generation in hand.
ReadyCondition(b, gen) ==
  [status |-> IF b THEN "True" ELSE "False", observedGeneration |-> gen]

\* Merge patch against the version in hand: the fields that differ from it, the
\* condition list as a whole.
MergePatch(actual, base, new) ==
  [f \in DOMAIN new |-> IF new[f] = base[f] THEN actual[f] ELSE new[f]]

-----------------------------------------------------------------------------
(* Control flow of one pass.                                               *)

GoTo(step) == pc' = step /\ UNCHANGED <<cur, snap, queue>>

\* Mutant: errors are logged and not returned.
ReturnWithoutError(requeue) ==
  /\ pc' = "idle" /\ cur' = NoObject /\ snap' = NoObject /\ pass' = EmptyPass
  /\ UNCHANGED queue

Return(requeue) ==
  /\ pc' = "idle" /\ cur' = NoObject /\ snap' = NoObject /\ pass' = EmptyPass
  /\ queue' = IF requeue THEN queue \cup {cur} ELSE queue

\* Mutant: the error does not end the pass, which goes on to clean up.
FailedThenSwept == GoTo("listRoutes") /\ UNCHANGED pass

\* An error in a step of reconcileNormal: Ready is patched to False, and the
\* error returned whether or not that worked.
Failed == GoTo("patchFailure") /\ pass' = EmptyPass

\* Where the loops of reconcileRoutes go on.
Continue(p) ==
  /\ pass' = p
  /\ GoTo(CASE p.invalid # << >> -> "invalid"
            [] p.invalid = << >> /\ p.plans # << >> -> "resolve"
            [] OTHER -> "listRoutes")

-----------------------------------------------------------------------------
(* Reconcile and reconcileNormal.                                          *)

\* Mutant: NotFound is ignored, and the empty object reconciled.
StartIgnoringNotFound(r) ==
  /\ pc = "idle" /\ r \in queue
  /\ queue' = queue \ {r}
  /\ cur' = r /\ snap' = cRouters[r]
  /\ pass' = [EmptyPass EXCEPT !.finalizing = cRouters[r] # NoObject /\ cRouters[r].deleting]
  /\ pc' = IF pass'.finalizing THEN "listRoutes" ELSE "addFinalizer"
  /\ UNCHANGED <<inputVars, managedVars, cacheVars, envVars>>

StartReconcile(r) ==
  /\ pc = "idle" /\ r \in queue
  /\ queue' = queue \ {r}
  /\ IF cRouters[r] = NoObject
       THEN UNCHANGED workerVars
       ELSE /\ cur' = r /\ snap' = cRouters[r]
            /\ pass' = [EmptyPass EXCEPT !.finalizing = cRouters[r].deleting]
            /\ pc' = CASE cRouters[r].deleting -> "listRoutes"
                       [] ~cRouters[r].deleting /\ ~cRouters[r].finalizer -> "addFinalizer"
                       [] OTHER -> "gatewayNamespace"
  /\ UNCHANGED <<inputVars, managedVars, cacheVars, envVars>>

\* Mutant: the finalizer is added to the object in hand and not written.
EnsureFinalizerInMemory ==
  /\ pc = "addFinalizer"
  /\ snap' = [snap EXCEPT !.finalizer = TRUE]
  /\ pc' = "gatewayNamespace"
  /\ UNCHANGED <<cur, queue, pass, inputVars, managedVars, cacheVars, envVars>>

EnsureFinalizer ==
  /\ pc = "addFinalizer"
  /\ IF routers[cur] = NoObject
       THEN Return(TRUE) /\ UNCHANGED routers
       ELSE /\ routers' = [routers EXCEPT ![cur].finalizer = TRUE]
            /\ snap' = routers'[cur]
            /\ pc' = "gatewayNamespace" /\ UNCHANGED <<cur, queue, pass>>
  /\ UNCHANGED <<placements, cells, managedVars, cacheVars, envVars>>

\* Nothing reads the labels that the namespace gets, and nothing deletes it.  Its
\* cache is not modelled: a stale one makes the call fail, as CallFails does.
ReconcileGatewayNamespace ==
  LET n == snap.spec.gateway
  IN  /\ pc = "gatewayNamespace"
      /\ GoTo("gateway") /\ UNCHANGED pass
      /\ gatewayNamespaces' = gatewayNamespaces \cup {n}
      /\ UNCHANGED <<inputVars, gateways, routes, grants, cacheVars, envVars>>

\* CreateOrUpdate of a Gateway or an HTTPRoute: a create, or an update of the
\* cached version; a stale version and another owner are errors.  The cached
\* object holds defaults of the API server that MutateGateway and MutateHTTPRoute
\* never write (allowedRoutes, the group and kind of references), so that it never
\* equals the desired one and the update is always sent.
Creates(actual, seen) == seen = NoObject /\ actual = NoObject
Rewrites(actual, seen, owner, ref) ==
  seen # NoObject /\ Adoptable(owner, ref) /\ actual = seen

\* Mutant: a pass that has written the Gateway is to be run again.
ReconcileGatewayAgain ==
  LET n == snap.spec.gateway
      ref == Ref(cur, snap)
      written == \/ Creates(gateways[n], cGateways[n])
                 \/ Rewrites(gateways[n], cGateways[n], cGateways[n], ref)
  IN  /\ pc = "gateway"
      /\ IF written THEN Return(TRUE) ELSE Failed
      /\ gateways' = IF written THEN [gateways EXCEPT ![n] = ref] ELSE gateways
      /\ UNCHANGED <<inputVars, gatewayNamespaces, routes, grants, cacheVars, envVars>>

ReconcileGateway ==
  LET n == snap.spec.gateway
      seen == cGateways[n]
      ref == Ref(cur, snap)
      written == Creates(gateways[n], seen) \/ Rewrites(gateways[n], seen, seen, ref)
  IN  /\ pc = "gateway"
      /\ IF written THEN GoTo("plan") /\ UNCHANGED pass ELSE Failed
      /\ gateways' = IF written THEN [gateways EXCEPT ![n] = ref] ELSE gateways
      /\ UNCHANGED <<inputVars, gatewayNamespaces, routes, grants, cacheVars, envVars>>

\* listPlacements and buildRoutePlans.  The cache lists placements in no
\* particular order, and Go ranges over the map of invalid ones in any order.
BuildRoutePlans ==
  LET listed == ListPlacements(cPlacements, cur)
      bad == InvalidPlacements(listed)
  IN  /\ pc = "plan"
      /\ IF DuplicateNames(snap.spec, listed)
           THEN Failed
           ELSE \E invalid \in SetToSeqs(bad), order \in SetToSeqs(NamesIn(listed) \ bad) :
                  Continue([pass EXCEPT
                    !.listed = listed, !.invalid = invalid,
                    !.plans = StaticPlans(snap.spec) \o PlacementPlans(listed, order)])
      /\ UNCHANGED <<inputVars, managedVars, cacheVars, envVars>>

\* patchPlacementReadiness, against the placement as it was listed.
PatchedPlacement(p, ready, resolved) ==
  LET copy == pass.listed[p]
      new == [ready |-> ReadyCondition(ready, copy.generation),
              observedGeneration |-> copy.generation, resolvedBackends |-> resolved]
  IN  [placements EXCEPT ![p].status = MergePatch(placements[p].status, copy.status, new)]

PatchInvalidPlacement ==
  LET p == Head(pass.invalid)
  IN  /\ pc = "invalid"
      /\ IF placements[p] = NoObject
           THEN Failed /\ UNCHANGED placements
           ELSE /\ placements' = PatchedPlacement(p, FALSE, {})
                /\ Continue([pass EXCEPT
                     !.invalid = Tail(@), !.allReady = FALSE,
                     !.statuses = Append(@, [name |-> p, cells |-> {}])])
      /\ UNCHANGED <<routers, cells, managedVars, cacheVars, envVars>>

\* A plan without backends gets no route; the one it may have is stale.
AfterPlacement(p) ==
  LET plan == Head(p.plans)
      needed == ReferenceGrantKeys(plan.name, p.backends)
  IN  IF p.backends = {}
      THEN Continue([p EXCEPT
             !.plans = Tail(@), !.allReady = FALSE, !.needsRequeue = TRUE,
             !.statuses = Append(@, [name |-> plan.name, cells |-> {}])])
      ELSE /\ pass' = [p EXCEPT !.grants = needed,
                                !.expectedRoutes = @ \cup {plan.name},
                                !.expectedGrants = @ \cup {ReferenceGrantName(g) : g \in needed}]
           /\ GoTo("grant")

ResolveBackends ==
  LET plan == Head(pass.plans)
      resolved == [pass EXCEPT !.backends = ResolveRouteBackends(cCells, plan)]
  IN  /\ pc = "resolve"
      /\ IF plan.isPlacement
           THEN pass' = resolved /\ GoTo("placement")
           ELSE AfterPlacement(resolved)
      /\ UNCHANGED <<inputVars, managedVars, cacheVars, envVars>>

PatchPlacement ==
  LET p == Head(pass.plans).name
  IN  /\ pc = "placement"
      /\ IF placements[p] = NoObject
           THEN Failed /\ UNCHANGED placements
           ELSE /\ placements' = PatchedPlacement(p, pass.backends # {},
                                                  BackendCells(pass.backends))
                /\ AfterPlacement(pass)
      /\ UNCHANGED <<routers, cells, managedVars, cacheVars, envVars>>

\* One backend at a time, in the order of the plan's targets.
NextGrant == CHOOSE g \in pass.grants : TRUE

\* Grants have no defaults: one that is as desired in the cache takes no call.
ReconcileReferenceGrant ==
  LET g == NextGrant
      seen == cGrants[g]
      desired == [owner |-> Ref(cur, snap), from |-> snap.spec.gateway]
      written == \/ Creates(grants[g], seen)
                 \/ seen # desired /\ Rewrites(grants[g], seen, seen.owner, desired.owner)
  IN  /\ pc = "grant"
      /\ IF written \/ seen = desired
           THEN /\ pass' = [pass EXCEPT !.grants = @ \ {g}]
                /\ GoTo(IF pass.grants = {g} THEN "route" ELSE "grant")
           ELSE Failed
      /\ grants' = IF written THEN [grants EXCEPT ![g] = desired] ELSE grants
      /\ UNCHANGED <<inputVars, gatewayNamespaces, gateways, routes, cacheVars, envVars>>

\* The Gateway implementation's verdict on an earlier version stays on the
\* route, and isRouteReady believes it.
ReconcileHTTPRoute ==
  LET plan == Head(pass.plans)
      k == <<snap.spec.gateway, plan.name>>
      seen == cRoutes[k]
      parents == IF seen = NoObject THEN {} ELSE seen.parents
      ready == IsRouteReady(parents)
      desired == [owner |-> Ref(cur, snap), backends |-> BackendServices(pass.backends),
                  parents |-> parents]
      written == \/ Creates(routes[k], seen)
                 \/ Rewrites(routes[k], seen, seen.owner, desired.owner)
  IN  /\ pc = "route"
      /\ IF written
           THEN Continue([pass EXCEPT
                  !.plans = Tail(@), !.backends = {},
                  !.allReady = @ /\ ready, !.needsRequeue = @ \/ ~ready,
                  !.statuses = Append(@, [name |-> plan.name,
                                          cells |-> BackendCells(pass.backends)])])
           ELSE Failed
      /\ routes' = IF written THEN [routes EXCEPT ![k] = desired] ELSE routes
      /\ UNCHANGED <<inputVars, gatewayNamespaces, gateways, grants, cacheVars, envVars>>

PatchedRouters(new) ==
  [routers EXCEPT ![cur].status = MergePatch(routers[cur].status, snap.status, new)]

PatchStatus ==
  LET new == [ready |-> ReadyCondition(pass.allReady, snap.generation),
              observedGeneration |-> snap.generation,
              managedRoutes |-> pass.statuses]
  IN  /\ pc = "patchStatus"
      /\ IF routers[cur] = NoObject
           THEN UNCHANGED routers /\ Return(TRUE)
           ELSE routers' = PatchedRouters(new) /\ Return(pass.needsRequeue)
      /\ UNCHANGED <<placements, cells, managedVars, cacheVars, envVars>>

PatchFailure ==
  LET new == [snap.status EXCEPT !.ready = ReadyCondition(FALSE, snap.generation)]
  IN  /\ pc = "patchFailure"
      /\ routers' = IF routers[cur] = NoObject THEN routers ELSE PatchedRouters(new)
      /\ Return(TRUE)
      /\ UNCHANGED <<placements, cells, managedVars, cacheVars, envVars>>

-----------------------------------------------------------------------------
(* Stale objects, in a normal pass and on deletion: a list from the cache, *)
(* then one Delete by name after the other.                                *)

\* cleanupStaleRoutes and cleanupStaleReferenceGrants: the labels name the router,
\* and a grant is looked up by its name in whatever namespace it is.
StaleRoutes ==
  {k \in RouteKeys : /\ k[1] = snap.spec.gateway /\ k[2] \notin pass.expectedRoutes
                     /\ cRoutes[k] # NoObject /\ cRoutes[k].owner.name = cur}

\* Mutant: the list is not restricted to the labels of the router.
StaleGrantsOfAnyone ==
  {g \in GrantKeys : ReferenceGrantName(g) \notin pass.expectedGrants /\ cGrants[g] # NoObject}

StaleGrants ==
  {g \in GrantKeys : /\ ReferenceGrantName(g) \notin pass.expectedGrants
                     /\ cGrants[g] # NoObject /\ cGrants[g].owner.name = cur}

\* deleteManagedHTTPRoutes and deleteManagedReferenceGrants: the owner's UID too.
ManagedRoutes ==
  {k \in RouteKeys : /\ k[1] = snap.spec.gateway
                     /\ cRoutes[k] # NoObject /\ cRoutes[k].owner = Ref(cur, snap)}
ManagedGrants ==
  {g \in GrantKeys : cGrants[g] # NoObject /\ cGrants[g].owner = Ref(cur, snap)}

ListRoutes ==
  LET stale == IF pass.finalizing THEN ManagedRoutes ELSE StaleRoutes
  IN  /\ pc = "listRoutes"
      /\ pass' = [pass EXCEPT !.stale = stale]
      /\ GoTo(IF stale = {} THEN "listGrants" ELSE "sweepRoutes")
      /\ UNCHANGED <<inputVars, managedVars, cacheVars, envVars>>

DeleteStaleRoute ==
  /\ pc = "sweepRoutes"
  /\ \E k \in pass.stale :
       /\ routes' = [routes EXCEPT ![k] = NoObject]
       /\ pass' = [pass EXCEPT !.stale = @ \ {k}]
       /\ GoTo(IF pass.stale = {k} THEN "listGrants" ELSE "sweepRoutes")
  /\ UNCHANGED <<inputVars, gatewayNamespaces, gateways, grants, cacheVars, envVars>>

AfterSweep == IF pass.finalizing THEN "deleteGateway" ELSE "patchStatus"

ListGrants ==
  LET stale == IF pass.finalizing THEN ManagedGrants ELSE StaleGrants
  IN  /\ pc = "listGrants"
      /\ pass' = [pass EXCEPT !.stale = stale]
      /\ GoTo(IF stale = {} THEN AfterSweep ELSE "sweepGrants")
      /\ UNCHANGED <<inputVars, managedVars, cacheVars, envVars>>

DeleteStaleGrant ==
  /\ pc = "sweepGrants"
  /\ \E g \in pass.stale :
       /\ grants' = [grants EXCEPT ![g] = NoObject]
       /\ pass' = [pass EXCEPT !.stale = @ \ {g}]
       /\ GoTo(IF pass.stale = {g} THEN AfterSweep ELSE "sweepGrants")
  /\ UNCHANGED <<inputVars, gatewayNamespaces, gateways, routes, cacheVars, envVars>>

DeleteManagedGateway ==
  LET n == snap.spec.gateway
  IN  /\ pc = "deleteGateway"
      /\ gateways' = IF cGateways[n] = Ref(cur, snap)
                     THEN [gateways EXCEPT ![n] = NoObject] ELSE gateways
      /\ GoTo("removeFinalizer")
      /\ UNCHANGED <<inputVars, gatewayNamespaces, routes, grants, cacheVars, pass, envVars>>

RemoveFinalizer ==
  /\ pc = "removeFinalizer"
  /\ IF routers[cur] = NoObject
       THEN UNCHANGED routers /\ Return(TRUE)
       ELSE /\ routers' = IF routers[cur].deleting
                          THEN [routers EXCEPT ![cur] = NoObject]
                          ELSE [routers EXCEPT ![cur].finalizer = FALSE]
            /\ Return(FALSE)
  /\ UNCHANGED <<placements, cells, managedVars, cacheVars, envVars>>

ReconcileStep ==
  \/ EnsureFinalizer
  \/ ReconcileGatewayNamespace
  \/ ReconcileGateway
  \/ BuildRoutePlans
  \/ PatchInvalidPlacement
  \/ ResolveBackends
  \/ PatchPlacement
  \/ ReconcileReferenceGrant
  \/ ReconcileHTTPRoute
  \/ ListRoutes
  \/ DeleteStaleRoute
  \/ ListGrants
  \/ DeleteStaleGrant
  \/ PatchStatus
  \/ PatchFailure
  \/ DeleteManagedGateway
  \/ RemoveFinalizer

-----------------------------------------------------------------------------
(* Informers and the watch handlers of SetupWithManager.                   *)

SyncRouter(r) ==
  /\ cRouters[r] # routers[r]
  /\ cRouters' = [cRouters EXCEPT ![r] = routers[r]]
  /\ queue' = queue \cup {r}
  /\ UNCHANGED <<inputVars, managedVars, cPlacements, cCells, cGateways, cRoutes, cGrants, workerVars, envVars>>

\* requestsForPlacement, for the old and the new version.
RequestsForPlacement(object) == IF object = NoObject THEN {} ELSE {object.spec.router}

SyncPlacement(p) ==
  /\ cPlacements[p] # placements[p]
  /\ cPlacements' = [cPlacements EXCEPT ![p] = placements[p]]
  /\ queue' = queue \cup RequestsForPlacement(cPlacements[p])
                    \cup RequestsForPlacement(placements[p])
  /\ UNCHANGED <<inputVars, managedVars, cRouters, cCells, cGateways, cRoutes, cGrants, workerVars, envVars>>

\* Every router is asked to look again.
RequestsForCell == {r \in Routers : cRouters[r] # NoObject}

SyncCell(c) ==
  /\ cCells[c] # cells[c]
  /\ cCells' = [cCells EXCEPT ![c] = cells[c]]
  /\ queue' = queue \cup RequestsForCell
  /\ UNCHANGED <<inputVars, managedVars, cRouters, cPlacements, cGateways, cRoutes, cGrants, workerVars, envVars>>

SyncGateway(n) ==
  /\ cGateways[n] # gateways[n]
  /\ cGateways' = [cGateways EXCEPT ![n] = gateways[n]]
  /\ queue' = queue \cup {o.name : o \in {cGateways[n], gateways[n]} \ {NoObject}}
  /\ UNCHANGED <<inputVars, managedVars, cRouters, cPlacements, cCells, cRoutes, cGrants, workerVars, envVars>>

OwnerRequests(objects) == {o.owner.name : o \in objects \ {NoObject}}

SyncRoute(k) ==
  /\ cRoutes[k] # routes[k]
  /\ cRoutes' = [cRoutes EXCEPT ![k] = routes[k]]
  /\ queue' = queue \cup OwnerRequests({cRoutes[k], routes[k]})
  /\ UNCHANGED <<inputVars, managedVars, cRouters, cPlacements, cCells,
                 cGateways, cGrants, workerVars, envVars>>

SyncGrant(g) ==
  /\ cGrants[g] # grants[g]
  /\ cGrants' = [cGrants EXCEPT ![g] = grants[g]]
  /\ queue' = queue \cup OwnerRequests({cGrants[g], grants[g]})
  /\ UNCHANGED <<inputVars, managedVars, cRouters, cPlacements, cCells,
                 cGateways, cRoutes, workerVars, envVars>>

-----------------------------------------------------------------------------
(* The cluster around the operator.                                        *)

OwnerAlive(ref) == routers[ref.name] # NoObject /\ routers[ref.name].uid = ref.uid

\* Each backend's namespace grants routes of the Gateway's namespace access to the
\* Service.
Granted(k) ==
  \A s \in routes[k].backends :
    \E g \in GrantKeys : g[2] = s /\ grants[g] # NoObject /\ grants[g].from = k[1]

\* What the Gateway implementation says of a route, as long as there is a Gateway.
Report(k) ==
  IF gateways[k[1]] = NoObject THEN {}
  ELSE {[accepted |-> TRUE, resolvedRefs |-> Granted(k)]}

ReportRoute(k) ==
  /\ routes[k] # NoObject /\ routes[k].parents # Report(k)
  /\ routes' = [routes EXCEPT ![k].parents = Report(k)]
  /\ UNCHANGED <<inputVars, gatewayNamespaces, gateways, grants, cacheVars, queue,
                 workerVars, envVars>>

\* Garbage collection of what dead routers own.
CollectRoute(k) ==
  /\ routes[k] # NoObject /\ ~OwnerAlive(routes[k].owner)
  /\ routes' = [routes EXCEPT ![k] = NoObject]
  /\ UNCHANGED <<inputVars, gatewayNamespaces, gateways, grants, cacheVars, queue,
                 workerVars, envVars>>

CollectGrant(g) ==
  /\ grants[g] # NoObject /\ ~OwnerAlive(grants[g].owner)
  /\ grants' = [grants EXCEPT ![g] = NoObject]
  /\ UNCHANGED <<inputVars, gatewayNamespaces, gateways, routes, cacheVars, queue,
                 workerVars, envVars>>

CollectGateway(n) ==
  /\ gateways[n] # NoObject /\ ~OwnerAlive(gateways[n])
  /\ gateways' = [gateways EXCEPT ![n] = NoObject]
  /\ UNCHANGED <<inputVars, gatewayNamespaces, routes, grants, cacheVars, queue,
                 workerVars, envVars>>

Disturb(kind) ==
  /\ kind \in Disturbances
  /\ disturbances < MaxDisturbances
  /\ disturbances' = disturbances + 1

Undisturbed == UNCHANGED <<cacheVars, queue, workerVars>>

CreateRouter(r, spec) ==
  /\ routers[r] = NoObject /\ Disturb("router")
  /\ uids' = [uids EXCEPT ![r] = @ + 1]
  /\ routers' = [routers EXCEPT ![r] = NewRouter(spec, uids[r] + 1)]
  /\ Undisturbed /\ UNCHANGED <<placements, cells, managedVars>>

EditRouter(r, spec) ==
  /\ routers[r] # NoObject /\ routers[r].spec # spec /\ Disturb("routerSpec")
  /\ routers' = [routers EXCEPT ![r].spec = spec, ![r].generation = @ + 1]
  /\ Undisturbed /\ UNCHANGED <<placements, cells, managedVars, uids>>

DeleteRouter(r) ==
  /\ routers[r] # NoObject /\ ~routers[r].deleting /\ Disturb("router")
  /\ routers' = IF routers[r].finalizer
                THEN [routers EXCEPT ![r].deleting = TRUE, ![r].generation = @ + 1]
                ELSE [routers EXCEPT ![r] = NoObject]
  /\ Undisturbed /\ UNCHANGED <<placements, cells, managedVars, uids>>

CreatePlacement(p, spec) ==
  /\ placements[p] = NoObject /\ Disturb("placement")
  /\ placements' = [placements EXCEPT ![p] = NewPlacement(spec, uids[p] + 1)]
  /\ uids' = [uids EXCEPT ![p] = @ + 1]
  /\ Undisturbed /\ UNCHANGED <<routers, cells, managedVars>>

EditPlacement(p, spec) ==
  /\ placements[p] # NoObject /\ placements[p].spec # spec /\ Disturb("placement")
  /\ placements' = [placements EXCEPT ![p].spec = spec, ![p].generation = @ + 1]
  /\ Undisturbed /\ UNCHANGED <<routers, cells, managedVars, uids>>

\* Placements have no finalizer.
DeletePlacement(p) ==
  /\ placements[p] # NoObject /\ Disturb("placement")
  /\ placements' = [placements EXCEPT ![p] = NoObject]
  /\ Undisturbed /\ UNCHANGED <<routers, cells, managedVars, uids>>

CellChanges(c, view) ==
  /\ cells[c] # view /\ Disturb("cell")
  /\ cells' = [cells EXCEPT ![c] = view]
  /\ Undisturbed /\ UNCHANGED <<routers, placements, managedVars, uids>>

UserDeletesRoute(k) ==
  /\ routes[k] # NoObject /\ Disturb("object")
  /\ routes' = [routes EXCEPT ![k] = NoObject]
  /\ Undisturbed /\ UNCHANGED <<inputVars, gatewayNamespaces, gateways, grants, uids>>

UserDeletesGrant(g) ==
  /\ grants[g] # NoObject /\ Disturb("object")
  /\ grants' = [grants EXCEPT ![g] = NoObject]
  /\ Undisturbed /\ UNCHANGED <<inputVars, gatewayNamespaces, gateways, routes, uids>>

UserDeletesGateway(n) ==
  /\ gateways[n] # NoObject /\ Disturb("object")
  /\ gateways' = [gateways EXCEPT ![n] = NoObject]
  /\ Undisturbed /\ UNCHANGED <<inputVars, gatewayNamespaces, routes, grants, uids>>

\* The API call of the current step fails without an effect.
CallFails ==
  /\ pc # "idle" /\ Disturb("fault")
  /\ IF \/ pc \in NormalSteps \ {"patchStatus", "patchFailure"}
        \/ pc \in SweepSteps /\ ~pass.finalizing
       THEN Failed ELSE Return(TRUE)
  /\ UNCHANGED <<inputVars, managedVars, cacheVars, uids>>

\* The operator's process ends anywhere and starts again with fresh lists.
Restart ==
  /\ Disturb("restart")
  /\ pc' = "idle" /\ cur' = NoObject /\ snap' = NoObject /\ pass' = EmptyPass
  /\ cRouters' = routers /\ cPlacements' = placements /\ cCells' = cells
  /\ cGateways' = gateways /\ cRoutes' = routes /\ cGrants' = grants
  /\ queue' = {r \in Routers : routers[r] # NoObject}
  /\ UNCHANGED <<inputVars, managedVars, uids>>

Environment ==
  \/ \E r \in Routers : \E spec \in RouterSpecs[r] \ {NoObject} :
       CreateRouter(r, spec) \/ EditRouter(r, spec)
  \/ \E r \in Routers : DeleteRouter(r)
  \/ \E p \in Placements : \E spec \in PlacementSpecs[p] \ {NoObject} :
       CreatePlacement(p, spec) \/ EditPlacement(p, spec)
  \/ \E p \in Placements : DeletePlacement(p)
  \/ \E c \in Cells : \E view \in CellViews[c] : CellChanges(c, view)
  \/ \E k \in RouteKeys : UserDeletesRoute(k)
  \/ \E g \in GrantKeys : UserDeletesGrant(g)
  \/ \E n \in GatewayNamespaces : UserDeletesGateway(n)
  \/ CallFails
  \/ Restart

Cluster ==
  \/ \E k \in RouteKeys : ReportRoute(k) \/ CollectRoute(k)
  \/ \E g \in GrantKeys : CollectGrant(g)
  \/ \E n \in GatewayNamespaces : CollectGateway(n)

Informers ==
  \/ \E r \in Routers : SyncRouter(r)
  \/ \E p \in Placements : SyncPlacement(p)
  \/ \E c \in Cells : SyncCell(c)
  \/ \E n \in GatewayNamespaces : SyncGateway(n)
  \/ \E k \in RouteKeys : SyncRoute(k)
  \/ \E g \in GrantKeys : SyncGrant(g)

Next ==
  \/ \E r \in Routers : StartReconcile(r)
  \/ ReconcileStep
  \/ Informers
  \/ Cluster
  \/ Environment

Spec == Init /\ [][Next]_vars

\* As for the Cell reconciler: the queue is served, the worker runs, informers
\* deliver, the cluster's controllers run; users and faults need not act.
Fairness ==
  /\ \A r \in Routers : SF_vars(StartReconcile(r)) /\ WF_vars(SyncRouter(r))
  /\ WF_vars(ReconcileStep)
  /\ \A p \in Placements : WF_vars(SyncPlacement(p))
  /\ \A c \in Cells : WF_vars(SyncCell(c))
  /\ \A n \in GatewayNamespaces : WF_vars(SyncGateway(n)) /\ WF_vars(CollectGateway(n))
  /\ \A k \in RouteKeys :
       WF_vars(SyncRoute(k)) /\ WF_vars(CollectRoute(k)) /\ WF_vars(ReportRoute(k))
  /\ \A g \in GrantKeys : WF_vars(SyncGrant(g)) /\ WF_vars(CollectGrant(g))

FairSpec == Spec /\ Fairness

-----------------------------------------------------------------------------
(* Properties.                                                             *)

Live(r) == routers[r] # NoObject

\* While a pass of reconcileNormal runs, the API server holds the incarnation it
\* started from, under its finalizer: its routes and status patches never reach
\* a later CellRouter of that name.
FinalizerPinsPass ==
  pc \in NormalSteps \cup SweepSteps /\ ~pass.finalizing =>
    Live(cur) /\ routers[cur].uid = snap.uid /\ routers[cur].finalizer

\* The routes and grants a CellRouter asks for, by what its Cells really are.
Listed(r) == ListPlacements(placements, r)
Plans(r) ==
  LET listed == Listed(r)
  IN  ToSet(StaticPlans(routers[r].spec))
      \cup ToSet(PlacementPlans(listed, SetToSeq(NamesIn(listed) \ InvalidPlacements(listed))))
Served(plan) == ResolveRouteBackends(cells, plan)

\* A placement's status tells what its router makes of it.
PlacementSettled(r, p) ==
  LET st == placements[p].status
      plan == CHOOSE plan \in Plans(r) : plan.name = p
      resolved == IF p \in InvalidPlacements(Listed(r)) THEN {} ELSE BackendCells(Served(plan))
  IN  /\ st.observedGeneration = placements[p].generation
      /\ st.resolvedBackends = resolved
      /\ st.ready = ReadyCondition(resolved # {}, placements[p].generation)

RoutesSettled(r) ==
  LET n == routers[r].spec.gateway
      served == {plan \in Plans(r) : Served(plan) # {}}
      needed == UNION {ReferenceGrantKeys(plan.name, Served(plan)) : plan \in served}
  IN  /\ \A plan \in served :
           LET route == routes[<<n, plan.name>>]
           IN  /\ route # NoObject /\ route.owner = Ref(r, routers[r])
               /\ route.backends = BackendServices(Served(plan)) /\ IsRouteReady(route.parents)
      /\ \A k \in RouteKeys :
           routes[k] # NoObject /\ routes[k].owner.name = r =>
             \E plan \in served : k = <<n, plan.name>>
      /\ {g \in GrantKeys : grants[g] # NoObject /\ grants[g].owner.name = r} = needed

\* Another router owns the Gateway, a route or a grant that this one needs.
Contested(r) ==
  LET n == routers[r].spec.gateway
      held(object) == object # NoObject /\ object.owner.name # r
  IN  \/ gateways[n] # NoObject /\ gateways[n].name # r
      \/ \E plan \in Plans(r) :
           /\ Served(plan) # {}
           /\ \/ held(routes[<<n, plan.name>>])
              \/ \E g \in ReferenceGrantKeys(plan.name, Served(plan)) : held(grants[g])

\* What the API server holds for a CellRouter is what its spec, its placements
\* and its Cells call for.
Settled(r) ==
  LET router == routers[r]
      allServed == /\ InvalidPlacements(Listed(r)) = {}
                   /\ \A plan \in Plans(r) : Served(plan) # {}
  IN  /\ ~router.deleting
      /\ router.status.ready.observedGeneration = router.generation
      /\ IF DuplicateNames(router.spec, Listed(r)) \/ Contested(r)
         THEN router.status.ready.status = "False"
         ELSE /\ gateways[router.spec.gateway] = Ref(r, router)
              /\ RoutesSettled(r)
              /\ \A p \in NamesIn(Listed(r)) : PlacementSettled(r, p)
              /\ router.status.observedGeneration = router.generation
              /\ (router.status.ready.status = "True") <=> allServed
              /\ ToSet(router.status.managedRoutes) =
                   {[name |-> plan.name, cells |-> BackendCells(Served(plan))] : plan \in Plans(r)}
                   \cup {[name |-> p, cells |-> {}] : p \in InvalidPlacements(Listed(r))}

\* Once users and faults leave the system alone, every CellRouter reaches the
\* routes, grants and statuses it asks for and keeps them, and a deleted one is
\* gone, however events, failed calls, restarts and stale lists were mixed.
Converges == <>[](\A r \in Routers : Live(r) => Settled(r))

\* The reconciler comes to rest: its own writes, updates of the Gateway and the routes
\* that every pass sends included, do not keep waking it up.  Only a CellRouter that
\* waits for a Cell or keeps failing is tried again.
Quiesces ==
  <>[](\A r \in (queue \cup {cur}) \ {NoObject} :
         Live(r) /\ (\/ DuplicateNames(routers[r].spec, Listed(r))
                     \/ Contested(r)
                     \/ \E plan \in Plans(r) : Served(plan) = {}))

\* An object of one router is neither taken over nor deleted by a pass for another,
\* although grants of like-named routes share a name, sweeps go by cached labels and
\* Delete is by name: what a pass deletes in one step belongs to its router.
RoutersKeepApart ==
  [][LET byWorker == <<pc, pass>>' # <<pc, pass>>
         kept(object, next) ==
           object # NoObject =>
             /\ next # NoObject => next.owner.name = object.owner.name
             /\ next = NoObject /\ byWorker => object.owner.name = cur
     IN  /\ \A k \in RouteKeys : kept(routes[k], routes'[k])
         /\ \A g \in GrantKeys : kept(grants[g], grants'[g])]_vars

\* DEVELOPER_GUIDE.md:441: a pass will "Clean up stale routes and grants": in the end
\* the routes of a living router are all in the namespace of its Gateway.
StaleRoutesRemoved ==
  <>[](\A k \in RouteKeys :
         routes[k] # NoObject /\ Live(routes[k].owner.name) =>
           k[1] = routers[routes[k].owner.name].spec.gateway)

\* DEVELOPER_GUIDE.md:402: "`Disabled`: cell is withdrawn from routing entirely".
DisabledWithdrawn ==
  <>[](\A c \in Cells, k \in RouteKeys :
         cells[c] # NoObject /\ cells[c].state = "Disabled" /\ routes[k] # NoObject =>
           cells[c].service \notin routes[k].backends)
-----------------------------------------------------------------------------
(* The promise of module Ownership.                                        *)

Phase(r) ==
  CASE ~Live(r) -> "absent"
    [] Live(r) /\ routers[r].deleting -> "deleting"
    [] Live(r) /\ ~routers[r].deleting /\ routers[r].finalizer -> "managed"
    [] OTHER -> "new"

\* The owner reference of a Gateway, an HTTPRoute or a ReferenceGrant.
Owner(t) ==
  LET owner(object) == IF object = NoObject THEN NoObject ELSE object.owner
  IN  CASE t[1] = "Gateway" -> gateways[t[2]]
        [] t[1] = "HTTPRoute" -> owner(routes[t[2]])
        [] t[1] = "ReferenceGrant" -> owner(grants[t[2]])

Managed ==
  ({"Gateway"} \X GatewayNamespaces) \cup ({"HTTPRoute"} \X RouteKeys)
  \cup ({"ReferenceGrant"} \X GrantKeys)

Contract == INSTANCE Ownership WITH
  Names <- Routers, Things <- Managed, Nobody <- NoObject,
  phase <- [r \in Routers |-> Phase(r)],
  holder <- [t \in Managed |-> IF Owner(t) = NoObject THEN NoObject ELSE Owner(t).name],
  orphans <- {t \in Managed : Owner(t) # NoObject /\ ~OwnerAlive(Owner(t))}

\* The routing objects keep to the ownership protocol: no stale pass writes for a
\* CellRouter that is gone or not yet under its finalizer, what a deleted router
\* leaves behind is collected or taken over, and its deletion ends.
ImplementsOwnership == Contract!Spec
=============================================================================
