------------------------------- MODULE Operator -------------------------------
(***************************************************************************)
(* The manager process (cmd/main.go) with both reconcilers, each with a     *)
(* worker and a queue of its own, over one API server.  They share the      *)
(* informer cache of Cells: one event wakes the Cell's reconciler and every *)
(* CellRouter.  The Cell reconciler's status is what routers route by, and  *)
(* a router's grants live in the namespaces that the Cell reconciler makes  *)
(* and tears down.  CellRouters have explicit routes here; placements and   *)
(* edits of routers are in module RouterController alone.                   *)
(***************************************************************************)
EXTENDS Naturals, Sequences, FiniteSets, SequencesExt

CONSTANTS
  Cells, Namespaces, ServiceNames, MaxEndpoints,      \* of CellController
  Routers, RouteNames, GatewayNamespaces, GrantHash,  \* of RouterController
  Scenarios,         \* the specs of Cells and of CellRouters to start from
  DisturbedCells,    \* bound: the Cells that users, workloads and failed calls strike
  States,            \* bound: the lifecycle states that users set
  Disturbances, MaxDisturbances,
  NoObject, NoOwner

VARIABLES
  cells, namespaces, objects, endpoints,             \* the Cell reconciler's part
  cCells, cNamespaces, cObjects, cEndpoints,
  queue, pc, cur, snap, status, uids,
  routers, gatewayNamespaces, gateways, routes, grants,  \* the routers' part
  cRouters, cGateways, cRoutes, cGrants,
  routerQueue, routerPc, routerCur, routerSnap, pass,
  disturbances,
  scenario                                           \* history: where it started

C == INSTANCE CellController WITH TouchedKeys <- {}, Specs <- {}

\* What the routers read of a Cell: effectiveCellState, the two conditions of
\* isCellTrafficReady and the Service of resolveBackend.
View(c, cell) ==
  IF cell = NoObject THEN NoObject
  ELSE [state |-> C!EffectiveCellState(cell.spec),
        ready |-> \A t \in C!ConditionTypes : cell.status.conditions[t].status = "True",
        service |-> <<IF cell.status.namespace # "" THEN cell.status.namespace
                      ELSE C!EffectiveNamespace(c, cell.spec),
                      cell.spec.serviceName>>]

Views(view) == [c \in Cells |-> View(c, view[c])]

R == INSTANCE RouterController WITH
  RouterSpecs <- << >>, Placements <- {}, PlacementSpecs <- << >>,
  placements <- << >>, cPlacements <- << >>,
  Services <- C!ServiceKeys, CellViews <- [c \in Cells |-> {}],
  cells <- Views(cells), cCells <- Views(cCells),
  queue <- routerQueue, pc <- routerPc, cur <- routerCur, snap <- routerSnap,
  uids <- [r \in Routers |-> 1]

\* A settled Cell has an endpoint.
ASSUME ConstantsAssumption ==
  /\ Cells \subseteq Namespaces /\ "" \notin Namespaces
  /\ ServiceNames \cap C!PolicyKinds = {}
  /\ MaxEndpoints \in Nat \ {0}
  /\ DisturbedCells \subseteq Cells
  /\ States \subseteq {"", "Active", "Draining", "Disabled"}

ASSUME SentinelAssumption ==
  /\ NoObject \notin Cells \cup C!Cell \cup C!NamespaceObject \cup C!OwnedObject
  /\ NoObject \notin R!CellView \cup R!HTTPRoute

\* The Cells that a Cell shares its namespace with, in scenario s.
Neighbours(s, c) ==
  {d \in Cells \ {c} : C!EffectiveNamespace(d, s.cells[d]) = C!EffectiveNamespace(c, s.cells[c])}

\* What Init takes for settled is: the Cells are Active, have no policies and a Service
\* each, and routers a Gateway each (what becomes of those that name the same is in
\* modules CellController and RouterController).  Cells may share namespaces; only, of
\* two disturbed ones neither takes the namespace along, which could leave a Service to
\* garbage collection.
ASSUME ScenariosAssumption ==
  \A s \in Scenarios :
    /\ s.cells \in [Cells -> C!CellSpec] /\ s.routers \in [Routers -> R!RouterSpec]
    /\ \A c \in Cells : C!EffectiveCellState(s.cells[c]) = "Active" /\ s.cells[c].policies = {}
    /\ \A c, d \in Cells : c # d => C!ServiceKey(c, s.cells[c]) # C!ServiceKey(d, s.cells[d])
    /\ \A c \in DisturbedCells :
         s.cells[c].tearDownOnDelete => Neighbours(s, c) \cap DisturbedCells = {}
    /\ \A q, r \in Routers : q # r => s.routers[q].gateway # s.routers[r].gateway

cellVars == <<cells, namespaces, objects, endpoints, cCells, cNamespaces, cObjects, cEndpoints,
              queue, pc, cur, snap, status, uids>>
routerVars == <<routers, gatewayNamespaces, gateways, routes, grants,
                cRouters, cGateways, cRoutes, cGrants,
                routerQueue, routerPc, routerCur, routerSnap, pass>>
vars == <<cellVars, routerVars, disturbances, scenario>>

-----------------------------------------------------------------------------
(* Both reconcilers have done their work, and nothing is under way: what    *)
(* their Converges properties say they reach.                               *)

SettledCell(c, spec) ==
  [uid |-> 1, spec |-> spec, generation |-> 1, deleting |-> FALSE, finalizer |-> TRUE,
   status |-> [namespace |-> C!EffectiveNamespace(c, spec), observedGeneration |-> 1,
               availableEndpoints |-> 1,
               conditions |-> [t \in C!ConditionTypes |->
                                 [status |-> "True", observedGeneration |-> 1]]]]

SettledRouter(spec) ==
  LET plans == R!StaticPlans(spec)
  IN  [uid |-> 1, spec |-> spec, generation |-> 1, deleting |-> FALSE, finalizer |-> TRUE,
       status |-> [ready |-> R!ReadyCondition(TRUE, 1), observedGeneration |-> 1,
                   managedRoutes |-> [i \in DOMAIN plans |->
                                        [name |-> plans[i].name, cells |-> plans[i].cells]]]]

\* The plan that a route comes from, if there is one.
Plans(r) == ToSet(R!StaticPlans(routers[r].spec))

PlansFor(name, gateway) ==
  {plan \in UNION {Plans(r) : r \in {r \in Routers : routers[r].spec.gateway = gateway}} :
     plan.name = name}

InitCells(specs) ==
  /\ cells = [c \in Cells |-> SettledCell(c, specs[c])]
  /\ namespaces = [n \in Namespaces |->
       LET residents == {c \in Cells : C!EffectiveNamespace(c, specs[c]) = n}
       IN  IF residents = {} THEN NoObject
           ELSE [cellName |-> CHOOSE c \in residents : TRUE, phase |-> "Active", by |-> "operator"]]
  /\ objects = [k \in C!ObjectKeys |->
       LET users == {c \in Cells : C!ServiceKey(c, specs[c]) = k}
       IN  IF users = {} THEN NoObject
           ELSE [owner |-> [name |-> CHOOSE c \in users : TRUE, uid |-> 1], by |-> "operator"]]
  /\ endpoints = [k \in C!ServiceKeys |-> IF objects[k] = NoObject THEN 0 ELSE 1]
  /\ cCells = cells /\ cNamespaces = namespaces /\ cObjects = objects /\ cEndpoints = endpoints
  /\ queue = {} /\ pc = "idle" /\ cur = NoObject /\ snap = NoObject /\ status = C!EmptyStatus
  /\ uids = [c \in Cells |-> 1]

InitRouters(specs) ==
  /\ routers = [r \in Routers |-> SettledRouter(specs[r])]
  /\ gatewayNamespaces = {routers[r].spec.gateway : r \in Routers}
  /\ gateways = [n \in GatewayNamespaces |->
       LET users == {r \in Routers : routers[r].spec.gateway = n}
       IN  IF users = {} THEN NoObject ELSE [name |-> CHOOSE r \in users : TRUE, uid |-> 1]]
  /\ routes = [k \in R!RouteKeys |->
       IF PlansFor(k[2], k[1]) = {} THEN NoObject
       ELSE [owner |-> gateways[k[1]],
             backends |-> R!BackendServices(R!Served(CHOOSE plan \in PlansFor(k[2], k[1]) : TRUE)),
             parents |-> {[accepted |-> TRUE, resolvedRefs |-> TRUE]}]]
  /\ grants = [g \in R!GrantKeys |->
       LET uses == {k \in R!RouteKeys : k[2] = g[1] /\ routes[k] # NoObject /\ g[2] \in routes[k].backends}
       IN  IF uses = {} THEN NoObject
           ELSE LET k == CHOOSE k \in uses : TRUE IN [owner |-> routes[k].owner, from |-> k[1]]]
  /\ cRouters = routers /\ cGateways = gateways /\ cRoutes = routes /\ cGrants = grants
  /\ routerQueue = {} /\ routerPc = "idle" /\ routerCur = NoObject /\ routerSnap = NoObject
  /\ pass = R!EmptyPass

Init ==
  /\ scenario \in Scenarios
  /\ InitCells(scenario.cells) /\ InitRouters(scenario.routers) /\ disturbances = 0

-----------------------------------------------------------------------------
(* The two workers.                                                        *)

StartCell(c) == C!StartReconcile(c) /\ UNCHANGED routerVars

CellStep == C!ReconcileStep /\ UNCHANGED routerVars

StartRouter(r) == routerPc = "idle" /\ UNCHANGED cellVars /\ R!StartReconcile(r)

\* The API server rejects a create in a namespace that is missing or terminating.
GrantRejected ==
  LET g == R!NextGrant
  IN  /\ routerPc = "grant"
      /\ cGrants[g] = NoObject /\ grants[g] = NoObject /\ ~C!NamespaceOpen(g[2][1])

RouterStep ==
  /\ routerPc # "idle" /\ UNCHANGED cellVars
  /\ IF GrantRejected
     THEN R!Failed /\ UNCHANGED <<routers, gatewayNamespaces, gateways, routes, grants,
                                  cRouters, cGateways, cRoutes, cGrants, disturbances>>
     ELSE R!ReconcileStep

-----------------------------------------------------------------------------
(* Informers.  Nobody changes a Gateway here: its cache is current.         *)

\* Mutant: CellRouters do not watch Cells.
SyncCellAlone(c) == C!SyncCell(c) /\ UNCHANGED routerVars

\* One informer of Cells serves both: For(Cell) and Watches(Cell).
SyncCell(c) ==
  /\ C!SyncCell(c)
  /\ routerQueue' = routerQueue \cup R!RequestsForCell
  /\ UNCHANGED <<routers, gatewayNamespaces, gateways, routes, grants,
                 cRouters, cGateways, cRoutes, cGrants, routerPc, routerCur, routerSnap, pass>>

SyncNamespace(n) == C!SyncNamespace(n) /\ UNCHANGED routerVars
SyncObject(k) == C!SyncObject(k) /\ UNCHANGED routerVars
SyncEndpoints(k) == C!SyncEndpoints(k) /\ UNCHANGED routerVars
SyncRouter(r) == UNCHANGED cellVars /\ R!SyncRouter(r)
SyncRoute(k) == UNCHANGED cellVars /\ R!SyncRoute(k)
SyncGrant(g) == UNCHANGED cellVars /\ R!SyncGrant(g)

-----------------------------------------------------------------------------
(* The cluster.                                                            *)

\* A namespace takes the grants in it along.
NamespaceGone(n) ==
  /\ C!NamespaceGone(n)
  /\ grants' = [g \in R!GrantKeys |-> IF g[2][1] = n THEN NoObject ELSE grants[g]]
  /\ UNCHANGED <<routers, gatewayNamespaces, gateways, routes, cRouters, cGateways, cRoutes,
                 cGrants, routerQueue, routerPc, routerCur, routerSnap, pass>>

\* The Cells here have no policies, so that finalization leaves nothing for garbage
\* collection.
SlicesGone(k) == C!SlicesGone(k) /\ UNCHANGED routerVars

\* The Gateway implementation resolves a reference to a Service that exists.
Report(k) ==
  {[p EXCEPT !.resolvedRefs = @ /\ \A s \in routes[k].backends : objects[s] # NoObject] :
     p \in R!Report(k)}

ReportRoute(k) ==
  /\ routes[k] # NoObject /\ routes[k].parents # Report(k)
  /\ routes' = [routes EXCEPT ![k].parents = Report(k)]
  /\ UNCHANGED <<cellVars, routers, gatewayNamespaces, gateways, grants, cRouters, cGateways,
                 cRoutes, cGrants, routerQueue, routerPc, routerCur, routerSnap, pass, disturbances>>

-----------------------------------------------------------------------------
(* Users, workloads and faults.                                            *)

SetState(c, state) ==
  /\ cells[c] # NoObject /\ C!EditCell(c, [cells[c].spec EXCEPT !.state = state])
  /\ UNCHANGED routerVars

DeleteCell(c) == C!DeleteCell(c) /\ UNCHANGED routerVars

\* The workload of a Cell.
EndpointsChange(c, n) ==
  /\ cells[c] # NoObject /\ C!EndpointsChange(C!ServiceKey(c, cells[c].spec), n)
  /\ UNCHANGED routerVars

\* A call of one of the workers fails; of a pass for a disturbed Cell, as it is that
\* Cell's failure to be reported not ready for.
CellCallFails == cur \in DisturbedCells /\ C!CallFails /\ UNCHANGED routerVars
RouterCallFails == UNCHANGED cellVars /\ R!CallFails

\* The process ends with both workers in the middle of something.
Restart ==
  /\ C!Restart
  /\ routerPc' = "idle" /\ routerCur' = NoObject /\ routerSnap' = NoObject /\ pass' = R!EmptyPass
  /\ cRouters' = routers /\ cGateways' = gateways /\ cRoutes' = routes /\ cGrants' = grants
  /\ routerQueue' = {r \in Routers : routers[r] # NoObject}
  /\ UNCHANGED <<routers, gatewayNamespaces, gateways, routes, grants>>

CellWorker == UNCHANGED scenario /\ (CellStep \/ \E c \in Cells : StartCell(c))

RouterWorker == UNCHANGED scenario /\ (RouterStep \/ \E r \in Routers : StartRouter(r))

Informers ==
  /\ UNCHANGED scenario
  /\ \/ \E c \in Cells : SyncCell(c)
     \/ \E n \in Namespaces : SyncNamespace(n)
     \/ \E k \in C!ObjectKeys : SyncObject(k)
     \/ \E k \in C!ServiceKeys : SyncEndpoints(k)
     \/ \E r \in Routers : SyncRouter(r)
     \/ \E k \in R!RouteKeys : SyncRoute(k)
     \/ \E g \in R!GrantKeys : SyncGrant(g)

Cluster ==
  /\ UNCHANGED scenario
  /\ \/ \E n \in Namespaces : NamespaceGone(n)
     \/ \E k \in C!ServiceKeys : SlicesGone(k)
     \/ \E k \in R!RouteKeys : ReportRoute(k)

Environment ==
  /\ UNCHANGED scenario
  /\ \/ \E c \in DisturbedCells :
          \/ DeleteCell(c)
          \/ \E state \in States : SetState(c, state)
          \/ \E n \in 0..MaxEndpoints : EndpointsChange(c, n)
     \/ CellCallFails
     \/ RouterCallFails
     \/ Restart

Next == CellWorker \/ RouterWorker \/ Informers \/ Cluster \/ Environment

Spec == Init /\ [][Next]_vars

\* One process with two workers.  Less is assumed here than of the parts alone:
\* that the workers, the informers and the cluster's controllers go on, not that
\* each key or each informer gets its turn.
Fairness ==
  WF_vars(CellWorker) /\ WF_vars(RouterWorker) /\ WF_vars(Informers) /\ WF_vars(Cluster)

FairSpec == Spec /\ Fairness

-----------------------------------------------------------------------------
(* Properties.                                                             *)

\* The Services a plan should be served by, told from what users and workloads
\* say and not from any status: those of its Active Cells with ready endpoints, or
\* else the fallback's.
CanServe(c) ==
  /\ cells[c] # NoObject /\ ~cells[c].deleting
  /\ C!EffectiveCellState(cells[c].spec) = "Active"
  /\ endpoints[C!ServiceKey(c, cells[c].spec)] > 0
ServicesOf(targets) == {C!ServiceKey(c, cells[c].spec) : c \in {c \in targets : CanServe(c)}}
Wanted(plan) ==
  IF ServicesOf(plan.cells) = {} THEN ServicesOf({plan.fallback} \ {NoObject})
  ELSE ServicesOf(plan.cells)

Delivers(gateway, plan) ==
  LET route == routes[<<gateway, plan.name>>]
  IN  IF Wanted(plan) = {} THEN route = NoObject
      ELSE /\ route # NoObject /\ route.backends = Wanted(plan)
           /\ R!IsRouteReady(route.parents)

\* DEVELOPER_GUIDE.md:502: a patch of a Cell "or a backend readiness transition can
\* reconfigure routes without touching the router object directly": from whatever
\* happened to a Cell, through its status, the shared cache and the watch on Cells,
\* every route ends up on exactly the Cells that can serve it, and stays there.
TrafficFollowsCells ==
  <>[](\A r \in Routers : \A plan \in Plans(r) : Delivers(routers[r].spec.gateway, plan))

\* The Cells that nothing strikes; those of them whose namespace no other Cell takes
\* along; and those that have their namespace to themselves.
Kept == Cells \ DisturbedCells
Housed(s) ==
  {c \in Kept : \A d \in Neighbours(s, c) \cap DisturbedCells : ~s.cells[d].tearDownOnDelete}
Spared(s) == {c \in Kept : Neighbours(s, c) = {}}

\* No gap in service: whatever happens to other Cells, to the manager and to its calls,
\* a route with a Cell that is left alone, among its own or to fall back to, is never
\* taken away.
RouteSurvives ==
  \A r \in Routers : \A plan \in Plans(r) :
    (plan.cells \cup {plan.fallback}) \cap Spared(scenario) # {} =>
      routes[<<routers[r].spec.gateway, plan.name>>] # NoObject

\* Failures stay contained (README.md:15: "failures should stay contained to the cell
\* currently serving the affected requests"): whatever happens to other Cells, to
\* their namespaces and workloads and to the manager, a Cell that is left alone keeps
\* its Service in a namespace that stands, also when it shares the namespace with a
\* Cell that is deleted, unless that Cell asks for the namespace to be deleted; and
\* one with a namespace of its own is routed to throughout.
FailuresContained ==
  /\ \A c \in Housed(scenario) :
       LET service == C!ServiceKey(c, scenario.cells[c])
       IN  C!NamespaceOpen(service[1]) /\ C!IsControlledBy(objects[service], C!Ref(c, cells[c]))
  /\ \A c \in Spared(scenario) :
       /\ R!IsCellTrafficReady(View(c, cells[c]))
       /\ View(c, cells[c]).service = C!ServiceKey(c, scenario.cells[c])
=============================================================================
