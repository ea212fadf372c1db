--------------------------- MODULE OperatorProofs ---------------------------
(***************************************************************************)
(* What TLAPS proves about the manager with both reconcilers: failover     *)
(* leaves no gap and failures stay contained, for any scenarios with the   *)
(* named assumptions, Cells that share namespaces among them, and any      *)
(* number of disturbances, failed calls and restarts.                      *)
(***************************************************************************)
EXTENDS Operator, FiniteSetTheorems, SequenceTheorems, TLAPS

\* The namespace and the entrypoint Service of c in scenario s.
Home(s, c) == C!EffectiveNamespace(c, s.cells[c])
Entry(s, c) == C!ServiceKey(c, s.cells[c])

-----------------------------------------------------------------------------
(* The Cell reconciler's part.                                             *)

\* Every version of c has the namespace and the Service it started with, and the same
\* wish for the namespace when it is deleted.
Versions(s, c) ==
  [uid : {1},
   spec : {spec \in C!CellSpec : /\ spec.namespace = s.cells[c].namespace
                                 /\ spec.serviceName = s.cells[c].serviceName
                                 /\ spec.tearDownOnDelete = s.cells[c].tearDownOnDelete
                                 /\ spec.policies = {}},
   generation : Nat, deleting : BOOLEAN, finalizer : BOOLEAN, status : C!CellStatus]

\* A status that routers route by.
ReadyStatus(s, c, st) ==
  /\ st.namespace = Home(s, c)
  /\ \A t \in C!ConditionTypes : st.conditions[t].status = "True"

\* A version of a Cell that is kept: Active, and not about to go.
Standing(s, c, cell) == cell.spec = s.cells[c] /\ ~cell.deleting /\ cell.finalizer

VersionOK(s, c, cell) ==
  /\ cell \in Versions(s, c) \cup {NoObject}
  /\ c \in Kept => cell # NoObject /\ Standing(s, c, cell)
  /\ c \in Spared(s) => ReadyStatus(s, c, cell.status)

CellsInv(s, view) ==
  /\ DOMAIN view = Cells
  /\ \A c \in Cells : VersionOK(s, c, view[c])

\* The namespace of a housed Cell stands; a spared Cell's is under its label, where a
\* shared one has the label of the Cell that wrote last.
NamespacesInv(s, view) ==
  /\ DOMAIN view = Namespaces
  /\ \A c \in Housed(s) :
       view[Home(s, c)] \in C!NamespaceObject /\ view[Home(s, c)].phase = "Active"
  /\ \A c \in Spared(s) : view[Home(s, c)].cellName = c

\* The Service of a housed Cell stands, and is its own.
ObjectsInv(s, view) ==
  /\ DOMAIN view = C!ObjectKeys
  /\ \A c \in Housed(s) :
       LET service == view[Entry(s, c)]
       IN  service # NoObject /\ service.owner = [name |-> c, uid |-> 1]

\* A spared Cell has ready endpoints.
EndpointsInv(s, view) ==
  /\ view \in [C!ServiceKeys -> 0..MaxEndpoints]
  /\ \A c \in Spared(s) : view[Entry(s, c)] > 0

\* A pass works on a version of its Cell.  It finalizes only disturbed Cells, and
\* deletes the namespace only of those that ask for it; it finds a spared Cell ready.
CellPassInv(s) ==
  pc # "idle" =>
    /\ cur \in Cells /\ snap # NoObject /\ VersionOK(s, cur, snap) /\ status \in C!CellStatus
    /\ cur \in Kept => pc \in C!NormalSteps
    /\ pc = "deleteNamespace" => s.cells[cur].tearDownOnDelete
    /\ cur \in Spared(s) =>
         pc # "patchFailure" /\ (pc = "patchStatus" => ReadyStatus(s, cur, status))

CellInv(s) ==
  /\ CellsInv(s, cells) /\ CellsInv(s, cCells)
  /\ NamespacesInv(s, namespaces) /\ NamespacesInv(s, cNamespaces)
  /\ ObjectsInv(s, objects) /\ ObjectsInv(s, cObjects)
  /\ EndpointsInv(s, endpoints) /\ EndpointsInv(s, cEndpoints)
  /\ CellPassInv(s)

-----------------------------------------------------------------------------
(* The routers' part.                                                      *)

\* Nobody edits routers here: only their statuses change.
SameRouter(s, r, router) ==
  router \in [uid : {1}, spec : {s.routers[r]}, generation : {1}, deleting : {FALSE},
              finalizer : {TRUE}, status : {router.status}]

RoutersInv(s, view) ==
  /\ DOMAIN view = Routers
  /\ \A r \in Routers : SameRouter(s, r, view[r])

\* The plans with a spared Cell, their own or to fall back to, and their HTTPRoutes.
SparedPlan(s, plan) == (plan.cells \cup {plan.fallback}) \cap Spared(s) # {}
SparedPlans(s, r) == {plan \in ToSet(R!StaticPlans(s.routers[r])) : SparedPlan(s, plan)}
SparedKey(s, r, plan) == <<s.routers[r].gateway, plan.name>>

RoutesInv(s) ==
  /\ routes \in [R!RouteKeys -> R!HTTPRoute \cup {NoObject}]
  /\ cRoutes \in [R!RouteKeys -> R!HTTPRoute \cup {NoObject}]
  /\ \A r \in Routers : \A plan \in SparedPlans(s, r) : routes[SparedKey(s, r, plan)] # NoObject

StaticPlan == {plan \in R!RoutePlan : ~plan.isPlacement}

\* The locals of a pass, which finalizes nothing and has no placements.
PassOK(p) ==
  /\ DOMAIN p = DOMAIN R!EmptyPass
  /\ ~p.finalizing /\ p.invalid = << >>
  /\ p.plans \in Seq(StaticPlan)
  /\ p.backends \subseteq [cell : Cells, service : C!ServiceKeys]

\* A spared plan is still to be done, or its route is expected.
NoneForgotten(s, r, p) ==
  \A plan \in SparedPlans(s, r) : plan.name \in p.expectedRoutes \/ plan \in ToSet(p.plans)

RouterSteps ==
  R!Steps \ {"addFinalizer", "invalid", "placement", "deleteGateway", "removeFinalizer"}

RouterPassInv(s) ==
  /\ PassOK(pass)
  /\ routerPc \in RouterSteps
  /\ routerPc # "idle" => routerCur \in Routers /\ SameRouter(s, routerCur, routerSnap)
  /\ routerPc \in {"resolve", "grant", "route"} => pass.plans # << >>
  /\ routerPc \in {"resolve", "grant", "route", "listRoutes"} =>
       NoneForgotten(s, routerCur, pass)
  /\ routerPc \in {"grant", "route"} => Head(pass.plans).name \in pass.expectedRoutes
  /\ routerPc = "listRoutes" => pass.plans = << >>
  /\ routerPc = "sweepRoutes" =>
       \A k \in pass.stale :
         /\ k[1] = s.routers[routerCur].gateway
         /\ \A plan \in SparedPlans(s, routerCur) : k[2] # plan.name

RouterInv(s) ==
  /\ RoutersInv(s, routers) /\ RoutersInv(s, cRouters)
  /\ RoutesInv(s)
  /\ RouterPassInv(s)

\* The inductive invariant, of the scenario that the system started in.
IInv == \E s \in Scenarios : s = scenario /\ CellInv(s) /\ RouterInv(s)

-----------------------------------------------------------------------------
(* Scenarios and versions of Cells.                                        *)

\* What the assumption on scenarios says of one of them.
LEMMA ScenarioFacts ==
  ASSUME NEW s \in Scenarios
  PROVE  /\ s.cells \in [Cells -> C!CellSpec] /\ s.routers \in [Routers -> R!RouterSpec]
         /\ \A c \in Cells :
              C!EffectiveCellState(s.cells[c]) = "Active" /\ s.cells[c].policies = {}
         /\ \A c, d \in Cells : c # d => Entry(s, c) # Entry(s, d)
         /\ \A q, r \in Routers : q # r => s.routers[q].gateway # s.routers[r].gateway
  BY ScenariosAssumption DEF Entry

\* No Cell takes the namespace of a housed Cell along.
LEMMA HousedFacts ==
  ASSUME NEW s \in Scenarios, NEW c \in Housed(s)
  PROVE  /\ c \in Cells /\ c \in Kept
         /\ \A d \in DisturbedCells : Home(s, d) = Home(s, c) => ~s.cells[d].tearDownOnDelete
  BY ConstantsAssumption DEF Housed, Kept, Neighbours, Home

\* A spared Cell is housed, and has its namespace to itself.
LEMMA SparedFacts ==
  ASSUME NEW s \in Scenarios, NEW c \in Spared(s)
  PROVE  /\ c \in Cells /\ c \in Kept /\ c \in Housed(s)
         /\ \A d \in Cells : d # c => Home(s, d) # Home(s, c)
  BY DEF Spared, Housed, Kept, Neighbours, Home

\* A Cell's Service is one of the namespaced objects, in the Cell's namespace.
LEMMA EntryFacts ==
  ASSUME NEW s \in Scenarios, NEW c \in Cells
  PROVE  /\ Home(s, c) \in Namespaces
         /\ Entry(s, c) = <<Home(s, c), s.cells[c].serviceName>>
         /\ s.cells[c].serviceName \in ServiceNames
         /\ Entry(s, c) \in C!ServiceKeys /\ Entry(s, c) \in C!ObjectKeys
  <1>1. s.cells[c] \in C!CellSpec
    BY ScenarioFacts
  <1>2. Home(s, c) \in Namespaces
    BY <1>1, ConstantsAssumption DEF Home, C!EffectiveNamespace, C!CellSpec
  <1>3. Entry(s, c) = <<Home(s, c), s.cells[c].serviceName>>
    BY DEF Entry, Home, C!ServiceKey
  <1>4. s.cells[c].serviceName \in ServiceNames
    BY <1>1 DEF C!CellSpec
  <1> QED
    BY <1>2, <1>3, <1>4 DEF C!ServiceKeys, C!ObjectKeys

\* Every version of a Cell is a Cell, of the same namespace and Service.
LEMMA VersionFacts ==
  ASSUME NEW s \in Scenarios, NEW c \in Cells, NEW cell \in Versions(s, c)
  PROVE  /\ cell \in C!Cell /\ cell # NoObject
         /\ cell.uid = 1 /\ cell.spec.policies = {}
         /\ cell.spec.tearDownOnDelete = s.cells[c].tearDownOnDelete
         /\ C!EffectiveNamespace(c, cell.spec) = Home(s, c)
         /\ C!ServiceKey(c, cell.spec) = Entry(s, c)
  <1>1. cell \in C!Cell
    BY DEF Versions, C!Cell
  <1>2. cell # NoObject
    BY <1>1, SentinelAssumption
  <1>3. /\ cell.uid = 1 /\ cell.spec.policies = {}
        /\ cell.spec.namespace = s.cells[c].namespace
        /\ cell.spec.serviceName = s.cells[c].serviceName
        /\ cell.spec.tearDownOnDelete = s.cells[c].tearDownOnDelete
    BY DEF Versions
  <1>4. /\ C!EffectiveNamespace(c, cell.spec) = Home(s, c)
        /\ C!ServiceKey(c, cell.spec) = Entry(s, c)
    BY <1>3 DEF Home, Entry, C!ServiceKey, C!EffectiveNamespace
  <1> QED
    BY <1>1, <1>2, <1>3, <1>4

\* One Cell changes into another version of itself.
LEMMA CellsUpdate ==
  ASSUME NEW s, NEW view, CellsInv(s, view), NEW c \in Cells, NEW cell, VersionOK(s, c, cell)
  PROVE  CellsInv(s, [view EXCEPT ![c] = cell])
  BY DEF CellsInv

\* Nothing of the Cell reconciler's part changes.
LEMMA CellFrame ==
  ASSUME NEW s, CellInv(s), UNCHANGED cellVars
  PROVE  CellInv(s)'
  BY DEF CellInv, cellVars, CellPassInv

-----------------------------------------------------------------------------
(* The worker of the Cell reconciler.                                      *)

\* What a pass has in hand.
LEMMA CellPassFacts ==
  ASSUME NEW s \in Scenarios, CellInv(s), pc # "idle"
  PROVE  /\ cur \in Cells /\ snap \in Versions(s, cur) /\ status \in C!CellStatus
         /\ C!EffectiveNamespace(cur, snap.spec) = Home(s, cur)
         /\ C!ServiceKey(cur, snap.spec) = Entry(s, cur)
         /\ C!Ref(cur, snap) = [name |-> cur, uid |-> 1]
         /\ cells[cur] \in Versions(s, cur) \cup {NoObject}
         /\ cur \in Kept => /\ Standing(s, cur, snap) /\ pc \in C!NormalSteps
                            /\ cells[cur] # NoObject /\ Standing(s, cur, cells[cur])
         /\ cur \in Spared(s) => /\ cells[cur] # NoObject
                                 /\ ReadyStatus(s, cur, cells[cur].status)
                                 /\ pc # "patchFailure"
  <1>1. /\ cur \in Cells /\ snap \in Versions(s, cur) /\ status \in C!CellStatus
        /\ cur \in Kept => Standing(s, cur, snap) /\ pc \in C!NormalSteps
        /\ cur \in Spared(s) => pc # "patchFailure"
    BY DEF CellInv, CellPassInv, VersionOK
  <1>2. /\ cells[cur] \in Versions(s, cur) \cup {NoObject}
        /\ cur \in Kept => cells[cur] # NoObject /\ Standing(s, cur, cells[cur])
        /\ cur \in Spared(s) => cells[cur] # NoObject /\ ReadyStatus(s, cur, cells[cur].status)
    BY <1>1, SparedFacts DEF CellInv, CellsInv, VersionOK
  <1>3. /\ snap.uid = 1
        /\ C!EffectiveNamespace(cur, snap.spec) = Home(s, cur)
        /\ C!ServiceKey(cur, snap.spec) = Entry(s, cur)
    BY <1>1, VersionFacts
  <1> QED
    BY <1>1, <1>2, <1>3 DEF C!Ref

\* A pass goes on to a step of reconcileNormal that is not a patch, or, of a disturbed
\* Cell, of reconcileDeletion.
LEMMA CellGoTo ==
  ASSUME NEW s \in Scenarios, CellInv(s), pc # "idle", NEW step, C!GoTo(step),
         UNCHANGED status, step \notin {"patchStatus", "patchFailure"},
         cur \in Kept => step \in C!NormalSteps,
         step = "deleteNamespace" => s.cells[cur].tearDownOnDelete
  PROVE  CellPassInv(s)'
  BY DEF CellInv, CellPassInv, C!GoTo

\* A pass that returns leaves nothing to keep.
LEMMA CellReturn ==
  ASSUME NEW s, NEW requeue, C!Return(requeue)
  PROVE  CellPassInv(s)'
  BY DEF CellPassInv, C!Return

\* SetStatusCondition keeps a status a status.
LEMMA ConditionSet ==
  ASSUME NEW st \in C!CellStatus, NEW type \in C!ConditionTypes,
         NEW value \in {"True", "False"}, NEW gen \in Nat
  PROVE  /\ C!SetCellCondition(st, type, value, gen) \in C!CellStatus
         /\ C!SetCellCondition(st, type, value, gen).namespace = st.namespace
         /\ C!SetCellCondition(st, type, value, gen).conditions =
              [st.conditions EXCEPT ![type] = [status |-> value, observedGeneration |-> gen]]
  <1> DEFINE cond == [status |-> value, observedGeneration |-> gen]
  <1>1. cond \in C!Condition
    BY DEF C!Condition
  <1>2. st.conditions \in [C!ConditionTypes -> C!Condition]
    BY DEF C!CellStatus
  <1>3. [st.conditions EXCEPT ![type] = cond] \in [C!ConditionTypes -> C!Condition]
    BY <1>1, <1>2
  <1> QED
    BY <1>3 DEF C!CellStatus, C!SetCellCondition

\* The pass of a Cell that is not spared may fail.
LEMMA CellFailed ==
  ASSUME NEW s \in Scenarios, CellInv(s), pc # "idle", cur \notin Spared(s), C!Failed
  PROVE  CellPassInv(s)'
  <1>1. /\ cur \in Cells /\ snap # NoObject /\ VersionOK(s, cur, snap) /\ status \in C!CellStatus
        /\ snap.generation \in Nat
    BY DEF CellInv, CellPassInv, VersionOK, Versions
  <1> DEFINE failed == C!SetCellCondition(status, "Ready", "False", snap.generation)
  <1>2. failed \in C!CellStatus
    BY <1>1, ConditionSet DEF C!ConditionTypes
  <1>3. C!SetCellCondition(failed, "BackendReady", "False", snap.generation) \in C!CellStatus
    BY <1>1, <1>2, ConditionSet DEF C!ConditionTypes
  <1>4. status' \in C!CellStatus
    BY <1>2, <1>3 DEF C!Failed
  <1>5. UNCHANGED <<cur, snap>> /\ pc' = "patchFailure"
    BY DEF C!Failed, C!GoTo
  <1> QED
    BY <1>1, <1>4, <1>5 DEF CellPassInv, C!NormalSteps

\* Take a key: a kept Cell is seen under its finalizer and not being deleted.
LEMMA CellStarts ==
  ASSUME NEW s \in Scenarios, CellInv(s), NEW c \in Cells, C!StartReconcile(c)
  PROVE  CellInv(s)'
  <1>1. VersionOK(s, c, cCells[c])
    BY DEF CellInv, CellsInv
  <1>2. CellPassInv(s)'
    <2>1. CASE cCells[c] = NoObject
      BY <2>1 DEF CellInv, CellPassInv, C!StartReconcile, C!workerVars
    <2>2. CASE cCells[c] # NoObject
      <3>1. cur' = c /\ snap' = cCells[c] /\ status' = cCells[c].status
        BY <2>2 DEF C!StartReconcile
      <3>2. cCells[c].status \in C!CellStatus
        BY <1>1, <2>2 DEF VersionOK, Versions
      <3>3. ASSUME c \in Kept PROVE pc' = "namespace"
        BY <1>1, <2>2, <3>3 DEF VersionOK, Standing, C!StartReconcile
      <3>4. pc' \notin {"deleteNamespace", "patchStatus", "patchFailure"}
        BY <2>2 DEF C!StartReconcile
      <3> QED
        BY <1>1, <2>2, <3>1, <3>2, <3>3, <3>4 DEF CellPassInv, C!NormalSteps
    <2> QED
      BY <2>1, <2>2
  <1> QED
    BY <1>2 DEF CellInv, C!StartReconcile, C!apiVars, C!cacheVars

\* MergePatch of a status that is fit to be written.
LEMMA PatchedStatus ==
  ASSUME NEW actual \in C!CellStatus, NEW base \in C!CellStatus, NEW new \in C!CellStatus
  PROVE  /\ C!MergePatch(actual, base, new) \in C!CellStatus
         /\ \A s, c : ReadyStatus(s, c, actual) /\ ReadyStatus(s, c, new) =>
              ReadyStatus(s, c, C!MergePatch(actual, base, new))
  <1>1. C!MergePatch(actual, base, new) \in C!CellStatus
    BY DEF C!CellStatus, C!MergePatch
  <1>2. /\ C!MergePatch(actual, base, new).namespace \in {actual.namespace, new.namespace}
        /\ C!MergePatch(actual, base, new).conditions \in {actual.conditions, new.conditions}
    BY DEF C!MergePatch
  <1>3. ASSUME NEW s, NEW c, ReadyStatus(s, c, actual), ReadyStatus(s, c, new)
        PROVE  ReadyStatus(s, c, C!MergePatch(actual, base, new))
    BY <1>2, <1>3 DEF ReadyStatus
  <1> QED
    BY <1>1, <1>3

\* A status patch makes another version of the Cell, and leaves a spared Cell ready.
LEMMA CellPatched ==
  ASSUME NEW s \in Scenarios, CellInv(s), pc # "idle", cells[cur] # NoObject,
         cur \in Spared(s) => ReadyStatus(s, cur, status)
  PROVE  CellsInv(s, C!PatchedCells)
  <1> DEFINE new == C!MergePatch(cells[cur].status, snap.status, status)
             cell == [cells[cur] EXCEPT !.status = new]
  <1>1. /\ cur \in Cells /\ snap \in Versions(s, cur) /\ status \in C!CellStatus
        /\ cells[cur] \in Versions(s, cur)
        /\ cur \in Kept => Standing(s, cur, cells[cur])
        /\ cur \in Spared(s) => ReadyStatus(s, cur, cells[cur].status)
    BY CellPassFacts
  <1>2. cells[cur].status \in C!CellStatus /\ snap.status \in C!CellStatus
    BY <1>1 DEF Versions
  <1>3. new \in C!CellStatus
    BY <1>1, <1>2, PatchedStatus
  <1>4. cur \in Spared(s) => ReadyStatus(s, cur, new)
    BY <1>1, <1>2, PatchedStatus
  <1> HIDE DEF new
  <1>5. /\ cell \in Versions(s, cur) /\ cell.status = new
        /\ cell.spec = cells[cur].spec
        /\ cell.deleting = cells[cur].deleting /\ cell.finalizer = cells[cur].finalizer
    BY <1>1, <1>3 DEF Versions
  <1>6. cell # NoObject
    BY <1>1, <1>5, VersionFacts
  <1>7. VersionOK(s, cur, cell)
    BY <1>1, <1>4, <1>5, <1>6 DEF VersionOK, Standing
  <1>8. C!PatchedCells = [cells EXCEPT ![cur] = cell]
    BY DEF C!PatchedCells, new
  <1> HIDE DEF cell
  <1> QED
    BY <1>1, <1>7, <1>8, CellsUpdate DEF CellInv

\* The same for a change of the finalizer or of the deletion mark of a disturbed Cell.
LEMMA DisturbedChanges ==
  ASSUME NEW s \in Scenarios, NEW view, CellsInv(s, view), NEW c \in Cells \ Kept,
         NEW cell \in Versions(s, c) \cup {NoObject}
  PROVE  CellsInv(s, [view EXCEPT ![c] = cell])
  BY CellsUpdate, SparedFacts DEF VersionOK

\* ensureFinalizer: a kept Cell has one.
LEMMA CellEnsures ==
  ASSUME NEW s \in Scenarios, CellInv(s), C!EnsureFinalizer
  PROVE  CellInv(s)'
  <1>1. pc = "addFinalizer" /\ pc # "idle"
    BY DEF C!EnsureFinalizer
  <1>2. /\ cur \in Cells /\ cells[cur] \in Versions(s, cur) \cup {NoObject}
        /\ cur \in Cells \ Kept
    BY <1>1, CellPassFacts DEF C!NormalSteps, C!PolicyKinds
  <1>3. CASE cells[cur] = NoObject
    BY <1>3, CellReturn DEF C!EnsureFinalizer, CellInv, C!cacheVars
  <1>4. CASE cells[cur] # NoObject
    <2> DEFINE cell == [cells[cur] EXCEPT !.finalizer = TRUE]
    <2>1. cell \in Versions(s, cur)
      BY <1>2, <1>4 DEF Versions
    <2>2. cells' = [cells EXCEPT ![cur] = cell] /\ cur' = cur /\ snap' = cells'[cur]
          /\ status' = cells'[cur].status
      BY <1>4 DEF C!EnsureFinalizer
    <2> HIDE DEF cell
    <2>3. CellsInv(s, cells)'
      BY <1>2, <2>1, <2>2, DisturbedChanges DEF CellInv
    <2>4. snap' = cell /\ status' = cell.status
      BY <1>2, <2>2 DEF CellInv, CellsInv
    <2>5. cell # NoObject /\ cell.status \in C!CellStatus
      BY <1>2, <2>1, VersionFacts DEF Versions
    <2>6. CellPassInv(s)'
      <3>1. cur \notin Spared(s) /\ pc' = "namespace"
        BY <1>2, <1>4, SparedFacts DEF C!EnsureFinalizer
      <3> QED
        BY <1>2, <2>1, <2>2, <2>4, <2>5, <3>1 DEF CellPassInv, VersionOK
    <2> QED
      BY <2>3, <2>6 DEF C!EnsureFinalizer, CellInv, C!cacheVars
  <1> QED
    BY <1>3, <1>4

\* The namespace of a spared Cell is up to date.  A shared one may get another label,
\* or the pass fails on a conflict with the Cell that wrote it last.
LEMMA CellReconcilesNamespace ==
  ASSUME NEW s \in Scenarios, CellInv(s), C!ReconcileNamespace
  PROVE  CellInv(s)'
  <1> DEFINE n == Home(s, cur)
  <1>1. pc = "namespace" /\ pc # "idle"
    BY DEF C!ReconcileNamespace
  <1>2. cur \in Cells /\ C!EffectiveNamespace(cur, snap.spec) = n /\ n \in Namespaces
    BY <1>1, CellPassFacts, EntryFacts
  <1>3. CASE cur \in Spared(s)
    <2>1. cNamespaces[n] # NoObject /\ cNamespaces[n].cellName = cur
      BY <1>3, SparedFacts, SentinelAssumption DEF CellInv, NamespacesInv
    <2>2. /\ C!GoTo("service") /\ UNCHANGED status /\ UNCHANGED namespaces
      BY <1>2, <2>1 DEF C!ReconcileNamespace
    <2>3. CellPassInv(s)'
      BY <1>1, <2>2, CellGoTo DEF C!NormalSteps
    <2> QED
      BY <2>2, <2>3 DEF C!ReconcileNamespace, CellInv, C!cacheVars
  <1>4. CASE cur \notin Spared(s)
    <2>1. \A d \in Spared(s) : Home(s, d) # n
      BY <1>2, <1>4, SparedFacts
    <2>2. /\ DOMAIN namespaces' = DOMAIN namespaces
          /\ \A m \in DOMAIN namespaces : m # n => namespaces'[m] = namespaces[m]
      BY <1>2 DEF C!ReconcileNamespace
    <2>3. ASSUME NEW d \in Housed(s)
          PROVE  /\ namespaces'[Home(s, d)] \in C!NamespaceObject
                 /\ namespaces'[Home(s, d)].phase = "Active"
      <3>1. /\ Home(s, d) \in DOMAIN namespaces
            /\ namespaces[Home(s, d)] \in C!NamespaceObject
            /\ namespaces[Home(s, d)].phase = "Active"
        BY HousedFacts, EntryFacts DEF CellInv, NamespacesInv
      <3>2. CASE Home(s, d) # n
        BY <2>2, <3>1, <3>2
      <3>3. CASE Home(s, d) = n
        <4> DEFINE old == namespaces[n]
        <4>1. namespaces'[n] = old \/ namespaces'[n] = [old EXCEPT !.cellName = cur]
          BY <1>2, <3>1, <3>3, SentinelAssumption DEF C!ReconcileNamespace
        <4> HIDE DEF n
        <4>2. old \in C!NamespaceObject /\ old.phase = "Active"
          BY <3>1, <3>3
        <4>3. /\ [old EXCEPT !.cellName = cur] \in C!NamespaceObject
              /\ [old EXCEPT !.cellName = cur].phase = "Active"
          BY <1>2, <4>2 DEF C!NamespaceObject
        <4> HIDE DEF old
        <4> QED
          BY <3>3, <4>1, <4>2, <4>3
      <3> QED
        BY <3>2, <3>3
    <2>4. NamespacesInv(s, namespaces)'
      <3>1. ASSUME NEW d \in Spared(s) PROVE namespaces'[Home(s, d)].cellName = d
        BY <2>1, <2>2, SparedFacts, EntryFacts DEF CellInv, NamespacesInv
      <3> QED
        BY <2>2, <2>3, <3>1 DEF CellInv, NamespacesInv
    <2>5. CellPassInv(s)'
      <3>1. CASE C!GoTo("service") /\ UNCHANGED status
        BY <1>1, <3>1, CellGoTo DEF C!NormalSteps
      <3>2. CASE C!Failed
        BY <1>1, <1>4, <3>2, CellFailed
      <3> QED
        BY <3>1, <3>2 DEF C!ReconcileNamespace
    <2> QED
      BY <2>4, <2>5 DEF C!ReconcileNamespace, CellInv, C!cacheVars
  <1> QED
    BY <1>3, <1>4

\* Objects change, but no Service of a housed Cell does.
LEMMA ObjectsElsewhere ==
  ASSUME NEW s \in Scenarios, CellInv(s), NEW key, NEW object,
         \A d \in Housed(s) : Entry(s, d) # key
  PROVE  ObjectsInv(s, [objects EXCEPT ![key] = object])
  BY HousedFacts, EntryFacts DEF CellInv, ObjectsInv

\* A housed Cell's Service is as desired; other Cells have other Services.
LEMMA CellReconcilesService ==
  ASSUME NEW s \in Scenarios, CellInv(s), C!ReconcileService
  PROVE  CellInv(s)'
  <1> DEFINE key == Entry(s, cur)
             ref == [name |-> cur, uid |-> 1]
  <1>1. pc = "service" /\ pc # "idle"
    BY DEF C!ReconcileService
  <1>2. cur \in Cells /\ C!ServiceKey(cur, snap.spec) = key /\ C!Ref(cur, snap) = ref
    BY <1>1, CellPassFacts
  <1> HIDE DEF key, ref
  <1>3. CASE cur \in Housed(s)
    <2>1. C!IsControlledBy(cObjects[key], ref)
      BY <1>3 DEF CellInv, ObjectsInv, C!IsControlledBy, key, ref
    <2>2. C!CanCreateOrUpdate(key, ref) /\ C!CreatedOrUpdated(key, ref) = objects
      BY <2>1 DEF C!CanCreateOrUpdate, C!CreatedOrUpdated
    <2>3. C!GoTo("ResourceQuota") /\ UNCHANGED status /\ UNCHANGED objects
      BY <1>2, <2>2 DEF C!ReconcileService
    <2>4. CellPassInv(s)'
      BY <1>1, <2>3, CellGoTo DEF C!NormalSteps, C!PolicyKinds
    <2> QED
      BY <2>3, <2>4 DEF C!ReconcileService, CellInv, C!cacheVars
  <1>4. CASE cur \notin Housed(s)
    <2>1. \A d \in Housed(s) : Entry(s, d) # key
      BY <1>2, <1>4, ScenarioFacts, HousedFacts DEF key
    <2>2. ObjectsInv(s, C!CreatedOrUpdated(key, ref)) /\ ObjectsInv(s, objects)
      BY <2>1, ObjectsElsewhere DEF C!CreatedOrUpdated, CellInv
    <2>3. ObjectsInv(s, objects)'
      BY <1>2, <2>2 DEF C!ReconcileService
    <2>4. CellPassInv(s)'
      <3>1. CASE C!GoTo("ResourceQuota") /\ UNCHANGED status
        BY <1>1, <3>1, CellGoTo DEF C!NormalSteps, C!PolicyKinds
      <3>2. CASE C!Failed
        BY <1>1, <1>4, <3>2, CellFailed, SparedFacts
      <3> QED
        BY <3>1, <3>2 DEF C!ReconcileService
    <2> QED
      BY <2>3, <2>4 DEF C!ReconcileService, CellInv, C!cacheVars
  <1> QED
    BY <1>3, <1>4

\* No Cell wants policies; a policy object is not a Service.
LEMMA CellReconcilesPolicy ==
  ASSUME NEW s \in Scenarios, CellInv(s), NEW kind \in C!PolicyKinds, C!ReconcilePolicy(kind)
  PROVE  CellInv(s)'
  <1> DEFINE key == <<C!EffectiveNamespace(cur, snap.spec), kind>>
             ref == C!Ref(cur, snap)
  <1>1. pc = kind /\ pc # "idle"
    BY DEF C!ReconcilePolicy, C!PolicyKinds
  <1>2. cur \in Cells /\ snap \in Versions(s, cur)
    BY <1>1, CellPassFacts
  <1>3. kind \notin snap.spec.policies
    BY <1>2, VersionFacts
  <1>4. PICK next \in {"LimitRange", "NetworkPolicy", "endpoints"} :
          /\ C!GoTo(next) /\ UNCHANGED status
          /\ objects' = C!DeletedIfControlled(key, ref)
    BY <1>3 DEF C!ReconcilePolicy, C!PolicyKinds
  <1>5. ASSUME NEW d \in Housed(s) PROVE Entry(s, d) # key
    <2>1. Entry(s, d) = <<Home(s, d), s.cells[d].serviceName>>
          /\ s.cells[d].serviceName \in ServiceNames
      BY HousedFacts, EntryFacts
    <2>2. s.cells[d].serviceName # kind
      BY <2>1, ConstantsAssumption
    <2> QED
      BY <2>1, <2>2
  <1> HIDE DEF key, ref
  <1>6. ObjectsInv(s, objects)'
    BY <1>4, <1>5, ObjectsElsewhere DEF C!DeletedIfControlled, CellInv
  <1>7. CellPassInv(s)'
    BY <1>1, <1>4, CellGoTo DEF C!NormalSteps, C!PolicyKinds
  <1> QED
    BY <1>6, <1>7 DEF C!ReconcilePolicy, CellInv, C!cacheVars

\* DecideReadiness makes an Active Cell with endpoints ready.
LEMMA ReadinessDecided ==
  ASSUME NEW st \in C!CellStatus, NEW state, NEW available \in BOOLEAN, NEW gen \in Nat
  PROVE  /\ C!DecideReadiness(st, state, available, gen) \in C!CellStatus
         /\ C!DecideReadiness(st, state, available, gen).namespace = st.namespace
         /\ state = "Active" /\ available =>
              \A t \in C!ConditionTypes :
                C!DecideReadiness(st, state, available, gen).conditions[t].status = "True"
  <1> DEFINE truth(b) == IF b THEN "True" ELSE "False"
             backend == truth(state # "Disabled" /\ available)
             ready == truth(state = "Active" /\ available)
             first == C!SetCellCondition(st, "BackendReady", backend, gen)
             second == C!SetCellCondition(first, "Ready", ready, gen)
  <1>1. backend \in {"True", "False"} /\ ready \in {"True", "False"}
    OBVIOUS
  <1>2. state = "Active" /\ available => backend = "True" /\ ready = "True"
    OBVIOUS
  <1>3. C!DecideReadiness(st, state, available, gen) = second
    BY DEF C!DecideReadiness
  <1> HIDE DEF backend, ready
  <1>4. /\ first \in C!CellStatus /\ first.namespace = st.namespace
        /\ first.conditions = [st.conditions EXCEPT !["BackendReady"] =
                                 [status |-> backend, observedGeneration |-> gen]]
    BY <1>1, ConditionSet DEF C!ConditionTypes
  <1> HIDE DEF first
  <1>5. /\ second \in C!CellStatus /\ second.namespace = first.namespace
        /\ second.conditions = [first.conditions EXCEPT !["Ready"] =
                                  [status |-> ready, observedGeneration |-> gen]]
    BY <1>1, <1>4, ConditionSet DEF C!ConditionTypes
  <1> HIDE DEF second
  <1>6. /\ st.conditions \in [C!ConditionTypes -> C!Condition]
        /\ first.conditions \in [C!ConditionTypes -> C!Condition]
    BY <1>4 DEF C!CellStatus
  <1>7. /\ second.conditions["Ready"].status = ready
        /\ second.conditions["BackendReady"].status = backend
    BY <1>4, <1>5, <1>6 DEF C!ConditionTypes
  <1> QED
    BY <1>2, <1>3, <1>4, <1>5, <1>7 DEF C!ConditionTypes

\* A spared Cell is Active and has endpoints in the cache.
LEMMA CellCounts ==
  ASSUME NEW s \in Scenarios, CellInv(s), C!CountReadyEndpoints
  PROVE  CellInv(s)'
  <1> DEFINE key == Entry(s, cur)
             observed == [status EXCEPT !.namespace = key[1],
                                        !.observedGeneration = snap.generation,
                                        !.availableEndpoints = cEndpoints[key]]
             state == C!EffectiveCellState(snap.spec)
             available == cEndpoints[key] > 0
  <1>1. pc = "endpoints" /\ pc # "idle"
    BY DEF C!CountReadyEndpoints
  <1>2. /\ cur \in Cells /\ snap \in Versions(s, cur) /\ status \in C!CellStatus
        /\ C!ServiceKey(cur, snap.spec) = key
        /\ cur \in Spared(s) => Standing(s, cur, snap)
    BY <1>1, CellPassFacts, SparedFacts
  <1>3. key \in C!ServiceKeys /\ key[1] = Home(s, cur) /\ Home(s, cur) \in Namespaces
    BY <1>2, EntryFacts
  <1>4. snap.generation \in Nat
    BY <1>2 DEF Versions
  <1>5. cEndpoints[key] \in 0..MaxEndpoints
    BY <1>3 DEF CellInv, EndpointsInv
  <1>6. /\ status' = C!DecideReadiness(observed, state, available, snap.generation)
        /\ C!GoTo("patchStatus")
    BY <1>2 DEF C!CountReadyEndpoints
  <1>7. cur \in Spared(s) => state = "Active" /\ available
    BY <1>2, ScenarioFacts DEF Standing, CellInv, EndpointsInv
  <1> HIDE DEF key
  <1>8. observed \in C!CellStatus /\ observed.namespace = Home(s, cur)
    BY <1>2, <1>3, <1>4, <1>5 DEF C!CellStatus
  <1>9. available \in BOOLEAN
    OBVIOUS
  <1> HIDE DEF observed, state, available
  <1>10. /\ status' \in C!CellStatus
         /\ cur \in Spared(s) => ReadyStatus(s, cur, status')
    <2>1. /\ status' \in C!CellStatus /\ status'.namespace = Home(s, cur)
          /\ state = "Active" /\ available =>
               \A t \in C!ConditionTypes : status'.conditions[t].status = "True"
      BY <1>4, <1>6, <1>8, <1>9, ReadinessDecided
    <2> QED
      BY <1>7, <2>1 DEF ReadyStatus
  <1>11. CellPassInv(s)'
    BY <1>1, <1>6, <1>10 DEF CellInv, CellPassInv, C!GoTo, C!NormalSteps
  <1> QED
    BY <1>11 DEF C!CountReadyEndpoints, CellInv, C!apiVars, C!cacheVars

\* The last step of a good pass writes the status it decided.
LEMMA CellPatchesStatus ==
  ASSUME NEW s \in Scenarios, CellInv(s), C!PatchStatus
  PROVE  CellInv(s)'
  <1>1. pc = "patchStatus" /\ pc # "idle"
    BY DEF C!PatchStatus
  <1>2. CellPassInv(s)'
    BY CellReturn DEF C!PatchStatus
  <1>3. CellsInv(s, cells)'
    <2>1. cur \in Spared(s) => ReadyStatus(s, cur, status)
      BY <1>1 DEF CellInv, CellPassInv
    <2> QED
      BY <1>1, <2>1, CellPatched DEF C!PatchStatus, CellInv
  <1> QED
    BY <1>2, <1>3 DEF C!PatchStatus, CellInv, C!cacheVars

\* The last step of a failed pass, which is never a spared Cell's.
LEMMA CellPatchesFailure ==
  ASSUME NEW s \in Scenarios, CellInv(s), C!PatchFailure
  PROVE  CellInv(s)'
  <1>1. pc = "patchFailure" /\ pc # "idle"
    BY DEF C!PatchFailure
  <1>2. CellPassInv(s)'
    BY CellReturn DEF C!PatchFailure
  <1>3. cur \notin Spared(s)
    BY <1>1, CellPassFacts
  <1>4. CellsInv(s, cells)'
    BY <1>1, <1>3, CellPatched DEF C!PatchFailure, CellInv
  <1> QED
    BY <1>2, <1>4 DEF C!PatchFailure, CellInv, C!cacheVars

\* Finalization, of a disturbed Cell: it deletes that Cell's Service, and the namespace
\* only if the Cell asks for it.
LEMMA CellFinalizes ==
  ASSUME NEW s \in Scenarios, CellInv(s),
         C!DeleteEntrypointService \/ C!DeleteNamespaceIfManaged \/ C!RemoveFinalizer
  PROVE  CellInv(s)'
  <1>1. pc \in {"deleteService", "deleteNamespace", "removeFinalizer"} /\ pc # "idle"
    BY DEF C!DeleteEntrypointService, C!DeleteNamespaceIfManaged, C!RemoveFinalizer
  <1>2. /\ cur \in Cells \ Kept /\ snap \in Versions(s, cur)
        /\ C!EffectiveNamespace(cur, snap.spec) = Home(s, cur)
        /\ C!ServiceKey(cur, snap.spec) = Entry(s, cur)
        /\ cells[cur] \in Versions(s, cur) \cup {NoObject}
    BY <1>1, CellPassFacts DEF C!NormalSteps, C!PolicyKinds
  <1>3. \A d \in Housed(s) : Entry(s, d) # Entry(s, cur)
    BY <1>2, ScenarioFacts, HousedFacts
  <1>4. CASE C!DeleteEntrypointService
    <2>1. ObjectsInv(s, objects)'
      BY <1>2, <1>3, <1>4, ObjectsElsewhere
         DEF C!DeleteEntrypointService, C!DeletedIfControlled, CellInv
    <2>2. CellPassInv(s)'
      <3>1. snap.spec.tearDownOnDelete = s.cells[cur].tearDownOnDelete
        BY <1>2, VersionFacts
      <3>2. PICK step \in {"deleteNamespace", "removeFinalizer"} :
              /\ C!GoTo(step) /\ UNCHANGED status
              /\ step = "deleteNamespace" => snap.spec.tearDownOnDelete
        BY <1>4 DEF C!DeleteEntrypointService
      <3> QED
        BY <1>1, <1>2, <3>1, <3>2, CellGoTo
    <2> QED
      BY <1>4, <2>1, <2>2 DEF C!DeleteEntrypointService, CellInv, C!cacheVars
  <1>5. CASE C!DeleteNamespaceIfManaged
    <2>1. /\ DOMAIN namespaces' = DOMAIN namespaces
          /\ \A m \in DOMAIN namespaces : m # Home(s, cur) => namespaces'[m] = namespaces[m]
      BY <1>2, <1>5 DEF C!DeleteNamespaceIfManaged
    <2>2. ASSUME NEW d \in Housed(s) PROVE Home(s, d) # Home(s, cur)
      <3>1. s.cells[cur].tearDownOnDelete
        BY <1>5 DEF C!DeleteNamespaceIfManaged, CellInv, CellPassInv
      <3>2. cur \in DisturbedCells
        BY <1>2 DEF Kept
      <3> QED
        BY <3>1, <3>2, HousedFacts
    <2>3. NamespacesInv(s, namespaces)'
      BY <2>1, <2>2, HousedFacts, SparedFacts, EntryFacts DEF CellInv, NamespacesInv
    <2>4. CellPassInv(s)'
      BY <1>1, <1>2, <1>5, CellGoTo DEF C!DeleteNamespaceIfManaged
    <2> QED
      BY <1>5, <2>3, <2>4 DEF C!DeleteNamespaceIfManaged, CellInv, C!cacheVars
  <1>6. CASE C!RemoveFinalizer
    <2>1. CellPassInv(s)'
      BY <1>6, CellReturn DEF C!RemoveFinalizer
    <2>2. CellsInv(s, cells)'
      <3> DEFINE cell == [cells[cur] EXCEPT !.finalizer = FALSE]
      <3>1. \/ cells' = cells \/ cells' = [cells EXCEPT ![cur] = NoObject]
            \/ cells[cur] # NoObject /\ cells' = [cells EXCEPT ![cur] = cell]
        BY <1>6 DEF C!RemoveFinalizer
      <3>2. cells[cur] # NoObject => cell \in Versions(s, cur)
        BY <1>2 DEF Versions
      <3> HIDE DEF cell
      <3> QED
        BY <1>2, <3>1, <3>2, DisturbedChanges DEF CellInv
    <2> QED
      BY <1>6, <2>1, <2>2 DEF C!RemoveFinalizer, CellInv, C!cacheVars
  <1> QED
    BY <1>4, <1>5, <1>6

\* Every step of the worker keeps the Cell reconciler's part.
LEMMA CellSteps ==
  ASSUME NEW s \in Scenarios, CellInv(s), C!ReconcileStep
  PROVE  CellInv(s)'
  BY CellEnsures, CellReconcilesNamespace, CellReconcilesService, CellReconcilesPolicy,
     CellCounts, CellPatchesStatus, CellPatchesFailure, CellFinalizes
     DEF C!ReconcileStep

-----------------------------------------------------------------------------
(* Informers, the cluster, users and restarts.                             *)

\* An informer copies what is on the server, which satisfies the invariant.
LEMMA CellInformed ==
  ASSUME NEW s \in Scenarios, CellInv(s),
         \/ \E c \in Cells : C!SyncCell(c)
         \/ \E n \in Namespaces : C!SyncNamespace(n)
         \/ \E k \in C!ObjectKeys : C!SyncObject(k)
         \/ \E k \in C!ServiceKeys : C!SyncEndpoints(k)
  PROVE  CellInv(s)'
  <1>1. UNCHANGED <<C!apiVars, C!workerVars>>
    BY DEF C!SyncCell, C!SyncNamespace, C!SyncObject, C!SyncEndpoints
  <1>2. CellPassInv(s)'
    BY <1>1 DEF CellInv, CellPassInv, C!workerVars
  <1>3. CASE \E c \in Cells : C!SyncCell(c)
    <2>1. PICK c \in Cells : C!SyncCell(c)
      BY <1>3
    <2>2. CellsInv(s, cCells)'
      BY <2>1, CellsUpdate DEF C!SyncCell, CellInv, CellsInv
    <2> QED
      BY <1>1, <1>2, <2>1, <2>2 DEF C!SyncCell, CellInv, C!apiVars
  <1>4. CASE \E n \in Namespaces : C!SyncNamespace(n)
    <2>1. PICK n \in Namespaces : C!SyncNamespace(n)
      BY <1>4
    <2>2. NamespacesInv(s, cNamespaces)'
      BY <2>1, HousedFacts, SparedFacts, EntryFacts DEF C!SyncNamespace, CellInv, NamespacesInv
    <2> QED
      BY <1>1, <1>2, <2>1, <2>2 DEF C!SyncNamespace, CellInv, C!apiVars
  <1>5. CASE \E k \in C!ObjectKeys : C!SyncObject(k)
    <2>1. PICK k \in C!ObjectKeys : C!SyncObject(k)
      BY <1>5
    <2>2. ObjectsInv(s, cObjects)'
      BY <2>1, HousedFacts, EntryFacts DEF C!SyncObject, CellInv, ObjectsInv
    <2> QED
      BY <1>1, <1>2, <2>1, <2>2 DEF C!SyncObject, CellInv, C!apiVars
  <1>6. CASE \E k \in C!ServiceKeys : C!SyncEndpoints(k)
    <2>1. PICK k \in C!ServiceKeys : C!SyncEndpoints(k)
      BY <1>6
    <2>2. EndpointsInv(s, cEndpoints)'
      BY <2>1, SparedFacts, EntryFacts DEF C!SyncEndpoints, CellInv, EndpointsInv
    <2> QED
      BY <1>1, <1>2, <2>1, <2>2 DEF C!SyncEndpoints, CellInv, C!apiVars
  <1> QED
    BY <1>3, <1>4, <1>5, <1>6

\* A Service may have no ready endpoint.
LEMMA ZeroEndpoints == 0 \in 0..MaxEndpoints
  <1>1. MaxEndpoints \in Nat
    BY ConstantsAssumption
  <1> QED
    BY <1>1

\* A housed Cell's namespace is not terminating, and its Service exists.
LEMMA CellCluster ==
  ASSUME NEW s \in Scenarios, CellInv(s),
         \/ \E n \in Namespaces : C!NamespaceGone(n)
         \/ \E k \in C!ServiceKeys : C!SlicesGone(k)
  PROVE  CellInv(s)'
  <1>1. CASE \E n \in Namespaces : C!NamespaceGone(n)
    <2>1. PICK n \in Namespaces : C!NamespaceGone(n)
      BY <1>1
    <2>2. ASSUME NEW d \in Housed(s)
          PROVE  /\ Home(s, d) # n /\ Entry(s, d)[1] # n
                 /\ Home(s, d) \in Namespaces
                 /\ Entry(s, d) \in C!ServiceKeys /\ Entry(s, d) \in C!ObjectKeys
      BY <2>1, HousedFacts, EntryFacts DEF C!NamespaceGone, CellInv, NamespacesInv
    <2>3. NamespacesInv(s, namespaces)'
      BY <2>1, <2>2, SparedFacts DEF C!NamespaceGone, CellInv, NamespacesInv
    <2>4. ObjectsInv(s, objects)'
      BY <2>1, <2>2 DEF C!NamespaceGone, CellInv, ObjectsInv
    <2>5. EndpointsInv(s, endpoints)'
      <3>1. endpoints' = [k \in C!ServiceKeys |-> IF k[1] = n THEN 0 ELSE endpoints[k]]
        BY <2>1 DEF C!NamespaceGone
      <3>2. endpoints' \in [C!ServiceKeys -> 0..MaxEndpoints]
        BY <3>1, ZeroEndpoints DEF CellInv, EndpointsInv
      <3>3. ASSUME NEW d \in Spared(s) PROVE endpoints'[Entry(s, d)] > 0
        BY <2>2, <3>1, SparedFacts DEF CellInv, EndpointsInv
      <3> QED
        BY <3>2, <3>3 DEF EndpointsInv
    <2>6. CellPassInv(s)'
      BY <2>1 DEF C!NamespaceGone, CellInv, CellPassInv, C!workerVars
    <2> QED
      BY <2>1, <2>3, <2>4, <2>5, <2>6 DEF C!NamespaceGone, CellInv, C!cacheVars
  <1>2. CASE \E k \in C!ServiceKeys : C!SlicesGone(k)
    <2>1. PICK k \in C!ServiceKeys : C!SlicesGone(k)
      BY <1>2
    <2>2. \A d \in Housed(s) : Entry(s, d) # k
      BY <2>1 DEF C!SlicesGone, CellInv, ObjectsInv
    <2>3. EndpointsInv(s, endpoints)'
      BY <2>1, <2>2, SparedFacts, EntryFacts, ZeroEndpoints DEF C!SlicesGone, CellInv, EndpointsInv
    <2>4. CellPassInv(s)'
      BY <2>1 DEF C!SlicesGone, CellInv, CellPassInv, C!workerVars
    <2> QED
      BY <2>1, <2>3, <2>4 DEF C!SlicesGone, CellInv, C!cacheVars
  <1> QED
    BY <1>1, <1>2

\* Users and workloads change disturbed Cells.
LEMMA CellDisturbed ==
  ASSUME NEW s \in Scenarios, CellInv(s), NEW c \in DisturbedCells,
         \/ C!DeleteCell(c)
         \/ \E state \in States : SetState(c, state)
         \/ \E n \in 0..MaxEndpoints : EndpointsChange(c, n)
  PROVE  CellInv(s)'
  <1>1. c \in Cells \ Kept /\ cells[c] # NoObject
    BY ConstantsAssumption DEF Kept, C!DeleteCell, SetState, EndpointsChange
  <1>2. cells[c] \in Versions(s, c)
    BY <1>1 DEF CellInv, CellsInv, VersionOK
  <1>3. CASE C!DeleteCell(c)
    <2> DEFINE gen == cells[c].generation + 1
               cell == [cells[c] EXCEPT !.deleting = TRUE, !.generation = gen]
    <2>1. cell \in Versions(s, c)
      <3>1. gen \in Nat
        BY <1>2 DEF Versions
      <3> HIDE DEF gen
      <3> QED
        BY <1>2, <3>1 DEF Versions
    <2>2. \/ cells' = [cells EXCEPT ![c] = cell] \/ cells' = [cells EXCEPT ![c] = NoObject]
      BY <1>3 DEF C!DeleteCell
    <2> HIDE DEF cell
    <2>3. CellsInv(s, cells)'
      BY <1>1, <2>1, <2>2, DisturbedChanges DEF CellInv
    <2>4. CellPassInv(s)'
      BY <1>3 DEF C!DeleteCell, C!Undisturbed, CellInv, CellPassInv, C!workerVars
    <2> QED
      BY <1>3, <2>3, <2>4 DEF C!DeleteCell, C!Undisturbed, CellInv, C!cacheVars
  <1>4. CASE \E state \in States : SetState(c, state)
    <2>1. PICK state \in States : SetState(c, state)
      BY <1>4
    <2> DEFINE spec == [cells[c].spec EXCEPT !.state = state]
               gen == cells[c].generation + 1
               cell == [cells[c] EXCEPT !.spec = spec, !.generation = gen]
    <2>2. C!EditCell(c, spec)
      BY <2>1 DEF SetState
    <2>3. /\ spec \in C!CellSpec /\ spec.namespace = s.cells[c].namespace
          /\ spec.serviceName = s.cells[c].serviceName /\ spec.policies = {}
          /\ spec.tearDownOnDelete = s.cells[c].tearDownOnDelete
      BY <1>2, ConstantsAssumption DEF Versions, C!CellSpec
    <2> HIDE DEF spec
    <2>4. cell \in Versions(s, c)
      <3>1. gen \in Nat
        BY <1>2 DEF Versions
      <3> HIDE DEF gen
      <3> QED
        BY <1>2, <2>3, <3>1 DEF Versions
    <2>5. cells' = [cells EXCEPT ![c] = cell]
      BY <2>2 DEF C!EditCell
    <2> HIDE DEF cell
    <2>6. CellsInv(s, cells)'
      BY <1>1, <2>4, <2>5, DisturbedChanges DEF CellInv
    <2>7. CellPassInv(s)'
      BY <2>2 DEF C!EditCell, C!Undisturbed, CellInv, CellPassInv, C!workerVars
    <2> QED
      BY <2>2, <2>6, <2>7 DEF C!EditCell, C!Undisturbed, CellInv, C!cacheVars
  <1>5. CASE \E n \in 0..MaxEndpoints : EndpointsChange(c, n)
    <2>1. PICK n \in 0..MaxEndpoints : EndpointsChange(c, n)
      BY <1>5
    <2>2. C!EndpointsChange(Entry(s, c), n)
      BY <1>1, <1>2, <2>1, VersionFacts DEF EndpointsChange
    <2>3. \A d \in Spared(s) : Entry(s, d) # Entry(s, c)
      BY <1>1, ScenarioFacts, SparedFacts
    <2>4. EndpointsInv(s, endpoints)'
      BY <2>2, <2>3, SparedFacts, EntryFacts DEF C!EndpointsChange, CellInv, EndpointsInv
    <2>5. CellPassInv(s)'
      BY <2>2 DEF C!EndpointsChange, C!Undisturbed, CellInv, CellPassInv, C!workerVars
    <2> QED
      BY <2>2, <2>4, <2>5 DEF C!EndpointsChange, C!Undisturbed, CellInv, C!cacheVars
  <1> QED
    BY <1>3, <1>4, <1>5

\* A failed call: of the pass of a disturbed Cell.
LEMMA CellCallFailed ==
  ASSUME NEW s \in Scenarios, CellInv(s), CellCallFails
  PROVE  CellInv(s)'
  <1>1. pc # "idle" /\ cur \notin Spared(s)
    BY SparedFacts DEF CellCallFails, C!CallFails, Kept
  <1>2. CASE C!Failed
    BY <1>1, <1>2, CellFailed DEF CellCallFails, C!CallFails, CellInv, C!apiVars, C!cacheVars
  <1>3. CASE C!Return(TRUE)
    BY <1>3, CellReturn DEF CellCallFails, C!CallFails, CellInv, C!apiVars, C!cacheVars
  <1> QED
    BY <1>2, <1>3 DEF CellCallFails, C!CallFails

\* A restart reads every cache from the server and forgets the pass.
LEMMA CellRestarts ==
  ASSUME NEW s \in Scenarios, CellInv(s), C!Restart
  PROVE  CellInv(s)'
  BY DEF C!Restart, CellInv, CellPassInv, C!apiVars

\* The Cell reconciler's part of the invariant is kept by every step.
LEMMA CellNext ==
  ASSUME NEW s \in Scenarios, CellInv(s), [Next]_vars
  PROVE  CellInv(s)'
  <1>1. CASE CellWorker
    BY <1>1, CellSteps, CellStarts DEF CellWorker, CellStep, StartCell
  <1>2. CASE RouterWorker
    BY <1>2, CellFrame DEF RouterWorker, RouterStep, StartRouter
  <1>3. CASE Informers
    BY <1>3, CellInformed, CellFrame
       DEF Informers, SyncCell, SyncNamespace, SyncObject, SyncEndpoints, SyncRouter, SyncRoute,
           SyncGrant
  <1>4. CASE Cluster
    BY <1>4, CellCluster, CellFrame DEF Cluster, NamespaceGone, SlicesGone, ReportRoute
  <1>5. CASE Environment
    BY <1>5, CellDisturbed, CellCallFailed, CellRestarts, CellFrame
       DEF Environment, DeleteCell, RouterCallFails, Restart
  <1>6. CASE UNCHANGED vars
    BY <1>6, CellFrame DEF vars
  <1> QED
    BY <1>1, <1>2, <1>3, <1>4, <1>5, <1>6 DEF Next

\* The scenario's Cells are settled, and their Services have an endpoint each.
LEMMA CellInit ==
  ASSUME NEW s \in Scenarios, InitCells(s.cells)
  PROVE  CellInv(s)
  <1>1. ASSUME NEW c \in Cells
        PROVE  LET cell == SettledCell(c, s.cells[c])
               IN  VersionOK(s, c, cell)
    <2> DEFINE conditions == [t \in C!ConditionTypes |-> [status |-> "True", observedGeneration |-> 1]]
               st == [namespace |-> Home(s, c), observedGeneration |-> 1,
                      availableEndpoints |-> 1, conditions |-> conditions]
               cell == [uid |-> 1, spec |-> s.cells[c], generation |-> 1, deleting |-> FALSE,
                        finalizer |-> TRUE, status |-> st]
    <2>1. SettledCell(c, s.cells[c]) = cell
      BY DEF SettledCell, Home
    <2>2. conditions \in [C!ConditionTypes -> C!Condition]
      BY DEF C!Condition
    <2>3. \A t \in C!ConditionTypes : conditions[t].status = "True"
      OBVIOUS
    <2> HIDE DEF conditions
    <2>4. MaxEndpoints \in Nat /\ MaxEndpoints # 0
      BY ConstantsAssumption
    <2>5. 1 \in 0..MaxEndpoints
      BY <2>4
    <2>6. st \in C!CellStatus /\ ReadyStatus(s, c, st)
      BY <2>2, <2>3, <2>5, EntryFacts DEF C!CellStatus, ReadyStatus
    <2> HIDE DEF st
    <2>7. s.cells[c] \in C!CellSpec /\ s.cells[c].policies = {}
      BY ScenarioFacts
    <2>8. cell \in Versions(s, c)
      BY <2>6, <2>7 DEF Versions
    <2>9. cell # NoObject
      BY <2>8, VersionFacts
    <2>10. Standing(s, c, cell) /\ ReadyStatus(s, c, cell.status)
      BY <2>6 DEF Standing
    <2> QED
      BY <2>1, <2>8, <2>9, <2>10 DEF VersionOK
  <1>2. CellsInv(s, cells)
    BY <1>1 DEF InitCells, CellsInv
  <1>3. NamespacesInv(s, namespaces)
    <2>1. ASSUME NEW d \in Housed(s)
          PROVE  \E c \in Cells :
                   /\ Home(s, c) = Home(s, d)
                   /\ namespaces[Home(s, d)] =
                        [cellName |-> c, phase |-> "Active", by |-> "operator"]
      <3> DEFINE residents == {c \in Cells : C!EffectiveNamespace(c, s.cells[c]) = Home(s, d)}
                 first == CHOOSE c \in residents : TRUE
      <3>1. namespaces[Home(s, d)] =
              IF residents = {} THEN NoObject
              ELSE [cellName |-> first, phase |-> "Active", by |-> "operator"]
        BY HousedFacts, EntryFacts DEF InitCells
      <3>2. d \in residents
        BY HousedFacts DEF Home
      <3>3. first \in residents
        BY <3>2
      <3>4. first \in Cells /\ Home(s, first) = Home(s, d)
        BY <3>3 DEF Home
      <3> HIDE DEF residents, first
      <3> QED
        BY <3>1, <3>2, <3>4
    <2>2. DOMAIN namespaces = Namespaces
      BY DEF InitCells
    <2>3. ASSUME NEW d \in Housed(s)
          PROVE  /\ namespaces[Home(s, d)] \in C!NamespaceObject
                 /\ namespaces[Home(s, d)].phase = "Active"
                 /\ d \in Spared(s) => namespaces[Home(s, d)].cellName = d
      <3>1. PICK c \in Cells :
              /\ Home(s, c) = Home(s, d)
              /\ namespaces[Home(s, d)] = [cellName |-> c, phase |-> "Active", by |-> "operator"]
        BY <2>1
      <3>2. [cellName |-> c, phase |-> "Active", by |-> "operator"] \in C!NamespaceObject
        BY DEF C!NamespaceObject
      <3>3. namespaces[Home(s, d)].phase = "Active" /\ namespaces[Home(s, d)].cellName = c
        BY <3>1
      <3>4. d \in Spared(s) => c = d
        BY <3>1, SparedFacts
      <3> QED
        BY <3>1, <3>2, <3>3, <3>4
    <2> QED
      BY <2>2, <2>3, SparedFacts DEF NamespacesInv
  <1>4. ASSUME NEW d \in Housed(s)
        PROVE  /\ objects[Entry(s, d)] = [owner |-> [name |-> d, uid |-> 1], by |-> "operator"]
               /\ objects[Entry(s, d)] # NoObject
    <2> DEFINE users == {c \in Cells : C!ServiceKey(c, s.cells[c]) = Entry(s, d)}
    <2>1. users = {d}
      <3>1. d \in users
        BY HousedFacts DEF Entry
      <3>2. ASSUME NEW c \in Cells, c # d PROVE Entry(s, c) # Entry(s, d)
        BY <3>2, ScenarioFacts, HousedFacts
      <3> QED
        BY <3>1, <3>2 DEF Entry
    <2>2. objects[Entry(s, d)] =
            IF users = {} THEN NoObject
            ELSE [owner |-> [name |-> CHOOSE c \in users : TRUE, uid |-> 1], by |-> "operator"]
      BY HousedFacts, EntryFacts DEF InitCells
    <2> HIDE DEF users
    <2>3. (CHOOSE c \in users : TRUE) = d
      BY <2>1
    <2>4. [owner |-> [name |-> d, uid |-> 1], by |-> "operator"] \in C!OwnedObject
      BY HousedFacts DEF C!OwnedObject, C!OwnerRef
    <2> QED
      BY <2>1, <2>2, <2>3, <2>4, SentinelAssumption
  <1>5. ObjectsInv(s, objects)
    <2>1. ASSUME NEW d \in Housed(s)
          PROVE  /\ objects[Entry(s, d)] # NoObject
                 /\ objects[Entry(s, d)].owner = [name |-> d, uid |-> 1]
      <3>1. /\ objects[Entry(s, d)] = [owner |-> [name |-> d, uid |-> 1], by |-> "operator"]
            /\ objects[Entry(s, d)] # NoObject
        BY <1>4
      <3> QED
        BY <3>1
    <2>2. DOMAIN objects = C!ObjectKeys
      BY DEF InitCells
    <2> QED
      BY <2>1, <2>2 DEF ObjectsInv
  <1>6. EndpointsInv(s, endpoints)
    <2>1. endpoints = [k \in C!ServiceKeys |-> IF objects[k] = NoObject THEN 0 ELSE 1]
      BY DEF InitCells
    <2>2. MaxEndpoints \in Nat /\ MaxEndpoints # 0
      BY ConstantsAssumption
    <2>3. 0 \in 0..MaxEndpoints /\ 1 \in 0..MaxEndpoints
      BY <2>2
    <2>4. endpoints \in [C!ServiceKeys -> 0..MaxEndpoints]
      BY <2>1, <2>3
    <2>5. ASSUME NEW d \in Spared(s) PROVE endpoints[Entry(s, d)] = 1
      BY <1>4, <2>1, SparedFacts, EntryFacts
    <2> QED
      BY <2>4, <2>5 DEF EndpointsInv
  <1>7. CellPassInv(s)
    BY DEF InitCells, CellPassInv
  <1> QED
    BY <1>2, <1>3, <1>5, <1>6, <1>7 DEF InitCells, CellInv

-----------------------------------------------------------------------------
(* Backends of a plan.                                                     *)

\* Routers see a Service of the model, and a spared Cell as ready for traffic.
LEMMA ViewFacts ==
  ASSUME NEW s \in Scenarios, NEW view, CellsInv(s, view), NEW c \in Cells
  PROVE  /\ view[c] # NoObject => Views(view)[c].service \in C!ServiceKeys
         /\ view[c] = NoObject => Views(view)[c] = NoObject
         /\ c \in Spared(s) => R!IsCellTrafficReady(Views(view)[c])
  <1> DEFINE cell == view[c]
             st == C!EffectiveCellState(cell.spec)
             ready == \A t \in C!ConditionTypes : cell.status.conditions[t].status = "True"
             service == <<IF cell.status.namespace # "" THEN cell.status.namespace
                          ELSE C!EffectiveNamespace(c, cell.spec),
                          cell.spec.serviceName>>
  <1>1. Views(view)[c] = IF cell = NoObject THEN NoObject
                         ELSE [state |-> st, ready |-> ready, service |-> service]
    BY DEF Views, View
  <1>2. VersionOK(s, c, cell)
    BY DEF CellsInv
  <1>3. ASSUME cell # NoObject PROVE service \in C!ServiceKeys
    <2>1. cell \in Versions(s, c)
      BY <1>2, <1>3 DEF VersionOK
    <2>2. cell.status.namespace \in Namespaces \cup {""} /\ cell.spec.serviceName \in ServiceNames
      BY <2>1 DEF Versions, C!CellStatus, C!CellSpec
    <2>3. C!EffectiveNamespace(c, cell.spec) \in Namespaces
      BY <2>1, VersionFacts, EntryFacts
    <2> QED
      BY <2>2, <2>3 DEF C!ServiceKeys
  <1>4. ASSUME c \in Spared(s)
        PROVE  cell # NoObject /\ st = "Active" /\ ready
    <2>1. cell # NoObject /\ Standing(s, c, cell) /\ ReadyStatus(s, c, cell.status)
      BY <1>2, <1>4, SparedFacts DEF VersionOK
    <2>2. st = "Active"
      BY <2>1, ScenarioFacts DEF Standing
    <2>3. ready
      BY <2>1 DEF ReadyStatus
    <2> QED
      BY <2>1, <2>2, <2>3
  <1>5. ready \in BOOLEAN
    OBVIOUS
  <1> HIDE DEF cell, st, ready, service
  <1>6. ASSUME c \in Spared(s) PROVE R!IsCellTrafficReady(Views(view)[c])
    <2>1. Views(view)[c] = [state |-> st, ready |-> ready, service |-> service]
      BY <1>1, <1>4, <1>6
    <2>2. Views(view)[c] \in R!CellView
      BY <1>3, <1>4, <1>5, <1>6, <2>1 DEF R!CellView
    <2>3. Views(view)[c] # NoObject
      BY <2>2, SentinelAssumption
    <2>4. Views(view)[c].state = "Active" /\ Views(view)[c].ready
      BY <1>4, <1>6, <2>1
    <2> QED
      BY <2>3, <2>4 DEF R!IsCellTrafficReady
  <1> QED
    BY <1>1, <1>3, <1>6 DEF cell

\* Backends are Cells with Services of the model.
LEMMA BackendsType ==
  ASSUME NEW s \in Scenarios, NEW view, CellsInv(s, view), NEW plan \in StaticPlan
  PROVE  R!ResolveRouteBackends(Views(view), plan) \subseteq [cell : Cells, service : C!ServiceKeys]
  <1>1. ASSUME NEW targets \in SUBSET Cells
        PROVE  R!ResolveBackendCandidates(Views(view), targets)
                 \subseteq [cell : Cells, service : C!ServiceKeys]
    <2>1. ASSUME NEW c \in targets, R!IsCellTrafficReady(Views(view)[c])
          PROVE  Views(view)[c].service \in C!ServiceKeys
      BY <2>1, ViewFacts DEF R!IsCellTrafficReady
    <2> QED
      BY <2>1 DEF R!ResolveBackendCandidates
  <1>2. plan.cells \in SUBSET Cells /\ plan.fallback \in Cells \cup {NoObject}
    BY DEF StaticPlan, R!RoutePlan
  <1> QED
    BY <1>1, <1>2 DEF R!ResolveRouteBackends

\* A plan with a spared Cell has backends, whatever became of the others.
LEMMA SparedBackends ==
  ASSUME NEW s \in Scenarios, NEW view, CellsInv(s, view), NEW plan, SparedPlan(s, plan)
  PROVE  R!ResolveRouteBackends(Views(view), plan) # {}
  <1>1. PICK d \in Spared(s) : d \in plan.cells \/ d = plan.fallback
    BY DEF SparedPlan
  <1>2. d \in Cells /\ d # NoObject
    BY SparedFacts, SentinelAssumption
  <1>3. R!IsCellTrafficReady(Views(view)[d])
    BY <1>2, ViewFacts
  <1>4. ASSUME NEW targets, d \in targets
        PROVE  R!ResolveBackendCandidates(Views(view), targets) # {}
    <2>1. [cell |-> d, service |-> Views(view)[d].service]
            \in R!ResolveBackendCandidates(Views(view), targets)
      BY <1>3, <1>4 DEF R!ResolveBackendCandidates
    <2> QED
      BY <2>1
  <1> QED
    BY <1>1, <1>2, <1>4 DEF R!ResolveRouteBackends

-----------------------------------------------------------------------------
(* The worker of the CellRouter reconciler.                                *)

\* The first of a sequence and the rest are all of it.
LEMMA HeadTail ==
  ASSUME NEW S, NEW q \in Seq(S), q # << >>
  PROVE  /\ Head(q) \in S /\ Tail(q) \in Seq(S)
         /\ \A x \in ToSet(q) : x = Head(q) \/ x \in ToSet(Tail(q))
  <1>1. Head(q) \in S /\ Tail(q) \in Seq(S) /\ Len(q) \in Nat \ {0}
    OBVIOUS
  <1>2. ASSUME NEW i \in 1..Len(q), i # 1 PROVE q[i] \in ToSet(Tail(q))
    <2>1. i - 1 \in 1..Len(Tail(q)) /\ Tail(q)[i - 1] = q[i]
      BY <1>1, <1>2
    <2>2. DOMAIN Tail(q) = 1..Len(Tail(q))
      BY <1>1
    <2> QED
      BY <2>1, <2>2 DEF ToSet
  <1>3. q[1] = Head(q) /\ DOMAIN q = 1..Len(q)
    BY <1>1
  <1> QED
    BY <1>1, <1>2, <1>3 DEF ToSet

\* The plans of explicit routes.
LEMMA StaticPlansType ==
  ASSUME NEW spec \in R!RouterSpec
  PROVE  R!StaticPlans(spec) \in Seq(StaticPlan)
  <1> DEFINE plan(i) == R!Plan(spec.routes[i].name, FALSE, spec.routes[i].cells,
                               spec.routes[i].fallback)
  <1>1. spec.routes \in Seq(R!RouteSpec)
    BY DEF R!RouterSpec
  <1>2. \A i \in 1..Len(spec.routes) : spec.routes[i] \in R!RouteSpec
    BY <1>1
  <1>3. \A i \in 1..Len(spec.routes) : plan(i) \in StaticPlan
    BY <1>2 DEF R!RouteSpec, R!RoutePlan, R!Plan, StaticPlan
  <1>4. Len(spec.routes) \in Nat /\ DOMAIN spec.routes = 1..Len(spec.routes)
    BY <1>1
  <1>5. R!StaticPlans(spec) = [i \in 1..Len(spec.routes) |-> plan(i)]
    BY <1>4 DEF R!StaticPlans
  <1> HIDE DEF plan
  <1> QED
    BY <1>3, <1>4, <1>5

\* The locals at the start of a pass.
LEMMA EmptyPassOK == PassOK(R!EmptyPass)
  BY DEF PassOK, R!EmptyPass

\* Nothing of the routers' part changes.
LEMMA RouterFrame ==
  ASSUME NEW s, RouterInv(s), UNCHANGED routerVars
  PROVE  RouterInv(s)'
  BY DEF RouterInv, routerVars, RoutesInv, RouterPassInv

\* Only the worker's part may have changed.
LEMMA WorkerFrame ==
  ASSUME NEW s, RouterInv(s), RouterPassInv(s)', UNCHANGED <<routers, cRouters, routes, cRoutes>>
  PROVE  RouterInv(s)'
  BY DEF RouterInv, RoutesInv

\* Every version of a router has the spec it started with.
LEMMA SameSpec ==
  ASSUME NEW s, NEW r, NEW router, SameRouter(s, r, router)
  PROVE  router.spec = s.routers[r]
  BY DEF SameRouter

\* What a pass has in hand.
LEMMA RouterPassFacts ==
  ASSUME NEW s, RouterInv(s), routerPc # "idle"
  PROVE  /\ routerCur \in Routers /\ routerSnap.spec = s.routers[routerCur]
         /\ R!Ref(routerCur, routerSnap) = [name |-> routerCur, uid |-> 1]
         /\ ~pass.finalizing /\ PassOK(pass) /\ routerPc \in RouterSteps
  <1>1. /\ routerCur \in Routers /\ SameRouter(s, routerCur, routerSnap)
        /\ PassOK(pass) /\ routerPc \in RouterSteps
    BY DEF RouterInv, RouterPassInv
  <1>2. routerSnap.spec = s.routers[routerCur] /\ routerSnap.uid = 1
    BY <1>1 DEF SameRouter
  <1> QED
    BY <1>1, <1>2 DEF PassOK, R!Ref

\* A pass ends.
LEMMA RouterReturns ==
  ASSUME NEW s, NEW requeue, R!Return(requeue)
  PROVE  RouterPassInv(s)'
  <1>1. routerPc' = "idle" /\ pass' = R!EmptyPass
    BY DEF R!Return
  <1>2. PassOK(pass)'
    BY <1>1, EmptyPassOK
  <1>3. "idle" \in RouterSteps
    BY DEF RouterSteps, R!Steps
  <1> QED
    BY <1>1, <1>2, <1>3 DEF RouterPassInv

\* A pass fails: it deletes nothing.
LEMMA RouterFailed ==
  ASSUME NEW s, RouterInv(s), routerPc # "idle", R!Failed
  PROVE  RouterPassInv(s)'
  <1>1. /\ routerPc' = "patchFailure" /\ pass' = R!EmptyPass
        /\ routerCur' = routerCur /\ routerSnap' = routerSnap
    BY DEF R!Failed, R!GoTo
  <1>2. PassOK(pass)'
    BY <1>1, EmptyPassOK
  <1>3. "patchFailure" \in RouterSteps
    BY DEF RouterSteps, R!Steps, R!NormalSteps
  <1> QED
    BY <1>1, <1>2, <1>3 DEF RouterInv, RouterPassInv

\* A pass goes on to a step that nothing is remembered for.
LEMMA RouterGoesOn ==
  ASSUME NEW s, RouterInv(s), routerPc # "idle", PassOK(pass)',
         NEW step \in {"gateway", "plan", "listGrants", "sweepGrants", "patchStatus"}, R!GoTo(step)
  PROVE  RouterPassInv(s)'
  <1>1. routerPc' = step /\ routerCur' = routerCur /\ routerSnap' = routerSnap
    BY DEF R!GoTo
  <1>2. step \in RouterSteps
    BY DEF RouterSteps, R!Steps, R!NormalSteps, R!SweepSteps
  <1> QED
    BY <1>1, <1>2 DEF RouterInv, RouterPassInv

\* The loop over the plans: it ends when every spared plan's route is expected.
LEMMA RouterContinues ==
  ASSUME NEW s, RouterInv(s), routerPc # "idle", NEW p, PassOK(p),
         NoneForgotten(s, routerCur, p), R!Continue(p)
  PROVE  RouterPassInv(s)'
  <1>1. p.invalid = << >>
    BY DEF PassOK
  <1>2. /\ pass' = p /\ routerCur' = routerCur /\ routerSnap' = routerSnap
        /\ \/ p.plans # << >> /\ routerPc' = "resolve"
           \/ p.plans = << >> /\ routerPc' = "listRoutes"
    BY <1>1 DEF R!Continue, R!GoTo
  <1>3. "resolve" \in RouterSteps /\ "listRoutes" \in RouterSteps
    BY DEF RouterSteps, R!Steps, R!NormalSteps, R!SweepSteps
  <1> QED
    BY <1>2, <1>3 DEF RouterInv, RouterPassInv

\* A pass starts from a cached version, with nothing planned.
LEMMA RouterStarts ==
  ASSUME NEW s \in Scenarios, RouterInv(s), NEW r \in Routers, R!StartReconcile(r)
  PROVE  RouterInv(s)'
  <1>1. SameRouter(s, r, cRouters[r])
    BY DEF RouterInv, RoutersInv
  <1>2. ~cRouters[r].deleting /\ cRouters[r].finalizer
    BY <1>1 DEF SameRouter
  <1>3. CASE cRouters[r] = NoObject
    <2>1. RouterPassInv(s)'
      BY <1>3 DEF R!StartReconcile, R!workerVars, RouterInv, RouterPassInv
    <2> QED
      BY <2>1, WorkerFrame DEF R!StartReconcile, R!inputVars, R!managedVars, R!cacheVars
  <1>4. CASE cRouters[r] # NoObject
    <2>1. /\ routerCur' = r /\ routerSnap' = cRouters[r] /\ routerPc' = "gatewayNamespace"
          /\ pass' = [R!EmptyPass EXCEPT !.finalizing = FALSE]
      BY <1>2, <1>4 DEF R!StartReconcile
    <2>2. PassOK(pass)'
      BY <2>1 DEF PassOK, R!EmptyPass
    <2>3. "gatewayNamespace" \in RouterSteps
      BY DEF RouterSteps, R!Steps, R!NormalSteps
    <2>4. RouterPassInv(s)'
      BY <1>1, <2>1, <2>2, <2>3 DEF RouterPassInv
    <2> QED
      BY <2>4, WorkerFrame DEF R!StartReconcile, R!inputVars, R!managedVars, R!cacheVars
  <1> QED
    BY <1>3, <1>4

\* The namespace of the Gateway and the Gateway.
LEMMA RouterReconcilesGateway ==
  ASSUME NEW s \in Scenarios, RouterInv(s),
         R!ReconcileGatewayNamespace \/ R!ReconcileGateway
  PROVE  RouterInv(s)'
  <1>1. /\ routerPc # "idle"
        /\ \/ \E step \in {"gateway", "plan"} : R!GoTo(step) /\ UNCHANGED pass
           \/ R!Failed
    BY DEF R!ReconcileGatewayNamespace, R!ReconcileGateway
  <1>2. PassOK(pass)
    BY DEF RouterInv, RouterPassInv
  <1>3. RouterPassInv(s)'
    BY <1>1, <1>2, RouterGoesOn, RouterFailed
  <1>4. UNCHANGED <<routers, cRouters, routes, cRoutes>>
    BY DEF R!ReconcileGatewayNamespace, R!ReconcileGateway, R!inputVars, R!cacheVars
  <1> QED
    BY <1>3, <1>4, WorkerFrame

\* Without placements there is nothing invalid, and nothing to order.
LEMMA NoPlacements ==
  ASSUME NEW listed
  PROVE  /\ R!InvalidPlacements(listed) = {} /\ R!NamesIn(listed) = {}
         /\ R!SetToSeqs({}) \subseteq {<< >>}
         /\ R!PlacementPlans(listed, << >>) = << >>
  <1>1. R!NamesIn(listed) = {}
    BY DEF R!NamesIn
  <1>2. R!InvalidPlacements(listed) = {}
    BY <1>1 DEF R!InvalidPlacements
  <1>3. ASSUME NEW f \in R!SetToSeqs({}) PROVE f = << >>
    <2>1. Cardinality({}) = 0
      BY FS_EmptySet
    <2>2. f \in [1..0 -> {}]
      BY <2>1 DEF R!SetToSeqs, R!Cardinality, Cardinality
    <2> QED
      BY <2>2
  <1>4. R!PlacementPlans(listed, << >>) = << >>
    BY DEF R!PlacementPlans
  <1> QED
    BY <1>1, <1>2, <1>3, <1>4

\* buildRoutePlans: every explicit route has its plan.
LEMMA RouterPlans ==
  ASSUME NEW s \in Scenarios, RouterInv(s), R!BuildRoutePlans
  PROVE  RouterInv(s)'
  <1>1. routerPc # "idle"
    BY DEF R!BuildRoutePlans
  <1>2. /\ routerCur \in Routers /\ routerSnap.spec = s.routers[routerCur] /\ PassOK(pass)
    BY <1>1, RouterPassFacts
  <1>3. s.routers[routerCur] \in R!RouterSpec
    BY <1>2, ScenarioFacts
  <1>4. RouterPassInv(s)'
    <2>1. CASE R!Failed
      BY <1>1, <2>1, RouterFailed
    <2>2. CASE ~R!Failed
      <3> DEFINE listed == R!ListPlacements(<< >>, routerCur)
                 plans == R!StaticPlans(s.routers[routerCur])
                 p == [pass EXCEPT !.listed = listed, !.invalid = << >>, !.plans = plans]
      <3>1. plans \in Seq(StaticPlan)
        BY <1>3, StaticPlansType
      <3>2. plans \o << >> = plans
        BY <3>1
      <3>3. R!Continue(p)
        <4>1. PICK invalid \in R!SetToSeqs(R!InvalidPlacements(listed)),
                   order \in R!SetToSeqs(R!NamesIn(listed) \ R!InvalidPlacements(listed)) :
                R!Continue([pass EXCEPT !.listed = listed, !.invalid = invalid,
                              !.plans = R!StaticPlans(routerSnap.spec)
                                        \o R!PlacementPlans(listed, order)])
          BY <2>2 DEF R!BuildRoutePlans
        <4> HIDE DEF listed
        <4>2. invalid = << >> /\ order = << >>
          BY NoPlacements
        <4>3. R!StaticPlans(routerSnap.spec) \o R!PlacementPlans(listed, order) = plans
          BY <1>2, <3>2, <4>2, NoPlacements
        <4> QED
          BY <4>1, <4>2, <4>3
      <3> HIDE DEF listed, plans
      <3>4. PassOK(p) /\ p.plans = plans
        BY <1>2, <3>1 DEF PassOK, R!EmptyPass
      <3> HIDE DEF p
      <3>5. NoneForgotten(s, routerCur, p)
        BY <3>4 DEF NoneForgotten, SparedPlans, plans
      <3> QED
        BY <1>1, <3>3, <3>4, <3>5, RouterContinues
    <2> QED
      BY <2>1, <2>2
  <1>5. UNCHANGED <<routers, cRouters, routes, cRoutes>>
    BY DEF R!BuildRoutePlans, R!inputVars, R!managedVars, R!cacheVars
  <1> QED
    BY <1>4, <1>5, WorkerFrame

\* A spared plan is not given up: it has backends, and its route is expected.
LEMMA RouterResolves ==
  ASSUME NEW s \in Scenarios, CellInv(s), RouterInv(s), R!ResolveBackends
  PROVE  RouterInv(s)'
  <1> DEFINE plan == Head(pass.plans)
             backends == R!ResolveRouteBackends(Views(cCells), plan)
             resolved == [pass EXCEPT !.backends = backends]
  <1>1. routerPc = "resolve" /\ routerPc # "idle"
    BY DEF R!ResolveBackends
  <1>2. /\ PassOK(pass) /\ pass.plans # << >> /\ NoneForgotten(s, routerCur, pass)
        /\ pass.plans \in Seq(StaticPlan)
    BY <1>1 DEF RouterInv, RouterPassInv, PassOK
  <1>3. plan \in StaticPlan /\ Tail(pass.plans) \in Seq(StaticPlan)
    BY <1>2, HeadTail
  <1>4. backends \subseteq [cell : Cells, service : C!ServiceKeys]
    BY <1>3, BackendsType DEF CellInv
  <1>5. SparedPlan(s, plan) => backends # {}
    BY SparedBackends DEF CellInv
  <1>6. ~plan.isPlacement
    BY <1>3 DEF StaticPlan
  <1>7. R!AfterPlacement(resolved)
    BY <1>6 DEF R!ResolveBackends
  <1> HIDE DEF backends
  <1>8. /\ PassOK(resolved) /\ resolved.plans = pass.plans /\ resolved.backends = backends
        /\ resolved.expectedRoutes = pass.expectedRoutes
    BY <1>2, <1>4 DEF PassOK, R!EmptyPass
  <1> HIDE DEF resolved
  <1>9. RouterPassInv(s)'
    <2>1. CASE backends = {}
      <3> DEFINE entry == [name |-> plan.name, cells |-> {}]
                 p == [resolved EXCEPT !.plans = Tail(@), !.allReady = FALSE,
                         !.needsRequeue = TRUE, !.statuses = Append(@, entry)]
      <3>1. R!Continue(p)
        BY <1>7, <1>8, <2>1 DEF R!AfterPlacement
      <3> HIDE DEF entry
      <3>2. PassOK(p) /\ p.plans = Tail(pass.plans) /\ p.expectedRoutes = pass.expectedRoutes
        BY <1>3, <1>8 DEF PassOK, R!EmptyPass
      <3> HIDE DEF p
      <3>3. ASSUME NEW other \in SparedPlans(s, routerCur)
            PROVE  other.name \in p.expectedRoutes \/ other \in ToSet(p.plans)
        <4>1. other # plan
          BY <1>5, <2>1 DEF SparedPlans
        <4>2. other.name \in pass.expectedRoutes \/ other \in ToSet(pass.plans)
          BY <1>2 DEF NoneForgotten
        <4> QED
          BY <1>2, <3>2, <4>1, <4>2, HeadTail
      <3>4. NoneForgotten(s, routerCur, p)
        BY <3>3 DEF NoneForgotten
      <3> QED
        BY <1>1, <3>1, <3>2, <3>4, RouterContinues
    <2>2. CASE backends # {}
      <3> DEFINE needed == R!ReferenceGrantKeys(plan.name, backends)
                 p == [resolved EXCEPT !.grants = needed,
                         !.expectedRoutes = @ \cup {plan.name},
                         !.expectedGrants = @ \cup {R!ReferenceGrantName(g) : g \in needed}]
      <3>1. pass' = p /\ R!GoTo("grant")
        BY <1>7, <1>8, <2>2 DEF R!AfterPlacement
      <3> HIDE DEF needed
      <3>2. /\ PassOK(p) /\ p.plans = pass.plans
            /\ p.expectedRoutes = pass.expectedRoutes \cup {plan.name}
        BY <1>8 DEF PassOK, R!EmptyPass
      <3> HIDE DEF p
      <3>3. NoneForgotten(s, routerCur, p)
        BY <1>2, <3>2 DEF NoneForgotten
      <3>4. "grant" \in RouterSteps
        BY DEF RouterSteps, R!Steps, R!NormalSteps
      <3>5. routerPc' = "grant" /\ routerCur' = routerCur /\ routerSnap' = routerSnap
        BY <3>1 DEF R!GoTo
      <3>6. routerCur \in Routers /\ SameRouter(s, routerCur, routerSnap)
        BY <1>1 DEF RouterInv, RouterPassInv
      <3> QED
        BY <1>2, <3>1, <3>2, <3>3, <3>4, <3>5, <3>6 DEF RouterPassInv
    <2> QED
      BY <2>1, <2>2
  <1>10. UNCHANGED <<routers, cRouters, routes, cRoutes>>
    BY DEF R!ResolveBackends, R!inputVars, R!managedVars, R!cacheVars
  <1> QED
    BY <1>9, <1>10, WorkerFrame

\* A grant is written, is as desired, or the pass fails; routes stay.
LEMMA RouterGrants ==
  ASSUME NEW s \in Scenarios, RouterInv(s), R!ReconcileReferenceGrant
  PROVE  RouterInv(s)'
  <1> DEFINE g == R!NextGrant
             p == [pass EXCEPT !.grants = @ \ {g}]
  <1>1. routerPc = "grant" /\ routerPc # "idle"
    BY DEF R!ReconcileReferenceGrant
  <1>2. \/ pass' = p /\ \E step \in {"route", "grant"} : R!GoTo(step)
        \/ R!Failed
    BY DEF R!ReconcileReferenceGrant
  <1>3. /\ PassOK(pass) /\ pass.plans # << >> /\ NoneForgotten(s, routerCur, pass)
        /\ Head(pass.plans).name \in pass.expectedRoutes
        /\ routerCur \in Routers /\ SameRouter(s, routerCur, routerSnap)
    BY <1>1 DEF RouterInv, RouterPassInv
  <1> HIDE DEF g
  <1>4. RouterPassInv(s)'
    <2>1. CASE R!Failed
      BY <1>1, <2>1, RouterFailed
    <2>2. CASE pass' = p /\ \E step \in {"route", "grant"} : R!GoTo(step)
      <3>1. PassOK(p) /\ p.plans = pass.plans /\ p.expectedRoutes = pass.expectedRoutes
        BY <1>3 DEF PassOK, R!EmptyPass
      <3> HIDE DEF p
      <3>2. NoneForgotten(s, routerCur, p)
        BY <1>3, <3>1 DEF NoneForgotten
      <3>3. /\ routerPc' \in {"route", "grant"}
            /\ routerCur' = routerCur /\ routerSnap' = routerSnap /\ pass' = p
        BY <2>2 DEF R!GoTo
      <3>4. {"route", "grant"} \subseteq RouterSteps
        BY DEF RouterSteps, R!Steps, R!NormalSteps
      <3> QED
        BY <1>3, <3>1, <3>2, <3>3, <3>4 DEF RouterPassInv
    <2> QED
      BY <1>2, <2>1, <2>2
  <1>5. UNCHANGED <<routers, cRouters, routes, cRoutes>>
    BY DEF R!ReconcileReferenceGrant, R!inputVars, R!cacheVars
  <1> QED
    BY <1>4, <1>5, WorkerFrame

\* The route of a plan is a route of the model.
LEMMA SparedKeyType ==
  ASSUME NEW s \in Scenarios, NEW r \in Routers, NEW plan \in SparedPlans(s, r)
  PROVE  SparedKey(s, r, plan) \in R!RouteKeys
  <1>1. s.routers[r] \in R!RouterSpec
    BY ScenarioFacts
  <1>2. R!StaticPlans(s.routers[r]) \in Seq(StaticPlan)
    BY <1>1, StaticPlansType
  <1>3. plan \in StaticPlan
    BY <1>2 DEF SparedPlans, ToSet
  <1> QED
    BY <1>1, <1>3 DEF SparedKey, R!RouterSpec, StaticPlan, R!RoutePlan, R!RouteKeys

\* One route is written, and none taken away.
LEMMA RouteWritten ==
  ASSUME NEW s \in Scenarios, RoutesInv(s), UNCHANGED cRoutes, NEW k, NEW route \in R!HTTPRoute,
         routes' = [routes EXCEPT ![k] = route]
  PROVE  RoutesInv(s)'
  <1>1. route # NoObject
    BY SentinelAssumption
  <1>2. routes' \in [R!RouteKeys -> R!HTTPRoute \cup {NoObject}]
    BY DEF RoutesInv
  <1>3. \A x \in R!RouteKeys : routes[x] # NoObject => routes'[x] # NoObject
    BY <1>1 DEF RoutesInv
  <1> QED
    BY <1>2, <1>3, SparedKeyType DEF RoutesInv

\* The HTTPRoute of the plan in hand, whose route is expected.
LEMMA RouterWritesRoute ==
  ASSUME NEW s \in Scenarios, RouterInv(s), R!ReconcileHTTPRoute
  PROVE  RouterInv(s)'
  <1> DEFINE plan == Head(pass.plans)
             k == <<routerSnap.spec.gateway, plan.name>>
             seen == cRoutes[k]
             parents == IF seen = NoObject THEN {} ELSE seen.parents
             ready == R!IsRouteReady(parents)
             ref == R!Ref(routerCur, routerSnap)
             desired == [owner |-> ref, backends |-> R!BackendServices(pass.backends),
                         parents |-> parents]
             entry == [name |-> plan.name, cells |-> R!BackendCells(pass.backends)]
             p == [pass EXCEPT !.plans = Tail(@), !.backends = {},
                     !.allReady = @ /\ ready, !.needsRequeue = @ \/ ~ready,
                     !.statuses = Append(@, entry)]
  <1>1. routerPc = "route" /\ routerPc # "idle"
    BY DEF R!ReconcileHTTPRoute
  <1>2. \/ R!Continue(p) /\ routes' = [routes EXCEPT ![k] = desired]
        \/ R!Failed /\ UNCHANGED routes
    BY DEF R!ReconcileHTTPRoute
  <1>3. /\ PassOK(pass) /\ pass.plans # << >> /\ NoneForgotten(s, routerCur, pass)
        /\ plan.name \in pass.expectedRoutes /\ RoutesInv(s)
    BY <1>1 DEF RouterInv, RouterPassInv
  <1>4. /\ routerCur \in Routers /\ routerSnap.spec = s.routers[routerCur]
        /\ ref = [name |-> routerCur, uid |-> 1]
    BY <1>1, RouterPassFacts
  <1>5. plan \in StaticPlan /\ Tail(pass.plans) \in Seq(StaticPlan)
        /\ \A x \in ToSet(pass.plans) : x = plan \/ x \in ToSet(Tail(pass.plans))
    BY <1>3, HeadTail DEF PassOK
  <1>6. desired \in R!HTTPRoute
    <2>1. k \in R!RouteKeys
      <3>1. s.routers[routerCur] \in R!RouterSpec
        BY <1>4, ScenarioFacts
      <3> QED
        BY <1>4, <1>5, <3>1 DEF R!RouterSpec, R!RouteKeys, StaticPlan, R!RoutePlan
    <2> HIDE DEF k
    <2>2. seen \in R!HTTPRoute \cup {NoObject}
      BY <1>3, <2>1 DEF RoutesInv
    <2> HIDE DEF seen
    <2>3. parents \in SUBSET R!ParentStatus
      BY <2>2 DEF R!HTTPRoute
    <2>4. R!BackendServices(pass.backends) \in SUBSET C!ServiceKeys
      BY <1>3 DEF PassOK, R!BackendServices
    <2>5. ref \in R!OwnerRef
      BY <1>4 DEF R!OwnerRef
    <2> HIDE DEF parents, ref
    <2> QED
      BY <2>3, <2>4, <2>5 DEF R!HTTPRoute
  <1> HIDE DEF desired, k
  <1>7. RoutesInv(s)'
    <2>1. UNCHANGED cRoutes
      BY DEF R!ReconcileHTTPRoute, R!cacheVars
    <2>2. CASE routes' = [routes EXCEPT ![k] = desired]
      BY <1>3, <1>6, <2>1, <2>2, RouteWritten
    <2>3. CASE UNCHANGED routes
      BY <1>3, <2>1, <2>3 DEF RoutesInv
    <2> QED
      BY <1>2, <2>2, <2>3
  <1>8. RouterPassInv(s)'
    <2>1. CASE R!Failed
      BY <1>1, <2>1, RouterFailed
    <2>2. CASE R!Continue(p)
      <3> HIDE DEF ready, entry, plan
      <3>1. /\ PassOK(p) /\ p.plans = Tail(pass.plans)
            /\ p.expectedRoutes = pass.expectedRoutes
        BY <1>3, <1>5 DEF PassOK, R!EmptyPass
      <3> HIDE DEF p
      <3>2. NoneForgotten(s, routerCur, p)
        BY <1>3, <1>5, <3>1 DEF NoneForgotten
      <3> QED
        BY <1>1, <2>2, <3>1, <3>2, RouterContinues
    <2> QED
      BY <1>2, <2>1, <2>2
  <1>9. UNCHANGED <<routers, cRouters>>
    BY DEF R!ReconcileHTTPRoute, R!inputVars, R!cacheVars
  <1> QED
    BY <1>7, <1>8, <1>9 DEF RouterInv

\* cleanupStaleRoutes lists no route of a spared plan: every one is expected.
LEMMA RouterListsRoutes ==
  ASSUME NEW s \in Scenarios, RouterInv(s), R!ListRoutes
  PROVE  RouterInv(s)'
  <1> DEFINE p == [pass EXCEPT !.stale = R!StaleRoutes]
  <1>1. routerPc = "listRoutes" /\ routerPc # "idle"
    BY DEF R!ListRoutes
  <1>2. /\ PassOK(pass) /\ pass.plans = << >> /\ NoneForgotten(s, routerCur, pass)
        /\ routerCur \in Routers /\ SameRouter(s, routerCur, routerSnap)
    BY <1>1 DEF RouterInv, RouterPassInv
  <1>3. ~pass.finalizing /\ routerSnap.spec = s.routers[routerCur]
    BY <1>1, RouterPassFacts
  <1>4. pass' = p /\ R!GoTo(IF R!StaleRoutes = {} THEN "listGrants" ELSE "sweepRoutes")
    BY <1>3 DEF R!ListRoutes
  <1>5. ASSUME NEW k \in R!StaleRoutes
        PROVE  /\ k[1] = s.routers[routerCur].gateway
               /\ \A plan \in SparedPlans(s, routerCur) : k[2] # plan.name
    <2>1. k[1] = s.routers[routerCur].gateway /\ k[2] \notin pass.expectedRoutes
      BY <1>3 DEF R!StaleRoutes
    <2>2. \A plan \in SparedPlans(s, routerCur) : plan.name \in pass.expectedRoutes
      BY <1>2 DEF NoneForgotten, ToSet
    <2> QED
      BY <2>1, <2>2
  <1>6. PassOK(p) /\ p.stale = R!StaleRoutes
    BY <1>2 DEF PassOK, R!EmptyPass
  <1> HIDE DEF p
  <1>7. RouterPassInv(s)'
    <2>1. /\ routerPc' \in {"listGrants", "sweepRoutes"}
          /\ routerCur' = routerCur /\ routerSnap' = routerSnap
      BY <1>4 DEF R!GoTo
    <2>2. {"listGrants", "sweepRoutes"} \subseteq RouterSteps
      BY DEF RouterSteps, R!Steps, R!SweepSteps, R!NormalSteps
    <2> QED
      BY <1>2, <1>4, <1>5, <1>6, <2>1, <2>2 DEF RouterPassInv
  <1>8. UNCHANGED <<routers, cRouters, routes, cRoutes>>
    BY DEF R!ListRoutes, R!inputVars, R!managedVars, R!cacheVars
  <1> QED
    BY <1>7, <1>8, WorkerFrame

\* What is deleted is of this router's Gateway, and of no spared plan.
LEMMA RouterSweepsRoutes ==
  ASSUME NEW s \in Scenarios, RouterInv(s), R!DeleteStaleRoute
  PROVE  RouterInv(s)'
  <1>1. routerPc = "sweepRoutes" /\ routerPc # "idle"
    BY DEF R!DeleteStaleRoute
  <1>2. PICK k \in pass.stale :
          /\ routes' = [routes EXCEPT ![k] = NoObject]
          /\ pass' = [pass EXCEPT !.stale = @ \ {k}]
          /\ R!GoTo(IF pass.stale = {k} THEN "listGrants" ELSE "sweepRoutes")
    BY DEF R!DeleteStaleRoute
  <1>3. /\ PassOK(pass) /\ RoutesInv(s)
        /\ routerCur \in Routers /\ SameRouter(s, routerCur, routerSnap)
        /\ \A x \in pass.stale :
             /\ x[1] = s.routers[routerCur].gateway
             /\ \A plan \in SparedPlans(s, routerCur) : x[2] # plan.name
    BY <1>1 DEF RouterInv, RouterPassInv
  <1>4. ASSUME NEW r \in Routers, NEW plan \in SparedPlans(s, r)
        PROVE  SparedKey(s, r, plan) # k
    <2>1. CASE r = routerCur
      BY <1>3, <2>1 DEF SparedKey
    <2>2. CASE r # routerCur
      <3>1. s.routers[r].gateway # s.routers[routerCur].gateway
        BY <1>3, <2>2, ScenarioFacts
      <3> QED
        BY <1>3, <3>1 DEF SparedKey
    <2> QED
      BY <2>1, <2>2
  <1>5. UNCHANGED <<routers, cRouters, cRoutes>>
    BY DEF R!DeleteStaleRoute, R!inputVars, R!cacheVars
  <1>6. RoutesInv(s)'
    <2>1. routes' \in [R!RouteKeys -> R!HTTPRoute \cup {NoObject}]
      BY <1>2, <1>3 DEF RoutesInv
    <2>2. \A x \in R!RouteKeys : x # k => routes'[x] = routes[x]
      BY <1>2, <1>3 DEF RoutesInv
    <2>3. ASSUME NEW r \in Routers, NEW plan \in SparedPlans(s, r)
          PROVE  routes'[SparedKey(s, r, plan)] # NoObject
      BY <1>3, <1>4, <2>2, SparedKeyType DEF RoutesInv
    <2> QED
      BY <1>3, <1>5, <2>1, <2>3 DEF RoutesInv
  <1>7. PassOK(pass)' /\ pass'.stale = pass.stale \ {k}
    BY <1>2, <1>3 DEF PassOK, R!EmptyPass
  <1>8. RouterPassInv(s)'
    <2>1. /\ routerPc' \in {"listGrants", "sweepRoutes"}
          /\ routerCur' = routerCur /\ routerSnap' = routerSnap
      BY <1>2 DEF R!GoTo
    <2>2. {"listGrants", "sweepRoutes"} \subseteq RouterSteps
      BY DEF RouterSteps, R!Steps, R!SweepSteps, R!NormalSteps
    <2> QED
      BY <1>3, <1>7, <2>1, <2>2 DEF RouterPassInv
  <1> QED
    BY <1>5, <1>6, <1>8 DEF RouterInv

\* Grants may go.
LEMMA RouterSweepsGrants ==
  ASSUME NEW s \in Scenarios, RouterInv(s), R!ListGrants \/ R!DeleteStaleGrant
  PROVE  RouterInv(s)'
  <1>1. routerPc # "idle"
    BY DEF R!ListGrants, R!DeleteStaleGrant
  <1>2. ~pass.finalizing /\ PassOK(pass)
    BY <1>1, RouterPassFacts
  <1>3. PICK stale : pass' = [pass EXCEPT !.stale = stale]
    BY DEF R!ListGrants, R!DeleteStaleGrant
  <1>4. PassOK(pass)'
    BY <1>2, <1>3 DEF PassOK, R!EmptyPass
  <1>5. \E step \in {"patchStatus", "sweepGrants"} : R!GoTo(step)
    BY <1>2 DEF R!ListGrants, R!DeleteStaleGrant, R!AfterSweep
  <1>6. RouterPassInv(s)'
    BY <1>1, <1>4, <1>5, RouterGoesOn
  <1>7. UNCHANGED <<routers, cRouters, routes, cRoutes>>
    BY DEF R!ListGrants, R!DeleteStaleGrant, R!inputVars, R!managedVars, R!cacheVars
  <1> QED
    BY <1>6, <1>7, WorkerFrame

\* A router with another status is the same router.
LEMMA StatusChanged ==
  ASSUME NEW s, NEW r, NEW router, NEW st, SameRouter(s, r, router)
  PROVE  SameRouter(s, r, [router EXCEPT !.status = st])
  BY DEF SameRouter

\* A status patch: the router stays what it is.
LEMMA RouterPatches ==
  ASSUME NEW s \in Scenarios, RouterInv(s), R!PatchStatus \/ R!PatchFailure
  PROVE  RouterInv(s)'
  <1>1. routerPc # "idle"
    BY DEF R!PatchStatus, R!PatchFailure
  <1>2. routerCur \in Routers
    BY <1>1, RouterPassFacts
  <1>3. RouterPassInv(s)'
    BY RouterReturns DEF R!PatchStatus, R!PatchFailure
  <1>4. \/ UNCHANGED routers
        \/ \E st : routers' = [routers EXCEPT ![routerCur].status = st]
    BY DEF R!PatchStatus, R!PatchFailure, R!PatchedRouters
  <1>5. RoutersInv(s, routers)'
    <2>1. ASSUME NEW st, routers' = [routers EXCEPT ![routerCur].status = st]
          PROVE  RoutersInv(s, routers)'
      <3>1. /\ DOMAIN routers' = Routers
            /\ \A r \in Routers : r # routerCur => routers'[r] = routers[r]
            /\ routers'[routerCur] = [routers[routerCur] EXCEPT !.status = st]
        BY <1>2, <2>1 DEF RouterInv, RoutersInv
      <3>2. \A r \in Routers : SameRouter(s, r, routers[r])
        BY DEF RouterInv, RoutersInv
      <3>4. SameRouter(s, routerCur, routers'[routerCur])
        BY <1>2, <3>1, <3>2, StatusChanged
      <3>5. \A r \in Routers : SameRouter(s, r, routers'[r])
        BY <3>1, <3>2, <3>4
      <3> QED
        BY <3>1, <3>5 DEF RoutersInv
    <2>2. UNCHANGED routers => RoutersInv(s, routers)'
      BY DEF RouterInv
    <2> QED
      BY <1>4, <2>1, <2>2
  <1>6. UNCHANGED <<cRouters, routes, cRoutes>>
    BY DEF R!PatchStatus, R!PatchFailure, R!managedVars, R!cacheVars
  <1> QED
    BY <1>3, <1>5, <1>6 DEF RouterInv, RoutesInv

\* Nobody deletes a router here, every one has its finalizer, and there are no
\* placements: the other steps are not taken.
LEMMA RouterWorks ==
  ASSUME NEW s \in Scenarios, CellInv(s), RouterInv(s), R!ReconcileStep
  PROVE  RouterInv(s)'
  <1>1. routerPc \notin {"addFinalizer", "invalid", "placement", "deleteGateway", "removeFinalizer"}
    BY DEF RouterInv, RouterPassInv, RouterSteps
  <1>2. ~(\/ R!EnsureFinalizer \/ R!PatchInvalidPlacement \/ R!PatchPlacement
          \/ R!DeleteManagedGateway \/ R!RemoveFinalizer)
    BY <1>1 DEF R!EnsureFinalizer, R!PatchInvalidPlacement, R!PatchPlacement,
         R!DeleteManagedGateway, R!RemoveFinalizer
  <1> QED
    BY <1>2, RouterReconcilesGateway, RouterPlans, RouterResolves, RouterGrants,
       RouterWritesRoute, RouterListsRoutes, RouterSweepsRoutes, RouterSweepsGrants, RouterPatches
       DEF R!ReconcileStep

-----------------------------------------------------------------------------
(* Informers, the Gateway implementation and restarts.                     *)

\* The routers' informers copy what is on the server.
LEMMA RouterInformed ==
  ASSUME NEW s \in Scenarios, RouterInv(s),
         \/ \E r \in Routers : R!SyncRouter(r)
         \/ \E k \in R!RouteKeys : R!SyncRoute(k)
         \/ \E g \in R!GrantKeys : R!SyncGrant(g)
  PROVE  RouterInv(s)'
  <1>1. UNCHANGED <<routers, routes, routerPc, routerCur, routerSnap, pass>>
    BY DEF R!SyncRouter, R!SyncRoute, R!SyncGrant, R!inputVars, R!managedVars, R!workerVars
  <1>2. RouterPassInv(s)'
    BY <1>1 DEF RouterInv, RouterPassInv
  <1>3. CASE \E r \in Routers : R!SyncRouter(r)
    BY <1>1, <1>2, <1>3 DEF R!SyncRouter, RouterInv, RoutersInv, RoutesInv
  <1>4. CASE \E k \in R!RouteKeys : R!SyncRoute(k)
    BY <1>1, <1>2, <1>4 DEF R!SyncRoute, RouterInv, RoutesInv
  <1>5. CASE \E g \in R!GrantKeys : R!SyncGrant(g)
    BY <1>1, <1>2, <1>5, WorkerFrame DEF R!SyncGrant
  <1> QED
    BY <1>3, <1>4, <1>5

\* A verdict on a route leaves the route.
LEMMA RouterReported ==
  ASSUME NEW s \in Scenarios, RouterInv(s), NEW k \in R!RouteKeys, ReportRoute(k)
  PROVE  RouterInv(s)'
  <1> DEFINE route == [routes[k] EXCEPT !.parents = Report(k)]
  <1>1. routes[k] \in R!HTTPRoute
    BY DEF RouterInv, RoutesInv, ReportRoute
  <1>2. Report(k) \in SUBSET R!ParentStatus
    <2>1. R!Report(k) \in SUBSET R!ParentStatus
      <3>1. R!Granted(k) \in BOOLEAN
        BY DEF R!Granted
      <3> QED
        BY <3>1 DEF R!Report, R!ParentStatus
    <2> DEFINE resolved == \A b \in routes[k].backends : objects[b] # NoObject
    <2>2. Report(k) = {[p EXCEPT !.resolvedRefs = @ /\ resolved] : p \in R!Report(k)}
      BY DEF Report
    <2>3. resolved \in BOOLEAN
      OBVIOUS
    <2> HIDE DEF resolved
    <2>4. ASSUME NEW p \in R!ParentStatus
          PROVE  [p EXCEPT !.resolvedRefs = @ /\ resolved] \in R!ParentStatus
      BY <2>3 DEF R!ParentStatus
    <2> QED
      BY <2>1, <2>2, <2>4
  <1>3. route \in R!HTTPRoute
    BY <1>1, <1>2 DEF R!HTTPRoute
  <1>4. routes' = [routes EXCEPT ![k] = route]
    BY DEF ReportRoute
  <1>5. UNCHANGED <<routers, cRouters, cRoutes, routerPc, routerCur, routerSnap, pass>>
    BY DEF ReportRoute
  <1> HIDE DEF route
  <1>6. RoutesInv(s)'
    BY <1>3, <1>4, <1>5, RouteWritten DEF RouterInv
  <1> QED
    BY <1>5, <1>6 DEF RouterInv, RouterPassInv

\* A failed call ends the pass or sends it to the patch of the failure.
LEMMA RouterCallFailed ==
  ASSUME NEW s \in Scenarios, RouterInv(s), RouterCallFails
  PROVE  RouterInv(s)'
  <1>1. /\ routerPc # "idle" /\ (R!Failed \/ R!Return(TRUE))
        /\ UNCHANGED <<routers, cRouters, routes, cRoutes>>
    BY DEF RouterCallFails, R!CallFails, R!inputVars, R!managedVars, R!cacheVars
  <1>2. RouterPassInv(s)'
    BY <1>1, RouterFailed, RouterReturns
  <1> QED
    BY <1>1, <1>2, WorkerFrame

\* A restart forgets the pass and reads everything anew.
LEMMA RouterRestarts ==
  ASSUME NEW s \in Scenarios, RouterInv(s), Restart
  PROVE  RouterInv(s)'
  <1>1. routerPc' = "idle" /\ pass' = R!EmptyPass
    BY DEF Restart
  <1>2. PassOK(pass)'
    BY <1>1, EmptyPassOK
  <1>3. "idle" \in RouterSteps
    BY DEF RouterSteps, R!Steps
  <1>4. RouterPassInv(s)'
    BY <1>1, <1>2, <1>3 DEF RouterPassInv
  <1> QED
    BY <1>4 DEF Restart, RouterInv, RoutesInv

\* The routers' part of the invariant is kept by every step.
LEMMA RouterNext ==
  ASSUME NEW s \in Scenarios, CellInv(s), RouterInv(s), [Next]_vars
  PROVE  RouterInv(s)'
  <1>1. CASE CellWorker
    BY <1>1, RouterFrame DEF CellWorker, CellStep, StartCell
  <1>2. CASE RouterWorker
    <2>1. ASSUME NEW r \in Routers, StartRouter(r) PROVE RouterInv(s)'
      BY <2>1, RouterStarts DEF StartRouter
    <2>2. CASE RouterStep
      <3>1. CASE GrantRejected
        <4>1. routerPc # "idle" /\ R!Failed /\ UNCHANGED <<routers, routes, cRouters, cRoutes>>
          BY <2>2, <3>1 DEF RouterStep
        <4>2. RouterPassInv(s)'
          BY <4>1, RouterFailed
        <4> QED
          BY <4>1, <4>2, WorkerFrame
      <3>2. CASE ~GrantRejected
        BY <2>2, <3>2, RouterWorks DEF RouterStep
      <3> QED
        BY <3>1, <3>2
    <2> QED
      BY <1>2, <2>1, <2>2 DEF RouterWorker
  <1>3. CASE Informers
    <2>1. ASSUME NEW c \in Cells, SyncCell(c) PROVE RouterInv(s)'
      <3>1. UNCHANGED <<routers, cRouters, routes, cRoutes, routerPc, routerCur, routerSnap, pass>>
        BY <2>1 DEF SyncCell
      <3> QED
        BY <3>1 DEF RouterInv, RoutesInv, RouterPassInv
    <2> QED
      BY <1>3, <2>1, RouterFrame, RouterInformed
         DEF Informers, SyncNamespace, SyncObject, SyncEndpoints, SyncRouter, SyncRoute, SyncGrant
  <1>4. CASE Cluster
    <2>1. ASSUME NEW n \in Namespaces, NamespaceGone(n) PROVE RouterInv(s)'
      <3>1. UNCHANGED <<routers, cRouters, routes, cRoutes, routerPc, routerCur, routerSnap, pass>>
        BY <2>1 DEF NamespaceGone
      <3> QED
        BY <3>1 DEF RouterInv, RoutesInv, RouterPassInv
    <2> QED
      BY <1>4, <2>1, RouterFrame, RouterReported DEF Cluster, SlicesGone
  <1>5. CASE Environment
    BY <1>5, RouterFrame, RouterCallFailed, RouterRestarts
       DEF Environment, DeleteCell, SetState, EndpointsChange, CellCallFails
  <1>6. CASE UNCHANGED vars
    BY <1>6, RouterFrame DEF vars
  <1> QED
    BY <1>1, <1>2, <1>3, <1>4, <1>5, <1>6 DEF Next

\* Every plan has its route at first, and no pass runs.
LEMMA RouterInit ==
  ASSUME NEW s \in Scenarios, CellInv(s), InitRouters(s.routers)
  PROVE  RouterInv(s)
  <1>1. ASSUME NEW r \in Routers PROVE SameRouter(s, r, routers[r])
    <2>1. routers[r] = SettledRouter(s.routers[r])
      BY DEF InitRouters
    <2> QED
      BY <2>1 DEF SettledRouter, SameRouter
  <1>2. RoutersInv(s, routers)
    BY <1>1 DEF InitRouters, RoutersInv
  <1>3. \A r \in Routers : routers[r].spec = s.routers[r]
    BY <1>1, SameSpec
  <1>4. ASSUME NEW k \in R!RouteKeys, NEW plan \in PlansFor(k[2], k[1])
        PROVE  plan \in StaticPlan /\ gateways[k[1]] \in R!OwnerRef
    <2>1. PICK r \in Routers : routers[r].spec.gateway = k[1] /\ plan \in Plans(r)
      BY DEF PlansFor
    <2>2. s.routers[r] \in R!RouterSpec
      BY ScenarioFacts
    <2>3. R!StaticPlans(s.routers[r]) \in Seq(StaticPlan)
      BY <2>2, StaticPlansType
    <2>4. plan \in StaticPlan
      BY <1>3, <2>1, <2>3 DEF Plans, ToSet
    <2> DEFINE users == {q \in Routers : routers[q].spec.gateway = k[1]}
               owner == CHOOSE q \in users : TRUE
    <2>5. k[1] \in GatewayNamespaces
      BY DEF R!RouteKeys
    <2>6. gateways[k[1]] = IF users = {} THEN NoObject ELSE [name |-> owner, uid |-> 1]
      BY <2>5 DEF InitRouters
    <2>7. users # {} /\ owner \in users
      BY <2>1
    <2>8. owner \in Routers
      BY <2>7
    <2> HIDE DEF users, owner
    <2>9. gateways[k[1]] \in R!OwnerRef
      BY <2>6, <2>7, <2>8 DEF R!OwnerRef
    <2> QED
      BY <2>4, <2>9
  <1>5. ASSUME NEW k \in R!RouteKeys
        PROVE  /\ PlansFor(k[2], k[1]) = {} => routes[k] = NoObject
               /\ PlansFor(k[2], k[1]) # {} => routes[k] \in R!HTTPRoute
    <2> DEFINE plans == PlansFor(k[2], k[1])
               plan == CHOOSE p \in plans : TRUE
               served == R!BackendServices(R!Served(plan))
               route == [owner |-> gateways[k[1]], backends |-> served,
                         parents |-> {[accepted |-> TRUE, resolvedRefs |-> TRUE]}]
    <2>1. routes[k] = IF plans = {} THEN NoObject ELSE route
      BY DEF InitRouters
    <2>2. ASSUME plans # {} PROVE route \in R!HTTPRoute
      <3>1. plan \in plans
        BY <2>2
      <3>2. plan \in StaticPlan /\ gateways[k[1]] \in R!OwnerRef
        BY <1>4, <3>1
      <3> HIDE DEF plan
      <3>3. R!Served(plan) \subseteq [cell : Cells, service : C!ServiceKeys]
        BY <3>2, BackendsType DEF CellInv, R!Served
      <3>4. served \in SUBSET C!ServiceKeys
        BY <3>3 DEF R!BackendServices
      <3> HIDE DEF served
      <3> QED
        BY <3>2, <3>4 DEF R!HTTPRoute, R!ParentStatus
    <2> HIDE DEF plans, route
    <2> QED
      BY <2>1, <2>2 DEF plans
  <1>6. RoutesInv(s)
    <2>1. DOMAIN routes = R!RouteKeys /\ routes = [k \in R!RouteKeys |-> routes[k]]
      BY DEF InitRouters
    <2>2. \A k \in R!RouteKeys : routes[k] \in R!HTTPRoute \cup {NoObject}
      BY <1>5
    <2>3. routes \in [R!RouteKeys -> R!HTTPRoute \cup {NoObject}]
      BY <2>1, <2>2
    <2>4. ASSUME NEW r \in Routers, NEW plan \in SparedPlans(s, r)
          PROVE  routes[SparedKey(s, r, plan)] # NoObject
      <3> DEFINE k == SparedKey(s, r, plan)
      <3>1. k \in R!RouteKeys
        BY SparedKeyType
      <3>2. plan \in Plans(r) /\ k[1] = routers[r].spec.gateway /\ k[2] = plan.name
        BY <1>3 DEF SparedPlans, Plans, SparedKey
      <3> HIDE DEF k
      <3>3. plan \in PlansFor(k[2], k[1])
        BY <3>2 DEF PlansFor
      <3>4. routes[k] \in R!HTTPRoute
        BY <1>5, <3>1, <3>3
      <3> QED
        BY <3>4, SentinelAssumption DEF k
    <2> QED
      BY <2>3, <2>4 DEF InitRouters, RoutesInv
  <1>7. RouterPassInv(s)
    <2>1. "idle" \in RouterSteps
      BY DEF RouterSteps, R!Steps
    <2> QED
      BY <2>1, EmptyPassOK DEF InitRouters, RouterPassInv
  <1> QED
    BY <1>2, <1>6, <1>7 DEF InitRouters, RouterInv

-----------------------------------------------------------------------------
(* The theorem.                                                            *)

\* The settled states satisfy the invariant.
LEMMA InvariantInit == Init => IInv
  BY CellInit, RouterInit DEF Init, IInv

\* No step changes the history variable.
LEMMA SameScenario == [Next]_vars => UNCHANGED scenario
  BY DEF Next, vars, CellWorker, RouterWorker, Informers, Cluster, Environment

\* Every step keeps the invariant, with the same scenario.
LEMMA InvariantStep == IInv /\ [Next]_vars => IInv'
  BY SameScenario, CellNext, RouterNext DEF IInv

\* The routes of spared plans stand.
LEMMA InvariantKeepsRoutes == IInv => RouteSurvives
  <1> SUFFICES ASSUME NEW s \in Scenarios, s = scenario, RouterInv(s) PROVE RouteSurvives
    BY DEF IInv
  <1>1. \A r \in Routers : routers[r].spec = s.routers[r]
    BY SameSpec DEF RouterInv, RoutersInv
  <1> QED
    BY <1>1
       DEF RouteSurvives, Plans, RouterInv, RoutesInv, SparedPlans, SparedPlan, SparedKey

\* Housed Cells have their Services, and spared Cells serve by them.
LEMMA InvariantContains == IInv => FailuresContained
  <1> SUFFICES ASSUME NEW s \in Scenarios, s = scenario, CellInv(s) PROVE FailuresContained
    BY DEF IInv
  <1>1. ASSUME NEW c \in Housed(s)
        PROVE  /\ C!NamespaceOpen(Entry(s, c)[1])
               /\ C!IsControlledBy(objects[Entry(s, c)], C!Ref(c, cells[c]))
    <2>1. c \in Cells /\ c \in Kept
      BY HousedFacts
    <2>2. cells[c] \in Versions(s, c)
      BY <2>1 DEF CellInv, CellsInv, VersionOK
    <2>3. cells[c].uid = 1 /\ Entry(s, c)[1] = Home(s, c)
      BY <2>1, <2>2, VersionFacts, EntryFacts
    <2>4. C!NamespaceOpen(Home(s, c))
      BY SentinelAssumption DEF CellInv, NamespacesInv, C!NamespaceOpen
    <2>5. C!IsControlledBy(objects[Entry(s, c)], C!Ref(c, cells[c]))
      BY <2>3 DEF CellInv, ObjectsInv, C!IsControlledBy, C!Ref
    <2> QED
      BY <2>3, <2>4, <2>5
  <1>2. ASSUME NEW c \in Spared(s)
        PROVE  /\ R!IsCellTrafficReady(View(c, cells[c]))
               /\ View(c, cells[c]).service = Entry(s, c)
    <2>1. c \in Cells /\ c \in Kept /\ CellsInv(s, cells)
      BY SparedFacts DEF CellInv
    <2>2. /\ cells[c] # NoObject /\ cells[c].spec = s.cells[c]
          /\ cells[c].status.namespace = Home(s, c)
      BY <2>1 DEF CellsInv, VersionOK, Standing, ReadyStatus
    <2>3. R!IsCellTrafficReady(View(c, cells[c]))
      BY <2>1, ViewFacts DEF Views
    <2>4. Home(s, c) # ""
      BY <2>1, EntryFacts, ConstantsAssumption
    <2>5. View(c, cells[c]).service = <<Home(s, c), s.cells[c].serviceName>>
      BY <2>2, <2>4 DEF View
    <2> QED
      BY <2>1, <2>3, <2>5, EntryFacts
  <1> QED
    BY <1>1, <1>2 DEF FailuresContained, Entry

\* Failover without a gap, for any scenario with distinct Services and Gateways and any
\* number of disturbances: while users drain, disable and delete other Cells, their
\* endpoints come and go, calls fail and the manager restarts, no pass of either
\* reconciler takes away the HTTPRoute of a plan that has, among its Cells or to fall
\* back to, one that is left alone in a namespace of its own.
THEOREM FailoverKeepsRoutes == Spec => []RouteSurvives
  <1>1. Init => IInv
    BY InvariantInit
  <1>2. IInv /\ [Next]_vars => IInv'
    BY InvariantStep
  <1>3. IInv => RouteSurvives
    BY InvariantKeepsRoutes
  <1> QED
    BY <1>1, <1>2, <1>3, PTL DEF Spec

\* Failures stay contained, for the same scenarios, Cells that share namespaces among
\* them: a Cell that is left alone keeps its Service, in a namespace that stands, unless
\* a disturbed Cell in the same namespace is to take it along; and one with a namespace
\* of its own is at all times ready for traffic in its status.
THEOREM CellsAreBulkheads == Spec => []FailuresContained
  <1>1. Init => IInv
    BY InvariantInit
  <1>2. IInv /\ [Next]_vars => IInv'
    BY InvariantStep
  <1>3. IInv => FailuresContained
    BY InvariantContains
  <1> QED
    BY <1>1, <1>2, <1>3, PTL DEF Spec
=============================================================================
