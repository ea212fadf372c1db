------------------------ MODULE CellControllerProofs ------------------------
(***************************************************************************)
(* What TLAPS proves about the Cell reconciler, for any Cells, specs,      *)
(* bounds and number of restarts.                                          *)
(***************************************************************************)
EXTENDS CellController, TLAPS

\* A Cell that is being deleted still has its finalizer, on the API server and
\* in every copy.
DeletingHasFinalizer ==
  /\ \A c \in Cells : cells[c] # NoObject /\ cells[c].deleting => cells[c].finalizer
  /\ \A c \in Cells : cCells[c] # NoObject /\ cCells[c].deleting => cCells[c].finalizer

\* A cached Cell under finalizer that nobody deletes is the one on the server.
CacheUnderFinalizer ==
  \A c \in Cells :
    cCells[c] # NoObject /\ cCells[c].finalizer /\ ~cCells[c].deleting =>
      Live(c) /\ cells[c].uid = cCells[c].uid /\ cells[c].finalizer

\* Reserved: the server holds c under finalizer and nobody deletes it.
Reserved(cell) == cell # NoObject /\ cell.finalizer /\ ~cell.deleting

\* A finalization that is seen in the cache or in progress is not of such a Cell.
FinalizesOnlyDeleted ==
  /\ \A c \in Cells : cCells[c] # NoObject /\ cCells[c].deleting => ~Reserved(cells[c])
  /\ pc \in DeletionSteps => ~Reserved(cells[cur]) /\ ~Reserved(cCells[cur])
  /\ pc = "addFinalizer" /\ cCells[cur] # NoObject /\ cCells[cur].deleting =>
       Live(cur) /\ cells[cur].deleting

\* UIDs grow: what exists or is referred to was handed out before.
UidsHandedOut ==
  /\ \A c \in Cells : Live(c) => cells[c].uid <= uids[c]
  /\ \A c \in Cells : cCells[c] # NoObject => cCells[c].uid <= uids[c]
  /\ \A k \in ObjectKeys :
       objects[k] # NoObject /\ objects[k].owner # NoOwner =>
         objects[k].owner.uid <= uids[objects[k].owner.name]

\* st does not claim readiness for a generation of cell that is not Active.
ReadyClaim(st, cell) ==
  st.conditions["Ready"].status = "True" =>
    /\ st.conditions["Ready"].observedGeneration <= cell.generation
    /\ st.conditions["Ready"].observedGeneration = cell.generation =>
         EffectiveCellState(cell.spec) = "Active"

\* copy is an earlier version, or the same version, of the incarnation cell.
EarlierVersion(copy, cell) ==
  /\ copy.generation <= cell.generation
  /\ copy.generation = cell.generation => copy.spec = cell.spec

ReadyClaims ==
  /\ \A c \in Cells : Live(c) => ReadyClaim(cells[c].status, cells[c])
  /\ \A c \in Cells :
       cCells[c] # NoObject /\ Live(c) /\ cCells[c].uid = cells[c].uid =>
         EarlierVersion(cCells[c], cells[c]) /\ ReadyClaim(cCells[c].status, cells[c])
  /\ pc \in NormalSteps =>
       EarlierVersion(snap, cells[cur]) /\ ReadyClaim(status, cells[cur])

IInv ==
  /\ TypeOK
  /\ DeletingHasFinalizer
  /\ CacheUnderFinalizer
  /\ FinalizesOnlyDeleted
  /\ FinalizerPinsPass
  /\ UidsHandedOut
  /\ OwnedImpliesFinalizer
  /\ ReadyClaims

-----------------------------------------------------------------------------
(* Types of the helpers.                                                   *)

\* A fresh status is well-typed.
LEMMA EmptyStatusType == EmptyStatus \in CellStatus
<1>1. EmptyStatus.conditions \in [ConditionTypes -> Condition]
  BY DEF EmptyStatus, Condition
<1>2. MaxEndpoints \in Nat
  BY ConstantsAssumption
<1>3. 0 \in 0..MaxEndpoints
  BY <1>2
<1> QED
  BY <1>1, <1>3 DEF EmptyStatus, CellStatus

\* Setting a condition keeps a status well-typed.
LEMMA SetConditionType ==
  ASSUME NEW st \in CellStatus, NEW type \in ConditionTypes,
         NEW value \in {"True", "False"}, NEW gen \in Nat
  PROVE  SetCellCondition(st, type, value, gen) \in CellStatus
  BY DEF SetCellCondition, CellStatus, Condition

\* A merge patch takes every field from a well-typed status.
LEMMA MergePatchType ==
  ASSUME NEW a \in CellStatus, NEW b \in CellStatus, NEW n \in CellStatus
  PROVE  MergePatch(a, b, n) \in CellStatus
  BY DEF MergePatch, CellStatus

\* The readiness decision is a well-typed status.
LEMMA DecideReadinessType ==
  ASSUME NEW st \in CellStatus, NEW state, NEW available \in BOOLEAN, NEW gen \in Nat
  PROVE  DecideReadiness(st, state, available, gen) \in CellStatus
<1>1. "BackendReady" \in ConditionTypes /\ "Ready" \in ConditionTypes
  BY DEF ConditionTypes
<1> QED
  BY <1>1, SetConditionType DEF DecideReadiness

\* The keys a pass uses are keys of the model.
LEMMA KeyType ==
  ASSUME NEW c \in Cells, NEW spec \in CellSpec
  PROVE  /\ EffectiveNamespace(c, spec) \in Namespaces
         /\ ServiceKey(c, spec) \in ServiceKeys
         /\ ServiceKey(c, spec) \in ObjectKeys
         /\ \A kind \in PolicyKinds : <<EffectiveNamespace(c, spec), kind>> \in ObjectKeys
  BY ConstantsAssumption
  DEF EffectiveNamespace, ServiceKey, ServiceKeys, ObjectKeys, CellSpec

\* CreateOrUpdate and the guarded delete keep the objects well-typed.
LEMMA ObjectsType ==
  ASSUME TypeOK, NEW key \in ObjectKeys, NEW ref \in OwnerRef
  PROVE  /\ CreatedOrUpdated(key, ref) \in [ObjectKeys -> OwnedObject \cup {NoObject}]
         /\ DeletedIfControlled(key, ref) \in [ObjectKeys -> OwnedObject \cup {NoObject}]
  BY DEF TypeOK, CreatedOrUpdated, DeletedIfControlled, OwnedObject

\* The objects and parts of objects that the steps use are well-typed.
LEMMA PartTypes ==
  ASSUME NEW cell \in Cell, NEW c \in Cells
  PROVE  /\ cell # NoObject
         /\ cell.spec \in CellSpec /\ cell.status \in CellStatus
         /\ cell.generation \in Nat /\ cell.uid \in Nat
         /\ cell.deleting \in BOOLEAN /\ cell.finalizer \in BOOLEAN
         /\ Ref(c, cell) \in OwnerRef
  BY SentinelsAssumption DEF Cell, Ref, OwnerRef

-----------------------------------------------------------------------------
(* Type correctness.                                                       *)

\* The initial state is well-typed.
LEMMA TypeInit == Init => TypeOK
<1> SUFFICES ASSUME Init PROVE TypeOK
  OBVIOUS
<1>1. MaxEndpoints \in Nat /\ MaxDisturbances \in Nat
  BY ConstantsAssumption
<1>2. 0 \in 0..MaxEndpoints /\ 0 \in 0..MaxDisturbances
  BY <1>1
<1> QED
  BY <1>2, EmptyStatusType DEF Init, TypeOK, Steps

\* Ending a pass keeps the worker well-typed.
LEMMA ReturnType ==
  ASSUME TypeOK, pc # "idle", NEW b \in BOOLEAN, Return(b)
  PROVE  /\ queue' \in SUBSET Cells /\ pc' \in Steps /\ cur' \in Cells \cup {NoObject}
         /\ snap' \in Cell \cup {NoObject} /\ status' \in CellStatus
         /\ pc' # "idle" => cur' \in Cells /\ snap' \in Cell
  BY EmptyStatusType DEF TypeOK, Return, Steps

\* So does going on to another step.
LEMMA GoToType ==
  ASSUME TypeOK, pc # "idle", NEW step \in Steps, GoTo(step)
  PROVE  /\ queue' \in SUBSET Cells /\ pc' \in Steps /\ cur' \in Cells \cup {NoObject}
         /\ snap' \in Cell \cup {NoObject}
         /\ pc' # "idle" => cur' \in Cells /\ snap' \in Cell
  BY DEF TypeOK, GoTo

\* So does the error path of reconcileNormal.
LEMMA FailedType ==
  ASSUME TypeOK, pc # "idle", Failed
  PROVE  /\ queue' \in SUBSET Cells /\ pc' \in Steps /\ cur' \in Cells \cup {NoObject}
         /\ snap' \in Cell \cup {NoObject} /\ status' \in CellStatus
         /\ pc' # "idle" => cur' \in Cells /\ snap' \in Cell
<1>1. "patchFailure" \in Steps /\ "Ready" \in ConditionTypes /\ "BackendReady" \in ConditionTypes
  BY DEF Steps, NormalSteps, ConditionTypes
<1>2. snap.generation \in Nat /\ status \in CellStatus
  BY PartTypes DEF TypeOK
<1>3. status' \in CellStatus
  BY <1>1, <1>2, SetConditionType DEF Failed
<1> QED
  BY <1>1, <1>3, GoToType DEF Failed

\* Every step of a pass keeps the state well-typed.
LEMMA ReconcileStepType == TypeOK /\ ReconcileStep => TypeOK'
<1> SUFFICES ASSUME TypeOK, ReconcileStep PROVE TypeOK'
  OBVIOUS
<1> USE DEF apiVars, cacheVars, envVars
<1>0. /\ pc # "idle" /\ cur \in Cells /\ snap \in Cell
      /\ snap.spec \in CellSpec /\ snap.generation \in Nat /\ Ref(cur, snap) \in OwnerRef
      /\ EffectiveNamespace(cur, snap.spec) \in Namespaces
      /\ ServiceKey(cur, snap.spec) \in ObjectKeys
  <2>1. pc # "idle"
    BY DEF ReconcileStep, EnsureFinalizer, ReconcileNamespace, ReconcileService,
           ReconcilePolicy, CountReadyEndpoints, PatchStatus, PatchFailure,
           DeleteEntrypointService, DeleteNamespaceIfManaged, RemoveFinalizer, PolicyKinds
  <2>2. cur \in Cells /\ snap \in Cell
    BY <2>1 DEF TypeOK
  <2> QED
    BY <2>1, <2>2, PartTypes, KeyType
<1>s. PolicyKinds \cup NormalSteps \cup DeletionSteps \subseteq Steps
  BY DEF Steps, NormalSteps
<1>1. CASE EnsureFinalizer
  <2>1. CASE cells[cur] = NoObject
    BY <1>0, <1>1, <2>1, ReturnType DEF TypeOK, EnsureFinalizer
  <2>2. CASE cells[cur] # NoObject
    <3>1. cells[cur] \in Cell
      BY <1>0, <2>2 DEF TypeOK
    <3>2. cells' = [cells EXCEPT ![cur] = [cells[cur] EXCEPT !.finalizer = TRUE]]
      BY <1>1, <2>2 DEF EnsureFinalizer
    <3>3. [cells[cur] EXCEPT !.finalizer = TRUE] \in Cell
      BY <3>1 DEF Cell
    <3>4. cells' \in [Cells -> Cell \cup {NoObject}] /\ cells'[cur] \in Cell
      BY <1>0, <3>2, <3>3 DEF TypeOK
    <3>5. cells'[cur].status \in CellStatus
      BY <3>4 DEF Cell
    <3> QED
      BY <1>0, <1>1, <2>2, <3>4, <3>5 DEF TypeOK, EnsureFinalizer, Steps, NormalSteps
  <2> QED
    BY <2>1, <2>2
<1>2. CASE ReconcileNamespace
  <2> DEFINE n == EffectiveNamespace(cur, snap.spec)
             new == [cellName |-> cur, phase |-> "Active", by |-> "operator"]
             relabelled == [namespaces[n] EXCEPT !.cellName = cur]
  <2>1. new \in NamespaceObject
    BY <1>0 DEF NamespaceObject
  <2>2. namespaces[n] # NoObject => relabelled \in NamespaceObject
    BY <1>0 DEF NamespaceObject, TypeOK
  <2>3. \/ namespaces' = namespaces
        \/ namespaces' = [namespaces EXCEPT ![n] = new]
        \/ namespaces[n] # NoObject /\ namespaces' = [namespaces EXCEPT ![n] = relabelled]
    BY <1>2 DEF ReconcileNamespace
  <2>4. namespaces' \in [Namespaces -> NamespaceObject \cup {NoObject}]
    BY <1>0, <2>1, <2>2, <2>3 DEF TypeOK
  <2>5. (GoTo("service") /\ UNCHANGED status) \/ Failed
    BY <1>2 DEF ReconcileNamespace
  <2>6. CASE GoTo("service") /\ UNCHANGED status
    BY <1>0, <1>2, <2>4, <2>6, GoToType DEF TypeOK, ReconcileNamespace, Steps, NormalSteps
  <2>7. CASE Failed
    BY <1>0, <1>2, <2>4, <2>7, FailedType DEF TypeOK, ReconcileNamespace
  <2> QED
    BY <2>5, <2>6, <2>7
<1>3. CASE ReconcileService
  <2>1. CASE CanCreateOrUpdate(ServiceKey(cur, snap.spec), Ref(cur, snap))
    <3>1. "ResourceQuota" \in Steps
      BY DEF Steps, NormalSteps, PolicyKinds
    <3> QED
      BY <1>0, <1>3, <2>1, <3>1, GoToType, ObjectsType DEF TypeOK, ReconcileService
  <2>2. CASE ~CanCreateOrUpdate(ServiceKey(cur, snap.spec), Ref(cur, snap))
    BY <1>0, <1>3, <2>2, FailedType DEF TypeOK, ReconcileService
  <2> QED
    BY <2>1, <2>2
<1>4. ASSUME NEW kind \in PolicyKinds, ReconcilePolicy(kind) PROVE TypeOK'
  <2> DEFINE key == <<EffectiveNamespace(cur, snap.spec), kind>>
             next == CASE kind = "ResourceQuota" -> "LimitRange"
                       [] kind = "LimitRange" -> "NetworkPolicy"
                       [] kind = "NetworkPolicy" -> "endpoints"
  <2>1. key \in ObjectKeys /\ next \in Steps
    BY <1>0, KeyType DEF Steps, NormalSteps, PolicyKinds
  <2>2. \/ /\ objects' \in {DeletedIfControlled(key, Ref(cur, snap)),
                            CreatedOrUpdated(key, Ref(cur, snap))}
           /\ GoTo(next) /\ UNCHANGED status
        \/ UNCHANGED objects /\ Failed
    BY <1>4 DEF ReconcilePolicy
  <2>3. CASE Failed /\ UNCHANGED objects
    BY <1>0, <1>4, <2>3, FailedType DEF TypeOK, ReconcilePolicy
  <2>4. CASE /\ objects' \in {DeletedIfControlled(key, Ref(cur, snap)),
                              CreatedOrUpdated(key, Ref(cur, snap))}
             /\ GoTo(next) /\ UNCHANGED status
    <3> HIDE DEF key, next
    <3>1. objects' \in [ObjectKeys -> OwnedObject \cup {NoObject}]
      BY <1>0, <2>1, <2>4, ObjectsType
    <3> QED
      BY <1>0, <1>4, <2>1, <2>4, <3>1, GoToType DEF TypeOK, ReconcilePolicy
  <2> QED
    BY <2>2, <2>3, <2>4
<1>5. CASE CountReadyEndpoints
  <2> DEFINE key == ServiceKey(cur, snap.spec)
             observed == [status EXCEPT !.namespace = key[1],
                                        !.observedGeneration = snap.generation,
                                        !.availableEndpoints = cEndpoints[key]]
  <2>1. key \in ServiceKeys /\ key[1] \in Namespaces
    BY <1>0, KeyType DEF ServiceKeys
  <2>2. cEndpoints[key] \in 0..MaxEndpoints
    BY <2>1 DEF TypeOK
  <2>3. observed \in CellStatus
    BY <1>0, <2>1, <2>2 DEF CellStatus, TypeOK
  <2>4. (cEndpoints[key] > 0) \in BOOLEAN
    OBVIOUS
  <2>5. status' \in CellStatus
    BY <1>0, <1>5, <2>3, <2>4, DecideReadinessType DEF CountReadyEndpoints
  <2> QED
    BY <1>0, <1>5, <2>5, GoToType DEF TypeOK, CountReadyEndpoints, Steps, NormalSteps
<1>p. ASSUME cells[cur] # NoObject PROVE PatchedCells \in [Cells -> Cell \cup {NoObject}]
  <2> DEFINE new == MergePatch(cells[cur].status, snap.status, status)
  <2>1. cells[cur] \in Cell /\ cells[cur].status \in CellStatus /\ snap.status \in CellStatus
    BY <1>0, <1>p, PartTypes DEF TypeOK
  <2>2. new \in CellStatus
    BY <2>1, MergePatchType DEF TypeOK
  <2> HIDE DEF new
  <2>3. [cells[cur] EXCEPT !.status = new] \in Cell
    BY <2>1, <2>2 DEF Cell
  <2>4. PatchedCells = [cells EXCEPT ![cur] = [cells[cur] EXCEPT !.status = new]]
    BY DEF PatchedCells, new
  <2> QED
    BY <1>0, <2>3, <2>4 DEF TypeOK
<1>6. CASE PatchStatus
  <2>1. NeedsBackendRequeue \in BOOLEAN
    BY DEF NeedsBackendRequeue
  <2>2. CASE cells[cur] = NoObject
    BY <1>0, <1>6, <2>2, ReturnType DEF TypeOK, PatchStatus
  <2>3. CASE cells[cur] # NoObject
    BY <1>0, <1>6, <1>p, <2>1, <2>3, ReturnType DEF TypeOK, PatchStatus
  <2> QED
    BY <2>2, <2>3
<1>7. CASE PatchFailure
  BY <1>0, <1>7, <1>p, ReturnType DEF TypeOK, PatchFailure
<1>8. CASE DeleteEntrypointService
  <2> DEFINE next == IF snap.spec.tearDownOnDelete THEN "deleteNamespace" ELSE "removeFinalizer"
  <2>1. next \in Steps
    BY DEF Steps, DeletionSteps
  <2>2. GoTo(next)
    BY <1>8 DEF DeleteEntrypointService
  <2> HIDE DEF next
  <2> QED
    BY <1>0, <1>8, <2>1, <2>2, GoToType, ObjectsType DEF TypeOK, DeleteEntrypointService
<1>9. CASE DeleteNamespaceIfManaged
  <2> DEFINE n == EffectiveNamespace(cur, snap.spec)
             closed == [namespaces[n] EXCEPT !.phase = "Terminating"]
  <2>1. namespaces[n] # NoObject => closed \in NamespaceObject
    BY <1>0 DEF NamespaceObject, TypeOK
  <2>2. \/ namespaces' = namespaces
        \/ namespaces[n] # NoObject /\ namespaces' = [namespaces EXCEPT ![n] = closed]
    BY <1>9 DEF DeleteNamespaceIfManaged
  <2>3. namespaces' \in [Namespaces -> NamespaceObject \cup {NoObject}]
    BY <1>0, <2>1, <2>2 DEF TypeOK
  <2> QED
    BY <1>0, <1>9, <2>3, GoToType DEF TypeOK, DeleteNamespaceIfManaged, Steps, DeletionSteps
<1>10. CASE RemoveFinalizer
  <2>1. CASE cells[cur] = NoObject
    BY <1>0, <1>10, <2>1, ReturnType DEF TypeOK, RemoveFinalizer
  <2>2. CASE cells[cur] # NoObject
    <3>1. cells[cur] \in Cell
      BY <1>0, <2>2 DEF TypeOK
    <3>2. [cells[cur] EXCEPT !.finalizer = FALSE] \in Cell
      BY <3>1 DEF Cell
    <3>3. \/ cells' = [cells EXCEPT ![cur] = NoObject]
          \/ cells' = [cells EXCEPT ![cur] = [cells[cur] EXCEPT !.finalizer = FALSE]]
      BY <1>10, <2>2 DEF RemoveFinalizer
    <3>4. cells' \in [Cells -> Cell \cup {NoObject}]
      BY <1>0, <3>2, <3>3 DEF TypeOK
    <3> QED
      BY <1>0, <1>10, <2>2, <3>4, ReturnType DEF TypeOK, RemoveFinalizer
  <2> QED
    BY <2>1, <2>2
<1> QED
  BY <1>1, <1>2, <1>3, <1>4, <1>5, <1>6, <1>7, <1>8, <1>9, <1>10 DEF ReconcileStep

\* Informers keep the state well-typed.
LEMMA InformersType == TypeOK /\ Informers => TypeOK'
  BY DEF TypeOK, Informers, SyncCell, SyncNamespace, SyncObject, SyncEndpoints,
         OwnerRequests, RequestsForEndpointSlice, OwnedObject, OwnerRef,
         apiVars, workerVars, envVars

\* So do garbage collection, terminating namespaces and EndpointSlices.
LEMMA ClusterType == TypeOK /\ Cluster => TypeOK'
<1> SUFFICES ASSUME TypeOK, Cluster PROVE TypeOK'
  OBVIOUS
<1> USE DEF cacheVars, workerVars, envVars
<1>0. 0 \in 0..MaxEndpoints
  <2>1. MaxEndpoints \in Nat
    BY ConstantsAssumption
  <2> QED
    BY <2>1
<1>1. ASSUME NEW k \in ObjectKeys, GarbageCollect(k) PROVE TypeOK'
  BY <1>1 DEF TypeOK, GarbageCollect
<1>2. ASSUME NEW n \in Namespaces, NamespaceGone(n) PROVE TypeOK'
  <2>1. namespaces' \in [Namespaces -> NamespaceObject \cup {NoObject}]
    BY <1>2 DEF TypeOK, NamespaceGone
  <2>2. objects' \in [ObjectKeys -> OwnedObject \cup {NoObject}]
    BY <1>2 DEF TypeOK, NamespaceGone
  <2>3. endpoints' \in [ServiceKeys -> 0..MaxEndpoints]
    BY <1>0, <1>2 DEF TypeOK, NamespaceGone
  <2> QED
    BY <1>2, <2>1, <2>2, <2>3 DEF TypeOK, NamespaceGone
<1>3. ASSUME NEW k \in ServiceKeys, SlicesGone(k) PROVE TypeOK'
  BY <1>0, <1>3 DEF TypeOK, SlicesGone
<1> QED
  BY <1>1, <1>2, <1>3 DEF Cluster

\* So do users, faults and restarts.
LEMMA EnvironmentType == TypeOK /\ Environment => TypeOK'
<1> SUFFICES ASSUME TypeOK, Environment PROVE TypeOK'
  OBVIOUS
<1> USE DEF apiVars, cacheVars, workerVars, Undisturbed
<1>0. ASSUME NEW kind, Disturb(kind) PROVE disturbances' \in 0..MaxDisturbances
  <2>1. MaxDisturbances \in Nat
    BY ConstantsAssumption
  <2> QED
    BY <1>0, <2>1 DEF Disturb, TypeOK
<1>1. ASSUME NEW c \in Cells, NEW spec \in Specs, CreateCell(c, spec) PROVE TypeOK'
  <2> DEFINE new == [uid |-> uids[c] + 1, spec |-> spec, generation |-> 1, deleting |-> FALSE,
                     finalizer |-> FALSE, status |-> EmptyStatus]
  <2>1. spec \in CellSpec
    BY ConstantsAssumption
  <2>2. uids[c] \in Nat
    BY DEF TypeOK
  <2>3. uids[c] + 1 \in Nat
    BY <2>2
  <2>4. new \in Cell
    BY <2>1, <2>3, EmptyStatusType DEF Cell
  <2>5. cells' = [cells EXCEPT ![c] = new] /\ uids' = [uids EXCEPT ![c] = uids[c] + 1]
    BY <1>1 DEF CreateCell
  <2> HIDE DEF new
  <2>6. cells' \in [Cells -> Cell \cup {NoObject}] /\ uids' \in [Cells -> Nat]
    BY <2>3, <2>4, <2>5 DEF TypeOK
  <2> QED
    BY <1>0, <1>1, <2>6 DEF TypeOK, CreateCell
<1>2. ASSUME NEW c \in Cells, NEW spec \in Specs, EditCell(c, spec) PROVE TypeOK'
  <2> DEFINE new == [cells[c] EXCEPT !.spec = spec, !.generation = cells[c].generation + 1]
  <2>1. spec \in CellSpec /\ cells[c] \in Cell
    BY <1>2, ConstantsAssumption DEF TypeOK, EditCell
  <2>2. cells[c].generation + 1 \in Nat
    BY <2>1 DEF Cell
  <2>3. new \in Cell
    BY <2>1, <2>2 DEF Cell
  <2>4. cells' = [cells EXCEPT ![c] = new]
    BY <1>2 DEF EditCell
  <2> HIDE DEF new
  <2>5. cells' \in [Cells -> Cell \cup {NoObject}]
    BY <2>3, <2>4 DEF TypeOK
  <2> QED
    BY <1>0, <1>2, <2>5 DEF TypeOK, EditCell
<1>3. ASSUME NEW c \in Cells, DeleteCell(c) PROVE TypeOK'
  <2>1. cells[c] \in Cell
    BY <1>3 DEF TypeOK, DeleteCell
  <2> DEFINE new == [cells[c] EXCEPT !.deleting = TRUE, !.generation = cells[c].generation + 1]
  <2>g. cells[c].generation + 1 \in Nat
    BY <2>1 DEF Cell
  <2>2. new \in Cell
    BY <2>1, <2>g DEF Cell
  <2>3. \/ cells' = [cells EXCEPT ![c] = NoObject]
        \/ cells' = [cells EXCEPT ![c] = new]
    BY <1>3 DEF DeleteCell
  <2> HIDE DEF new
  <2>4. cells' \in [Cells -> Cell \cup {NoObject}]
    BY <2>2, <2>3 DEF TypeOK
  <2> QED
    BY <1>0, <1>3, <2>4 DEF TypeOK, DeleteCell
<1>4. ASSUME NEW n \in Namespaces, UserCreatesNamespace(n) PROVE TypeOK'
  <2>1. [cellName |-> "", phase |-> "Active", by |-> "user"] \in NamespaceObject
    BY DEF NamespaceObject
  <2> QED
    BY <1>0, <1>4, <2>1 DEF TypeOK, UserCreatesNamespace
<1>5. ASSUME NEW n \in Namespaces, UserDeletesNamespace(n) PROVE TypeOK'
  <2>1. [namespaces[n] EXCEPT !.phase = "Terminating"] \in NamespaceObject
    <3>1. namespaces[n] \in NamespaceObject
      BY <1>5 DEF TypeOK, UserDeletesNamespace, NamespaceOpen
    <3> QED BY <3>1 DEF NamespaceObject
  <2>2. namespaces' = [namespaces EXCEPT ![n] = [namespaces[n] EXCEPT !.phase = "Terminating"]]
    BY <1>5 DEF UserDeletesNamespace
  <2>3. namespaces' \in [Namespaces -> NamespaceObject \cup {NoObject}]
    BY <2>1, <2>2 DEF TypeOK
  <2> QED
    BY <1>0, <1>5, <2>3 DEF TypeOK, UserDeletesNamespace
<1>6. ASSUME NEW k \in TouchedKeys, UserCreatesObject(k) \/ UserDeletesObject(k) PROVE TypeOK'
  <2>1. k \in ObjectKeys
    BY ConstantsAssumption DEF ObjectKeys
  <2>2. [owner |-> NoOwner, by |-> "user"] \in OwnedObject
    BY DEF OwnedObject
  <2> QED
    BY <1>0, <1>6, <2>1, <2>2 DEF TypeOK, UserCreatesObject, UserDeletesObject
<1>7. ASSUME NEW k \in ServiceKeys, NEW n \in 0..MaxEndpoints, EndpointsChange(k, n)
      PROVE TypeOK'
  BY <1>0, <1>7 DEF TypeOK, EndpointsChange
<1>8. CASE CallFails
  <2>1. CASE Failed
    BY <1>0, <1>8, <2>1, FailedType DEF TypeOK, CallFails
  <2>2. CASE Return(TRUE)
    BY <1>0, <1>8, <2>2, ReturnType DEF TypeOK, CallFails
  <2> QED
    BY <1>8, <2>1, <2>2 DEF CallFails
<1>9. CASE Restart
  BY <1>0, <1>9, EmptyStatusType DEF TypeOK, Restart, Steps
<1> QED
  BY <1>1, <1>2, <1>3, <1>4, <1>5, <1>6, <1>7, <1>8, <1>9 DEF Environment

\* Taking a key from the queue keeps the state well-typed.
LEMMA StartReconcileType ==
  ASSUME TypeOK, NEW c \in Cells, StartReconcile(c)
  PROVE  TypeOK'
<1> USE DEF apiVars, cacheVars, workerVars, envVars
<1>1. CASE cCells[c] = NoObject
  BY <1>1 DEF TypeOK, StartReconcile
<1>2. CASE cCells[c] # NoObject
  <2>1. cCells[c] \in Cell /\ cCells[c].status \in CellStatus
    BY <1>2, PartTypes DEF TypeOK
  <2>2. pc' \in {"deleteService", "addFinalizer", "namespace"}
    BY <1>2 DEF StartReconcile
  <2>3. pc' \in Steps
    BY <2>2 DEF Steps, NormalSteps, DeletionSteps
  <2> QED
    BY <1>2, <2>1, <2>3 DEF TypeOK, StartReconcile
<1> QED
  BY <1>1, <1>2

\* Every step keeps the state well-typed.
LEMMA TypeStep == TypeOK /\ [Next]_vars => TypeOK'
<1>1. TypeOK /\ UNCHANGED vars => TypeOK'
  BY DEF TypeOK, vars, apiVars, cacheVars, workerVars, envVars
<1> QED
  BY <1>1, StartReconcileType, ReconcileStepType, InformersType, ClusterType, EnvironmentType
  DEF Next

\* The reconciler's state, its caches and the objects it manages always have the
\* types the code declares, whatever the constants.
THEOREM TypeCorrect == Spec => []TypeOK
  BY TypeInit, TypeStep, PTL DEF Spec

-----------------------------------------------------------------------------
(* The finalizer protocol.                                                 *)

PinInv ==
  /\ DeletingHasFinalizer
  /\ CacheUnderFinalizer
  /\ FinalizesOnlyDeleted
  /\ FinalizerPinsPass

\* A status patch changes nothing but the status of one Cell, and the conditions
\* it leaves are the ones the server had or the ones the pass computed.
LEMMA PatchedFrame ==
  ASSUME TypeOK, cur \in Cells, snap \in Cell, cells[cur] # NoObject
  PROVE  /\ \A c \in Cells :
              /\ PatchedCells[c] = NoObject <=> cells[c] = NoObject
              /\ PatchedCells[c].uid = cells[c].uid
              /\ PatchedCells[c].spec = cells[c].spec
              /\ PatchedCells[c].generation = cells[c].generation
              /\ PatchedCells[c].deleting = cells[c].deleting
              /\ PatchedCells[c].finalizer = cells[c].finalizer
              /\ c # cur => PatchedCells[c] = cells[c]
         /\ \/ PatchedCells[cur].status.conditions = cells[cur].status.conditions
            \/ PatchedCells[cur].status.conditions = status.conditions
<1> DEFINE new == MergePatch(cells[cur].status, snap.status, status)
           patched == [cells[cur] EXCEPT !.status = new]
<1>1. cells[cur] \in Cell /\ cells[cur].status \in CellStatus /\ snap.status \in CellStatus
  BY PartTypes DEF TypeOK
<1>2. new \in CellStatus
  BY <1>1, MergePatchType DEF TypeOK
<1>3. \/ new.conditions = cells[cur].status.conditions
      \/ new.conditions = status.conditions
  BY DEF MergePatch
<1> HIDE DEF new
<1>4. /\ patched \in Cell
      /\ patched.uid = cells[cur].uid /\ patched.spec = cells[cur].spec
      /\ patched.generation = cells[cur].generation
      /\ patched.deleting = cells[cur].deleting
      /\ patched.finalizer = cells[cur].finalizer
      /\ patched.status = new
  BY <1>1, <1>2 DEF Cell
<1>5. patched # NoObject
  BY <1>4, SentinelsAssumption
<1> HIDE DEF patched
<1>6. PatchedCells = [cells EXCEPT ![cur] = patched]
  BY DEF PatchedCells, patched, new
<1>7. \A c \in Cells : PatchedCells[c] = IF c = cur THEN patched ELSE cells[c]
  BY <1>6 DEF TypeOK
<1> QED
  BY <1>3, <1>4, <1>5, <1>7

\* A step that leaves the Cells and their cache alone, and the worker on the same
\* path or idle, keeps the protocol's invariant.
LEMMA PinFrame ==
  ASSUME PinInv, UNCHANGED <<cells, cCells>>,
         \/ pc' = "idle"
         \/ /\ UNCHANGED <<cur, snap>>
            /\ pc' \in NormalSteps => pc \in NormalSteps
            /\ pc' \in DeletionSteps => pc \in DeletionSteps
            /\ pc' = "addFinalizer" => pc = "addFinalizer"
  PROVE  PinInv'
  BY DEF PinInv, DeletingHasFinalizer, CacheUnderFinalizer, FinalizesOnlyDeleted,
         FinalizerPinsPass, Reserved, Live, NormalSteps, DeletionSteps, PolicyKinds

\* The same for a step that changes no more of the Cells than a status.
LEMMA PinPatched ==
  ASSUME PinInv, TypeOK, pc \in NormalSteps, cells[cur] # NoObject,
         cells' = PatchedCells, UNCHANGED cCells, pc' = "idle"
  PROVE  PinInv'
<1>1. cur \in Cells /\ snap \in Cell
  BY DEF TypeOK, NormalSteps, PolicyKinds
<1> QED
  BY <1>1, PatchedFrame
  DEF PinInv, DeletingHasFinalizer, CacheUnderFinalizer, FinalizesOnlyDeleted,
      FinalizerPinsPass, Reserved, Live, NormalSteps, DeletionSteps, PolicyKinds

\* The steps of a pass keep the protocol's invariant.
LEMMA PinReconcileStep == TypeOK /\ PinInv /\ ReconcileStep => PinInv'
<1> SUFFICES ASSUME TypeOK, PinInv, ReconcileStep PROVE PinInv'
  OBVIOUS
<1> USE DEF apiVars, cacheVars, envVars
<1>n. /\ {"namespace", "service", "endpoints", "patchStatus", "patchFailure"} \subseteq NormalSteps
      /\ PolicyKinds \subseteq NormalSteps
      /\ {"deleteService", "deleteNamespace", "removeFinalizer"} = DeletionSteps
      /\ "idle" \notin NormalSteps \cup DeletionSteps /\ "addFinalizer" \notin NormalSteps
      /\ NormalSteps \cap DeletionSteps = {} /\ "addFinalizer" \notin DeletionSteps
  BY DEF NormalSteps, DeletionSteps, PolicyKinds
<1>1. CASE EnsureFinalizer
  <2>0. pc = "addFinalizer" /\ cur \in Cells
    BY <1>1 DEF EnsureFinalizer, TypeOK
  <2>1. CASE cells[cur] = NoObject
    BY <1>1, <2>1, PinFrame DEF EnsureFinalizer, Return
  <2>2. CASE cells[cur] # NoObject
    <3> DEFINE new == [cells[cur] EXCEPT !.finalizer = TRUE]
    <3>1. cells[cur] \in Cell
      BY <2>0, <2>2 DEF TypeOK
    <3>2. /\ new \in Cell /\ new.uid = cells[cur].uid /\ new.finalizer
          /\ new.deleting = cells[cur].deleting
      BY <3>1 DEF Cell
    <3>3. new # NoObject
      BY <3>2, SentinelsAssumption
    <3>4. cells' = [cells EXCEPT ![cur] = new] /\ snap' = cells'[cur]
          /\ pc' = "namespace" /\ cur' = cur /\ cCells' = cCells
      BY <1>1, <2>2 DEF EnsureFinalizer
    <3> HIDE DEF new
    <3>5. \A c \in Cells : cells'[c] = IF c = cur THEN new ELSE cells[c]
      BY <3>4 DEF TypeOK
    <3>6. DeletingHasFinalizer'
      BY <3>2, <3>4, <3>5 DEF PinInv, DeletingHasFinalizer
    <3>7. CacheUnderFinalizer'
      BY <2>2, <3>2, <3>3, <3>4, <3>5 DEF PinInv, CacheUnderFinalizer, Live
    <3>8. FinalizesOnlyDeleted'
      BY <1>n, <2>0, <3>2, <3>4, <3>5 DEF PinInv, FinalizesOnlyDeleted, Reserved, Live
    <3>9. FinalizerPinsPass'
      BY <2>0, <3>2, <3>3, <3>4, <3>5 DEF FinalizerPinsPass, Live
    <3> QED
      BY <3>6, <3>7, <3>8, <3>9 DEF PinInv
  <2> QED
    BY <2>1, <2>2
<1>2. CASE ReconcileNamespace
  BY <1>2, <1>n, PinFrame DEF ReconcileNamespace, Failed, GoTo
<1>3. CASE ReconcileService
  BY <1>3, <1>n, PinFrame DEF ReconcileService, Failed, GoTo
<1>4. ASSUME NEW kind \in PolicyKinds, ReconcilePolicy(kind) PROVE PinInv'
  <2>1. pc \in NormalSteps /\ UNCHANGED <<cells, cCells, cur, snap>>
    BY <1>4, <1>n DEF ReconcilePolicy, Failed, GoTo
  <2>2. pc' \in {"LimitRange", "NetworkPolicy", "endpoints", "patchFailure"}
    BY <1>4 DEF ReconcilePolicy, Failed, GoTo, PolicyKinds
  <2>3. pc' \in NormalSteps
    BY <2>2 DEF NormalSteps, PolicyKinds
  <2> QED
    BY <1>n, <2>1, <2>3, PinFrame
<1>5. CASE CountReadyEndpoints
  BY <1>5, <1>n, PinFrame DEF CountReadyEndpoints, GoTo
<1>6. CASE PatchStatus
  <2>1. CASE cells[cur] = NoObject
    BY <1>6, <2>1, PinFrame DEF PatchStatus, Return
  <2>2. CASE cells[cur] # NoObject
    BY <1>6, <1>n, <2>2, PinPatched DEF PatchStatus, Return
  <2> QED
    BY <2>1, <2>2
<1>7. CASE PatchFailure
  <2>1. CASE cells[cur] = NoObject
    BY <1>7, <2>1, PinFrame DEF PatchFailure, Return
  <2>2. CASE cells[cur] # NoObject
    BY <1>7, <1>n, <2>2, PinPatched DEF PatchFailure, Return
  <2> QED
    BY <2>1, <2>2
<1>8. CASE DeleteEntrypointService
  BY <1>8, <1>n, PinFrame DEF DeleteEntrypointService, GoTo
<1>9. CASE DeleteNamespaceIfManaged
  BY <1>9, <1>n, PinFrame DEF DeleteNamespaceIfManaged, GoTo
<1>10. CASE RemoveFinalizer
  <2>0. pc = "removeFinalizer" /\ cur \in Cells /\ pc \in DeletionSteps
    BY <1>10, <1>n DEF RemoveFinalizer, TypeOK
  <2>1. CASE cells[cur] = NoObject
    BY <1>10, <2>1, PinFrame DEF RemoveFinalizer, Return
  <2>2. CASE cells[cur] # NoObject /\ cells[cur].deleting
    <3>1. cells' = [cells EXCEPT ![cur] = NoObject] /\ pc' = "idle" /\ cCells' = cCells
      BY <1>10, <2>2 DEF RemoveFinalizer, Return
    <3>2. \A c \in Cells : cells'[c] = IF c = cur THEN NoObject ELSE cells[c]
      BY <3>1 DEF TypeOK
    <3>3. ~Reserved(cCells[cur])
      BY <2>0 DEF PinInv, FinalizesOnlyDeleted
    <3> QED
      BY <1>n, <2>0, <3>1, <3>2, <3>3
      DEF PinInv, DeletingHasFinalizer, CacheUnderFinalizer, FinalizesOnlyDeleted,
          FinalizerPinsPass, Reserved, Live
  <2>3. CASE cells[cur] # NoObject /\ ~cells[cur].deleting
    <3>1. cells[cur] \in Cell /\ cells[cur].finalizer \in BOOLEAN /\ ~cells[cur].finalizer
      BY <2>0, <2>3, PartTypes DEF PinInv, FinalizesOnlyDeleted, Reserved, TypeOK
    <3>2. [cells[cur] EXCEPT !.finalizer = FALSE] = cells[cur]
      BY <3>1 DEF Cell
    <3>3. cells' = [cells EXCEPT ![cur] = [cells[cur] EXCEPT !.finalizer = FALSE]]
          /\ pc' = "idle" /\ cCells' = cCells
      BY <1>10, <2>3 DEF RemoveFinalizer, Return
    <3>4. cells' = cells
      BY <3>2, <3>3 DEF TypeOK
    <3> QED
      BY <3>3, <3>4, PinFrame
  <2> QED
    BY <2>1, <2>2, <2>3
<1> QED
  BY <1>1, <1>2, <1>3, <1>4, <1>5, <1>6, <1>7, <1>8, <1>9, <1>10 DEF ReconcileStep

\* Taking a key from the queue: the cached copy decides the path.
LEMMA PinStart ==
  ASSUME TypeOK, PinInv, NEW c \in Cells, StartReconcile(c)
  PROVE  PinInv'
<1> USE DEF apiVars, cacheVars, workerVars
<1>n. /\ "namespace" \in NormalSteps /\ "deleteService" \in DeletionSteps
      /\ NormalSteps \cap {"idle", "addFinalizer", "deleteService"} = {}
      /\ DeletionSteps \cap {"idle", "addFinalizer", "namespace"} = {}
  BY DEF NormalSteps, DeletionSteps, PolicyKinds
<1>1. CASE cCells[c] = NoObject
  BY <1>1, PinFrame DEF StartReconcile
<1>2. CASE cCells[c] # NoObject
  <2>1. UNCHANGED <<cells, cCells>> /\ cur' = c /\ snap' = cCells[c]
    BY <1>2 DEF StartReconcile
  <2>2. cCells[c].deleting \in BOOLEAN /\ cCells[c].finalizer \in BOOLEAN
    BY <1>2, PartTypes DEF TypeOK
  <2>3. \/ pc' = "deleteService" /\ cCells[c].deleting
        \/ pc' = "addFinalizer" /\ ~cCells[c].deleting
        \/ pc' = "namespace" /\ ~cCells[c].deleting /\ cCells[c].finalizer
    BY <1>2, <2>2 DEF StartReconcile
  <2>4. FinalizesOnlyDeleted'
    BY <1>n, <1>2, <2>1, <2>3 DEF PinInv, FinalizesOnlyDeleted, Reserved
  <2>5. FinalizerPinsPass'
    BY <1>n, <1>2, <2>1, <2>3 DEF PinInv, CacheUnderFinalizer, FinalizerPinsPass, Live
  <2> QED
    BY <2>1, <2>4, <2>5 DEF PinInv, DeletingHasFinalizer, CacheUnderFinalizer, Live
<1> QED
  BY <1>1, <1>2

\* Informers: a cache that takes over the server's version agrees with it.
LEMMA PinInformers == TypeOK /\ PinInv /\ Informers => PinInv'
<1> SUFFICES ASSUME TypeOK, PinInv, Informers PROVE PinInv'
  OBVIOUS
<1> USE DEF apiVars, workerVars
<1>1. ASSUME NEW c \in Cells, SyncCell(c) PROVE PinInv'
  <2>1. \A d \in Cells : cCells'[d] = IF d = c THEN cells[c] ELSE cCells[d]
    BY <1>1 DEF SyncCell, TypeOK
  <2>2. UNCHANGED <<cells, pc, cur, snap>>
    BY <1>1 DEF SyncCell
  <2>3. pc \in NormalSteps \cup DeletionSteps \cup {"addFinalizer"} => cur \in Cells
    BY DEF TypeOK, NormalSteps, DeletionSteps, PolicyKinds
  <2>4. \A d \in Cells : cells[d] # NoObject =>
          cells[d].deleting \in BOOLEAN /\ cells[d].finalizer \in BOOLEAN
    BY PartTypes DEF TypeOK
  <2>5. DeletingHasFinalizer' /\ CacheUnderFinalizer'
    BY <2>1, <2>2 DEF PinInv, DeletingHasFinalizer, CacheUnderFinalizer, Live
  <2>6. FinalizesOnlyDeleted'
    BY <2>1, <2>2, <2>3, <2>4 DEF PinInv, FinalizesOnlyDeleted, Reserved, Live
  <2>7. FinalizerPinsPass'
    BY <2>2 DEF PinInv, FinalizerPinsPass, Live
  <2> QED
    BY <2>5, <2>6, <2>7 DEF PinInv
<1>2. CASE \/ \E n \in Namespaces : SyncNamespace(n)
           \/ \E k \in ObjectKeys : SyncObject(k)
           \/ \E k \in ServiceKeys : SyncEndpoints(k)
  BY <1>2, PinFrame DEF SyncNamespace, SyncObject, SyncEndpoints
<1> QED
  BY <1>1, <1>2 DEF Informers

\* Users, faults and restarts.
LEMMA PinEnvironment == TypeOK /\ PinInv /\ Environment => PinInv'
<1> SUFFICES ASSUME TypeOK, PinInv, Environment PROVE PinInv'
  OBVIOUS
<1> USE DEF apiVars, cacheVars, workerVars, Undisturbed
<1>n. NormalSteps \cap {"idle", "addFinalizer"} = {} /\ DeletionSteps \cap {"idle"} = {}
      /\ "patchFailure" \in NormalSteps /\ "patchFailure" \notin DeletionSteps
      /\ {"namespace", "service", "endpoints"} \cup PolicyKinds \subseteq NormalSteps
  BY DEF NormalSteps, DeletionSteps, PolicyKinds
<1>t. pc \in NormalSteps \cup DeletionSteps \cup {"addFinalizer"} => cur \in Cells
  BY DEF TypeOK, NormalSteps, DeletionSteps, PolicyKinds
<1>1. ASSUME NEW c \in Cells, NEW spec \in Specs, CreateCell(c, spec) PROVE PinInv'
  <2> DEFINE new == [uid |-> uids[c] + 1, spec |-> spec, generation |-> 1, deleting |-> FALSE,
                     finalizer |-> FALSE, status |-> EmptyStatus]
  <2>1. cells[c] = NoObject /\ UNCHANGED <<cCells, pc, cur, snap>>
    BY <1>1 DEF CreateCell
  <2>2. ~new.deleting /\ ~new.finalizer
    OBVIOUS
  <2>3. cells' = [cells EXCEPT ![c] = new]
    BY <1>1 DEF CreateCell
  <2> HIDE DEF new
  <2>4. \A d \in Cells : cells'[d] = IF d = c THEN new ELSE cells[d]
    BY <2>3 DEF TypeOK
  <2> QED
    BY <1>t, <2>1, <2>2, <2>4
    DEF PinInv, DeletingHasFinalizer, CacheUnderFinalizer, FinalizesOnlyDeleted,
        FinalizerPinsPass, Reserved, Live
<1>2. ASSUME NEW c \in Cells, NEW spec \in Specs, EditCell(c, spec) PROVE PinInv'
  <2> DEFINE new == [cells[c] EXCEPT !.spec = spec, !.generation = cells[c].generation + 1]
  <2>1. cells[c] # NoObject /\ UNCHANGED <<cCells, pc, cur, snap>>
    BY <1>2 DEF EditCell
  <2>2. cells[c] \in Cell
    BY <2>1 DEF TypeOK
  <2>3. /\ new.uid = cells[c].uid /\ new.deleting = cells[c].deleting
        /\ new.finalizer = cells[c].finalizer
    BY <2>2 DEF Cell
  <2>4. cells' = [cells EXCEPT ![c] = new]
    BY <1>2 DEF EditCell
  <2> HIDE DEF new
  <2>5. \A d \in Cells : cells'[d] = IF d = c THEN new ELSE cells[d]
    BY <2>4 DEF TypeOK
  <2>6. new # NoObject
    <3>1. spec \in CellSpec
      BY ConstantsAssumption
    <3>2. cells[c].generation + 1 \in Nat
      BY <2>2 DEF Cell
    <3>3. new \in Cell
      BY <2>2, <3>1, <3>2 DEF Cell, new
    <3> QED
      BY <3>3, SentinelsAssumption
  <2> QED
    BY <1>t, <2>1, <2>3, <2>5, <2>6
    DEF PinInv, DeletingHasFinalizer, CacheUnderFinalizer, FinalizesOnlyDeleted,
        FinalizerPinsPass, Reserved, Live
<1>3. ASSUME NEW c \in Cells, DeleteCell(c) PROVE PinInv'
  <2>1. cells[c] # NoObject /\ ~cells[c].deleting /\ UNCHANGED <<cCells, pc, cur, snap>>
    BY <1>3 DEF DeleteCell
  <2>2. cells[c] \in Cell
    BY <2>1 DEF TypeOK
  <2> DEFINE new == [cells[c] EXCEPT !.deleting = TRUE, !.generation = cells[c].generation + 1]
  <2>g. cells[c].generation + 1 \in Nat
    BY <2>2 DEF Cell
  <2>3. new \in Cell /\ new.uid = cells[c].uid /\ new.deleting /\ new.finalizer = cells[c].finalizer
    BY <2>2, <2>g DEF Cell
  <2>4. new # NoObject
    BY <2>3, SentinelsAssumption
  <2>5. cells' = [cells EXCEPT ![c] = IF cells[c].finalizer THEN new ELSE NoObject]
    BY <1>3 DEF DeleteCell
  <2> HIDE DEF new
  <2>6. \A d \in Cells : cells'[d] = IF d # c THEN cells[d]
                                     ELSE IF cells[c].finalizer THEN new ELSE NoObject
    BY <2>5 DEF TypeOK
  <2> QED
    BY <1>t, <2>1, <2>3, <2>4, <2>6
    DEF PinInv, DeletingHasFinalizer, CacheUnderFinalizer, FinalizesOnlyDeleted,
        FinalizerPinsPass, Reserved, Live
<1>4. CASE \/ \E n \in Namespaces : UserCreatesNamespace(n) \/ UserDeletesNamespace(n)
           \/ \E k \in TouchedKeys : UserCreatesObject(k) \/ UserDeletesObject(k)
           \/ \E k \in ServiceKeys, n \in 0..MaxEndpoints : EndpointsChange(k, n)
  BY <1>4, PinFrame
  DEF UserCreatesNamespace, UserDeletesNamespace, UserCreatesObject, UserDeletesObject,
      EndpointsChange
<1>5. CASE CallFails
  BY <1>5, <1>n, PinFrame DEF CallFails, Failed, GoTo, Return
<1>6. CASE Restart
  <2>1. cells' = cells /\ cCells' = cells /\ pc' = "idle"
    BY <1>6 DEF Restart
  <2> QED
    BY <1>n, <2>1
    DEF PinInv, DeletingHasFinalizer, CacheUnderFinalizer, FinalizesOnlyDeleted,
        FinalizerPinsPass, Reserved, Live
<1> QED
  BY <1>1, <1>2, <1>3, <1>4, <1>5, <1>6 DEF Environment

\* Every step keeps the protocol's invariant.
LEMMA PinStep == TypeOK /\ PinInv /\ [Next]_vars => PinInv'
<1> SUFFICES ASSUME TypeOK, PinInv, [Next]_vars PROVE PinInv'
  OBVIOUS
<1>1. CASE UNCHANGED vars
  BY <1>1, PinFrame DEF vars, apiVars, cacheVars, workerVars
<1>2. CASE Cluster
  BY <1>2, PinFrame
  DEF Cluster, GarbageCollect, NamespaceGone, SlicesGone, cacheVars, workerVars
<1> QED
  BY <1>1, <1>2, PinStart, PinReconcileStep, PinInformers, PinEnvironment DEF Next

\* No Cell exists at first and the worker is idle.
LEMMA PinInit == Init => PinInv
  BY DEF Init, PinInv, DeletingHasFinalizer, CacheUnderFinalizer, FinalizesOnlyDeleted,
         FinalizerPinsPass, NormalSteps, DeletionSteps, PolicyKinds

\* The finalizer that ensureFinalizer writes pins the Cell for the whole pass, for
\* any number of Cells, edits, failed calls and restarts.
THEOREM PassPinned == Spec => []FinalizerPinsPass
<1>1. Init => TypeOK /\ PinInv
  BY TypeInit, PinInit
<1>2. TypeOK /\ PinInv /\ [Next]_vars => (TypeOK /\ PinInv)'
  BY TypeStep, PinStep
<1>3. PinInv => FinalizerPinsPass
  BY DEF PinInv
<1> QED
  BY <1>1, <1>2, <1>3, PTL DEF Spec

-----------------------------------------------------------------------------
(* How a Cell on the API server may change in one step.                    *)

Created(c) ==
  /\ cells[c] = NoObject /\ cells'[c].uid = uids[c] + 1 /\ uids'[c] = uids[c] + 1
  /\ cells'[c].status = EmptyStatus

Kept(c) ==
  /\ cells[c] # NoObject /\ cells'[c].uid = cells[c].uid
  /\ cells[c].finalizer => cells'[c].finalizer
  /\ EarlierVersion(cells[c], cells'[c])
  /\ \/ cells'[c].status.conditions = cells[c].status.conditions
     \/ /\ c = cur /\ pc \in NormalSteps
        /\ cells'[c].status.conditions = status.conditions
        /\ cells'[c].spec = cells[c].spec /\ cells'[c].generation = cells[c].generation

CellsEvolve ==
  /\ \A c \in Cells : cells'[c] # NoObject => Created(c) \/ Kept(c)
  /\ \A c \in Cells : uids[c] <= uids'[c]

\* A step that leaves the Cells alone.
LEMMA EvolveFrame ==
  ASSUME TypeOK, UNCHANGED <<cells, uids>>
  PROVE  CellsEvolve
<1>1. \A c \in Cells : cells[c] # NoObject => cells[c].generation \in Nat
  BY PartTypes DEF TypeOK
<1> QED
  BY <1>1 DEF CellsEvolve, Kept, EarlierVersion, TypeOK

\* A status patch.
LEMMA EvolvePatched ==
  ASSUME TypeOK, pc \in NormalSteps, cells[cur] # NoObject,
         cells' = PatchedCells, UNCHANGED uids
  PROVE  CellsEvolve
<1>1. cur \in Cells /\ snap \in Cell
  BY DEF TypeOK, NormalSteps, PolicyKinds
<1>2. \A c \in Cells : cells[c] # NoObject => cells[c].generation \in Nat
  BY PartTypes DEF TypeOK
<1> QED
  BY <1>1, <1>2, PatchedFrame DEF CellsEvolve, Kept, EarlierVersion, TypeOK

\* A step that replaces one Cell by another version of it, or removes it.
LEMMA EvolveOne ==
  ASSUME TypeOK, NEW c \in Cells, NEW new, cells' = [cells EXCEPT ![c] = new],
         UNCHANGED uids,
         \/ new = NoObject
         \/ /\ cells[c] # NoObject /\ new.uid = cells[c].uid
            /\ cells[c].finalizer => new.finalizer
            /\ EarlierVersion(cells[c], new)
            /\ new.status = cells[c].status
  PROVE  CellsEvolve
<1>1. \A d \in Cells : cells[d] # NoObject => cells[d].generation \in Nat
  BY PartTypes DEF TypeOK
<1>2. \A d \in Cells : cells'[d] = IF d = c THEN new ELSE cells[d]
  BY DEF TypeOK
<1>3. \A d \in Cells : uids[d] <= uids'[d]
  BY DEF TypeOK
<1>4. ASSUME NEW d \in Cells, cells'[d] # NoObject PROVE Kept(d)
  <2>1. CASE d = c
    BY <1>2, <1>4, <2>1 DEF Kept
  <2>2. CASE d # c
    BY <1>1, <1>2, <1>4, <2>2 DEF Kept, EarlierVersion
  <2> QED
    BY <2>1, <2>2
<1> QED
  BY <1>3, <1>4 DEF CellsEvolve

\* Every step lets a Cell go, creates it under a fresh UID, or keeps its UID, its
\* finalizer and the order of its generations.
LEMMA Evolves == TypeOK /\ PinInv /\ [Next]_vars => CellsEvolve
<1> SUFFICES ASSUME TypeOK, PinInv, [Next]_vars PROVE CellsEvolve
  OBVIOUS
<1> USE DEF apiVars, cacheVars, workerVars, envVars, Undisturbed
<1>n. "patchStatus" \in NormalSteps /\ "patchFailure" \in NormalSteps
      /\ "removeFinalizer" \in DeletionSteps
  BY DEF NormalSteps, DeletionSteps
<1>t. \A c \in Cells : cells[c] # NoObject =>
        cells[c] \in Cell /\ cells[c].generation \in Nat /\ cells[c].finalizer \in BOOLEAN
  BY PartTypes DEF TypeOK
<1>1. CASE \/ UNCHANGED vars \/ \E c \in Cells : StartReconcile(c)
           \/ Informers \/ Cluster
  <2>1. UNCHANGED <<cells, uids>>
    BY <1>1
    DEF vars, StartReconcile, Informers, SyncCell, SyncNamespace, SyncObject, SyncEndpoints,
        Cluster, GarbageCollect, NamespaceGone, SlicesGone
  <2> QED
    BY <2>1, EvolveFrame
<1>2. CASE EnsureFinalizer
  <2>1. CASE cells[cur] = NoObject
    BY <1>2, <2>1, EvolveFrame DEF EnsureFinalizer
  <2>2. CASE cells[cur] # NoObject
    <3> DEFINE new == [cells[cur] EXCEPT !.finalizer = TRUE]
    <3>1. cur \in Cells
      BY <1>2 DEF EnsureFinalizer, TypeOK
    <3>2. new.uid = cells[cur].uid /\ new.finalizer /\ new.status = cells[cur].status
          /\ new.generation = cells[cur].generation /\ new.spec = cells[cur].spec
      BY <1>t, <2>2, <3>1 DEF Cell
    <3>3. cells' = [cells EXCEPT ![cur] = new] /\ UNCHANGED uids
      BY <1>2, <2>2 DEF EnsureFinalizer
    <3>4. EarlierVersion(cells[cur], new)
      BY <1>t, <2>2, <3>1, <3>2 DEF EarlierVersion
    <3> HIDE DEF new
    <3> QED
      BY <2>2, <3>1, <3>2, <3>3, <3>4, EvolveOne
  <2> QED
    BY <2>1, <2>2
<1>3. CASE \/ ReconcileNamespace \/ ReconcileService \/ CountReadyEndpoints
           \/ \E kind \in PolicyKinds : ReconcilePolicy(kind)
           \/ DeleteEntrypointService \/ DeleteNamespaceIfManaged
  <2>1. UNCHANGED <<cells, uids>>
    BY <1>3
    DEF ReconcileNamespace, ReconcileService, CountReadyEndpoints, ReconcilePolicy,
        DeleteEntrypointService, DeleteNamespaceIfManaged
  <2> QED
    BY <2>1, EvolveFrame
<1>4. CASE PatchStatus \/ PatchFailure
  <2>1. CASE cells[cur] = NoObject
    BY <1>4, <2>1, EvolveFrame DEF PatchStatus, PatchFailure
  <2>2. CASE cells[cur] # NoObject
    BY <1>n, <1>4, <2>2, EvolvePatched DEF PatchStatus, PatchFailure
  <2> QED
    BY <2>1, <2>2
<1>5. CASE RemoveFinalizer
  <2>0. cur \in Cells /\ pc \in DeletionSteps /\ UNCHANGED uids
    BY <1>n, <1>5 DEF RemoveFinalizer, TypeOK
  <2>1. CASE cells[cur] = NoObject
    BY <1>5, <2>1, EvolveFrame DEF RemoveFinalizer
  <2>2. CASE cells[cur] # NoObject /\ cells[cur].deleting
    BY <1>5, <2>0, <2>2, EvolveOne DEF RemoveFinalizer
  <2>3. CASE cells[cur] # NoObject /\ ~cells[cur].deleting
    <3> DEFINE new == [cells[cur] EXCEPT !.finalizer = FALSE]
    <3>1. ~cells[cur].finalizer
      BY <2>0, <2>3 DEF PinInv, FinalizesOnlyDeleted, Reserved
    <3>2. new.uid = cells[cur].uid /\ new.status = cells[cur].status
          /\ new.generation = cells[cur].generation /\ new.spec = cells[cur].spec
      BY <1>t, <2>0, <2>3 DEF Cell
    <3>3. cells' = [cells EXCEPT ![cur] = new]
      BY <1>5, <2>3 DEF RemoveFinalizer
    <3>4. EarlierVersion(cells[cur], new)
      BY <1>t, <2>0, <2>3, <3>2 DEF EarlierVersion
    <3> HIDE DEF new
    <3> QED
      BY <2>0, <2>3, <3>1, <3>2, <3>3, <3>4, EvolveOne
  <2> QED
    BY <2>1, <2>2, <2>3
<1>6. ASSUME NEW c \in Cells, NEW spec \in Specs, CreateCell(c, spec) PROVE CellsEvolve
  <2> DEFINE new == [uid |-> uids[c] + 1, spec |-> spec, generation |-> 1, deleting |-> FALSE,
                     finalizer |-> FALSE, status |-> EmptyStatus]
  <2>1. new.uid = uids[c] + 1 /\ new.status = EmptyStatus
    OBVIOUS
  <2>2. cells[c] = NoObject /\ cells' = [cells EXCEPT ![c] = new]
        /\ uids' = [uids EXCEPT ![c] = uids[c] + 1]
    BY <1>6 DEF CreateCell
  <2> HIDE DEF new
  <2>3. \A d \in Cells : /\ cells'[d] = IF d = c THEN new ELSE cells[d]
                         /\ uids'[d] = IF d = c THEN uids[c] + 1 ELSE uids[d]
                         /\ uids[d] \in Nat
    BY <2>2 DEF TypeOK
  <2>4. \A d \in Cells : uids[d] <= uids'[d]
    BY <2>3
  <2>5. Created(c)
    BY <2>1, <2>2, <2>3 DEF Created
  <2>6. \A d \in Cells \ {c} : cells'[d] # NoObject => Kept(d)
    BY <1>t, <2>3 DEF Kept, EarlierVersion
  <2> QED
    BY <2>4, <2>5, <2>6 DEF CellsEvolve
<1>7. ASSUME NEW c \in Cells, NEW spec \in Specs, EditCell(c, spec) PROVE CellsEvolve
  <2> DEFINE new == [cells[c] EXCEPT !.spec = spec, !.generation = cells[c].generation + 1]
  <2>1. cells[c] # NoObject /\ cells' = [cells EXCEPT ![c] = new] /\ UNCHANGED uids
    BY <1>7 DEF EditCell
  <2>2. new.uid = cells[c].uid /\ new.finalizer = cells[c].finalizer
        /\ new.status = cells[c].status /\ new.generation = cells[c].generation + 1
    BY <1>t, <2>1 DEF Cell
  <2>3. EarlierVersion(cells[c], new)
    BY <1>t, <2>1, <2>2 DEF EarlierVersion
  <2> HIDE DEF new
  <2> QED
    BY <2>1, <2>2, <2>3, EvolveOne
<1>8. ASSUME NEW c \in Cells, DeleteCell(c) PROVE CellsEvolve
  <2> DEFINE new == [cells[c] EXCEPT !.deleting = TRUE, !.generation = cells[c].generation + 1]
  <2>1. cells[c] # NoObject /\ UNCHANGED uids
        /\ cells' = [cells EXCEPT ![c] = IF cells[c].finalizer THEN new ELSE NoObject]
    BY <1>8 DEF DeleteCell
  <2>2. new.uid = cells[c].uid /\ new.finalizer = cells[c].finalizer
        /\ new.status = cells[c].status
        /\ new.generation = cells[c].generation + 1 /\ new.spec = cells[c].spec
    BY <1>t, <2>1 DEF Cell
  <2>3. EarlierVersion(cells[c], new)
    BY <1>t, <2>1, <2>2 DEF EarlierVersion
  <2> HIDE DEF new
  <2> QED
    BY <2>1, <2>2, <2>3, EvolveOne
<1>9. CASE \/ \E n \in Namespaces : UserCreatesNamespace(n) \/ UserDeletesNamespace(n)
           \/ \E k \in TouchedKeys : UserCreatesObject(k) \/ UserDeletesObject(k)
           \/ \E k \in ServiceKeys, n \in 0..MaxEndpoints : EndpointsChange(k, n)
           \/ CallFails \/ Restart
  <2>1. UNCHANGED <<cells, uids>>
    BY <1>9
    DEF UserCreatesNamespace, UserDeletesNamespace, UserCreatesObject, UserDeletesObject,
        EndpointsChange, CallFails, Restart
  <2> QED
    BY <2>1, EvolveFrame
<1> QED
  BY <1>1, <1>2, <1>3, <1>4, <1>5, <1>6, <1>7, <1>8, <1>9 DEF Next, ReconcileStep, Environment

-----------------------------------------------------------------------------
(* Ownership of objects.                                                   *)

\* One step gives an object to nobody but the Cell of the running pass.
ObjectsEvolve ==
  \A k \in ObjectKeys :
    \/ objects'[k] = NoObject
    \/ objects'[k] = objects[k]
    \/ objects'[k].owner = NoOwner /\ objects[k] = NoObject
    \/ /\ pc \in NormalSteps /\ objects'[k].owner = Ref(cur, snap)
       /\ objects[k] # NoObject => Adoptable(objects[k], Ref(cur, snap))

\* CreateOrUpdate and the guarded delete are such changes.
LEMMA OwnedChange ==
  ASSUME TypeOK, NEW key \in ObjectKeys, NEW ref
  PROVE  /\ DeletedIfControlled(key, ref)[key] \in {NoObject, objects[key]}
         /\ CanCreateOrUpdate(key, ref) =>
              \/ CreatedOrUpdated(key, ref)[key] = objects[key]
              \/ /\ CreatedOrUpdated(key, ref)[key].owner = ref
                 /\ objects[key] # NoObject => Adoptable(objects[key], ref)
         /\ \A k \in ObjectKeys \ {key} :
              /\ DeletedIfControlled(key, ref)[k] = objects[k]
              /\ CreatedOrUpdated(key, ref)[k] = objects[k]
  BY DEF TypeOK, DeletedIfControlled, CreatedOrUpdated, CanCreateOrUpdate

\* Every step changes objects in this way only.
LEMMA ObjectsChange == TypeOK /\ [Next]_vars => ObjectsEvolve
<1> SUFFICES ASSUME TypeOK, [Next]_vars PROVE ObjectsEvolve
  OBVIOUS
<1> USE DEF apiVars, cacheVars, workerVars, envVars, Undisturbed
<1>n. "service" \in NormalSteps /\ PolicyKinds \subseteq NormalSteps
  BY DEF NormalSteps
<1>t. pc # "idle" => /\ ServiceKey(cur, snap.spec) \in ObjectKeys
                     /\ \A kind \in PolicyKinds :
                          <<EffectiveNamespace(cur, snap.spec), kind>> \in ObjectKeys
  BY KeyType, PartTypes DEF TypeOK
<1>1. CASE ReconcileService
  <2>1. pc \in NormalSteps /\ ServiceKey(cur, snap.spec) \in ObjectKeys
    BY <1>n, <1>t, <1>1 DEF ReconcileService
  <2>2. \/ /\ CanCreateOrUpdate(ServiceKey(cur, snap.spec), Ref(cur, snap))
           /\ objects' = CreatedOrUpdated(ServiceKey(cur, snap.spec), Ref(cur, snap))
        \/ objects' = objects
    BY <1>1 DEF ReconcileService
  <2> QED
    BY <2>1, <2>2, OwnedChange DEF ObjectsEvolve
<1>2. ASSUME NEW kind \in PolicyKinds, ReconcilePolicy(kind) PROVE ObjectsEvolve
  <2> DEFINE key == <<EffectiveNamespace(cur, snap.spec), kind>>
  <2>1. pc \in NormalSteps /\ pc = kind
    BY <1>n, <1>2 DEF ReconcilePolicy
  <2>2. key \in ObjectKeys
    BY <1>t, <2>1 DEF PolicyKinds
  <2>3. \/ /\ CanCreateOrUpdate(key, Ref(cur, snap))
           /\ objects' = CreatedOrUpdated(key, Ref(cur, snap))
        \/ objects' = DeletedIfControlled(key, Ref(cur, snap))
        \/ objects' = objects
    BY <1>2 DEF ReconcilePolicy
  <2> HIDE DEF key
  <2> QED
    BY <2>1, <2>2, <2>3, OwnedChange DEF ObjectsEvolve
<1>3. CASE DeleteEntrypointService
  <2>1. ServiceKey(cur, snap.spec) \in ObjectKeys
    BY <1>t, <1>3 DEF DeleteEntrypointService
  <2> QED
    BY <1>3, <2>1, OwnedChange DEF ObjectsEvolve, DeleteEntrypointService
<1>4. CASE Cluster
  BY <1>4 DEF Cluster, GarbageCollect, NamespaceGone, SlicesGone, ObjectsEvolve, TypeOK
<1>5. ASSUME NEW k \in TouchedKeys, UserCreatesObject(k) \/ UserDeletesObject(k)
      PROVE ObjectsEvolve
  <2>1. k \in ObjectKeys
    BY ConstantsAssumption DEF ObjectKeys
  <2>2. \A j \in ObjectKeys : j # k => objects'[j] = objects[j]
    BY <1>5 DEF UserCreatesObject, UserDeletesObject, TypeOK
  <2>3. objects'[k] = NoObject \/ (objects[k] = NoObject /\ objects'[k].owner = NoOwner)
    BY <1>5, <2>1 DEF UserCreatesObject, UserDeletesObject, TypeOK
  <2> QED
    BY <2>2, <2>3 DEF ObjectsEvolve
<1>6. CASE UNCHANGED objects
  BY <1>6 DEF ObjectsEvolve
<1>7. CASE \/ EnsureFinalizer \/ ReconcileNamespace \/ CountReadyEndpoints \/ PatchStatus
           \/ PatchFailure \/ DeleteNamespaceIfManaged \/ RemoveFinalizer
  BY <1>6, <1>7
  DEF EnsureFinalizer, ReconcileNamespace, CountReadyEndpoints, PatchStatus, PatchFailure,
      DeleteNamespaceIfManaged, RemoveFinalizer
<1>8. CASE \/ \E c \in Cells : StartReconcile(c)
           \/ Informers \/ UNCHANGED vars
  BY <1>6, <1>8
  DEF StartReconcile, Informers, SyncCell, SyncNamespace, SyncObject, SyncEndpoints, vars
<1>9. CASE \/ \E c \in Cells, spec \in Specs : CreateCell(c, spec) \/ EditCell(c, spec)
           \/ \E c \in Cells : DeleteCell(c)
           \/ \E n \in Namespaces : UserCreatesNamespace(n) \/ UserDeletesNamespace(n)
           \/ \E k \in ServiceKeys, n \in 0..MaxEndpoints : EndpointsChange(k, n)
           \/ CallFails \/ Restart
  BY <1>6, <1>9
  DEF CreateCell, EditCell, DeleteCell, UserCreatesNamespace, UserDeletesNamespace,
      EndpointsChange, CallFails, Restart
<1> QED
  BY <1>1, <1>2, <1>3, <1>4, <1>5, <1>7, <1>8, <1>9 DEF Next, ReconcileStep, Environment

\* No step hands an object of one Cell over to another Cell or to nobody, however
\* stale the cached copy is that the step looks at.
THEOREM OwnershipKept == Spec => NoOwnershipTheft
<1>1. ASSUME TypeOK, [Next]_vars, NEW k \in ObjectKeys, objects[k] # NoObject,
             objects[k].owner # NoOwner, objects'[k] # NoObject
      PROVE  objects'[k].owner # NoOwner /\ objects'[k].owner.name = objects[k].owner.name
  <2>1. CASE objects'[k] = objects[k]
    BY <1>1, <2>1
  <2>2. CASE objects'[k].owner = Ref(cur, snap) /\ Adoptable(objects[k], Ref(cur, snap))
             /\ pc \in NormalSteps
    <3>1. Ref(cur, snap) \in OwnerRef
      BY <1>1, <2>2, PartTypes DEF TypeOK, NormalSteps, PolicyKinds
    <3>2. Ref(cur, snap) # NoOwner
      BY <3>1, SentinelsAssumption
    <3> QED
      BY <1>1, <2>2, <3>2 DEF Adoptable
  <2> QED
    BY <1>1, <2>1, <2>2, ObjectsChange DEF ObjectsEvolve
<1>2. TypeOK /\ [Next]_vars =>
        [\A k \in ObjectKeys :
           objects[k] # NoObject /\ objects[k].owner # NoOwner /\ objects'[k] # NoObject =>
             objects'[k].owner # NoOwner /\ objects'[k].owner.name = objects[k].owner.name]_vars
  BY <1>1
<1> QED
  BY <1>2, TypeCorrect, PTL DEF Spec, NoOwnershipTheft

\* A Cell's cached copy stays, or becomes the copy on the API server.
LEMMA CacheEvolves ==
  TypeOK /\ [Next]_vars => \A c \in Cells : cCells'[c] \in {cCells[c], cells[c]}
<1> SUFFICES ASSUME TypeOK, [Next]_vars
             PROVE  \A c \in Cells : cCells'[c] \in {cCells[c], cells[c]}
  OBVIOUS
<1>1. CASE UNCHANGED cCells
  BY <1>1
<1>2. CASE (\E c \in Cells : SyncCell(c)) \/ Restart
  BY <1>2 DEF SyncCell, Restart, TypeOK
<1>3. CASE ReconcileStep
  BY <1>1, <1>3
  DEF ReconcileStep, EnsureFinalizer, ReconcileNamespace, ReconcileService, ReconcilePolicy,
      CountReadyEndpoints, PatchStatus, PatchFailure, DeleteEntrypointService,
      DeleteNamespaceIfManaged, RemoveFinalizer, cacheVars
<1>4. CASE Cluster \/ UNCHANGED vars \/ \E c \in Cells : StartReconcile(c)
  BY <1>1, <1>4
  DEF Cluster, GarbageCollect, NamespaceGone, SlicesGone, StartReconcile, vars, cacheVars
<1>5. CASE Informers
  BY <1>1, <1>2, <1>5 DEF Informers, SyncNamespace, SyncObject, SyncEndpoints
<1>6. CASE Environment
  BY <1>1, <1>2, <1>6
  DEF Environment, CreateCell, EditCell, DeleteCell, UserCreatesNamespace,
      UserDeletesNamespace, UserCreatesObject, UserDeletesObject, EndpointsChange,
      CallFails, Undisturbed, cacheVars
<1> QED
  BY <1>3, <1>4, <1>5, <1>6 DEF Next

\* UIDs stay handed out, and an owned object's Cell stays under its finalizer.
LEMMA OwnStep ==
  TypeOK /\ TypeOK' /\ PinInv /\ UidsHandedOut /\ OwnedImpliesFinalizer /\ [Next]_vars
    => UidsHandedOut' /\ OwnedImpliesFinalizer'
<1> SUFFICES ASSUME TypeOK, TypeOK', PinInv, UidsHandedOut, OwnedImpliesFinalizer, [Next]_vars
             PROVE  UidsHandedOut' /\ OwnedImpliesFinalizer'
  OBVIOUS
<1>e. CellsEvolve /\ ObjectsEvolve
  BY Evolves, ObjectsChange
<1>t. /\ \A c \in Cells : uids[c] \in Nat /\ uids'[c] \in Nat /\ uids[c] <= uids'[c]
      /\ \A c \in Cells : cells[c] # NoObject => cells[c].uid \in Nat
      /\ \A c \in Cells : cCells[c] # NoObject => cCells[c].uid \in Nat
  BY <1>e, PartTypes DEF TypeOK, CellsEvolve
<1>o. \A k \in ObjectKeys : objects[k] # NoObject /\ objects[k].owner # NoOwner =>
        objects[k].owner.uid \in Nat /\ objects[k].owner.name \in Cells
  BY DEF TypeOK, OwnedObject, OwnerRef
<1>r. pc \in NormalSteps =>
        /\ cur \in Cells /\ Ref(cur, snap).name = cur /\ Ref(cur, snap).uid = cells[cur].uid
        /\ Live(cur) /\ cells[cur].uid <= uids[cur] /\ cells[cur].finalizer
  BY DEF PinInv, FinalizerPinsPass, UidsHandedOut, Ref, TypeOK, NormalSteps, PolicyKinds
<1>1. \A c \in Cells : cells'[c] # NoObject => cells'[c].uid <= uids'[c]
  BY <1>e, <1>t DEF CellsEvolve, Created, Kept, UidsHandedOut, Live
<1>2. \A c \in Cells : cCells'[c] \in {cCells[c], cells[c]}
  BY CacheEvolves
<1>3. \A c \in Cells : cCells'[c] # NoObject => cCells'[c].uid <= uids'[c]
  BY <1>2, <1>t DEF UidsHandedOut, Live
<1>4. ASSUME NEW k \in ObjectKeys, objects'[k] # NoObject, objects'[k].owner # NoOwner
      PROVE  /\ objects'[k].owner.uid <= uids'[objects'[k].owner.name]
             /\ /\ cells'[objects'[k].owner.name] # NoObject
                /\ cells'[objects'[k].owner.name].uid = objects'[k].owner.uid
                => cells'[objects'[k].owner.name].finalizer
  <2>1. CASE objects'[k] = objects[k]
    <3> DEFINE ref == objects[k].owner
    <3>1. ref.uid \in Nat /\ ref.name \in Cells /\ ref.uid <= uids[ref.name]
      BY <1>4, <1>o, <2>1 DEF UidsHandedOut
    <3>2. ref.uid <= uids'[ref.name]
      BY <1>t, <3>1
    <3>3. ASSUME cells'[ref.name] # NoObject, cells'[ref.name].uid = ref.uid
          PROVE  cells'[ref.name].finalizer
      <4>1. ~Created(ref.name)
        BY <1>t, <3>1, <3>3 DEF Created
      <4>2. Kept(ref.name)
        BY <1>e, <3>1, <3>3, <4>1 DEF CellsEvolve
      <4>3. cells[ref.name].finalizer
        BY <1>4, <2>1, <3>3, <4>2 DEF OwnedImpliesFinalizer, OwnerAlive, Kept
      <4> QED
        BY <4>2, <4>3 DEF Kept
    <3> QED
      BY <2>1, <3>2, <3>3
  <2>2. CASE pc \in NormalSteps /\ objects'[k].owner = Ref(cur, snap)
    <3>1. cells[cur].uid <= uids'[cur]
      BY <1>r, <1>t, <2>2 DEF Live
    <3>2. ASSUME cells'[cur] # NoObject PROVE cells'[cur].finalizer
      BY <1>e, <1>r, <2>2, <3>2 DEF CellsEvolve, Created, Kept, Live
    <3> QED
      BY <1>r, <2>2, <3>1, <3>2
  <2> QED
    BY <1>4, <1>e, <2>1, <2>2 DEF ObjectsEvolve
<1>5. UidsHandedOut'
  BY <1>1, <1>3, <1>4 DEF UidsHandedOut, Live
<1>6. OwnedImpliesFinalizer'
  BY <1>4 DEF OwnedImpliesFinalizer, OwnerAlive
<1> QED
  BY <1>5, <1>6

-----------------------------------------------------------------------------
(* Readiness and generations.                                              *)

\* Setting a condition sets that one and no other.
LEMMA ReadyAfterSet ==
  ASSUME NEW st \in CellStatus, NEW type \in ConditionTypes,
         NEW value \in {"True", "False"}, NEW gen \in Nat
  PROVE  SetCellCondition(st, type, value, gen).conditions["Ready"] =
           IF type = "Ready" THEN [status |-> value, observedGeneration |-> gen]
           ELSE st.conditions["Ready"]
  BY DEF SetCellCondition, CellStatus, ConditionTypes

\* Only an Active Cell is decided ready.
LEMMA ReadyOnlyActive ==
  ASSUME NEW st \in CellStatus, NEW state, NEW available \in BOOLEAN, NEW gen \in Nat
  PROVE  /\ DecideReadiness(st, state, available, gen).conditions["Ready"].observedGeneration = gen
         /\ DecideReadiness(st, state, available, gen).conditions["Ready"].status = "True"
              => state = "Active"
<1> DEFINE backend == SetCellCondition(st, "BackendReady",
                        IF state # "Disabled" /\ available THEN "True" ELSE "False", gen)
<1>1. "BackendReady" \in ConditionTypes /\ "Ready" \in ConditionTypes
  BY DEF ConditionTypes
<1>2. backend \in CellStatus
  BY <1>1, SetConditionType
<1> HIDE DEF backend
<1>3. SetCellCondition(backend, "Ready",
        IF state = "Active" /\ available THEN "True" ELSE "False", gen).conditions["Ready"] =
        [status |-> IF state = "Active" /\ available THEN "True" ELSE "False",
         observedGeneration |-> gen]
  BY <1>1, <1>2, ReadyAfterSet
<1> QED
  BY <1>3 DEF DecideReadiness, backend

\* Generations are numbers, so claims compose along versions of a Cell.
LEMMA ClaimComposes ==
  ASSUME NEW st \in CellStatus, NEW x \in Cell, NEW y \in Cell,
         ReadyClaim(st, x), EarlierVersion(x, y)
  PROVE  ReadyClaim(st, y)
<1>1. "Ready" \in ConditionTypes
  BY DEF ConditionTypes
<1>2. /\ st.conditions["Ready"].observedGeneration \in Nat
      /\ x.generation \in Nat /\ y.generation \in Nat
  BY <1>1 DEF CellStatus, Condition, Cell
<1> QED
  BY <1>2 DEF ReadyClaim, EarlierVersion

\* So do versions.
LEMMA VersionComposes ==
  ASSUME NEW x \in Cell, NEW y \in Cell, NEW z \in Cell,
         EarlierVersion(x, y), EarlierVersion(y, z)
  PROVE  EarlierVersion(x, z)
<1>1. x.generation \in Nat /\ y.generation \in Nat /\ z.generation \in Nat
  BY DEF Cell
<1> QED
  BY <1>1 DEF EarlierVersion

\* What the worker holds, when it is in reconcileNormal after a step: the copy it
\* read or was answered, or what it held before with a status that claims no more.
WorkerEvolves ==
  pc' \in NormalSteps =>
    \/ /\ pc \in NormalSteps /\ UNCHANGED <<cur, snap>>
       /\ \/ status' = status
          \/ ReadyClaim(status', snap)
    \/ pc = "idle" /\ snap' = cCells[cur'] /\ status' = snap'.status /\ UNCHANGED cells
    \/ /\ pc = "addFinalizer" /\ cur' = cur /\ cells[cur] # NoObject
       /\ snap' = cells'[cur] /\ status' = snap'.status

\* The error path claims nothing.
LEMMA FailedClaim ==
  ASSUME TypeOK, pc # "idle", Failed
  PROVE  ReadyClaim(status', snap)
<1>1. "Ready" \in ConditionTypes /\ "BackendReady" \in ConditionTypes
  BY DEF ConditionTypes
<1>2. snap.generation \in Nat /\ status \in CellStatus
  BY PartTypes DEF TypeOK
<1> DEFINE notReady == SetCellCondition(status, "Ready", "False", snap.generation)
<1>3. notReady \in CellStatus
  BY <1>1, <1>2, SetConditionType
<1>r. notReady.conditions["Ready"] = [status |-> "False", observedGeneration |-> snap.generation]
  BY <1>1, <1>2, ReadyAfterSet
<1> HIDE DEF notReady
<1>4. \/ status' = notReady
      \/ status' = SetCellCondition(notReady, "BackendReady", "False", snap.generation)
  BY DEF Failed, notReady
<1>5. status'.conditions["Ready"].status = "False"
  <2>1. SetCellCondition(notReady, "BackendReady", "False", snap.generation).conditions["Ready"]
          = notReady.conditions["Ready"]
    BY <1>1, <1>2, <1>3, ReadyAfterSet, ZenonT(60)
  <2> QED
    BY <1>r, <1>4, <2>1
<1> QED
  BY <1>5 DEF ReadyClaim

\* Every step changes the worker in this way only.
LEMMA WorkerChange == TypeOK /\ [Next]_vars => WorkerEvolves
<1> SUFFICES ASSUME TypeOK, [Next]_vars PROVE WorkerEvolves
  OBVIOUS
<1> USE DEF apiVars, cacheVars, workerVars, envVars, Undisturbed
<1>n. /\ {"namespace", "service", "endpoints", "patchStatus"} \subseteq NormalSteps
      /\ PolicyKinds \subseteq NormalSteps
      /\ NormalSteps \cap (DeletionSteps \cup {"idle", "addFinalizer"}) = {}
      /\ {"deleteNamespace", "removeFinalizer"} \subseteq DeletionSteps
  BY DEF NormalSteps, DeletionSteps, PolicyKinds
<1>1. CASE UNCHANGED workerVars
  BY <1>1 DEF WorkerEvolves
<1>2. CASE pc' = "idle"
  BY <1>n, <1>2 DEF WorkerEvolves
<1>3. ASSUME Failed, pc \in NormalSteps PROVE WorkerEvolves
  BY <1>n, <1>3, FailedClaim DEF WorkerEvolves, Failed, GoTo
<1>4. ASSUME NEW c \in Cells, StartReconcile(c) PROVE WorkerEvolves
  BY <1>1, <1>4 DEF StartReconcile, WorkerEvolves
<1>5. CASE EnsureFinalizer
  BY <1>2, <1>5 DEF EnsureFinalizer, Return, WorkerEvolves
<1>6. CASE ReconcileNamespace
  BY <1>n, <1>3, <1>6 DEF ReconcileNamespace, GoTo, WorkerEvolves
<1>7. CASE ReconcileService
  BY <1>n, <1>3, <1>7 DEF ReconcileService, GoTo, WorkerEvolves
<1>8. ASSUME NEW kind \in PolicyKinds, ReconcilePolicy(kind) PROVE WorkerEvolves
  <2>1. pc \in NormalSteps /\ (Failed \/ UNCHANGED <<cur, snap, status>>)
    BY <1>n, <1>8 DEF ReconcilePolicy, GoTo
  <2> QED
    BY <1>3, <2>1 DEF WorkerEvolves
<1>9. CASE CountReadyEndpoints
  <2> DEFINE key == ServiceKey(cur, snap.spec)
             observed == [status EXCEPT !.namespace = key[1],
                                        !.observedGeneration = snap.generation,
                                        !.availableEndpoints = cEndpoints[key]]
             available == cEndpoints[key] > 0
  <2>1. pc = "endpoints" /\ cur \in Cells /\ snap \in Cell
    BY <1>9 DEF CountReadyEndpoints, TypeOK
  <2>2. key \in ServiceKeys /\ key[1] \in Namespaces /\ snap.generation \in Nat
    BY <2>1, KeyType, PartTypes DEF ServiceKeys
  <2>3. cEndpoints[key] \in 0..MaxEndpoints
    BY <2>2 DEF TypeOK
  <2>4. observed \in CellStatus
    BY <2>2, <2>3 DEF CellStatus, TypeOK
  <2>5. available \in BOOLEAN
    OBVIOUS
  <2>6. status' = DecideReadiness(observed, EffectiveCellState(snap.spec),
                                  available, snap.generation)
        /\ UNCHANGED <<cur, snap>>
    BY <1>9 DEF CountReadyEndpoints, GoTo
  <2> HIDE DEF observed, key, available
  <2>7. /\ status'.conditions["Ready"].observedGeneration = snap.generation
        /\ status'.conditions["Ready"].status = "True" => EffectiveCellState(snap.spec) = "Active"
    BY <2>2, <2>4, <2>5, <2>6, ReadyOnlyActive
  <2>8. ReadyClaim(status', snap)
    BY <2>2, <2>7 DEF ReadyClaim
  <2> QED
    BY <1>n, <2>1, <2>6, <2>8 DEF WorkerEvolves
<1>10. CASE PatchStatus \/ PatchFailure \/ RemoveFinalizer \/ Restart
  BY <1>2, <1>10 DEF PatchStatus, PatchFailure, RemoveFinalizer, Restart, Return
<1>11. CASE DeleteEntrypointService \/ DeleteNamespaceIfManaged
  <2>1. pc' \in DeletionSteps
    BY <1>n, <1>11 DEF DeleteEntrypointService, DeleteNamespaceIfManaged, GoTo
  <2> QED
    BY <1>n, <2>1 DEF WorkerEvolves
<1>12. CASE CallFails
  <2>1. CASE Return(TRUE)
    BY <1>2, <2>1 DEF Return
  <2>2. CASE ~Return(TRUE)
    BY <1>n, <1>3, <1>12, <2>2 DEF CallFails
  <2> QED
    BY <2>1, <2>2
<1>13. CASE UNCHANGED vars \/ Informers \/ Cluster
  BY <1>1, <1>13
  DEF vars, Informers, SyncCell, SyncNamespace, SyncObject, SyncEndpoints,
      Cluster, GarbageCollect, NamespaceGone, SlicesGone
<1>14. CASE \/ \E c \in Cells, spec \in Specs : CreateCell(c, spec) \/ EditCell(c, spec)
            \/ \E c \in Cells : DeleteCell(c)
            \/ \E n \in Namespaces : UserCreatesNamespace(n) \/ UserDeletesNamespace(n)
            \/ \E k \in TouchedKeys : UserCreatesObject(k) \/ UserDeletesObject(k)
            \/ \E k \in ServiceKeys, n \in 0..MaxEndpoints : EndpointsChange(k, n)
  BY <1>1, <1>14
  DEF CreateCell, EditCell, DeleteCell, UserCreatesNamespace, UserDeletesNamespace,
      UserCreatesObject, UserDeletesObject, EndpointsChange
<1> QED
  BY <1>4, <1>5, <1>6, <1>7, <1>8, <1>9, <1>10, <1>11, <1>12, <1>13, <1>14
  DEF Next, ReconcileStep, Environment

\* No step lets a claim of readiness outrun the Cell it is about.
LEMMA ReadyStep ==
  TypeOK /\ TypeOK' /\ PinInv /\ PinInv' /\ UidsHandedOut /\ ReadyClaims /\ [Next]_vars
    => ReadyClaims'
<1> SUFFICES ASSUME TypeOK, TypeOK', PinInv, PinInv', UidsHandedOut, ReadyClaims, [Next]_vars
             PROVE  ReadyClaims'
  OBVIOUS
<1>e. CellsEvolve /\ WorkerEvolves /\ \A c \in Cells : cCells'[c] \in {cCells[c], cells[c]}
  BY Evolves, WorkerChange, CacheEvolves
<1>t. \A c \in Cells :
        /\ cells[c] # NoObject => cells[c] \in Cell /\ cells[c].status \in CellStatus
        /\ cells'[c] # NoObject => cells'[c] \in Cell /\ cells'[c].status \in CellStatus
        /\ cCells[c] # NoObject => cCells[c] \in Cell /\ cCells[c].status \in CellStatus
        /\ uids[c] \in Nat
  BY PartTypes DEF TypeOK
<1>w. /\ pc \in NormalSteps => cur \in Cells /\ snap \in Cell /\ status \in CellStatus
      /\ pc' \in NormalSteps => cur' \in Cells /\ snap' \in Cell /\ status' \in CellStatus
  BY DEF TypeOK, NormalSteps, PolicyKinds
<1>1. ASSUME NEW c \in Cells, cells'[c] # NoObject
      PROVE  ReadyClaim(cells'[c].status, cells'[c])
  <2>1. CASE Created(c)
    <3>1. "Ready" \in ConditionTypes
      BY DEF ConditionTypes
    <3>2. EmptyStatus.conditions["Ready"] = [status |-> "Absent", observedGeneration |-> 0]
      BY <3>1 DEF EmptyStatus
    <3>3. cells'[c].status.conditions["Ready"].status = "Absent"
      BY <2>1, <3>2 DEF Created
    <3> QED
      BY <3>3 DEF ReadyClaim
  <2>2. CASE Kept(c) /\ cells'[c].status.conditions = cells[c].status.conditions
    <3>1. ReadyClaim(cells[c].status, cells'[c])
      BY <1>1, <1>t, <2>2, ClaimComposes DEF Kept, ReadyClaims, Live
    <3> QED
      BY <2>2, <3>1 DEF ReadyClaim
  <2>3. CASE /\ Kept(c) /\ c = cur /\ pc \in NormalSteps
             /\ cells'[c].status.conditions = status.conditions
             /\ cells'[c].spec = cells[c].spec /\ cells'[c].generation = cells[c].generation
    BY <2>3 DEF ReadyClaims, ReadyClaim
  <2> QED
    BY <1>1, <1>e, <2>1, <2>2, <2>3 DEF CellsEvolve, Kept
<1>2. ASSUME NEW c \in Cells, cCells'[c] # NoObject, cells'[c] # NoObject,
             cCells'[c].uid = cells'[c].uid
      PROVE  EarlierVersion(cCells'[c], cells'[c]) /\ ReadyClaim(cCells'[c].status, cells'[c])
  <2>1. cCells'[c] \in Cell /\ cCells'[c].uid <= uids[c] /\ cCells'[c].uid \in Nat
    BY <1>2, <1>e, <1>t, PartTypes DEF UidsHandedOut, Live
  <2>2. Kept(c)
    BY <1>2, <1>e, <1>t, <2>1 DEF CellsEvolve, Created
  <2>3. /\ EarlierVersion(cCells'[c], cells[c]) /\ ReadyClaim(cCells'[c].status, cells[c])
        /\ cells[c] # NoObject
    <3>1. CASE cCells'[c] = cCells[c]
      BY <1>2, <2>2, <3>1 DEF Kept, ReadyClaims, Live
    <3>2. CASE cCells'[c] = cells[c]
      <4>1. cells[c].generation \in Nat
        BY <1>2, <1>t, <3>2, PartTypes
      <4> QED
        BY <1>2, <2>2, <3>2, <4>1 DEF Kept, ReadyClaims, EarlierVersion, Live
    <3> QED
      BY <1>e, <3>1, <3>2
  <2>4. EarlierVersion(cells[c], cells'[c])
    BY <2>2 DEF Kept
  <2>5. cCells'[c].status \in CellStatus
    BY <2>1, PartTypes
  <2> QED
    BY <1>2, <1>t, <2>1, <2>3, <2>4, <2>5, ClaimComposes, VersionComposes
<1>3. ASSUME pc' \in NormalSteps
      PROVE  EarlierVersion(snap', cells'[cur']) /\ ReadyClaim(status', cells'[cur'])
  <2>0. cells'[cur'] # NoObject /\ cells'[cur'].uid = snap'.uid /\ cur' \in Cells
        /\ cells'[cur'] \in Cell
    BY <1>3, <1>t, <1>w DEF PinInv, FinalizerPinsPass, Live
  <2>1. CASE /\ pc \in NormalSteps /\ UNCHANGED <<cur, snap>>
             /\ status' = status \/ ReadyClaim(status', snap)
    <3>1. cells[cur] # NoObject /\ cells[cur] \in Cell
      BY <1>t, <1>w, <2>1 DEF PinInv, FinalizerPinsPass, Live
    <3>2. EarlierVersion(snap, cells[cur]) /\ ReadyClaim(status, cells[cur])
      BY <2>1 DEF ReadyClaims
    <3>3. ReadyClaim(status', cells[cur])
      BY <1>3, <1>w, <2>1, <3>1, <3>2, ClaimComposes
    <3>4. EarlierVersion(cells[cur], cells'[cur])
      <4>1. Created(cur) \/ Kept(cur)
        BY <1>e, <1>w, <2>0, <2>1 DEF CellsEvolve
      <4> QED
        BY <3>1, <4>1 DEF Created, Kept
    <3> QED
      BY <1>3, <1>w, <2>0, <2>1, <3>1, <3>2, <3>3, <3>4, ClaimComposes, VersionComposes
  <2>2. CASE pc = "idle" /\ snap' = cCells[cur'] /\ status' = snap'.status /\ UNCHANGED cells
    <3>1. cCells[cur'] # NoObject
      BY <1>3, <1>w, <2>2, SentinelsAssumption
    <3> QED
      BY <2>0, <2>2, <3>1 DEF ReadyClaims, Live
  <2>3. CASE /\ pc = "addFinalizer" /\ cur' = cur /\ cells[cur] # NoObject
             /\ snap' = cells'[cur] /\ status' = snap'.status
    <3>1. cells'[cur].generation \in Nat
      BY <2>0, <2>3, PartTypes
    <3> QED
      BY <1>1, <2>0, <2>3, <3>1 DEF EarlierVersion
  <2> QED
    BY <1>3, <1>e, <2>1, <2>2, <2>3 DEF WorkerEvolves
<1> QED
  BY <1>1, <1>2, <1>3 DEF ReadyClaims, Live

-----------------------------------------------------------------------------
(* The invariant as a whole.                                               *)

\* Nothing exists, nothing is owned and nothing is claimed at first.
LEMMA InvariantInit == Init => IInv
<1> SUFFICES ASSUME Init PROVE IInv
  OBVIOUS
<1>1. TypeOK /\ PinInv
  BY TypeInit, PinInit
<1>2. UidsHandedOut /\ OwnedImpliesFinalizer
  BY DEF Init, UidsHandedOut, OwnedImpliesFinalizer, Live
<1>3. ReadyClaims
  BY DEF Init, ReadyClaims, Live, NormalSteps, PolicyKinds
<1> QED
  BY <1>1, <1>2, <1>3 DEF IInv, PinInv

\* Every step of the specification keeps the invariant.
LEMMA InvariantStep == IInv /\ [Next]_vars => IInv'
<1> SUFFICES ASSUME IInv, [Next]_vars PROVE IInv'
  OBVIOUS
<1>1. TypeOK /\ PinInv /\ UidsHandedOut /\ OwnedImpliesFinalizer /\ ReadyClaims
  BY DEF IInv, PinInv
<1>2. TypeOK' /\ PinInv'
  BY <1>1, TypeStep, PinStep
<1>3. UidsHandedOut' /\ OwnedImpliesFinalizer' /\ ReadyClaims'
  BY <1>1, <1>2, OwnStep, ReadyStep
<1> QED
  BY <1>2, <1>3 DEF IInv, PinInv

\* ensureFinalizer comes before everything a pass creates: whatever users delete
\* and wherever the operator crashes, an object that refers to a living Cell
\* refers to one under finalizer.
THEOREM OwnedUnderFinalizer == Spec => []OwnedImpliesFinalizer
<1>1. IInv => OwnedImpliesFinalizer
  BY DEF IInv
<1> QED
  BY <1>1, InvariantInit, InvariantStep, PTL DEF Spec

\* The readiness that the status section of reconcileNormal reports never
\* belongs to a generation that asks to drain or to be disabled, for any sequence
\* of edits, stale passes and merge patches.
THEOREM ReadyFollowsSpec == Spec => []ReadyMatchesGeneration
<1>1. IInv => ReadyMatchesGeneration
  <2> SUFFICES ASSUME IInv, NEW c \in Cells, Live(c),
                      cells[c].status.conditions["Ready"].status = "True",
                      cells[c].status.conditions["Ready"].observedGeneration
                        = cells[c].generation
               PROVE  EffectiveCellState(cells[c].spec) = "Active"
    BY DEF ReadyMatchesGeneration
  <2>1. ReadyClaim(cells[c].status, cells[c])
    BY DEF IInv, ReadyClaims
  <2> QED
    BY <2>1 DEF ReadyClaim
<1> QED
  BY <1>1, InvariantInit, InvariantStep, PTL DEF Spec
=============================================================================
