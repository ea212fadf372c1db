--------------------------- MODULE CellController ---------------------------
(***************************************************************************)
(* The Cell reconciler (internal/controller/cell_controller.go): one       *)
(* worker that takes Cell names from its work queue, reads every object    *)
(* from the manager's informer caches and writes to the API server, one    *)
(* API call per step.  The rest of the cluster moves between any two of    *)
(* those steps: users edit objects, informers deliver late, calls fail,    *)
(* the operator restarts, garbage collection and endpoint controllers run. *)
(***************************************************************************)
EXTENDS Naturals, FiniteSets

CONSTANTS
  Cells,            \* names of Cell resources (cluster scoped)
  Namespaces,       \* names of namespaces; a Cell's name is one of them
  ServiceNames,     \* names an entrypoint Service may have
  Specs,            \* the Cell specs users write
  TouchedKeys,      \* bound: the namespaced objects users create and delete by hand
  MaxEndpoints,     \* bound: ready addresses behind one Service
  Disturbances,     \* bound: the kinds of disturbance that happen
  MaxDisturbances,  \* bound: how many of them happen
  NoObject,         \* "not found"
  NoOwner           \* an object that no controller owns

\* The fixed-name policy objects, in the order reconcilePolicies visits them.
PolicyKinds == {"ResourceQuota", "LimitRange", "NetworkPolicy"}

\* CellSpec; "" is the omitted field.
CellSpec ==
  [namespace : Namespaces \cup {""},
   serviceName : ServiceNames,
   state : {"", "Active", "Draining", "Disabled"},
   tearDownOnDelete : BOOLEAN,
   policies : SUBSET PolicyKinds]

ASSUME ConstantsAssumption ==
  /\ Cells \subseteq Namespaces
  /\ "" \notin Namespaces
  /\ ServiceNames \cap PolicyKinds = {}
  /\ Specs \subseteq CellSpec
  /\ TouchedKeys \subseteq Namespaces \X (ServiceNames \cup PolicyKinds)
  /\ MaxEndpoints \in Nat
  /\ Disturbances \subseteq {"cell", "namespace", "object", "endpoints", "fault", "restart"}
  /\ MaxDisturbances \in Nat

\* The conditions that routing reads.  NamespaceReady, ServiceReady and
\* PoliciesReady only report on a pass, as do reasons and messages.
ConditionTypes == {"BackendReady", "Ready"}

Condition == [status : {"Absent", "True", "False"}, observedGeneration : Nat]

\* A controller owner reference: the name, and the UID of one incarnation.
OwnerRef == [name : Cells, uid : Nat]

\* Namespaced objects a Cell owns: its Service and its policies, by name.
ObjectKeys == Namespaces \X (ServiceNames \cup PolicyKinds)
ServiceKeys == Namespaces \X ServiceNames

\* "by" is a history field: who created the object.
OwnedObject == [owner : OwnerRef \cup {NoOwner}, by : {"operator", "user"}]

\* The labels managed-by and cell-name are always written together.
NamespaceObject ==
  [cellName : Cells \cup {""}, phase : {"Active", "Terminating"},
   by : {"operator", "user"}]

CellStatus ==
  [namespace : Namespaces \cup {""},
   observedGeneration : Nat,
   availableEndpoints : 0..MaxEndpoints,
   conditions : [ConditionTypes -> Condition]]

Cell ==
  [uid : Nat, spec : CellSpec, generation : Nat, deleting : BOOLEAN,
   finalizer : BOOLEAN, status : CellStatus]

ASSUME SentinelsAssumption ==
  /\ NoObject \notin Cell \cup NamespaceObject \cup OwnedObject
  /\ NoObject \notin Cells
  /\ NoOwner \notin OwnerRef \cup Cells

VARIABLES
  cells, namespaces, objects, endpoints,      \* the API server
  cCells, cNamespaces, cObjects, cEndpoints,  \* the informer caches
  queue,                                      \* Cell names to reconcile
  pc, cur, snap, status,                      \* the worker and its locals
  uids,                                       \* UIDs handed out per name
  disturbances                                \* counts up to MaxDisturbances

apiVars == <<cells, namespaces, objects, endpoints>>
cacheVars == <<cCells, cNamespaces, cObjects, cEndpoints>>
workerVars == <<pc, cur, snap, status>>
envVars == <<uids, disturbances>>
vars == <<apiVars, cacheVars, queue, workerVars, envVars>>

NormalSteps == {"namespace", "service", "endpoints", "patchStatus", "patchFailure"}
               \cup PolicyKinds
DeletionSteps == {"deleteService", "deleteNamespace", "removeFinalizer"}
Steps == {"idle", "addFinalizer"} \cup NormalSteps \cup DeletionSteps

\* Every variable has its type; a running pass has a Cell in hand, which is what
\* the NotFound return of Reconcile is for.
TypeOK ==
  /\ cells \in [Cells -> Cell \cup {NoObject}]
  /\ cCells \in [Cells -> Cell \cup {NoObject}]
  /\ namespaces \in [Namespaces -> NamespaceObject \cup {NoObject}]
  /\ cNamespaces \in [Namespaces -> NamespaceObject \cup {NoObject}]
  /\ objects \in [ObjectKeys -> OwnedObject \cup {NoObject}]
  /\ cObjects \in [ObjectKeys -> OwnedObject \cup {NoObject}]
  /\ endpoints \in [ServiceKeys -> 0..MaxEndpoints]
  /\ cEndpoints \in [ServiceKeys -> 0..MaxEndpoints]
  /\ queue \in SUBSET Cells
  /\ pc \in Steps
  /\ cur \in Cells \cup {NoObject}
  /\ snap \in Cell \cup {NoObject}
  /\ status \in CellStatus
  /\ pc # "idle" => cur \in Cells /\ snap \in Cell
  /\ uids \in [Cells -> Nat]
  /\ disturbances \in 0..MaxDisturbances

EmptyStatus ==
  [namespace |-> "", observedGeneration |-> 0, availableEndpoints |-> 0,
   conditions |-> [t \in ConditionTypes |-> [status |-> "Absent", observedGeneration |-> 0]]]

Init ==
  /\ cells = [c \in Cells |-> NoObject]
  /\ namespaces = [n \in Namespaces |-> NoObject]
  /\ objects = [k \in ObjectKeys |-> NoObject]
  /\ endpoints = [k \in ServiceKeys |-> 0]
  /\ cCells = cells
  /\ cNamespaces = namespaces
  /\ cObjects = objects
  /\ cEndpoints = endpoints
  /\ queue = {}
  /\ pc = "idle" /\ cur = NoObject /\ snap = NoObject /\ status = EmptyStatus
  /\ uids = [c \in Cells |-> 0]
  /\ disturbances = 0

-----------------------------------------------------------------------------
(* Helpers of the reconciler.                                              *)

EffectiveNamespace(c, spec) == IF spec.namespace # "" THEN spec.namespace ELSE c

EffectiveCellState(spec) == IF spec.state = "" THEN "Active" ELSE spec.state

ServiceKey(c, spec) == <<EffectiveNamespace(c, spec), spec.serviceName>>

\* The controller reference that the object in hand would write.
Ref(c, cell) == [name |-> c, uid |-> cell.uid]

\* SetStatusCondition: upsert one condition, stamped with the generation in hand.
SetCellCondition(st, type, value, gen) ==
  [st EXCEPT !.conditions[type] = [status |-> value, observedGeneration |-> gen]]

\* MergeFrom(base): only what differs from the base is sent, the condition list
\* as a whole; the API server keeps the rest of what it has.
MergePatch(actual, base, new) ==
  [namespace |->
     IF new.namespace = base.namespace THEN actual.namespace ELSE new.namespace,
   observedGeneration |->
     IF new.observedGeneration = base.observedGeneration
       THEN actual.observedGeneration ELSE new.observedGeneration,
   availableEndpoints |->
     IF new.availableEndpoints = base.availableEndpoints
       THEN actual.availableEndpoints ELSE new.availableEndpoints,
   conditions |->
     IF new.conditions = base.conditions THEN actual.conditions ELSE new.conditions]

NamespaceOpen(n) == namespaces[n] # NoObject /\ namespaces[n].phase = "Active"

\* metav1.IsControlledBy compares UIDs.
IsControlledBy(object, ref) == object # NoObject /\ object.owner = ref

\* Mutant: the owner is overwritten without a look at the one there is.
AdoptsAnything(object, ref) == object # NoObject

\* SetControllerReference refuses an object of another controller, and compares
\* names, not UIDs: an orphan of an earlier incarnation is taken over.
Adoptable(object, ref) == object.owner # NoOwner => object.owner.name = ref.name

\* CreateOrUpdate succeeds: a create of what the API server does not have, an
\* object already as desired in the cache (no call at all), or an update of the
\* version in the cache (a stale version is a conflict).
CanCreateOrUpdate(key, ref) ==
  \/ cObjects[key] = NoObject /\ objects[key] = NoObject /\ NamespaceOpen(key[1])
  \/ IsControlledBy(cObjects[key], ref)
  \/ /\ cObjects[key] # NoObject
     /\ Adoptable(cObjects[key], ref)
     /\ objects[key] = cObjects[key]

CreatedOrUpdated(key, ref) ==
  IF IsControlledBy(cObjects[key], ref) THEN objects
  ELSE [objects EXCEPT ![key] =
          [owner |-> ref,
           by |-> IF cObjects[key] = NoObject THEN "operator" ELSE cObjects[key].by]]

\* Get from the cache, check the owner, Delete by name without preconditions.
DeletedIfControlled(key, ref) ==
  IF IsControlledBy(cObjects[key], ref)
  THEN [objects EXCEPT ![key] = NoObject] ELSE objects

-----------------------------------------------------------------------------
(* Control flow of one pass.                                               *)

GoTo(step) == pc' = step /\ UNCHANGED <<cur, snap, queue>>

\* Mutant: errors are logged and not returned.
ReturnWithoutError(requeue) ==
  /\ pc' = "idle" /\ cur' = NoObject /\ snap' = NoObject /\ status' = EmptyStatus
  /\ UNCHANGED queue

\* The pass ends; the work queue holds the key again if it is to be retried.
\* Backoff and RequeueAfter delays are not modelled: the worker may take the
\* key at any later time.
Return(requeue) ==
  /\ pc' = "idle" /\ cur' = NoObject /\ snap' = NoObject /\ status' = EmptyStatus
  /\ queue' = IF requeue THEN queue \cup {cur} ELSE queue

\* An error in a step of reconcileNormal: Ready turns False, and BackendReady
\* when the endpoints could not be listed; the status is patched before the
\* error is returned.
Failed ==
  /\ status' = LET notReady == SetCellCondition(status, "Ready", "False", snap.generation)
               IN  IF pc = "endpoints"
                   THEN SetCellCondition(notReady, "BackendReady", "False", snap.generation)
                   ELSE notReady
  /\ GoTo("patchFailure")

-----------------------------------------------------------------------------
(* Reconcile.                                                              *)

\* Mutant: NotFound is ignored, and the empty object reconciled.
StartIgnoringNotFound(c) ==
  /\ pc = "idle" /\ c \in queue
  /\ queue' = queue \ {c}
  /\ cur' = c /\ snap' = cCells[c]
  /\ IF cCells[c] = NoObject
       THEN status' = EmptyStatus /\ pc' = "addFinalizer"
       ELSE /\ status' = cCells[c].status
            /\ pc' = IF cCells[c].deleting THEN "deleteService" ELSE "addFinalizer"
  /\ UNCHANGED <<apiVars, cacheVars, envVars>>

\* Mutant: reconcileNormal runs without ensureFinalizer.
StartWithoutFinalizer(c) ==
  /\ pc = "idle" /\ c \in queue
  /\ queue' = queue \ {c}
  /\ IF cCells[c] = NoObject
       THEN UNCHANGED workerVars
       ELSE /\ cur' = c /\ snap' = cCells[c] /\ status' = cCells[c].status
            /\ pc' = IF cCells[c].deleting THEN "deleteService" ELSE "namespace"
  /\ UNCHANGED <<apiVars, cacheVars, envVars>>

\* Mutant: NotFound is returned as an error, and the key retried.
StartRetryingNotFound(c) ==
  /\ pc = "idle" /\ c \in queue
  /\ IF cCells[c] = NoObject
       THEN UNCHANGED <<queue, workerVars>>
       ELSE /\ queue' = queue \ {c}
            /\ cur' = c /\ snap' = cCells[c] /\ status' = cCells[c].status
            /\ pc' = CASE cCells[c].deleting -> "deleteService"
                       [] ~cCells[c].deleting /\ ~cCells[c].finalizer -> "addFinalizer"
                       [] OTHER -> "namespace"
  /\ UNCHANGED <<apiVars, cacheVars, envVars>>

\* Take a key, read the Cell from the cache, branch on what it says.
StartReconcile(c) ==
  /\ pc = "idle" /\ c \in queue
  /\ queue' = queue \ {c}
  /\ IF cCells[c] = NoObject
       THEN UNCHANGED workerVars
       ELSE /\ cur' = c /\ snap' = cCells[c] /\ status' = cCells[c].status
            /\ pc' = CASE cCells[c].deleting -> "deleteService"
                       [] ~cCells[c].deleting /\ ~cCells[c].finalizer -> "addFinalizer"
                       [] OTHER -> "namespace"
  /\ UNCHANGED <<apiVars, cacheVars, envVars>>

\* Mutant: the finalizer is added to the object in hand and not written.
EnsureFinalizerInMemory ==
  /\ pc = "addFinalizer"
  /\ snap' = [snap EXCEPT !.finalizer = TRUE]
  /\ pc' = "namespace"
  /\ UNCHANGED <<cur, queue, status, apiVars, cacheVars, envVars>>

\* ensureFinalizer: the patch's answer replaces the object in hand.
EnsureFinalizer ==
  /\ pc = "addFinalizer"
  /\ IF cells[cur] = NoObject
       THEN Return(TRUE) /\ UNCHANGED cells
       ELSE /\ cells' = [cells EXCEPT ![cur].finalizer = TRUE]
            /\ snap' = cells'[cur] /\ status' = cells'[cur].status
            /\ pc' = "namespace" /\ UNCHANGED <<cur, queue>>
  /\ UNCHANGED <<namespaces, objects, endpoints, cacheVars, envVars>>

\* MutateNamespace on top of whatever labels the namespace has.
ReconcileNamespace ==
  LET n == EffectiveNamespace(cur, snap.spec)
      seen == cNamespaces[n]
      upToDate == seen # NoObject /\ seen.cellName = cur
      create == seen = NoObject /\ namespaces[n] = NoObject
      update == seen # NoObject /\ ~upToDate /\ namespaces[n] = seen
  IN  /\ pc = "namespace"
      /\ IF upToDate \/ create \/ update
           THEN GoTo("service") /\ UNCHANGED status
           ELSE Failed
      /\ namespaces' =
           CASE create -> [namespaces EXCEPT ![n] =
                  [cellName |-> cur, phase |-> "Active", by |-> "operator"]]
             [] update -> [namespaces EXCEPT ![n].cellName = cur]
             [] OTHER -> namespaces
      /\ UNCHANGED <<cells, objects, endpoints, cacheVars, envVars>>

ReconcileService ==
  LET key == ServiceKey(cur, snap.spec)
      ref == Ref(cur, snap)
  IN  /\ pc = "service"
      /\ IF CanCreateOrUpdate(key, ref)
           THEN /\ objects' = CreatedOrUpdated(key, ref)
                /\ GoTo("ResourceQuota") /\ UNCHANGED status
           ELSE UNCHANGED objects /\ Failed
      /\ UNCHANGED <<cells, namespaces, endpoints, cacheVars, envVars>>

\* One of the three policies: created or updated when the spec asks for it,
\* otherwise deleted if this Cell owns it.
ReconcilePolicy(kind) ==
  LET key == <<EffectiveNamespace(cur, snap.spec), kind>>
      ref == Ref(cur, snap)
      next == CASE kind = "ResourceQuota" -> "LimitRange"
                [] kind = "LimitRange" -> "NetworkPolicy"
                [] kind = "NetworkPolicy" -> "endpoints"
      wanted == kind \in snap.spec.policies
  IN  /\ pc = kind
      /\ \/ /\ ~wanted
            /\ objects' = DeletedIfControlled(key, ref)
            /\ GoTo(next) /\ UNCHANGED status
         \/ /\ wanted /\ CanCreateOrUpdate(key, ref)
            /\ objects' = CreatedOrUpdated(key, ref)
            /\ GoTo(next) /\ UNCHANGED status
         \/ /\ wanted /\ ~CanCreateOrUpdate(key, ref)
            /\ UNCHANGED objects /\ Failed
      /\ UNCHANGED <<cells, namespaces, endpoints, cacheVars, envVars>>

\* Mutant: a draining Cell stays Ready while it has endpoints.
DecideReadinessByBackend(st, state, available, gen) ==
  LET value == IF state # "Disabled" /\ available THEN "True" ELSE "False"
  IN  SetCellCondition(SetCellCondition(st, "BackendReady", value, gen), "Ready", value, gen)

\* BackendReady and Ready, by lifecycle state: a disabled Cell has neither, a
\* draining one at most BackendReady.
DecideReadiness(st, state, available, gen) ==
  LET truth(b) == IF b THEN "True" ELSE "False"
  IN  SetCellCondition(
        SetCellCondition(st, "BackendReady", truth(state # "Disabled" /\ available), gen),
        "Ready", truth(state = "Active" /\ available), gen)

\* countReadyEndpoints, and the status that follows from it.
CountReadyEndpoints ==
  LET key == ServiceKey(cur, snap.spec)
      observed == [status EXCEPT !.namespace = key[1],
                                 !.observedGeneration = snap.generation,
                                 !.availableEndpoints = cEndpoints[key]]
  IN  /\ pc = "endpoints"
      /\ status' = DecideReadiness(observed, EffectiveCellState(snap.spec),
                                   cEndpoints[key] > 0, snap.generation)
      /\ GoTo("patchStatus")
      /\ UNCHANGED <<apiVars, cacheVars, envVars>>

PatchedCells ==
  [cells EXCEPT ![cur].status = MergePatch(cells[cur].status, snap.status, status)]

NeedsBackendRequeue ==
  EffectiveCellState(snap.spec) # "Disabled" /\ status.availableEndpoints = 0

PatchStatus ==
  /\ pc = "patchStatus"
  /\ IF cells[cur] = NoObject
       THEN UNCHANGED cells /\ Return(TRUE)
       ELSE cells' = PatchedCells /\ Return(NeedsBackendRequeue)
  /\ UNCHANGED <<namespaces, objects, endpoints, cacheVars, envVars>>

\* Mutant: the error is reported in the status and not returned.
PatchFailureSwallowed ==
  /\ pc = "patchFailure"
  /\ cells' = IF cells[cur] = NoObject THEN cells ELSE PatchedCells
  /\ Return(FALSE)
  /\ UNCHANGED <<namespaces, objects, endpoints, cacheVars, envVars>>

\* The error paths of reconcileNormal: the patch's own error is ignored, the
\* pass returns the first error and the key is retried.
PatchFailure ==
  /\ pc = "patchFailure"
  /\ cells' = IF cells[cur] = NoObject THEN cells ELSE PatchedCells
  /\ Return(TRUE)
  /\ UNCHANGED <<namespaces, objects, endpoints, cacheVars, envVars>>

-----------------------------------------------------------------------------
(* reconcileDeletion.                                                      *)

\* Mutant: the namespace is deleted whether the spec asks for it or not.
DeleteServiceAndNamespace ==
  /\ pc = "deleteService"
  /\ objects' = DeletedIfControlled(ServiceKey(cur, snap.spec), Ref(cur, snap))
  /\ GoTo("deleteNamespace")
  /\ UNCHANGED <<cells, namespaces, endpoints, cacheVars, status, envVars>>

DeleteEntrypointService ==
  /\ pc = "deleteService"
  /\ objects' = DeletedIfControlled(ServiceKey(cur, snap.spec), Ref(cur, snap))
  /\ GoTo(IF snap.spec.tearDownOnDelete THEN "deleteNamespace" ELSE "removeFinalizer")
  /\ UNCHANGED <<cells, namespaces, endpoints, cacheVars, status, envVars>>

\* The labels in the cache decide; the Delete itself is by name.
ManagedBy(object, c) == object # NoObject /\ object.cellName = c

DeleteNamespaceIfManaged ==
  LET n == EffectiveNamespace(cur, snap.spec)
  IN  /\ pc = "deleteNamespace"
      /\ namespaces' =
           IF ManagedBy(cNamespaces[n], cur) /\ namespaces[n] # NoObject
           THEN [namespaces EXCEPT ![n].phase = "Terminating"] ELSE namespaces
      /\ GoTo("removeFinalizer")
      /\ UNCHANGED <<cells, objects, endpoints, cacheVars, status, envVars>>

\* A Cell without finalizers that is being deleted disappears.
RemoveFinalizer ==
  /\ pc = "removeFinalizer"
  /\ IF cells[cur] = NoObject
       THEN UNCHANGED cells /\ Return(TRUE)
       ELSE /\ cells' = IF cells[cur].deleting
                        THEN [cells EXCEPT ![cur] = NoObject]
                        ELSE [cells EXCEPT ![cur].finalizer = FALSE]
            /\ Return(FALSE)
  /\ UNCHANGED <<namespaces, objects, endpoints, cacheVars, envVars>>

ReconcileStep ==
  \/ EnsureFinalizer
  \/ ReconcileNamespace
  \/ ReconcileService
  \/ \E kind \in PolicyKinds : ReconcilePolicy(kind)
  \/ CountReadyEndpoints
  \/ PatchStatus
  \/ PatchFailure
  \/ DeleteEntrypointService
  \/ DeleteNamespaceIfManaged
  \/ RemoveFinalizer

-----------------------------------------------------------------------------
(* Informers: a cache takes over the API server's version, and the watch   *)
(* handlers of SetupWithManager put the Cells it concerns in the queue.    *)

SyncCell(c) ==
  /\ cCells[c] # cells[c]
  /\ cCells' = [cCells EXCEPT ![c] = cells[c]]
  /\ queue' = queue \cup {c}
  /\ UNCHANGED <<apiVars, cNamespaces, cObjects, cEndpoints, workerVars, envVars>>

\* Namespaces are cached because they are read, but not watched by the controller.
SyncNamespace(n) ==
  /\ cNamespaces[n] # namespaces[n]
  /\ cNamespaces' = [cNamespaces EXCEPT ![n] = namespaces[n]]
  /\ UNCHANGED <<apiVars, cCells, cObjects, cEndpoints, queue, workerVars, envVars>>

OwnerRequests(object) ==
  IF object = NoObject \/ object.owner = NoOwner THEN {} ELSE {object.owner.name}

SyncObject(k) ==
  /\ cObjects[k] # objects[k]
  /\ cObjects' = [cObjects EXCEPT ![k] = objects[k]]
  /\ queue' = queue \cup OwnerRequests(cObjects[k]) \cup OwnerRequests(objects[k])
  /\ UNCHANGED <<apiVars, cCells, cNamespaces, cEndpoints, workerVars, envVars>>

RequestsForEndpointSlice(k) ==
  {c \in Cells : cCells[c] # NoObject /\ ServiceKey(c, cCells[c].spec) = k}

SyncEndpoints(k) ==
  /\ cEndpoints[k] # endpoints[k]
  /\ cEndpoints' = [cEndpoints EXCEPT ![k] = endpoints[k]]
  /\ queue' = queue \cup RequestsForEndpointSlice(k)
  /\ UNCHANGED <<apiVars, cCells, cNamespaces, cObjects, workerVars, envVars>>

-----------------------------------------------------------------------------
(* The cluster around the operator.                                        *)

OwnerAlive(ref) == cells[ref.name] # NoObject /\ cells[ref.name].uid = ref.uid

\* Garbage collection of dependents whose owner's UID is gone.
GarbageCollect(k) ==
  /\ objects[k] # NoObject /\ objects[k].owner # NoOwner
  /\ ~OwnerAlive(objects[k].owner)
  /\ objects' = [objects EXCEPT ![k] = NoObject]
  /\ UNCHANGED <<cells, namespaces, endpoints, cacheVars, queue, workerVars, envVars>>

\* A terminating namespace disappears with what it contains.
NamespaceGone(n) ==
  /\ namespaces[n] # NoObject /\ namespaces[n].phase = "Terminating"
  /\ namespaces' = [namespaces EXCEPT ![n] = NoObject]
  /\ objects' = [k \in ObjectKeys |-> IF k[1] = n THEN NoObject ELSE objects[k]]
  /\ endpoints' = [k \in ServiceKeys |-> IF k[1] = n THEN 0 ELSE endpoints[k]]
  /\ UNCHANGED <<cells, cacheVars, queue, workerVars, envVars>>

\* The EndpointSlices of a deleted Service go away.
SlicesGone(k) ==
  /\ objects[k] = NoObject /\ endpoints[k] > 0
  /\ endpoints' = [endpoints EXCEPT ![k] = 0]
  /\ UNCHANGED <<cells, namespaces, objects, cacheVars, queue, workerVars, envVars>>

Disturb(kind) ==
  /\ kind \in Disturbances
  /\ disturbances < MaxDisturbances
  /\ disturbances' = disturbances + 1

Undisturbed == UNCHANGED <<cacheVars, queue, workerVars>>

CreateCell(c, spec) ==
  /\ cells[c] = NoObject /\ Disturb("cell")
  /\ uids' = [uids EXCEPT ![c] = @ + 1]
  /\ cells' = [cells EXCEPT ![c] =
       [uid |-> uids[c] + 1, spec |-> spec, generation |-> 1, deleting |-> FALSE,
        finalizer |-> FALSE, status |-> EmptyStatus]]
  /\ Undisturbed /\ UNCHANGED <<namespaces, objects, endpoints>>

EditCell(c, spec) ==
  /\ cells[c] # NoObject /\ cells[c].spec # spec /\ Disturb("cell")
  /\ cells' = [cells EXCEPT ![c].spec = spec, ![c].generation = @ + 1]
  /\ Undisturbed /\ UNCHANGED <<namespaces, objects, endpoints, uids>>

\* A Cell with a finalizer is only marked, which counts as a new generation; one
\* without disappears.
DeleteCell(c) ==
  /\ cells[c] # NoObject /\ ~cells[c].deleting /\ Disturb("cell")
  /\ cells' = IF cells[c].finalizer
              THEN [cells EXCEPT ![c].deleting = TRUE, ![c].generation = @ + 1]
              ELSE [cells EXCEPT ![c] = NoObject]
  /\ Undisturbed /\ UNCHANGED <<namespaces, objects, endpoints, uids>>

UserCreatesNamespace(n) ==
  /\ namespaces[n] = NoObject /\ Disturb("namespace")
  /\ namespaces' = [namespaces EXCEPT ![n] =
       [cellName |-> "", phase |-> "Active", by |-> "user"]]
  /\ Undisturbed /\ UNCHANGED <<cells, objects, endpoints, uids>>

UserDeletesNamespace(n) ==
  /\ NamespaceOpen(n) /\ Disturb("namespace")
  /\ namespaces' = [namespaces EXCEPT ![n].phase = "Terminating"]
  /\ Undisturbed /\ UNCHANGED <<cells, objects, endpoints, uids>>

UserCreatesObject(k) ==
  /\ objects[k] = NoObject /\ NamespaceOpen(k[1]) /\ Disturb("object")
  /\ objects' = [objects EXCEPT ![k] = [owner |-> NoOwner, by |-> "user"]]
  /\ Undisturbed /\ UNCHANGED <<cells, namespaces, endpoints, uids>>

UserDeletesObject(k) ==
  /\ objects[k] # NoObject /\ Disturb("object")
  /\ objects' = [objects EXCEPT ![k] = NoObject]
  /\ Undisturbed /\ UNCHANGED <<cells, namespaces, endpoints, uids>>

EndpointsChange(k, n) ==
  /\ objects[k] # NoObject /\ endpoints[k] # n /\ Disturb("endpoints")
  /\ endpoints' = [endpoints EXCEPT ![k] = n]
  /\ Undisturbed /\ UNCHANGED <<cells, namespaces, objects, uids>>

\* The API call of the current step fails without an effect.
CallFails ==
  /\ pc # "idle" /\ Disturb("fault")
  /\ IF pc \in {"namespace", "service", "endpoints"} \cup PolicyKinds
       THEN Failed ELSE Return(TRUE)
  /\ UNCHANGED <<apiVars, cacheVars, uids>>

\* The operator's process ends anywhere in a pass and starts again: empty queue,
\* fresh lists, one initial event per existing Cell.
Restart ==
  /\ Disturb("restart")
  /\ pc' = "idle" /\ cur' = NoObject /\ snap' = NoObject /\ status' = EmptyStatus
  /\ cCells' = cells /\ cNamespaces' = namespaces
  /\ cObjects' = objects /\ cEndpoints' = endpoints
  /\ queue' = {c \in Cells : cells[c] # NoObject}
  /\ UNCHANGED <<apiVars, uids>>

Environment ==
  \/ \E c \in Cells, spec \in Specs : CreateCell(c, spec) \/ EditCell(c, spec)
  \/ \E c \in Cells : DeleteCell(c)
  \/ \E n \in Namespaces : UserCreatesNamespace(n) \/ UserDeletesNamespace(n)
  \/ \E k \in TouchedKeys : UserCreatesObject(k) \/ UserDeletesObject(k)
  \/ \E k \in ServiceKeys, n \in 0..MaxEndpoints : EndpointsChange(k, n)
  \/ CallFails
  \/ Restart

Cluster ==
  \/ \E k \in ObjectKeys : GarbageCollect(k)
  \/ \E n \in Namespaces : NamespaceGone(n)
  \/ \E k \in ServiceKeys : SlicesGone(k)

Informers ==
  \/ \E c \in Cells : SyncCell(c)
  \/ \E n \in Namespaces : SyncNamespace(n)
  \/ \E k \in ObjectKeys : SyncObject(k)
  \/ \E k \in ServiceKeys : SyncEndpoints(k)

Next ==
  \/ \E c \in Cells : StartReconcile(c)
  \/ ReconcileStep
  \/ Informers
  \/ Cluster
  \/ Environment

Spec == Init /\ [][Next]_vars

\* The work queue is first-in first-out and the worker always runs; informers
\* deliver; the cluster's own controllers run.  Users and faults need not act.
Fairness ==
  /\ \A c \in Cells : SF_vars(StartReconcile(c))
  /\ WF_vars(ReconcileStep)
  /\ \A c \in Cells : WF_vars(SyncCell(c))
  /\ \A n \in Namespaces : WF_vars(SyncNamespace(n)) /\ WF_vars(NamespaceGone(n))
  /\ \A k \in ObjectKeys : WF_vars(SyncObject(k)) /\ WF_vars(GarbageCollect(k))
  /\ \A k \in ServiceKeys : WF_vars(SyncEndpoints(k)) /\ WF_vars(SlicesGone(k))

FairSpec == Spec /\ Fairness

-----------------------------------------------------------------------------
(* Properties.                                                             *)

Live(c) == cells[c] # NoObject

\* While a pass of reconcileNormal runs, whatever users do, the API server holds
\* the incarnation the pass started from, under its finalizer.  So no write of a
\* pass (a status patch by name in particular) reaches a later Cell of that name.
FinalizerPinsPass ==
  pc \in NormalSteps =>
    Live(cur) /\ cells[cur].uid = snap.uid /\ cells[cur].finalizer

\* Nothing is created for a Cell before its finalizer is on the API server: an
\* object that refers to a Cell's UID is never left behind by an instant delete.
OwnedImpliesFinalizer ==
  \A k \in ObjectKeys :
    objects[k] # NoObject /\ objects[k].owner # NoOwner =>
      (OwnerAlive(objects[k].owner) => cells[objects[k].owner.name].finalizer)

\* A Cell that is to drain or to stay disabled is never reported Ready for the
\* generation that says so, although passes work on stale copies and status is
\* merge-patched against them.
ReadyMatchesGeneration ==
  \A c \in Cells :
    LET ready == cells[c].status.conditions["Ready"]
    IN  Live(c) /\ ready.status = "True"
          /\ ready.observedGeneration = cells[c].generation
        => EffectiveCellState(cells[c].spec) = "Active"

\* Two Cells that name the same namespace and Service never take over each
\* other's objects: an owned object changes hands only by being deleted first.
NoOwnershipTheft ==
  [][\A k \in ObjectKeys :
       objects[k] # NoObject /\ objects[k].owner # NoOwner /\ objects'[k] # NoObject =>
         objects'[k].owner # NoOwner /\ objects'[k].owner.name = objects[k].owner.name]_vars

OwnedByAnother(k, c) ==
  objects[k] # NoObject /\ objects[k].owner # NoOwner /\ objects[k].owner.name # c

\* Another Cell owns the Service or a policy object this Cell wants.
Blocked(c) ==
  LET spec == cells[c].spec
      n == EffectiveNamespace(c, spec)
  IN  \/ OwnedByAnother(<<n, spec.serviceName>>, c)
      \/ \E p \in spec.policies : OwnedByAnother(<<n, p>>, c)

\* What the API server holds for a Cell is what its spec and endpoints call for.
Settled(c) ==
  LET cell == cells[c]
      n == EffectiveNamespace(c, cell.spec)
      service == ServiceKey(c, cell.spec)
      state == EffectiveCellState(cell.spec)
      ready == cell.status.conditions["Ready"]
  IN  /\ ~cell.deleting
      /\ ready.observedGeneration = cell.generation
      /\ IF Blocked(c) THEN ready.status = "False"
         ELSE /\ NamespaceOpen(n)
              /\ IsControlledBy(objects[service], Ref(c, cell))
              /\ \A p \in PolicyKinds :
                   p \in cell.spec.policies <=> IsControlledBy(objects[<<n, p>>], Ref(c, cell))
              /\ cell.status.observedGeneration = cell.generation
              /\ cell.status.namespace = n
              /\ cell.status.availableEndpoints = endpoints[service]
              /\ (ready.status = "True") <=> (state = "Active" /\ endpoints[service] > 0)

\* Once users and faults leave the system alone, every Cell reaches the state it
\* asks for and keeps it, and a deleted Cell is gone: no event is lost for good,
\* no error path gives up, no stale cache is believed for ever.
Converges == <>[](\A c \in Cells : Live(c) => Settled(c))

\* The reconciler comes to rest: its own writes do not keep waking it up.  Only
\* a Cell that waits for endpoints or is blocked is tried again.
Quiesces ==
  <>[](\A c \in (queue \cup {cur}) \ {NoObject} :
         Live(c) /\ (Blocked(c) \/ cells[c].status.availableEndpoints = 0))

\* The namespace that the worker is about to delete: the cached labels name the
\* Cell being finalized.
TearingDown(n) ==
  /\ pc = "deleteNamespace" /\ n = EffectiveNamespace(cur, snap.spec)
  /\ ManagedBy(cNamespaces[n], cur) /\ namespaces[n] # NoObject

\* cell_controller.go:160: finalization "removes only resources this controller can
\* prove it owns, which protects shared namespaces and preexisting Services from
\* accidental deletion": it deletes no Service or namespace that a user created, and
\* spares the namespace in which another Cell has been reconciled that nobody
\* deletes.
FinalizationSparesOthers ==
  /\ pc = "deleteService" =>
       LET k == ServiceKey(cur, snap.spec)
       IN  IsControlledBy(cObjects[k], Ref(cur, snap)) /\ objects[k] # NoObject =>
             objects[k].by = "operator"
  /\ \A n \in Namespaces :
       TearingDown(n) =>
         /\ namespaces[n].by = "operator"
         /\ \A c \in Cells \ {cur} :
              Live(c) => cells[c].deleting \/ cells[c].status.namespace # n

\* cell_types.go:99: tearDownOnDelete "controls whether the operator should
\* delete the managed namespace once the Cell resource is removed": the finalizer
\* is not released while the Cell's namespace stands with the Cell's labels.
TearDownComplete ==
  pc = "removeFinalizer" /\ snap.spec.tearDownOnDelete =>
    LET n == EffectiveNamespace(cur, snap.spec)
    IN  ~(NamespaceOpen(n) /\ namespaces[n].cellName = cur)
-----------------------------------------------------------------------------
(* The promise of module Ownership.                                        *)

Phase(c) ==
  CASE ~Live(c) -> "absent"
    [] Live(c) /\ cells[c].deleting -> "deleting"
    [] Live(c) /\ ~cells[c].deleting /\ cells[c].finalizer -> "managed"
    [] OTHER -> "new"

HasOwner(k) == objects[k] # NoObject /\ objects[k].owner # NoOwner

Contract == INSTANCE Ownership WITH
  Names <- Cells, Things <- ObjectKeys, Nobody <- NoOwner,
  phase <- [c \in Cells |-> Phase(c)],
  holder <- [k \in ObjectKeys |-> IF HasOwner(k) THEN objects[k].owner.name ELSE NoOwner],
  orphans <- {k \in ObjectKeys : HasOwner(k) /\ ~OwnerAlive(objects[k].owner)}

\* Every step of the reconciler and its cluster is a step of the ownership
\* protocol: owner references, finalizers and deletions keep to it although a pass
\* acts on cached copies, calls fail and Cells are created again under their names.
ImplementsOwnership == Contract!Spec
=============================================================================
