------------------------- MODULE CellOwnershipProofs -------------------------
(***************************************************************************)
(* The objects of Cells keep to the safety part of the ownership protocol:  *)
(* every step of the Cell reconciler and of the cluster around it is a step *)
(* of module Ownership, or none, for any constants.                         *)
(***************************************************************************)
EXTENDS CellControllerProofs

\* The controller that an object's owner reference names, if there is one.
OwnerIn(object) == IF object = NoObject THEN NoOwner ELSE object.owner

\* b is a Cell whose life is where that of a is: only its spec, its generation and
\* its status may differ.
SameLife(a, b) ==
  /\ a = NoObject <=> b = NoObject
  /\ a # NoObject => b.uid = a.uid /\ b.deleting = a.deleting /\ b.finalizer = a.finalizer

\* Users create c, delete it before or after it is managed; the operator adds its
\* finalizer or removes it.
Born(c) ==
  /\ cells[c] = NoObject /\ cells'[c] # NoObject
  /\ ~cells'[c].deleting /\ ~cells'[c].finalizer
  /\ cells'[c].uid = uids[c] + 1
Gone(c) == cells[c] # NoObject /\ cells'[c] = NoObject
Ages(c) ==
  /\ cells[c] # NoObject /\ cells'[c] # NoObject
  /\ cells'[c].uid = cells[c].uid /\ cells'[c].finalizer

LivesKept == \A c \in Cells : SameLife(cells[c], cells'[c])

LifeChange(c) ==
  /\ \A d \in Cells \ {c} : SameLife(cells[d], cells'[d])
  /\ \/ Born(c)
     \/ Gone(c) /\ (cells[c].deleting \/ ~cells[c].finalizer)
     \/ Ages(c) /\ ~cells[c].deleting /\ ~cells[c].finalizer /\ ~cells'[c].deleting
     \/ Ages(c) /\ ~cells[c].deleting /\ cells[c].finalizer /\ cells'[c].deleting

OwnersKept == \A k \in ObjectKeys : OwnerIn(objects'[k]) = OwnerIn(objects[k])

\* Objects disappear (all of a namespace at once), or the pass writes one.
Dropped(gone) ==
  \A k \in ObjectKeys : OwnerIn(objects'[k]) = IF k \in gone THEN NoOwner ELSE OwnerIn(objects[k])
Taken(key) ==
  /\ pc \in NormalSteps
  /\ \A k \in ObjectKeys :
       OwnerIn(objects'[k]) = IF k = key THEN Ref(cur, snap) ELSE OwnerIn(objects[k])
  /\ OwnerIn(objects[key]) = NoOwner \/ OwnerIn(objects[key]).name = cur

OwnershipStep ==
  \/ LivesKept /\ OwnersKept
  \/ LivesKept /\ \E gone \in SUBSET ObjectKeys : Dropped(gone)
  \/ LivesKept /\ \E key \in ObjectKeys : Taken(key)
  \/ OwnersKept /\ \E c \in Cells : LifeChange(c)

\* An owner is a reference or nothing.
LEMMA OwnerType ==
  ASSUME TypeOK, NEW k \in ObjectKeys
  PROVE  /\ OwnerIn(objects[k]) \in OwnerRef \cup {NoOwner}
         /\ OwnerIn(objects[k]) # NoOwner =>
              OwnerIn(objects[k]).name \in Cells /\ OwnerIn(objects[k]).uid \in Nat
  BY DEF TypeOK, OwnedObject, OwnerIn, OwnerRef

\* A life that is left alone.
LEMMA SameLifeRefl == \A a : SameLife(a, a)
  BY DEF SameLife

\* The Cell that a step changes, and the ones it does not.
LEMMA OneLife ==
  ASSUME TypeOK, NEW c \in Cells, NEW new, cells' = [cells EXCEPT ![c] = new]
  PROVE  cells'[c] = new /\ \A d \in Cells \ {c} : SameLife(cells[d], cells'[d])
  BY SameLifeRefl DEF TypeOK

\* What CreateOrUpdate does to owners.
LEMMA OwnersWritten ==
  ASSUME TypeOK, pc \in NormalSteps, NEW key \in ObjectKeys,
         CanCreateOrUpdate(key, Ref(cur, snap)), objects' = CreatedOrUpdated(key, Ref(cur, snap))
  PROVE  OwnersKept \/ Taken(key)
<1> DEFINE ref == Ref(cur, snap)
<1>1. CASE IsControlledBy(cObjects[key], ref)
  BY <1>1 DEF CreatedOrUpdated, OwnersKept
<1>2. CASE ~IsControlledBy(cObjects[key], ref)
  <2> DEFINE new == [owner |-> ref,
                     by |-> IF cObjects[key] = NoObject THEN "operator" ELSE cObjects[key].by]
  <2>1. objects' = [objects EXCEPT ![key] = new] /\ new.owner = ref
    BY <1>2 DEF CreatedOrUpdated
  <2>2. new \in OwnedObject
    <3>1. ref \in OwnerRef
      BY PartTypes DEF TypeOK, NormalSteps, PolicyKinds
    <3>2. cObjects[key] # NoObject => cObjects[key].by \in {"operator", "user"}
      BY DEF TypeOK, OwnedObject
    <3> QED
      BY <3>1, <3>2 DEF OwnedObject
  <2>3. OwnerIn(new) = ref
    BY <2>1, <2>2, SentinelsAssumption DEF OwnerIn
  <2>4. objects[key] = NoObject \/ objects[key].owner = NoOwner \/ objects[key].owner.name = cur
    BY <1>2 DEF CanCreateOrUpdate, Adoptable, Ref
  <2> HIDE DEF new
  <2>5. \A k \in ObjectKeys : objects'[k] = IF k = key THEN new ELSE objects[k]
    BY <2>1 DEF TypeOK
  <2> QED
    BY <2>3, <2>4, <2>5 DEF Taken, OwnerIn
<1> QED
  BY <1>1, <1>2

\* What the guarded delete does to them.
LEMMA OwnersDeleted ==
  ASSUME TypeOK, NEW key \in ObjectKeys, objects' = DeletedIfControlled(key, Ref(cur, snap))
  PROVE  OwnersKept \/ Dropped({key})
  BY DEF DeletedIfControlled, OwnersKept, Dropped, OwnerIn, TypeOK

\* Users create, edit and delete Cells.
LEMMA LivesOfUsers ==
  ASSUME TypeOK, NEW c \in Cells,
         \/ \E spec \in Specs : CreateCell(c, spec) \/ EditCell(c, spec)
         \/ DeleteCell(c)
  PROVE  LivesKept \/ LifeChange(c)
<1>t. uids[c] \in Nat
  BY DEF TypeOK
<1>1. ASSUME NEW spec \in Specs, CreateCell(c, spec) PROVE LifeChange(c)
  <2> DEFINE new == [uid |-> uids[c] + 1, spec |-> spec, generation |-> 1, deleting |-> FALSE,
                     finalizer |-> FALSE, status |-> EmptyStatus]
  <2>1. spec \in CellSpec
    BY ConstantsAssumption
  <2>n. uids[c] + 1 \in Nat
    BY <1>t
  <2>2. new \in Cell
    BY <2>1, <2>n, EmptyStatusType DEF Cell
  <2>3. new # NoObject /\ ~new.deleting /\ ~new.finalizer /\ new.uid = uids[c] + 1
    BY <2>2, SentinelsAssumption
  <2>4. cells[c] = NoObject /\ cells' = [cells EXCEPT ![c] = new]
    BY <1>1 DEF CreateCell
  <2> HIDE DEF new
  <2> QED
    BY <2>3, <2>4, OneLife DEF LifeChange, Born
<1>2. ASSUME NEW spec \in Specs, EditCell(c, spec) PROVE LivesKept
  <2> DEFINE new == [cells[c] EXCEPT !.spec = spec, !.generation = cells[c].generation + 1]
  <2>1. cells[c] \in Cell /\ cells[c] # NoObject /\ spec \in CellSpec
    BY <1>2, ConstantsAssumption DEF TypeOK, EditCell
  <2>2. cells[c].generation + 1 \in Nat
    BY <2>1 DEF Cell
  <2>3. /\ new \in Cell /\ new.uid = cells[c].uid /\ new.deleting = cells[c].deleting
        /\ new.finalizer = cells[c].finalizer
    BY <2>1, <2>2 DEF Cell
  <2>4. new # NoObject
    BY <2>3, SentinelsAssumption
  <2>5. cells' = [cells EXCEPT ![c] = new]
    BY <1>2 DEF EditCell
  <2> HIDE DEF new
  <2>6. SameLife(cells[c], new)
    BY <2>1, <2>3, <2>4 DEF SameLife
  <2> QED
    BY <2>5, <2>6, OneLife DEF LivesKept
<1>3. ASSUME DeleteCell(c) PROVE LifeChange(c)
  <2> DEFINE new == [cells[c] EXCEPT !.deleting = TRUE, !.generation = cells[c].generation + 1]
  <2>1. cells[c] \in Cell /\ cells[c] # NoObject /\ ~cells[c].deleting
    BY <1>3 DEF TypeOK, DeleteCell
  <2>2. cells[c].generation + 1 \in Nat
    BY <2>1 DEF Cell
  <2>3. new \in Cell /\ new.deleting /\ new.uid = cells[c].uid /\ new.finalizer = cells[c].finalizer
    BY <2>1, <2>2 DEF Cell
  <2>4. new # NoObject
    BY <2>3, SentinelsAssumption
  <2>5. IF cells[c].finalizer THEN cells' = [cells EXCEPT ![c] = new]
                              ELSE cells' = [cells EXCEPT ![c] = NoObject]
    BY <1>3 DEF DeleteCell
  <2> HIDE DEF new
  <2> QED
    BY <2>1, <2>3, <2>4, <2>5, OneLife DEF LifeChange, Gone, Ages
<1> QED
  BY <1>1, <1>2, <1>3

\* A pass adds the finalizer, patches the status or removes the finalizer.
LEMMA LivesOfPasses ==
  ASSUME TypeOK, PinInv, EnsureFinalizer \/ PatchStatus \/ PatchFailure \/ RemoveFinalizer
  PROVE  LivesKept \/ \E c \in Cells : LifeChange(c)
<1>0. cur \in Cells /\ snap \in Cell
  BY DEF EnsureFinalizer, PatchStatus, PatchFailure, RemoveFinalizer, TypeOK
<1>u. cells' = cells => LivesKept
  BY SameLifeRefl DEF LivesKept
<1>1. CASE EnsureFinalizer /\ cells[cur] # NoObject
  <2> DEFINE new == [cells[cur] EXCEPT !.finalizer = TRUE]
  <2>1. cells[cur] \in Cell
    BY <1>0, <1>1 DEF TypeOK
  <2>2. /\ new \in Cell /\ new.uid = cells[cur].uid /\ new.finalizer
        /\ new.deleting = cells[cur].deleting
    BY <2>1 DEF Cell
  <2>3. new # NoObject
    BY <2>2, SentinelsAssumption
  <2>4. cells' = [cells EXCEPT ![cur] = new]
    BY <1>1 DEF EnsureFinalizer
  <2> HIDE DEF new
  <2>5. cells'[cur] = new /\ \A d \in Cells \ {cur} : SameLife(cells[d], cells'[d])
    BY <1>0, <2>4, OneLife
  <2>6. CASE cells[cur].finalizer
    <3>1. new.finalizer = cells[cur].finalizer
      BY <2>1, <2>2, <2>6 DEF Cell
    <3>2. SameLife(cells[cur], new)
      BY <1>1, <2>2, <2>3, <3>1 DEF SameLife
    <3> QED
      BY <1>0, <2>5, <3>2 DEF LivesKept
  <2>7. CASE ~cells[cur].finalizer
    <3>1. ~cells[cur].deleting
      BY <1>0, <1>1, <2>7 DEF PinInv, DeletingHasFinalizer
    <3>2. Ages(cur) /\ ~cells'[cur].deleting
      BY <1>1, <2>2, <2>3, <2>5, <3>1 DEF Ages
    <3> QED
      BY <1>0, <2>5, <2>7, <3>1, <3>2 DEF LifeChange
  <2> QED
    BY <2>6, <2>7
<1>2. CASE (PatchStatus \/ PatchFailure) /\ cells[cur] # NoObject
  <2>1. cells' = PatchedCells
    BY <1>2 DEF PatchStatus, PatchFailure
  <2> QED
    BY <1>0, <1>2, <2>1, PatchedFrame DEF LivesKept, SameLife
<1>3. CASE RemoveFinalizer /\ cells[cur] # NoObject /\ cells[cur].deleting
  <2>1. cells' = [cells EXCEPT ![cur] = NoObject]
    BY <1>3 DEF RemoveFinalizer
  <2> QED
    BY <1>0, <1>3, <2>1, OneLife DEF LifeChange, Gone
<1>4. CASE RemoveFinalizer /\ cells[cur] # NoObject /\ ~cells[cur].deleting
  <2>1. pc \in DeletionSteps
    BY <1>4 DEF RemoveFinalizer, DeletionSteps
  <2>2. cells[cur] \in Cell /\ cells[cur].finalizer \in BOOLEAN /\ ~cells[cur].finalizer
    BY <1>0, <1>4, <2>1, PartTypes DEF PinInv, FinalizesOnlyDeleted, Reserved, TypeOK
  <2>3. [cells[cur] EXCEPT !.finalizer = FALSE] = cells[cur]
    BY <2>2 DEF Cell
  <2>4. cells' = [cells EXCEPT ![cur] = [cells[cur] EXCEPT !.finalizer = FALSE]]
    BY <1>4 DEF RemoveFinalizer
  <2>5. cells' = cells
    BY <2>3, <2>4 DEF TypeOK
  <2> QED
    BY <1>u, <2>5
<1> QED
  BY <1>u, <1>1, <1>2, <1>3, <1>4
  DEF EnsureFinalizer, PatchStatus, PatchFailure, RemoveFinalizer

\* Every step changes one life, or owners, or neither.
LEMMA OwnershipSteps ==
  ASSUME TypeOK, PinInv, [Next]_vars
  PROVE  OwnershipStep
<1> USE DEF apiVars, cacheVars, workerVars, envVars, Undisturbed
<1>n. "service" \in NormalSteps /\ PolicyKinds \subseteq NormalSteps
  BY DEF NormalSteps
<1>t. pc # "idle" => /\ ServiceKey(cur, snap.spec) \in ObjectKeys
                     /\ \A kind \in PolicyKinds :
                          <<EffectiveNamespace(cur, snap.spec), kind>> \in ObjectKeys
  BY KeyType, PartTypes DEF TypeOK
<1>l. cells' = cells => LivesKept
  BY SameLifeRefl DEF LivesKept
<1>o. objects' = objects => OwnersKept
  BY DEF OwnersKept
<1>d. \A key \in ObjectKeys : {key} \in SUBSET ObjectKeys
  OBVIOUS
<1>1. CASE ReconcileService
  <2>1. pc \in NormalSteps /\ ServiceKey(cur, snap.spec) \in ObjectKeys /\ cells' = cells
    BY <1>n, <1>t, <1>1 DEF ReconcileService
  <2>2. \/ /\ CanCreateOrUpdate(ServiceKey(cur, snap.spec), Ref(cur, snap))
           /\ objects' = CreatedOrUpdated(ServiceKey(cur, snap.spec), Ref(cur, snap))
        \/ objects' = objects
    BY <1>1 DEF ReconcileService
  <2> QED
    BY <1>l, <1>o, <2>1, <2>2, OwnersWritten DEF OwnershipStep
<1>2. ASSUME NEW kind \in PolicyKinds, ReconcilePolicy(kind) PROVE OwnershipStep
  <2> DEFINE key == <<EffectiveNamespace(cur, snap.spec), kind>>
  <2>1. pc \in NormalSteps /\ pc = kind /\ cells' = cells
    BY <1>n, <1>2 DEF ReconcilePolicy
  <2>2. key \in ObjectKeys
    BY <1>t, <2>1 DEF PolicyKinds
  <2>3. \/ /\ CanCreateOrUpdate(key, Ref(cur, snap))
           /\ objects' = CreatedOrUpdated(key, Ref(cur, snap))
        \/ objects' = DeletedIfControlled(key, Ref(cur, snap))
        \/ objects' = objects
    BY <1>2 DEF ReconcilePolicy
  <2> HIDE DEF key
  <2>4. OwnersKept \/ Taken(key) \/ Dropped({key})
    BY <1>o, <2>1, <2>2, <2>3, OwnersWritten, OwnersDeleted
  <2> QED
    BY <1>d, <1>l, <2>1, <2>2, <2>4 DEF OwnershipStep
<1>3. CASE DeleteEntrypointService
  <2> DEFINE key == ServiceKey(cur, snap.spec)
  <2>1. key \in ObjectKeys /\ cells' = cells /\ objects' = DeletedIfControlled(key, Ref(cur, snap))
    BY <1>t, <1>3 DEF DeleteEntrypointService
  <2> HIDE DEF key
  <2>2. OwnersKept \/ Dropped({key})
    BY <2>1, OwnersDeleted
  <2> QED
    BY <1>d, <1>l, <2>1, <2>2 DEF OwnershipStep
<1>4. ASSUME NEW k \in ObjectKeys, objects' = [objects EXCEPT ![k] = NoObject], cells' = cells
      PROVE  OwnershipStep
  <2>1. Dropped({k})
    BY <1>4 DEF Dropped, OwnerIn, TypeOK
  <2> QED
    BY <1>d, <1>l, <1>4, <2>1 DEF OwnershipStep
<1>5. ASSUME NEW n \in Namespaces, NamespaceGone(n) PROVE OwnershipStep
  <2> DEFINE gone == {k \in ObjectKeys : k[1] = n}
  <2>1. gone \in SUBSET ObjectKeys /\ cells' = cells
    BY <1>5 DEF NamespaceGone
  <2>2. Dropped(gone)
    BY <1>5 DEF NamespaceGone, Dropped, OwnerIn
  <2> HIDE DEF gone
  <2> QED
    BY <1>l, <2>1, <2>2 DEF OwnershipStep
<1>6. ASSUME NEW k \in TouchedKeys, UserCreatesObject(k) \/ UserDeletesObject(k)
      PROVE  OwnershipStep
  <2>1. k \in ObjectKeys
    BY ConstantsAssumption DEF ObjectKeys
  <2>2. CASE UserDeletesObject(k)
    BY <1>4, <2>1, <2>2 DEF UserDeletesObject
  <2>3. CASE UserCreatesObject(k)
    <3> DEFINE new == [owner |-> NoOwner, by |-> "user"]
    <3>1. OwnerIn(new) = NoOwner
      BY DEF OwnerIn
    <3>2. objects[k] = NoObject /\ objects' = [objects EXCEPT ![k] = new] /\ cells' = cells
      BY <2>3 DEF UserCreatesObject
    <3> HIDE DEF new
    <3>3. \A j \in ObjectKeys : objects'[j] = IF j = k THEN new ELSE objects[j]
      BY <3>2 DEF TypeOK
    <3>4. OwnersKept
      BY <3>1, <3>2, <3>3 DEF OwnersKept, OwnerIn
    <3> QED
      BY <1>l, <3>2, <3>4 DEF OwnershipStep
  <2> QED
    BY <1>6, <2>2, <2>3
<1>7. CASE EnsureFinalizer \/ PatchStatus \/ PatchFailure \/ RemoveFinalizer
  <2>1. objects' = objects
    BY <1>7 DEF EnsureFinalizer, PatchStatus, PatchFailure, RemoveFinalizer
  <2> QED
    BY <1>7, <1>o, <2>1, LivesOfPasses DEF OwnershipStep
<1>8. ASSUME NEW c \in Cells,
             \/ \E spec \in Specs : CreateCell(c, spec) \/ EditCell(c, spec)
             \/ DeleteCell(c)
      PROVE  OwnershipStep
  <2>1. objects' = objects
    BY <1>8 DEF CreateCell, EditCell, DeleteCell
  <2> QED
    BY <1>8, <1>o, <2>1, LivesOfUsers DEF OwnershipStep
<1>9. CASE UNCHANGED <<cells, objects>>
  BY <1>9, <1>l, <1>o DEF OwnershipStep
<1>10. CASE \/ ReconcileNamespace \/ CountReadyEndpoints \/ DeleteNamespaceIfManaged
            \/ Informers \/ UNCHANGED vars
            \/ \E c \in Cells : StartReconcile(c)
            \/ \E k \in ServiceKeys : SlicesGone(k)
  BY <1>9, <1>10
  DEF ReconcileNamespace, CountReadyEndpoints, DeleteNamespaceIfManaged, Informers, SyncCell,
      SyncNamespace, SyncObject, SyncEndpoints, vars, StartReconcile, SlicesGone
<1>11. CASE \/ \E n \in Namespaces : UserCreatesNamespace(n) \/ UserDeletesNamespace(n)
            \/ \E k \in ServiceKeys, n \in 0..MaxEndpoints : EndpointsChange(k, n)
            \/ CallFails \/ Restart
  BY <1>9, <1>11
  DEF UserCreatesNamespace, UserDeletesNamespace, EndpointsChange, CallFails, Restart
<1>12. ASSUME NEW k \in ObjectKeys, GarbageCollect(k) PROVE OwnershipStep
  BY <1>4, <1>12 DEF GarbageCollect
<1> QED
  BY <1>1, <1>2, <1>3, <1>5, <1>6, <1>7, <1>8, <1>10, <1>11, <1>12
  DEF Next, ReconcileStep, Cluster, Environment

-----------------------------------------------------------------------------
(* Every step is a step of the ownership protocol, or none.                *)

\* The three variables of the protocol, as the reconciler shows them.
Holder(k) == IF HasOwner(k) THEN objects[k].owner.name ELSE NoOwner
Orphan(k) == HasOwner(k) /\ ~OwnerAlive(objects[k].owner)

phaseBar == [c \in Cells |-> Phase(c)]
holderBar == [k \in ObjectKeys |-> Holder(k)]
orphansBar == {k \in ObjectKeys : Orphan(k)}

\* The actions of the protocol, in these terms: nothing happens, ...
LEMMA AbstractStutter ==
  ASSUME UNCHANGED <<phaseBar, holderBar, orphansBar>> PROVE UNCHANGED Contract!vars
  BY DEF Contract!vars, phaseBar, holderBar, orphansBar, Holder, Orphan

\* ... a Cell is created, managed or deleted, ...
LEMMA AbstractLife ==
  ASSUME NEW c \in Cells, UNCHANGED <<holderBar, orphansBar>>,
         \/ phaseBar[c] = "absent" /\ phaseBar' = [phaseBar EXCEPT ![c] = "new"]
         \/ phaseBar[c] = "new" /\ phaseBar' = [phaseBar EXCEPT ![c] = "absent"]
         \/ phaseBar[c] = "new" /\ phaseBar' = [phaseBar EXCEPT ![c] = "managed"]
         \/ phaseBar[c] = "managed" /\ phaseBar' = [phaseBar EXCEPT ![c] = "deleting"]
  PROVE  Contract!Next
  BY DEF Contract!Next, Contract!Create, Contract!Vanish, Contract!Manage, Contract!Delete,
         Contract!Becomes, phaseBar, holderBar, orphansBar, Holder, Orphan

\* ... a deletion ends, ...
LEMMA AbstractFinalize ==
  ASSUME NEW c \in Cells, phaseBar[c] = "deleting", phaseBar' = [phaseBar EXCEPT ![c] = "absent"],
         UNCHANGED holderBar,
         orphansBar' = orphansBar \cup {k \in ObjectKeys : holderBar[k] = c}
  PROVE  Contract!Next
  BY DEF Contract!Next, Contract!Finalize, Contract!Becomes, phaseBar, holderBar, orphansBar,
         Holder, Orphan

\* ... an object is acquired, ...
LEMMA AbstractAcquire ==
  ASSUME NEW c \in Cells, NEW key \in ObjectKeys, phaseBar[c] \in {"managed", "deleting"},
         holderBar[key] = NoOwner \/ (holderBar[key] = c /\ key \in orphansBar),
         holderBar' = [holderBar EXCEPT ![key] = c], orphansBar' = orphansBar \ {key},
         UNCHANGED phaseBar
  PROVE  Contract!Next
  BY DEF Contract!Next, Contract!Acquire, phaseBar, holderBar, orphansBar, Holder, Orphan

\* ... or objects go.
LEMMA AbstractRelease ==
  ASSUME NEW gone \in SUBSET ObjectKeys,
         holderBar' = [k \in ObjectKeys |-> IF k \in gone THEN NoOwner ELSE holderBar[k]],
         orphansBar' = orphansBar \ gone, UNCHANGED phaseBar
  PROVE  Contract!Next
<1>1. Contract!Release(gone)
  BY DEF Contract!Release, phaseBar, holderBar, orphansBar, Holder, Orphan
<1> QED
  BY <1>1 DEF Contract!Next

\* ref is to a Cell that lives after the step.
StillAlive(ref) == cells'[ref.name] # NoObject /\ cells'[ref.name].uid = ref.uid

\* Holders and orphans by the owner in the object, before and after a step.
LEMMA ByOwner ==
  ASSUME NEW k
  PROVE  /\ Holder(k) = IF OwnerIn(objects[k]) = NoOwner THEN NoOwner ELSE OwnerIn(objects[k]).name
         /\ Holder(k)' =
              IF OwnerIn(objects'[k]) = NoOwner THEN NoOwner ELSE OwnerIn(objects'[k]).name
         /\ Orphan(k) <=> OwnerIn(objects[k]) # NoOwner /\ ~OwnerAlive(OwnerIn(objects[k]))
         /\ Orphan(k)' <=> OwnerIn(objects'[k]) # NoOwner /\ ~StillAlive(OwnerIn(objects'[k]))
  BY DEF Holder, Orphan, HasOwner, OwnerIn, OwnerAlive, StillAlive

\* A life that goes on keeps its phase, ...
LEMMA PhaseKept ==
  ASSUME NEW c \in Cells, SameLife(cells[c], cells'[c])
  PROVE  Phase(c)' = Phase(c)
  BY DEF Phase, Live, SameLife

\* ... and the references to it alive.
LEMMA AliveKept ==
  ASSUME NEW ref, SameLife(cells[ref.name], cells'[ref.name])
  PROVE  StillAlive(ref) <=> OwnerAlive(ref)
  BY DEF StillAlive, OwnerAlive, SameLife

\* The Cell for which a pass takes an object is alive and under its finalizer.
LEMMA TakerManaged ==
  ASSUME TypeOK, PinInv, pc \in NormalSteps
  PROVE  /\ cur \in Cells /\ cells[cur] \in Cell /\ cells[cur] # NoObject /\ cells[cur].finalizer
         /\ Ref(cur, snap) # NoOwner /\ Ref(cur, snap).name = cur /\ OwnerAlive(Ref(cur, snap))
<1>1. cur \in Cells /\ snap \in Cell
  BY DEF TypeOK, NormalSteps, PolicyKinds
<1>2. cells[cur] # NoObject /\ cells[cur].uid = snap.uid /\ cells[cur].finalizer
  BY DEF PinInv, FinalizerPinsPass, Live
<1>3. Ref(cur, snap) \in OwnerRef
  BY <1>1, PartTypes
<1> QED
  BY <1>1, <1>2, <1>3, SentinelsAssumption DEF Ref, OwnerAlive, TypeOK

\* Steps of the reconciler that keep all lives.
LEMMA StepsWithinLives ==
  ASSUME TypeOK, PinInv, LivesKept,
         \/ OwnersKept
         \/ \E gone \in SUBSET ObjectKeys : Dropped(gone)
         \/ \E key \in ObjectKeys : Taken(key)
  PROVE  Contract!Next \/ UNCHANGED Contract!vars
<1>p. phaseBar' = phaseBar
  BY PhaseKept DEF phaseBar, LivesKept
<1>k. \A k \in ObjectKeys : OwnerIn(objects'[k]) = OwnerIn(objects[k]) =>
        Holder(k)' = Holder(k) /\ (Orphan(k)' <=> Orphan(k))
  <2> SUFFICES ASSUME NEW k \in ObjectKeys, OwnerIn(objects'[k]) = OwnerIn(objects[k])
               PROVE  Holder(k)' = Holder(k) /\ (Orphan(k)' <=> Orphan(k))
    OBVIOUS
  <2>1. OwnerIn(objects[k]) # NoOwner => OwnerIn(objects[k]).name \in Cells
    BY OwnerType
  <2>2. OwnerIn(objects[k]) # NoOwner =>
          (StillAlive(OwnerIn(objects[k])) <=> OwnerAlive(OwnerIn(objects[k])))
    BY <2>1, AliveKept DEF LivesKept
  <2> QED
    BY <2>2, ByOwner
<1>1. CASE OwnersKept
  <2>1. holderBar' = holderBar /\ orphansBar' = orphansBar
    BY <1>1, <1>k DEF OwnersKept, holderBar, orphansBar
  <2> QED
    BY <1>p, <2>1, AbstractStutter
<1>2. ASSUME NEW gone \in SUBSET ObjectKeys, Dropped(gone) PROVE Contract!Next
  <2>1. \A k \in gone : Holder(k)' = NoOwner /\ ~Orphan(k)'
    BY <1>2, ByOwner DEF Dropped
  <2>2. \A k \in ObjectKeys \ gone : Holder(k)' = Holder(k) /\ (Orphan(k)' <=> Orphan(k))
    BY <1>2, <1>k DEF Dropped
  <2>3. holderBar' = [k \in ObjectKeys |-> IF k \in gone THEN NoOwner ELSE holderBar[k]]
    BY <2>1, <2>2 DEF holderBar
  <2>4. orphansBar' = orphansBar \ gone
    BY <2>1, <2>2 DEF orphansBar
  <2> QED
    BY <1>p, <2>3, <2>4, AbstractRelease
<1>3. ASSUME NEW key \in ObjectKeys, Taken(key) PROVE Contract!Next \/ UNCHANGED Contract!vars
  <2>m. /\ cur \in Cells /\ cells[cur] \in Cell /\ cells[cur] # NoObject /\ cells[cur].finalizer
        /\ Ref(cur, snap) # NoOwner /\ Ref(cur, snap).name = cur /\ OwnerAlive(Ref(cur, snap))
    BY <1>3, TakerManaged DEF Taken
  <2>1. /\ OwnerIn(objects'[key]) = Ref(cur, snap)
        /\ \A k \in ObjectKeys \ {key} : OwnerIn(objects'[k]) = OwnerIn(objects[k])
        /\ OwnerIn(objects[key]) = NoOwner \/ OwnerIn(objects[key]).name = cur
    BY <1>3 DEF Taken
  <2>2. Holder(key)' = cur /\ (Holder(key) = NoOwner \/ Holder(key) = cur)
    BY <2>1, <2>m, ByOwner
  <2>3. StillAlive(Ref(cur, snap))
    BY <2>m, AliveKept DEF LivesKept
  <2>4. ~Orphan(key)'
    BY <2>1, <2>3, ByOwner
  <2>5. \A k \in ObjectKeys \ {key} : Holder(k)' = Holder(k) /\ (Orphan(k)' <=> Orphan(k))
    BY <1>k, <2>1
  <2>6. orphansBar' = orphansBar \ {key}
    BY <2>4, <2>5 DEF orphansBar
  <2>7. holderBar' = [holderBar EXCEPT ![key] = cur]
    BY <2>2, <2>5 DEF holderBar
  <2>8. CASE Holder(key) = cur /\ ~Orphan(key)
    <3>1. holderBar' = holderBar /\ orphansBar' = orphansBar
      BY <2>2, <2>4, <2>5, <2>8 DEF holderBar, orphansBar
    <3> QED
      BY <1>p, <3>1, AbstractStutter
  <2>9. CASE Holder(key) = NoOwner \/ (Holder(key) = cur /\ Orphan(key))
    <3>1. phaseBar[cur] \in {"managed", "deleting"}
      BY <2>m, PartTypes DEF phaseBar, Phase, Live
    <3>2. holderBar[key] = NoOwner \/ (holderBar[key] = cur /\ key \in orphansBar)
      BY <2>9 DEF holderBar, orphansBar
    <3> QED
      BY <1>p, <2>m, <2>6, <2>7, <3>1, <3>2, AbstractAcquire
  <2> QED
    BY <2>2, <2>8, <2>9
<1> QED
  BY <1>1, <1>2, <1>3

\* Steps that change the life of one Cell.
LEMMA StepsOfLife ==
  ASSUME TypeOK, PinInv, UidsHandedOut, OwnedImpliesFinalizer, OwnersKept,
         NEW c \in Cells, LifeChange(c)
  PROVE  Contract!Next
<1>n. uids[c] \in Nat
  BY DEF TypeOK
<1>h. holderBar' = holderBar
  BY ByOwner DEF OwnersKept, holderBar
<1>p. phaseBar' = [phaseBar EXCEPT ![c] = Phase(c)']
  BY PhaseKept DEF LifeChange, phaseBar
<1>k. ASSUME NEW k \in ObjectKeys, OwnerIn(objects[k]) = NoOwner \/ OwnerIn(objects[k]).name # c
      PROVE  Orphan(k)' <=> Orphan(k)
  <2>1. OwnerIn(objects'[k]) = OwnerIn(objects[k])
    BY DEF OwnersKept
  <2>2. OwnerIn(objects[k]) # NoOwner =>
          (StillAlive(OwnerIn(objects[k])) <=> OwnerAlive(OwnerIn(objects[k])))
    BY <1>k, OwnerType, AliveKept DEF LifeChange
  <2> QED
    BY <2>1, <2>2, ByOwner
<1>r. ASSUME NEW k \in ObjectKeys, OwnerIn(objects[k]) # NoOwner, OwnerIn(objects[k]).name = c
      PROVE  /\ Orphan(k) <=> ~(cells[c] # NoObject /\ cells[c].uid = OwnerIn(objects[k]).uid)
             /\ Orphan(k)' <=> ~(cells'[c] # NoObject /\ cells'[c].uid = OwnerIn(objects[k]).uid)
             /\ OwnerIn(objects[k]).uid \in Nat /\ OwnerIn(objects[k]).uid <= uids[c]
             /\ ~Orphan(k) => cells[c].finalizer
  <2>1. OwnerIn(objects'[k]) = OwnerIn(objects[k])
    BY DEF OwnersKept
  <2>2. Orphan(k) <=> ~(cells[c] # NoObject /\ cells[c].uid = OwnerIn(objects[k]).uid)
    BY <1>r, ByOwner DEF OwnerAlive
  <2>3. Orphan(k)' <=> ~(cells'[c] # NoObject /\ cells'[c].uid = OwnerIn(objects[k]).uid)
    BY <1>r, <2>1, ByOwner DEF StillAlive
  <2>4. objects[k] # NoObject /\ objects[k].owner # NoOwner /\ OwnerIn(objects[k]) = objects[k].owner
    BY <1>r DEF OwnerIn
  <2>5. OwnerIn(objects[k]).uid \in Nat /\ OwnerIn(objects[k]).uid <= uids[c]
    BY <1>r, <2>4, OwnerType DEF UidsHandedOut
  <2>6. ~Orphan(k) => cells[c].finalizer
    BY <1>r, <2>4, ByOwner DEF OwnedImpliesFinalizer
  <2> QED
    BY <2>2, <2>3, <2>5, <2>6
<1>1. CASE Born(c)
  <2>1. phaseBar[c] = "absent" /\ Phase(c)' = "new"
    BY <1>1 DEF Born, phaseBar, Phase, Live
  <2>2. \A k \in ObjectKeys : Orphan(k)' <=> Orphan(k)
    BY <1>1, <1>k, <1>n, <1>r DEF Born
  <2>3. orphansBar' = orphansBar
    BY <2>2 DEF orphansBar
  <2> QED
    BY <1>h, <1>p, <2>1, <2>3, AbstractLife
<1>2. CASE Gone(c) /\ ~cells[c].finalizer
  <2>0. ~cells[c].deleting
    BY <1>2 DEF PinInv, DeletingHasFinalizer, Gone
  <2>1. phaseBar[c] = "new" /\ Phase(c)' = "absent"
    BY <1>2, <2>0 DEF Gone, phaseBar, Phase, Live
  <2>2. \A k \in ObjectKeys : Orphan(k)' <=> Orphan(k)
    BY <1>2, <1>k, <1>r DEF Gone
  <2>3. orphansBar' = orphansBar
    BY <2>2 DEF orphansBar
  <2> QED
    BY <1>h, <1>p, <2>1, <2>3, AbstractLife
<1>3. CASE Gone(c) /\ cells[c].deleting
  <2>1. phaseBar[c] = "deleting" /\ Phase(c)' = "absent"
    BY <1>3 DEF Gone, phaseBar, Phase, Live
  <2>2. \A k \in ObjectKeys : Orphan(k)' <=> Orphan(k) \/ Holder(k) = c
    <3>1. ASSUME NEW k \in ObjectKeys, OwnerIn(objects[k]) # NoOwner, OwnerIn(objects[k]).name = c
          PROVE  Orphan(k)' /\ Holder(k) = c
      BY <1>3, <1>r, <3>1, ByOwner DEF Gone
    <3>2. ASSUME NEW k \in ObjectKeys,
                 OwnerIn(objects[k]) = NoOwner \/ OwnerIn(objects[k]).name # c
          PROVE  (Orphan(k)' <=> Orphan(k)) /\ Holder(k) # c
      BY <1>k, <3>2, ByOwner, SentinelsAssumption
    <3> QED
      BY <3>1, <3>2
  <2>3. orphansBar' = orphansBar \cup {k \in ObjectKeys : holderBar[k] = c}
    BY <2>2 DEF orphansBar, holderBar
  <2> QED
    BY <1>h, <1>p, <2>1, <2>3, AbstractFinalize
<1>4. CASE /\ Ages(c) /\ ~cells[c].deleting
           /\ \/ ~cells[c].finalizer /\ ~cells'[c].deleting
              \/ cells[c].finalizer /\ cells'[c].deleting
  <2>1. \/ phaseBar[c] = "new" /\ Phase(c)' = "managed"
        \/ phaseBar[c] = "managed" /\ Phase(c)' = "deleting"
    BY <1>4 DEF Ages, phaseBar, Phase, Live
  <2>2. \A k \in ObjectKeys : Orphan(k)' <=> Orphan(k)
    BY <1>4, <1>k, <1>r DEF Ages
  <2>3. orphansBar' = orphansBar
    BY <2>2 DEF orphansBar
  <2> QED
    BY <1>h, <1>p, <2>1, <2>3, AbstractLife
<1> QED
  BY <1>1, <1>2, <1>3, <1>4 DEF LifeChange

\* The start is a start of the protocol.
LEMMA AbstractInit == Init => Contract!Init
<1> SUFFICES ASSUME Init PROVE Contract!Init
  OBVIOUS
<1>1. phaseBar \in [Cells -> {"absent", "new"}]
  BY DEF Init, Phase, Live, phaseBar
<1>2. \A k \in ObjectKeys : Holder(k) = NoOwner /\ ~Orphan(k)
  BY DEF Init, Holder, Orphan, HasOwner
<1>3. holderBar = [k \in ObjectKeys |-> NoOwner] /\ orphansBar = {}
  BY <1>2 DEF holderBar, orphansBar
<1> QED
  BY <1>1, <1>3 DEF Contract!Init, phaseBar, holderBar, orphansBar, Holder, Orphan

\* The Services and policies of Cells keep to the ownership protocol, for any Cells,
\* namespaces, specs and disturbances: no pass, however stale its caches, writes for a
\* Cell that is gone or not under its finalizer, an owned object never passes from one
\* Cell to another, and what a finished Cell leaves behind is an orphan until it is
\* collected or taken over.
THEOREM CellKeepsOwnership == Spec => Contract!Safety
<1>1. IInv => TypeOK /\ PinInv /\ UidsHandedOut /\ OwnedImpliesFinalizer
  BY DEF IInv, PinInv
<1>2. IInv /\ [Next]_vars => IInv' /\ [Contract!Next]_(Contract!vars)
  BY <1>1, InvariantStep, OwnershipSteps, StepsWithinLives, StepsOfLife DEF OwnershipStep
<1> QED
  BY <1>2, InvariantInit, AbstractInit, PTL DEF Spec, Contract!Safety
=============================================================================
