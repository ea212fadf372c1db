# Formal models of cell-router-operator

cell-router-operator is a Kubernetes operator with two controllers in one
process. The **Cell reconciler** gives each `Cell` a namespace, an entrypoint
Service and optional policies, and reports whether it is ready for traffic. The
**CellRouter reconciler** turns the explicit routes of a `CellRouter` and the
`CellPlacement`s that refer to it into a Gateway, HTTPRoutes and ReferenceGrants
for the Cells that are ready. This directory models both, the compiler of
placements between them, and the process they run in, in TLA+.

## Inventory

| Component | State | Operations | Module |
|---|---|---|---|
| Cell reconciler (`internal/controller/cell_controller.go`) | Cells, namespaces, Services and policies on the API server; informer caches; work queue; locals of a pass | `ensureFinalizer`, `reconcileNamespace`, `reconcileService`, three policies, `countReadyEndpoints`, status patches, `deleteEntrypointService`, `deleteNamespaceIfManaged`, finalizer removal, watch handlers | `CellController` |
| CellRouter reconciler (`cellrouter_controller.go`) | CellRouters, placements, views of Cells, Gateways, HTTPRoutes, ReferenceGrants; caches; queue; locals of a pass | gateway namespace, gateway, plans, backends, placement status, grants, routes, two sweeps, status patches, deletion in order, watch handlers | `RouterController` |
| Placement compiler and validation (`cellplacement_compiler.go`, `cellplacement_validation.go`) | none | overlap check, validation, ranges to regular expressions, replacement of captures, `buildRoutePlans` | `Placement` |
| Builders (`internal/resource`) | none | content of the managed objects | owner, labels, backends and grants only |
| Manager (`cmd/main.go`) | shared caches, one queue and worker per controller | start, restart | `Operator` |
| Metadata merge, constants, generated deep copies, manifests, scripts | none | - | not modelled |

How the parts interact: there are no direct calls. The Cell reconciler writes
`Cell.status`; the CellRouter reconciler reads `Cell.spec` and `Cell.status` from
the shared cache, is woken by every Cell event (`requestsForCell`), creates its
grants in the namespaces that the Cell reconciler makes and tears down, and writes
`CellPlacement.status`. Every read goes through a cache that may lag, every write
is a separate API call, and a write may fail or wake its own writer.

What is hard, and to test above all: interleavings of users with the calls of a
pass (a Cell deleted and created again under a running pass); merge patches
against stale copies; deletion decided on stale caches; error paths that drop an
error; events that get lost or never stop; two Cells, or two routers, that name the
same objects; a Cell that goes while a router resolves it; and, in the compiler,
the boundaries of numeric ranges and the hand-written scan of a regular expression.
`PROJECT.json` lists these hazards with their lines and the properties that cover
them.

What makes each component correct:

- Cell reconciler: a pass never writes to another incarnation than the one it
  read; nothing is created before the finalizer is there; readiness reported for
  a generation agrees with that generation's spec; no Cell takes another's
  objects; the state converges and the reconciler rests; finalization deletes
  what it should and only that.
- CellRouter reconciler: the same pinning; routes, grants and statuses converge
  to what spec, placements and Cells call for; passes come to an end; routers do
  not touch each other's objects; a Cell that must not get traffic is withdrawn.
- Placement compiler: a route asks of headers, query parameters and selected captures
  exactly what the placement selects; a replacement changes the body of its capture and
  nothing else; two placements of the same shape are never both compiled when a request
  fits both.
- Both in one process: a route follows its Cells, and is never taken away while one of
  them or its fallback stands; what happens to one Cell does not reach another.

## Modules

**`CellController`**. One worker (`pc`, `cur`, `snap`, `status`) takes names from
`queue`. `cells`, `namespaces`, `objects` (Services and policies by namespace and
name) and `endpoints` are the API server, the variables with a `c` in front
the informer caches. Each action is one API call of the code, with its error
path: `StartReconcile`, `EnsureFinalizer`, `ReconcileNamespace`, `ReconcileService`,
`ReconcilePolicy`, `CountReadyEndpoints`, `PatchStatus`, `PatchFailure`,
`DeleteEntrypointService`, `DeleteNamespaceIfManaged`, `RemoveFinalizer`. `Sync...`
delivers to a cache and runs the watch handler. The environment creates, edits and
deletes Cells, namespaces and objects, changes endpoints, makes the call of the
current step fail, and restarts the process; it does so at most
`MaxDisturbances` times, with the kinds in `Disturbances`.

`CreateOrUpdate` is modelled by what it does with a cache: a create when the cache
has nothing (an error if the server has it), no call at all when the cached
object is as desired, else an update that fails when the cached version is not
the server's. `SetControllerReference` compares names, `IsControlledBy` UIDs.
`MergePatch` sends the fields that differ from the base, the condition list as one
field. A Cell with a finalizer is only marked when deleted, which is a new
generation.

**`RouterController`** has the same shape, for any number of routers. `pass` holds
the locals of `reconcileRoutes`; `Continue` is where its loops go on. The order in
which the cache lists placements and Go ranges over the map of invalid ones is a
choice. `pass.finalizing` tells the sweeps of `reconcileDeletion`, which check the
owner's UID, from those of a normal pass, which go by label. A grant is known by
its route and Service, and named by the route and `GrantHash`, as
`ReferenceGrantName` does: the router is not part of the name. Cells are views
(state, readiness, Service) that the environment changes. `ReportRoute` stands for
the Gateway implementation: it accepts a route whose Gateway exists and whose
backends are granted. Placements of one `partition` overlap, one with `valid` false
does not compile: `Placement` says when that is the case.

**`Placement`** has the compiler as operators. A value is a sequence of digits and
other characters, a pattern a sequence of character sets, a regular expression a set
of alternatives with an optional `.*` on either side. A `pathRegex` is a sequence of
parts, captures or text, whose characters are kept as far as the scan of
`replaceNamedCaptureBody` tells them apart: parentheses, brackets, backslashes and
the rest. `RegexMatches` and `Selects` are the two meanings that are compared, and
`PathReplaced` is what the compiler's scans and cuts should amount to. What Go's regexp
matches the original body of a capture to depends on all of its text; it is a constant,
`InBody`, which only `CapturesConstrained` uses. Nothing is said of what whole paths match,
or of captures that are optional or alternatives: `CapturesExactly` is about the expression
at each selected capture, and `CapturesReplaced` says that the rest of the path regex is
what it was.
`AdmittedAssumption` is what the CRD schema demands of the inputs, and
`PathRegexAssumption` what `regexp.Compile`, which `Validate` calls, demands of a
`pathRegex` (`RegexpCompiles`), that no name occurs twice and in the body of a capture
groups, classes and escapes are closed; and beyond that, that no text looks like the
opening of a capture without being one (`NamesOnce`). Go takes an escaped `\(?P<zone>`,
where the compiler's `strings.Index` would stop. A class ends at its first
unescaped `]`, as the scan has it; Go takes a `]` that stands first in a class for a
member, so regular expressions such as `[])]` are outside. Where the code
recurses (`sameLengthRangePatterns`) the model has a recursive function, which TLC
evaluates and the proofs can reason about.

**`Ownership`** is the abstract specification of both reconcilers' effect on the
cluster, without caches, queues or passes: a resource is absent, new, managed (under
the finalizer) or deleting; an object is held by a resource or by nobody. A managed
resource acquires objects nobody holds, or takes over what an earlier incarnation of
its name left; `Finalize` leaves orphans; and each resource is at rest again and
again (`Progress`): it does not stay new, its deletion ends, its orphans do not last.
`Safety` is all of it but `Progress`. `CellController` and `RouterController` each
instantiate it as `Contract`, with
`phase` read off the deletion mark and the finalizer, `holder` off the owner
references, and `orphans` being the objects whose reference is to a UID that is gone.
`ImplementsOwnership` is `Contract!Spec`, fairness included.

**`Operator`** composes the two: `C == INSTANCE CellController` and
`R == INSTANCE RouterController`, whose `cells` and `cCells` are the views (`View`)
of the Cell reconciler's own variables. Each reconciler has its worker and queue.
One cache of Cells serves both, so `SyncCell` wakes the Cell's reconciler and every
router; a namespace that goes takes its grants along (`NamespaceGone`); a grant
cannot be created in a namespace that is missing or terminating (`GrantRejected`);
`Restart` ends both workers. It starts from a settled cluster, which is what the
`Converges` properties of the parts say they reach. The history variable `scenario` keeps
the specs it started from. `ScenariosAssumption` says for which specs the initial state is
settled and stays within the model: Active Cells without policies, a Service each and, of
routers, a Gateway each. Cells may share a namespace, except that a disturbed one that
takes its namespace along has no other disturbed Cell in it. Users, workloads and failed
calls of Cell passes strike the Cells in `DisturbedCells` only (`CellCallFails`: a Cell
whose own call failed is rightly reported not ready); calls of routers fail anywhere
(`RouterCallFails`). The invariants are about the other Cells: `Kept`; those of them
whose namespace no disturbed Cell takes along (`Housed`); and those that have their
namespace to themselves (`Spared`).

**`CellControllerProofs`, `CellOwnershipProofs`, `RouterControllerProofs`,
`RouterOwnershipProofs`, `NumericRangeProofs`, `PlacementProofs`, `OperatorProofs`** hold
the theorems below; **`NaturalsRecursion`** has the induction and recursion they rest on.

**`MCCellController`, `MCSharedNamespace`, `MCRouterController`, `MCPlacement`,
`MCOperator`** give the constants their values. Operators marked `Mutant` are faulty
versions of the definition after them; no specification uses them.

## Runs

| Run | Checks | Distinct states |
|---|---|---|
| `cell_converges` | `TypeOK`, `FinalizerPinsPass`, `OwnedImpliesFinalizer`, `ReadyMatchesGeneration`, `Converges`, `Quiesces`: one Cell, three disturbances of any kind | 550 000 |
| `cell_shared` | `ImplementsOwnership`, `NoOwnershipTheft`, `Converges`: two Cells that want one namespace and one Service, three creations or deletions | 217 000 |
| `placement_plans` | `ValuesExactly`, `CapturesExactly`, `CapturesReplaced`, `NoAmbiguousPlans`: ranges around every change of length, values on captures, pairs of placements | 3 900 |
| `router_placement` | `TypeOK`, `FinalizerPinsPass`, `ImplementsOwnership`, `Converges`: one router, one placement, an unserved explicit route, one disturbance of any kind | 192 000 |
| `router_pair` | `RoutersKeepApart`, `Converges`, `Quiesces`: two routers that want one grant; the Cell of both changes, or a call fails | 435 000 |
| `operator_failover` | `RouteSurvives`, `TrafficFollowsCells`: both reconcilers, two Cells, one router, one disturbance | 182 000 |
| `operator_contained` | `RouteSurvives`, `FailuresContained`: two Cells, in one namespace or in two, three disturbances, failed calls and restarts among them | 627 000 |
| `cell_missed_teardown` | violates `TearDownComplete` | |
| `cell_spares_others` | violates `FinalizationSparesOthers` | |
| `placement_capture` | violates `CapturesConstrained` | |
| `router_conflict` | violates `DisabledWithdrawn` | |
| `router_moved_gateway` | violates `StaleRoutesRemoved` | |

`CHECK_DEADLOCK FALSE` everywhere: once users leave a cluster alone, a settled
operator has nothing to do, which is what `Quiesces` asks for.

### What the passing runs show

`Converges` is the main statement about each reconciler: from any mixture of
edits, lost races, failed calls and restarts, the API server ends up with what the
specs call for, and stays there. In the Cell runs it fails as soon as an error path does
not return its error, a stale cache is believed for good, or a Ready Cell is not told that
its last endpoint went. The router runs say less about wake-ups: `router_placement` polls
for a Cell that is not there, which makes up for an event that a watch handler misses.
That a change of a Cell reaches its routers is `TrafficFollowsCells`. `Quiesces` is the
complement of `Converges`: the reconciler's own writes do not keep it running.

`ImplementsOwnership` says that passes on stale copies, restarts and re-created
resources never leave the ownership protocol: nobody acquires for a resource that is
not under its finalizer, nobody takes what is another's, and every deletion ends.

`RoutersKeepApart` is about two routers whose routes have one name. Their grants have
one name too; the first to create it is served, the other fails every pass with Ready
False (`Settled` and `Quiesces` say so of a `Contested` router), and neither sweep
deletes what the other router owns, though the Cell that both route to goes, and both
list stale grants from caches that may lag.

`TrafficFollowsCells` is the end-to-end statement: a Cell drained, deleted, without
endpoints or torn down with its namespace leaves every route, and a Cell that can
serve gets it. It is stated over specs and endpoints, not over any status.
`RouteSurvives` adds that the change to the fallback never goes through a state
without the route. `FailuresContained` is the promise of the repository's `README.md:15`,
that failures stay in the Cell they happen in. A Cell that nobody touches keeps its Service
and its namespace, also when it shares the namespace with a Cell that is deleted; only a
Cell with `tearDownOnDelete` takes both from its neighbours, which is the second finding
below. With a namespace of its own, such a Cell is ready for traffic at every
moment under its own Service, also right after a restart, while calls fail for others, and
while another Cell is torn down. In a shared namespace readiness is not claimed: both
Cells write the label of the namespace, each time the other one did, and a pass that finds
its cache behind the server's version fails and reports `Ready` False until it is retried.

### What the violated ones show

1. `TearDownComplete` (`cell_types.go:99`): a namespace that the cache has not seen is
   skipped, and the finalizer removed, so that it stays for good.
2. `FinalizationSparesOthers` (comment at `cell_controller.go:160`): the owner
   reference and the labels that stand for "provably owned" are written on whatever
   has the name. The run stops at a user's Service that was adopted; the property
   also fails for a user's namespace and for one that another Cell uses, which other
   bounds show.
3. `CapturesConstrained` (`DEVELOPER_GUIDE.md:96`): the selector's expression takes the
   place of the capture's body, whatever the body asked for. Prefix and Suffix bring `.*`;
   Range and Exact bring their own values, so that on a body such as `\d\d` they take a
   single digit, too.
4. `DisabledWithdrawn` (`DEVELOPER_GUIDE.md:402`): a name conflict stops every pass
   before the routes, and a disabled Cell stays in its route.
5. `StaleRoutesRemoved` (`DEVELOPER_GUIDE.md:441`): a Gateway that moves to another
   namespace leaves its routes in the old one.

Also met: listener names and hostnames are compared as sorted lists, so that two
placements that differ only in an entry given twice do not overlap for the check, and
both are compiled; two placements with ranges on two sources are rejected as soon as one
source's ranges intersect, though no request fits both; a placement keeps
`Ready=True` when its router is deleted; `status.observedGeneration` of a Cell can go
back for a moment when a stale pass finishes after a newer one; with several rejected
placements `managedRoutes` is in the order of a Go map, so that a pass over the same state
may patch the status once more, until two passes in a row have the same order; two Cells in
one namespace rewrite its `cell-name` label in turns, whenever they are reconciled.

### Bounds

- `MaxDisturbances`. Three for the Cell runs and `operator_contained`: a race between a
  user and a pass takes one or two (delete and create again; edit during a pass and a
  failed call). One for the larger router models and `operator_failover`: each starts with any mixture of existing
  specs, so that a disturbance meets passes at every point, but two user actions in
  a row, or a restart combined with an edit, are not in these runs. Between
  disturbances the system runs as long as it likes.
- `MaxEndpoints` is 1: readiness only tells zero from more.
- One Cell where Cells do not interact, two where they share a namespace. One router,
  or two that meet at a grant.
- `DisturbedCells` and `States` in `Operator`: the Cell "c" is drained, deleted, loses
  its endpoints or fails its calls; "d" is left alone. Draining stands for both states
  that withdraw a Cell. In `operator_failover` one scenario has "d" to fall back to, the
  other tears the namespace down. In `operator_contained` the route is to "d", which has
  another namespace than a "c" with `tearDownOnDelete`, or the same one and another Service.
- `TouchedKeys`, `Specs`, `RouterSpecs`, `PlacementSpecs`, `CellViews`: the objects and
  specs users touch, chosen so that each branch of the code is taken.
- `GrantHash`: values that do not collide. A collision between backends of one route
  keeps a stale grant; that follows from the sweep's comparison by name.
- `Placement`: bounds around each change of length and of leading digit up to
  1 099, each tried on every number up to 1 101; `MaxUint64` is 2 000, so that a range
  beyond it occurs. The path has a capture whose body is a class, one whose body holds a
  group, a class with a parenthesis and an escaped one, and one that the compiler cannot
  find. `placement_capture` has one capture with the body `\d+` or `\d\d`, for which
  `InBody` is given.

### Fairness

`FairSpec` of the parts assumes weak fairness of the worker's steps (a goroutine that
is not blocked runs), of each informer (a watch delivers or is re-established) and of
the cluster's own controllers, and strong fairness of `StartReconcile` per name: the
queue is first-in first-out, so a name that is put there again and again is served.
`Operator` assumes less: weak fairness of each worker, of the informers as a whole and
of the cluster's controllers as a whole. Nothing is assumed of users, failures and
restarts. Requeue delays and backoff are abstracted to "some time later".

## Proofs

TLAPS proves the following for every value of the constants: any number of Cells,
routers, placements, namespaces and Services, any specs and any number of disturbances;
any lists of placements, any ranges, any path regexes and any requests. Every invariant and
every action property that a passing run checks is among them.

| Module | Theorem | Statement |
|---|---|---|
| `CellControllerProofs` | `TypeCorrect` | `Spec => []TypeOK` |
| | `PassPinned` | `Spec => []FinalizerPinsPass` |
| | `OwnedUnderFinalizer` | `Spec => []OwnedImpliesFinalizer` |
| | `ReadyFollowsSpec` | `Spec => []ReadyMatchesGeneration` |
| | `OwnershipKept` | `Spec => NoOwnershipTheft` |
| `CellOwnershipProofs` | `CellKeepsOwnership` | `Spec => Contract!Safety` |
| `RouterControllerProofs` | `TypeCorrect` | `Spec => []TypeOK` |
| | `PassPinned` | `Spec => []FinalizerPinsPass` |
| | `RoutersApart` | `Spec => RoutersKeepApart` |
| `RouterOwnershipProofs` | `OwnedUnderFinalizer` | `Spec => []OwnedImpliesFinalizer` |
| | `RouterKeepsOwnership` | `Spec => Contract!Safety` |
| `NumericRangeProofs` | `RangeExact` | the expression of a range matches the decimals in it |
| `PlacementProofs` | `SelectorExact` | the expression of a selector matches what it selects |
| | `ValuesCompiledExactly` | `Spec => []ValuesExactly` |
| | `PlansUnambiguous` | `Spec => []NoAmbiguousPlans` |
| | `CapturesCompiled` | `Spec => []CapturesReplaced` |
| | `CapturesCompiledExactly` | `Spec => []CapturesExactly` |
| `OperatorProofs` | `FailoverKeepsRoutes` | `Spec => []RouteSurvives` |
| | `CellsAreBulkheads` | `Spec => []FailuresContained` |

The assumptions are the named `ASSUME`s of the modules, which TLC evaluates in every run:
types of the constants, what the CRD schemas and the API server guarantee of inputs
(`SpecsAssumption`, `AdmittedAssumption`, distinct names), what `regexp.Compile` takes
and `NamesOnce` (`PathRegexAssumption`), the settled clusters that `Operator` starts from
(`ScenariosAssumption`), finiteness of lists, and that `NoObject` and `NoOwner` are not
objects.

### The Cell reconciler

None of the invariants is inductive alone: each says something about the API
server that a pass working on a cached copy could break. The inductive invariant
`IInv` adds

- `DeletingHasFinalizer`: what is being deleted still has its finalizer, on the
  server and in the cache;
- `CacheUnderFinalizer`: a cached Cell under finalizer that nobody deletes is the
  incarnation the server holds, so that a pass that starts from it is pinned;
- `FinalizesOnlyDeleted`: a finalization in the cache or in progress is never of a
  Cell that is under finalizer and not deleted, so that `RemoveFinalizer` does not
  take the finalizer from a Cell some pass relies on;
- `UidsHandedOut`: UIDs grow, so that a new incarnation owns nothing yet;
- `ReadyClaims`: every copy of the living incarnation, cached or in hand, is an earlier
  version or the same one, and a Ready condition on the server, in a copy or in the
  status under construction claims nothing for a generation that is not Active.

`InvariantInit` and `InvariantStep` prove `Init => IInv` and
`IInv /\ [Next]_vars => IInv'`, one step per action and under it one per conjunct the
action can disturb; each theorem then follows by PTL.

### The CellRouter reconciler

Its type is not inductive alone either: a pass is a small program over the record `pass`,
and what a step reads there (the plan in hand, the grant to write, the keys to delete)
is there only because of the steps before. `PassInv` says what each step finds. `PinInv`
has the analogues of the first three invariants above, for routers. `ApartInv` is what
keeps two routers with like-named grants apart: a cached route or grant that still
exists has the owner the cache shows, and the keys a sweep is about to delete by name
are of the router of the pass. It holds because an update never changes the name of the
owner, and because a pass creates an object only where the cache shows none: what
disappears cannot come back for another router while the cache still shows it as the old
one's. `RoutersApart` follows from what each
step may do to one object (`ObjectsChange`).

### Both implement `Ownership`

`Contract!Safety` says that the initial states map to initial states and every step to a
step of `Ownership` or a stutter. Each proof goes through a description of a step that
both sides can be compared with (`OwnershipStep`): lives and owners all kept; one life
changed (born, managed, marked, gone) with all owners kept; owners dropped; or one object
taken by the pass for its own resource. Every action of the reconciler and its
environment is shown to be one of these, and these are shown to be `Create`, `Manage`,
`Delete`, `Vanish`, `Finalize`, `Release` and `Acquire` of the protocol. The second half
needs that the owner of a pass is alive, under finalizer and not yet replaced
(`FinalizerPinsPass`), that a new incarnation owns nothing (`UidsHandedOut`), and that a
resource which is not under its finalizer owns nothing (`OwnedImpliesFinalizer`):
else a deletion without finalization would leave objects that the protocol has no
orphans for.

### Numeric ranges

`RangeExact` is about `numericRangeRegex` and `sameLengthRangePatterns` as the code has
them, with their recursion. Numbers of one length compare as their digits do, first digit
first (`LexicographicOrder`); otherwise the longer one without leading zero is the larger
(`LengthOrders`). Both are inductions over the length of `Number`, which goes from the
last digit. Each of the five cases of the recursion is then a partition of a range by the
first digit, whose parts end in 99...9 or begin with 00...0 (`InRangeSplit`,
`RepeatBounds`); `ExactStep` and induction give `SameLengthExact`. Ranges over several
lengths are put together from a range for each length (`LongerRange`).

The induction theorems of the library take an operator as a parameter, which the installed
provers cannot instantiate. `NaturalsRecursion` therefore states induction over the
elements of a set (`SetInduction`), from the fact that `<` is well-founded on the naturals
and that non-empty sets have least elements; and it proves that a value and a step
define a function (`Recursion`). From the latter it follows that the equations that define
`NumberOf` and `RangePatterns` have solutions (`NumberExists`, `RangePatternsExist`), and
so that these functions satisfy them.

### Plans

`PlansInv` is the inductive invariant: a planned placement was valid, was not rejected
for an overlap, its path could be compiled, and the route under its name is its own
compilation. `SelectorExact` adds
the three operators on texts to `RangeExact`, and `ValuesCompiledExactly` follows.
`PlansUnambiguous`: with the distinct sources that `Validate` asks for, a signature is the
set of its lines (`SignatureOfLines`), so that placements of one shape agree in the lines
that are not ranges; a request that fits both has for the source of a range a number that
is in both ranges, so that `numericRangesIntersect` is true, the bounds of valid ranges
being within 64 bits.

### Path captures

The compiler's loops over a text or a list are folds in the model. The library defines a
fold by a recursion over sets of indices; `FoldExists` shows that this recursion has a
solution, from which come the equations of the folds that are used (`ScanFold`,
`AppendFold`, `SubstituteFold`) and of `FlattenSeq` (`FlattenSplit`). The argument is then
in three parts.

- The scan. After m characters of a body whose groups, classes and escapes are closed, the
  scanner's flags and depth are what the definitions of `Escaped`, `InClass` and `Groups`
  say of that place (`ScanAt`), by induction over m. So it cannot stop before the end of
  the body, and does stop at the parenthesis that follows: `BodyReplaced`.
- One substitution after another. The text after k selectors is the flattened sequence of
  parts in which the first k selected captures have their new bodies (`Filled`,
  `Compiled`). That the next capture is found at its own place and not in a body put in
  before needs that a name opens once (`OpensOnce`), which `NamesOnce` says of
  the placement's text and the substitutions preserve. A capture in the spelling
  `(?<name>` is not found: the code then rejects the placement, and `PlansInv` has that
  planned ones compiled.
- The meaning. `CaptureAsks` reads off the compiled text what it asks of each selected
  capture, and `SelectorExact` says that this is what the selector selects.

That this is less than what the capture's own body asked for is the finding of
`placement_capture`; the theorems speak of the selected values only.

### Both reconcilers together

The inductive invariant of `OperatorProofs` speaks of the Cells that are left alone, in the
scenario that the system started in. It asks the more of a Cell, the more it has to itself.

- `CellInv`: every version of any Cell, on the server, in the shared cache or in the hands
  of the pass, keeps the namespace, the Service name and `tearDownOnDelete` of its scenario;
  each version of a kept Cell is Active and under finalizer, so that no pass finalizes it.
  The namespace and the Service of a housed Cell are there, on the server and in each
  cache: other Cells have other Services, their updates of a shared namespace change its
  label only, and a pass comes to delete a namespace only for a Cell with
  `tearDownOnDelete`, which by definition is no neighbour of a housed one. Of a spared
  Cell, the namespace has its label, the endpoints are there, and every version is ready:
  its pass takes none of the failing branches, and so patches nothing but readiness.
- `RouterInv`: in a pass, each plan with a spared Cell, its own or to fall back to, is still
  to be resolved or its route is among the expected ones (`NoneForgotten`). A plan that is
  resolved has a backend, since every cached view of a spared Cell is ready, so that its route
  is expected before the pass comes to its sweep; hence the keys to delete never include
  it. A pass that fails comes to no sweep. Sweeps keep to the Gateway of their router, which
  no other router shares.

No conjunct of this holds alone: routes survive because cached readiness does, which does
because the Cell's pass finds the namespace, the Service and the endpoints in its caches,
which are there because no other Cell's finalization deletes them.

### Only model-checked

Liveness under fairness, which is out of the prover's reach: `Converges`, `Quiesces`,
`TrafficFollowsCells` and `Contract!Progress`, the part of `ImplementsOwnership` that
`Safety` leaves out.

## Not modelled

- Cell: the conditions `NamespaceReady`, `ServiceReady` and `PoliciesReady`, reasons
  and messages, `entrypointService` and `operationalState`, which only report; so a
  patch that would send the condition list for a changed message alone is not
  sent. Contents of the managed objects other than their owner. The specs of the runs
  do not change a Cell's namespace or Service name.
- A cache jumps to the server's current version; intermediate versions are not
  delivered one by one. After a restart the first lists are fresh.
- A List error in a watch handler: reads from a started cache do not fail.
- More than one active replica: `config/manager/manager.yaml` asks for leader
  election.
- Router: the Gateway's name (a Gateway is known by its namespace), the gateway
  namespace's cache, weights, listeners, hostnames, matches; the conditions
  `GatewayReady` and `RoutesReady`. All candidates of a plan are resolved in one step.
- `Operator`: placements and edits of routers, which are in `RouterController` alone;
  policies and re-creation of Cells; failed calls of passes for Cells that are left alone.
- Placement: trimming and syntax of names, case of header names, what whole paths match,
  selectors on a capture that stands inside another one, text that looks like the opening
  of a capture, a `]` that stands first in a character class.
- Probabilities: the model chooses the order of a Go map anew in each pass, so that it
  cannot say that two passes in a row have the same one sooner or later.
- `internal/utils/metadata` (merging of two maps, without state) and
  `internal/constants`; generated deep copies; manifests and scripts; flags, TLS,
  metrics and probes of the manager.

## Plan

1. Done: `CellController`, `RouterController`, `Placement`, the abstract `Ownership`
   refined by both reconcilers, and the composition `Operator`.
2. Done: every invariant and action property of the passing runs as a theorem: both
   reconcilers, both refinements, the compiler's ranges, selectors, path captures and
   overlap check, and the composition.
3. Open: placements and edits of routers in `Operator`, for which `RouteSurvives` would
   have to be stated per version of a plan; policies of Cells there; what Cells that share a
   namespace may report while they rewrite its label.
