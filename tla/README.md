# Formal models of hwameistor's local-volume scheduling core

These TLA+ modules model the parts of the repository under `src/`. They cover
the LVM volume scheduler plugin and the local-disk-manager's per-node pool
registry, and check them against what `spec.md` says the system promises.
It also models the per-node volume QoS writer. TLC model-checks small
instances. TLAPS proves the scheduler's safety invariants, and the QoS
writer's success guarantee, for every value of the constants.

## 1. The system and its parts

| Part | Source | Module | Status |
|---|---|---|---|
| Scheduler Core: LVM scheduler plugin | `pkg/scheduler/scheduler/scheduler-lvm.go` | `LVMScheduler`, refining `PodLifecycle` | modelled |
| Node Catalog: informer cache of `LocalStorageNode` | same file (`hwameiStorCache.Get`) | `LVMScheduler` (`cache`, `Propagate`) | modelled |
| Replica Planner (`GetNodeCandidates`) | not in `src/` | `LVMScheduler` (`Qualifies`, `Candidates`) | partly, from spec 4.3 |
| Reservation Ledger | `Reserve`/`Unreserve` in scheduler-lvm.go (no-ops) | `LVMScheduler` | partly: the code has none |
| Pool Registry: local-disk-manager `nodeManager` | `pkg/local-disk-manager/member/node/manager.go` | `NodeManager` | modelled; its task workers come from spec 4.1 |
| local-storage `LocalManager` | `pkg/local-storage/member/node/storage/manager.go` | none | not modelled: wiring and delegation only |
| Volume QoS cgroups writer | `pkg/local-storage/member/node/qos/cgroups.go` | `VolumeQoS` | modelled (outside the spec's scope, from the code alone) |
| Metrics REST controller | `pkg/apiserver/controller/MetricsController.go` | none | not modelled: formatting; out of scope |

How the parts interact:

- The host scheduler runs one **scheduling cycle** per pod, and cycles do not
  overlap. A cycle calls `Filter(lvs, pvcs, node)` on every node, then `Score`
  on every node that passed, then `Reserve` on the best one.
- **Binding** is asynchronous. The provisioner creates the pod's volumes on
  the chosen node. The host may call `Unreserve` instead.
- `Filter` consults the Replica Planner, which reads the `LocalStorageNode`
  objects. `Score` `Get`s the node's object from the same informer cache.
- The pools in those objects are written by a node-local registry.
- The `nodeManager` of `manager.go` is the analogous registry for
  `LocalDiskNode`s. It rebuilds per-class pools from the disks and volumes it
  discovers, and publishes them with a Get followed by an Update. Its informer
  handlers queue `LocalDisk` and `LocalDiskClaim` events for its workers.
- Other controllers also update the `LocalDiskNode`.
- On each node, the local-storage member throttles a volume's block device
  through cgroups. It calls `ConfigureQoSForDevice` of the writer that
  `NewVolumeCgroupsManager` picked for the host's cgroups mode.

## 2. The modules

### `LVMScheduler` (with `MC_LVMScheduler`)

**State.**

| Variable | Holds |
|---|---|
| `store[n]` | the `LocalStorageNode` pools in the API server |
| `cache[n]` | the same object in the plugin's informer cache |
| `phase[p]` | where pod `p` is in the host pipeline |
| `filtered`, `feasible` | the nodes `Filter` was called on, and the ones it accepted |
| `cands[p][n]` | the `qualifiedNodes` that `Filter(p, n)` computed (history) |
| `scores` | what `Score` returned |
| `loop` | the locals of the `Score` call in progress |
| `node[p]` | the node `p` was reserved on |
| `provisioned[p]` | how many of `p`'s claims are created |

**Actions.**

| Action | Models |
|---|---|
| `Filter(p, n)` | `Filter` (lines 52-62), with `FilterExisting` (`filterForExistingLocalVolumes`, 118-150) and `FilterNew` (`filterForNewPVCs`, 152-181) |
| `ScoreBegin`, `ScoreStep`, `ScoreEnd` | `Score` (67-88): the `Get` snapshot, one turn of the claim loop, and the return value |
| `Reserve`, `Unreserve` | 223-229, which keep nothing |

`Filter`'s helpers are `Vol` (`constructLocalVolumeForPVC`, 183-206),
`ClaimsValid` (its error return for an unknown pool, 160-166) and `PoolName`
(`buildStoragePoolName`, 208-221). The storage class's `replicaNumber` is
text. `Atoi` is `strconv.Atoi` with its error dropped (line 203): an optional
sign and decimal digits give their number, and anything else, the empty text
of a missing parameter included, gives 0. A `Filter` whose claims name an
unknown pool never computes `qualifiedNodes`, so `cands` records none.

`ScoreOne` is `scoreOneVolume` (90-116). It uses `ScorePool`, the claim's
class with the type fixed to Regular (line 101). The conversions are
modelled by what they do on amd64 and arm64:

- `Trunc` is `int64(float64(a)/float64(b))`, truncation toward zero.
- -Inf converts to MinInt64 on both.
- NaN converts to MinInt64 on amd64 and to 0 on arm64. Both are allowed.
- `scoreTotal += score` wraps (`Wrap`), modulo `2^IntWidth`.

The host pipeline around the plugin comes from spec 4.4 and the plugin
contract: `StartCycle`, `EndFilter`, `ScoreFailed` (a Score error or a score
outside [0, MaxNodeScore]) and the choice of a best-scored node in `Reserve`.
The provisioner is `Provision` (with `Fits` and `Take`). It creates claims one
by one on the reserved node and fails the binding when a pool has no room. The
informer is `Propagate`.

Replica qualification (`Qualifies`) is spec 4.3 rules 1-4, plus the rule that
size is greater than 0. These are evaluated on the cache.

**What is abstracted away:**

- Storage-class lookup failures, and a nil `StorageClassName`. The host only
  routes claims of this driver's classes to it.
- Logging.
- Float rounding of `(free-cap)/free*100`. Its result is computed exactly,
  then truncated.

### `PodLifecycle`, and the refinement

`PodLifecycle` is what the scheduler, together with the host pipeline and the
provisioner, promises of each pod (spec 4.4 and 4.5), with cycles, scores,
the cache and the pools abstracted away. A pending pod is either given up
(`GiveUp`) or placed once (`Place`). It is placed only if its claims all name
valid pools (`Valid`), and only on a node that holds every bound volume
(`Local`). A placed pod then binds, fails to bind, or is released.

`LVMScheduler` defines the instance `Lifecycle` with this mapping:

- `status` is `AbsStatus(phase[p])`: queued and in-cycle pods are pending;
- `placedOn` is `node`;
- `Local[p]` is `LocalNodes(p)`;
- `Valid` is `ValidPods`.

`LifecycleRefined == Lifecycle!ASpec` is the refinement property.

- `Reserve` is `Place`.
- `EndFilter` with no feasible node, and `ScoreFailed`, are `GiveUp`.
- The last `Provision` step is `Bind`; a claim that does not fit is `FailBind`.
- `Unreserve` is `Release`.
- Every other step is a stutter.

### `NodeManager` (with `MC_NodeManager`)

**State.**

| Variable | Holds |
|---|---|
| `disks`, `volumes` | what the local registry has discovered |
| `pools` | `m.pools` |
| `phase` | where `Start`, then the worker, is |
| `got` | the object a pending Get returned |
| `obj` | the `LocalDiskNode` in the API server |
| `diskQueue`, `claimQueue` | the two task queues |
| `task` | the item the worker is on |
| `rebuiltFrom` | the input of the last rebuild (history) |

Counters bound the environment.

`Init` is the manager `NewManager` returns (107-134): no pools
(`EmptyPools`), empty queues. The sums of `rebuildLocalPools` and
`syncNodeResources` are `SumOver`, a recursive function over subsets. The
`maxCapacity` loop is `Largest`.

**Start** (196-223) is split into:

- `SetupInformersFail`: `setupInformers`, 226-271. A `GetInformer` that
  fails ends the process with `Fatalf`, before anything is discovered.
- `StartRebuild`: `rebuildLocalPools`, 280-328, as `Rebuilt`/`PoolOf`. This
  includes the `continue` that keeps a class's old pool.
- `RegisterGet` and `RegisterWrite`: `register`, 361-374. Create on NotFound;
  AlreadyExists if another creator won; Update with a version check.
- `StartSyncGet` and `StartSyncWrite`: `syncNodeResources`, 331-359. The
  status and rollups of `StatusOf` are copied under the read lock, then
  Updated, and a Conflict fails the call.
- `StartStoreError`: any store call failing.

A failed Start ends the process. `Restart` starts a fresh manager, with no
pools and empty queues.

**Informer handlers.** `HandleLocalDisk` and `HandleLocalDiskClaim` model
413-462. They apply the node and owner filters, and the filter that the claim
is Bound.

**Task workers.** These are not in `src/`. They are modelled from spec 4.1 as
`WorkerRebuild`, `WorkerSyncGet`/`WorkerSyncWrite` (the same
`syncNodeResources`), `WorkerStoreError` and `WorkerFinish`. `WorkerFinish`
requeues a failed item.

**Environment.**

- `RegistryChange`: disks and volumes appear and disappear.
- `ExternalWrite`: another controller updates the object.
- `Quiescent`: an idle worker blocks on empty queues, and a failed manager
  that is not restarted stays down.

### `VolumeQoS` (with `MC_VolumeQoS`)

**State.**

| Variable | Holds |
|---|---|
| `mode` | `cgroups.Mode()` at construction |
| `limit[k][d]` | the kernel's throttle of key k (read/write bps/iops) for device d |
| `call` | the `ConfigureQoSForDevice` call in progress: its path, request, decoded device number and the number of v1 files written |
| `result`, `last` | what the last call for each path returned, and its request |

Counters bound the calls and the shell failures.

**Code.**

- `Impl` is the switch of `NewVolumeCgroupsManager`, 26-39.
- `Configure` starts a call. For `noop` (85-87) it returns nil at once.
- `StatDevice` is the stat of `getDeviceNumber` (112-117). A vanished path
  returns its error. Otherwise `GetDeviceNumber` (118-120) splits `st_rdev`
  as Rdev/256 and Rdev%256.
- `CgroupV1Write` writes the next of the four throttle files (55-78). A
  refusal or a failing shell returns the error, and the files already
  written stay written. `V1Advance` is the successful write.
- `CgroupV2Write` writes the one io.max line (96-109).
- `ExecFails` is `writeFile`'s shell failing by itself (123-129).

**Kernel.** The kernel is modelled by what it does with the numbers, not as
the identity:

- `Rdev` is Linux's `new_encode_dev`, which stores minors above 255 in the
  upper bits.
- `KernelDev` is the throttle file's `MKDEV` into a 32-bit `dev_t`, which
  keeps 12 bits of major.
- `Accepts` refuses an unknown device (ENODEV) and a negative value
  (EINVAL).

Callers configure one volume at a time, so calls do not interleave.

## 3. The runs

| Run | Expect | What it shows |
|---|---|---|
| `lvm_safety` | pass | `TypeOK`, `BoundLocality`, `PlacementQualified` and `LifecycleRefined` (the scheduler implements `PodLifecycle`), on the Classes instance: an invalid THIN class, a class without `replicaNumber`, a pod with a bound volume, and a lagging cache that makes a score stale |
| `lvm_overcommit` | violation | `ReservationHonoured`: two pods pass Filter on the same pool, because `Reserve` holds nothing, and the second binding fails |
| `lvm_stale_score` | violation | `ScoreInRange`: Score reads a cache newer than Filter's, and the claim no longer fits, so the score is negative |
| `lvm_empty_score` | violation | `ScoreInRange`: with no pending claims the score is int64(NaN), not MaxNodeScore |
| `lvm_topology` | violation | `ReplicaTopology`: only `lvs[0]`'s replicaNumber is checked (line 170) |
| `ndm_publish` | pass | `TypeOK`, `PublishedMatchesPools` (an idle manager has published exactly its pools) and `EventuallyRunning`, under one store error, one foreign write, two restarts, two informer events and two registry changes |
| `ndm_stalepool` | violation | `PoolsMatchRegistry`: a worker rebuild keeps the pool of a class whose disks and volumes are gone (line 309) |
| `ndm_conflict` | violation | `PublishSurvivesConflict`: one foreign write between syncNodeResources' Get and Update fails Start (line 358) |
| `lvm_replicas` | violation | `WellFormedReplicas`: a claim whose class has no `replicaNumber` is given 0 replicas by the dropped `Atoi` error, and its pod is reserved (line 203) |
| `ndm_negfree` | violation | `PublishedFreeNonNegative`: an HDD volume larger than the HDD disk is published as free capacity -1 (line 322) |
| `qos_safety` | pass | `TypeOK`, `AppliedOnSuccess` (a call that returned nil left exactly its four limits on the path's device), in every cgroups mode, with negative values and a failing shell that stop a v1 call midway |
| `qos_devnum` | violation | `QoSOnOwnDevice`: with dm-0 and dm-256 on the node, configuring dm-256 throttles dm-0 (cgroups.go:118) |

Each violation is a disagreement between the code and `spec.md`, or, for
`qos_devnum`, between the code and its own comment. PROJECT.json
records it under "findings".

Every property of a passing run has a mutant in PROJECT.json: a plausible bug
in the mapped code that TLC then catches. For example:

- a Filter that drops the hostname check;
- a Filter that accepts any node;
- a provisioner that does not check room;
- a `register` that always Creates, or that leaves `AttachNode` empty;
- a `syncNodeResources` that Updates without the rebuilt pools (this breaks
  `PublishedMatchesPools`).

The Filter without the hostname check also breaks `LifecycleRefined`: it
places a pod on a node without its bound volume, which `Place` forbids.

### Bounds and why they suffice

**Scheduler.** `MC_LVMScheduler` has two nodes and three pods. Its safety
instance is used by the violation runs. It is enough for each interesting
case to happen:

- two pods race for one pool;
- a bound volume pins a pod to one node;
- a pool that has room rejects a claim on its size limit (n2's HDD);
- a cache entry is stale at Filter time and fresh at Score time.

`MC_LVMSchedulerClasses` swaps in three classes:

- a regular HDD class;
- a THIN class, which `buildStoragePoolName` refuses;
- an HDD class without `replicaNumber`.

Its three pods are one of each:

- p1 asks for 3 bytes of HDD, which only n1 takes;
- p2 asks for a claim of the THIN class;
- p3 uses lv1 on n1, and asks for 1 byte, which fits on both nodes.

On this instance `lvm_safety` meets `GiveUp` for an invalid pod, and `Place`
constrained by `Local`. It also meets a failed Score: p3's byte on n1 leaves
p1's claim no room. The replicas run meets a 0-replica claim. Between them,
the passing runs fire every action of the scheduler.

`IntWidth = 16` keeps the wrap-around and the -Inf conversion reachable.
`MaxNodeScore = 100` is the code's value.

**Node manager.** Two disks and two volumes of different classes, one of them
a volume without a disk of its class (negative free). One store error, one
foreign write and two restarts are enough for every failure point of Start,
and for a retry after it. Two informer events exercise both queues.

**QoS writer.** Four paths: sdb (8:16), dm-1 (253:1), dm-256 (253:256), and
a path with no device. The values are 100 and -1. There are three calls and
one shell failure. Together these cover every case:

- a v1 call that fails after one, two or three files, followed by a call
  that succeeds;
- the wrap of the major for minor 256;
- a vanished device;
- both outcomes of every write.

Minor 256 is the first minor that the decoding gets wrong. `DecodeExact`
proves that no smaller minor is affected.

### Fairness

**Scheduler.** Weak fairness on the host's cycle steps, the plugin's calls
(which return), the provisioner, and the informer. None on `Unreserve`, which
the host may never call. No scheduler liveness property is checked. That
every pod eventually settles holds whatever the plugin does, because a failed
binding also counts as settled, so it would say nothing about this code.

**Node manager.** Weak fairness on Start's steps, `Restart` and the worker.
None on the environment's failures and writes.

**QoS writer.** Weak fairness on the stat and the writes, because a call in
progress runs to its return. `Done` stutters once all calls are made.

`Quiescent` and `Done` are stutters, and deadlock is checked in every run.

## 4. What is proved

`LVMScheduler_proofs` proves these for every value of the constants, under the
assumptions `ConstAssumption` and `ModulusAssumption` (`2^IntWidth` is a
positive even number):

- `TypeCorrect`: `Spec => []TypeOK`.
- `BoundLocalityHolds`: `Spec => []BoundLocality`.
- `PlacementQualifiedHolds`: `Spec => []PlacementQualified`.
- `NextIInv`: the inductive step of the strengthening `IInv` below, which
  the three theorems above rest on.
- `LifecycleRefinement`: `Spec => LifecycleRefined`, the refinement of
  `PodLifecycle`. Its initial state maps to `AInit`. `IInv /\ [Next]_vars`
  maps to `[ANext]_avars`, with one lemma per group of actions
  (`ReservePlace`, `GiveUpStep`, `ProvisionStep`, `UnreserveRelease`,
  `InnerStepsStutter`). `Reserve` meets `Place`'s guards through `IInv`: the
  chosen node is feasible, so Filter found it local and every claim valid.

The invariants are not inductive as they stand. The strengthening `IInv` adds:

- a `Score` loop's index is at least 1;
- a reserved pod has a node, and that node is feasible;
- feasible nodes have been filtered, so `Filter` is never called on them again
  and their record in `cands` is never overwritten;
- every feasible node was accepted by `FilterExisting`, and its `cands` entry
  holds it and is large enough (`FilterRecord`);
- all of the pod's claims name a valid pool.

The proof has one lemma per action. Arithmetic facts are lemmas: `WrapInt`,
`TruncInt`, `ScoreOneInt` and `TakePool`. The temporal step is PTL.

`VolumeQoS_proofs` proves these under `VolumeQoSAssumption`:

- `DecodeExact`: for every major below 4096 and minor below 2^20,
  `getDeviceNumber` followed by the kernel's `MKDEV` gives the device back
  exactly when the minor is below 256.
- `AppliedOnSuccessHolds`: `Spec => []AppliedOnSuccess`, under two
  hypotheses. `DistinctDevices` says volumes sit on distinct devices.
  `NoAlias` says the number the throttle files see is either unknown to the
  kernel or the volume's own device.
- `AppliedOnSuccessSmallMinors`: the same theorem with `NoAlias` discharged
  through `DecodeExact`, for devices whose minors are below 256.

The inductive invariant `IInv` strengthens `AppliedOnSuccess` with
`CallInv`, which describes a call in progress:

- its path shows no result yet;
- its request is the path's last;
- its device number is the decoded one;
- the first `done` v1 files already hold its values on the path's device.

Without `CallInv`, the last v1 write could not be shown to complete the four
limits. `DoneInv` also records that a successful path has a device. The
failure paths all go through one lemma, `ReturnErrIInv`: an error return
changes no limit and clears no other path's result.

Two further theorems need neither hypothesis for the typing, and only
`NoAlias` for the action property:

- `TypeCorrect`: `Spec => []TypeOK`, with no hypothesis on the devices.
  `TypeOK` is inductive together with `DevInv`: a call whose device has been
  stat'ed carries `getDeviceNumber` of its path's device.
- `QoSOnOwnDeviceHolds`: `NoAlias => (Spec => QoSOnOwnDevice)`. This is the
  action property that no step changes the throttle of a device other than
  its own call's. From `DevInv` and `NoAlias`, a write the kernel accepts
  names `DevOf[call.path]`. `DistinctDevices` is not needed, because the
  property is about one step and not about other paths' results. The
  qos_devnum run violates exactly this hypothesis (dm-256 is decoded as
  dm-0).
- `QoSOnOwnDeviceSmallMinors`: the same with `NoAlias` discharged through
  `DecodeExact`, for devices whose minors are below 256.

`NodeManager_proofs` proves these under `NodeManagerAssumption`, which
includes that the device types, disks and volumes are finite. The code loops
over `types.DefaultDevTypes` (manager.go:284), and the registry lists finitely
many disks and volumes. The theorems also assume `NoObject`, which says the
sentinel `NotFound` is no `LocalDiskNode` record.

- `PublishedMatchesPoolsHolds`: `NoObject => (Spec => []PublishedMatchesPools)`.
  This proof needs no arithmetic, so the sums stay opaque.
- `TypeCorrect`: `NoObject => (Spec => []TypeOK)`.

The inductive invariant `IInv` says:

- both copies of the object, the stored one and the one a Get fetched, have
  the manager's shape (`ObjShape`: attached to this node, with a natural
  version);
- an Update only follows a successful Get;
- a worker phase holds its item;
- after a successful worker publish the status matches the pools;
- an idle manager whose status does not match has an item queued, because a
  failed publish requeued it.

The last conjunct is the one the property needs: without it, an idle step
after a failed publish would look like a counterexample. Record `EXCEPT`s are
rewritten into record constructors in the lemma `ShapeExcept`.

`TypeOK` is inductive together with `IInv`, because an Update writes the
object that a Get fetched. Its hard part is the rollups. `SumOver` is a
recursive function over the subsets of a finite set, and tlapm sees it as
`CHOOSE sum : sum = [T \in SUBSET S |-> ...]`. So its value is known only once
some function is shown to satisfy that equation.

- `SumExists` builds such a function for every finite set.
- `SumAgree` shows that any two such functions agree.
- `SumOverInt` concludes that the sum of integers is an integer.
- `LargestIn` shows that `Largest` picks a member of a finite nonempty set of
  integers, which gives each pool's `limit`.

Each of these is proved by taking a counterexample that is minimal for strict
inclusion. That comes from `WFMin` over the well-founded strict-subset
ordering of a finite set's subsets. The library's induction theorems would
need an operator parameter, which the provers cannot instantiate.
`PoolOfTyped`, `RebuiltTyped` and `StatusTyped` then type what
`rebuildLocalPools` and `syncNodeResources` build.

**Only model-checked.** These stay with TLC:

- the liveness property `EventuallyRunning`, because
  fairness and ENABLED are beyond the provers;
- the values of the rollups. They are proved to be integers, but that each
  is the sum the code computes is only evaluated by TLC, as in the
  ndm_negfree run that finds a negative free capacity. A theorem about a
  sum's value would need induction over data, and the library's induction
  theorems take an operator parameter that the provers cannot instantiate.

## 5. Not modelled, and why

- `LocalManager`. Its methods delegate to code outside `src/`.
- In the QoS writer: the file paths and the text of the `sh -c echo` line,
  beyond the numbers they carry. Also the final `return &noop{}, nil` for a
  mode outside the four, which `cgroups.Mode()` does not return.
- The metrics controller. Its two handlers keep no state and only format a
  manager's answer, which is out of the spec's scope. Its ignored `ParseInt`
  errors (line 71) are a hazard without a property: what page 0 means is
  decided by code not in `src/`.
- Whether `ListDisksByType` and `ListVolumesByType` (manager.go:289) see one
  moment of the registry. The registry is not in `src/`, and the model
  rebuilds from one snapshot.
- The replica planner's host-taint rule (5), and the ledger's TTL. The
  planner is not in `src/`, and the code has no ledger.
