---------------------------- MODULE NodeManager ----------------------------
(***************************************************************************)
(* The local-disk-manager's nodeManager of one node                       *)
(* (pkg/local-disk-manager/member/node/manager.go).                        *)
(*                                                                         *)
(* Start discovers the node's disks and volumes, rebuilds the per-class    *)
(* pools from them, registers the node's LocalDiskNode in the API server   *)
(* and publishes the pools in its status, each step a Get followed by a    *)
(* Create or an Update that fails on a version conflict.  Informer         *)
(* handlers queue the LocalDisks and LocalDiskClaims of this node; a       *)
(* worker takes a queued item, rebuilds and publishes again.  Other        *)
(* controllers also update the LocalDiskNode, and the store may fail a     *)
(* call; a failed Start ends the process, which is restarted.              *)
(***************************************************************************)
EXTENDS Integers, FiniteSets

CONSTANTS
    Me,             \* this node's name (nodeName)
    DevTypes,       \* types.DefaultDevTypes: HDD, SSD, NVMe
    Regular,        \* apisv1alpha1.PoolTypeRegular
    Disks,          \* disks the registry may discover on this node
    DiskType,       \* DiskType[d]: its class
    DiskCap,        \* DiskCap[d]: its capacity in bytes
    Volumes,        \* volumes the registry may discover on this node
    VolType,        \* VolType[v]: class of the pool it lives in
    VolCap,         \* VolCap[v]: its capacity in bytes
    LocalDisks,     \* LocalDisk objects of the cluster
    LDNode, LDOwner,            \* their Spec.NodeName and Spec.Owner
    LocalDiskClaims,            \* LocalDiskClaim objects of the cluster
    LDCNode, LDCOwner, LDCStatus,
    LocalDiskManager,           \* apisv1alpha1.LocalDiskManager (owner)
    ClaimBound,                 \* apisv1alpha1.LocalDiskClaimStatusBound
    MaxLimitVolume,             \* types.MaxLimitVolume
    MaxExternalWrites,          \* bound on updates by other controllers
    MaxStoreErrors,             \* bound on failed store calls
    MaxRestarts,                \* bound on process restarts
    MaxEvents,                  \* bound on informer events
    MaxRegistryChanges,         \* bound on disks and volumes found or lost
    NotFound, NoPool            \* sentinels

ASSUME NodeManagerAssumption ==
    /\ IsFiniteSet(DevTypes) /\ IsFiniteSet(Disks) /\ IsFiniteSet(Volumes)
    /\ DiskType \in [Disks -> DevTypes] /\ DiskCap \in [Disks -> Nat]
    /\ VolType \in [Volumes -> DevTypes] /\ VolCap \in [Volumes -> Nat]
    /\ MaxLimitVolume \in Nat
    /\ {MaxExternalWrites, MaxStoreErrors, MaxRestarts, MaxEvents,
         MaxRegistryChanges} \subseteq Nat

VARIABLES
    disks, volumes,   \* what the local registry has discovered
    pools,            \* m.pools: DevType -> LocalPool, or NoPool
    phase,            \* where Start, and then the worker, is
    got,              \* the LocalDiskNode fetched by the pending Get
    obj,              \* the LocalDiskNode in the API server, or NotFound
    diskQueue,        \* diskTaskQueue
    claimQueue,       \* diskClaimTaskQueue
    task,             \* the item the worker is working on, or NotFound
    rebuiltFrom,      \* <<disks, volumes>> seen by the last rebuild (history)
    extWrites, storeErrors, restarts, events, changes   \* environment counters

vars == <<disks, volumes, pools, phase, got, obj, diskQueue, claimQueue, task,
          rebuiltFrom, extWrites, storeErrors, restarts, events, changes>>
env == <<extWrites, storeErrors, restarts, events, changes>>

StartPhases == {"new", "registerGet", "registerWrite", "syncGet", "syncWrite"}
WorkerPhases == {"idle", "wSyncGet", "wSyncWrite", "wDone", "wRetry"}
Phases == StartPhases \cup WorkerPhases \cup {"failed"}

-----------------------------------------------------------------------------
(* rebuildLocalPools and the status rollup of syncNodeResources.          *)

\* The sum of f[x] over the finite set S: the code's += loops.
SumOver(f, S) ==
    LET sum[T \in SUBSET S] ==
          IF T = {} THEN 0
          ELSE LET x == CHOOSE y \in T : TRUE IN f[x] + sum[T \ {x}]
    IN sum[S]

\* The largest of a finite nonempty set of integers: the maxCapacity loop.
Largest(S) == CHOOSE m \in S : \A x \in S : x <= m

DisksOf(ds, t) == {d \in ds : DiskType[d] = t}
VolsOf(vs, t) == {v \in vs : VolType[v] = t}

\* The pool of class t rebuilt from the discovered disks ds and volumes vs.
PoolOf(ds, vs, t) ==
    LET total == SumOver(DiskCap, DisksOf(ds, t))
        used == SumOver(VolCap, VolsOf(vs, t))
        n == Cardinality(VolsOf(vs, t))
    IN [class |-> t, type |-> Regular,
        disks |-> DisksOf(ds, t), volumes |-> VolsOf(vs, t),
        total |-> total, used |-> used, free |-> total - used,
        totalCount |-> MaxLimitVolume, usedCount |-> n,
        limit |-> Largest({0} \cup {DiskCap[d] : d \in DisksOf(ds, t)}),
        freeCount |-> MaxLimitVolume - n]

\* rebuildLocalPools: a class with neither disks nor volumes is skipped
\* ("continue"), whatever m.pools already holds for it.
Rebuilt(ds, vs) ==
    [t \in DevTypes |->
        IF DisksOf(ds, t) = {} /\ VolsOf(vs, t) = {} THEN pools[t]
        ELSE PoolOf(ds, vs, t)]

Present(ps) == {t \in DevTypes : ps[t] # NoPool}

\* The status syncNodeResources writes for the pools ps.
StatusOf(ps) ==
    [pools |-> ps,
     totalDisk |-> SumOver([t \in Present(ps) |-> Cardinality(ps[t].disks)], Present(ps)),
     totalCapacity |-> SumOver([t \in Present(ps) |-> ps[t].total], Present(ps)),
     freeCapacity |-> SumOver([t \in Present(ps) |-> ps[t].free], Present(ps))]

EmptyPools == [t \in DevTypes |-> NoPool]

-----------------------------------------------------------------------------
(* Start.                                                                 *)

\* setupInformers: GetInformer of LocalDisk, LocalDiskClaim or LocalDiskNode
\* fails and Fatalf ends the process before anything is discovered.
SetupInformersFail ==
    /\ phase = "new"
    /\ storeErrors < MaxStoreErrors
    /\ storeErrors' = storeErrors + 1
    /\ phase' = "failed"
    /\ UNCHANGED <<disks, volumes, pools, got, obj, diskQueue, claimQueue, task,
                   rebuiltFrom, extWrites, restarts, events, changes>>

\* setupInformers, discoveryNodeResources and rebuildLocalPools: local steps.
StartRebuild ==
    /\ phase = "new"
    /\ pools' = Rebuilt(disks, volumes)
    /\ rebuiltFrom' = <<disks, volumes>>
    /\ phase' = "registerGet"
    /\ UNCHANGED <<disks, volumes, got, obj, diskQueue, claimQueue, task, env>>

Version(o) == IF o = NotFound THEN 0 ELSE o.version

\* register: Get the LocalDiskNode (NotFound is not an error here).
RegisterGet ==
    /\ phase = "registerGet"
    /\ got' = obj
    /\ phase' = "registerWrite"
    /\ UNCHANGED <<disks, volumes, pools, obj, diskQueue, claimQueue, task,
                   rebuiltFrom, env>>

\* Mutant: register always Creates, even when the Get found the object.
RegisterWriteCreateOnly ==
    /\ phase = "registerWrite"
    /\ \/ /\ obj = NotFound
          /\ obj' = [attach |-> Me, status |-> StatusOf(EmptyPools), version |-> 1]
          /\ phase' = "syncGet"
       \/ /\ obj # NotFound
          /\ phase' = "failed"
          /\ UNCHANGED obj
    /\ UNCHANGED <<disks, volumes, pools, got, diskQueue, claimQueue, task,
                   rebuiltFrom, env>>

\* Mutant: the created object's Spec.AttachNode is left empty.
RegisterWriteNoAttach ==
    /\ phase = "registerWrite"
    /\ \/ /\ got = NotFound /\ obj = NotFound
          /\ obj' = [attach |-> "", status |-> StatusOf(EmptyPools), version |-> 1]
          /\ phase' = "syncGet"
       \/ /\ got # NotFound /\ Version(obj) = got.version
          /\ obj' = [got EXCEPT !.attach = Me, !.version = @ + 1]
          /\ phase' = "syncGet"
       \/ /\ Version(obj) # Version(got)
          /\ phase' = "failed"
          /\ UNCHANGED obj
    /\ UNCHANGED <<disks, volumes, pools, got, diskQueue, claimQueue, task,
                   rebuiltFrom, env>>

\* register: Create when the Get found nothing (AlreadyExists if someone
\* created it since), else Update Spec.AttachNode (Conflict if changed since).
RegisterWrite ==
    /\ phase = "registerWrite"
    /\ \/ /\ got = NotFound /\ obj = NotFound
          /\ obj' = [attach |-> Me, status |-> StatusOf(EmptyPools), version |-> 1]
          /\ phase' = "syncGet"
       \/ /\ got # NotFound /\ Version(obj) = got.version
          /\ obj' = [got EXCEPT !.attach = Me, !.version = @ + 1]
          /\ phase' = "syncGet"
       \/ /\ Version(obj) # Version(got)
          /\ phase' = "failed"
          /\ UNCHANGED obj
    /\ UNCHANGED <<disks, volumes, pools, got, diskQueue, claimQueue, task,
                   rebuiltFrom, env>>

\* syncNodeResources: Get the LocalDiskNode; NotFound is an error.
SyncGet(next, onError) ==
    /\ \/ obj # NotFound /\ got' = obj /\ phase' = next
       \/ obj = NotFound /\ phase' = onError /\ UNCHANGED got
    /\ UNCHANGED <<disks, volumes, pools, obj, diskQueue, claimQueue, task,
                   rebuiltFrom, env>>

\* Mutant: the Update is sent without the rebuilt pools in its status.
SyncWriteNoStatus(next, onConflict) ==
    /\ \/ /\ Version(obj) = got.version
          /\ obj' = [got EXCEPT !.version = @ + 1]
          /\ phase' = next
       \/ /\ Version(obj) # got.version
          /\ phase' = onConflict
          /\ UNCHANGED obj
    /\ UNCHANGED <<disks, volumes, pools, got, diskQueue, claimQueue, task,
                   rebuiltFrom, env>>

\* syncNodeResources: under the read lock, copy m.pools into the status
\* with its rollups, then Update (Conflict if the object changed since).
SyncWrite(next, onConflict) ==
    /\ \/ /\ Version(obj) = got.version
          /\ obj' = [got EXCEPT !.status = StatusOf(pools), !.version = @ + 1]
          /\ phase' = next
       \/ /\ Version(obj) # got.version
          /\ phase' = onConflict
          /\ UNCHANGED obj
    /\ UNCHANGED <<disks, volumes, pools, got, diskQueue, claimQueue, task,
                   rebuiltFrom, env>>

StartSyncGet == phase = "syncGet" /\ SyncGet("syncWrite", "failed")
StartSyncWrite == phase = "syncWrite" /\ SyncWrite("idle", "failed")

\* A store call of Start fails: Start returns the error.
StartStoreError ==
    /\ phase \in {"registerGet", "registerWrite", "syncGet", "syncWrite"}
    /\ storeErrors < MaxStoreErrors
    /\ storeErrors' = storeErrors + 1
    /\ phase' = "failed"
    /\ UNCHANGED <<disks, volumes, pools, got, obj, diskQueue, claimQueue, task,
                   rebuiltFrom, extWrites, restarts, events, changes>>

\* The process exits after a failed Start and is started again: a fresh
\* nodeManager with no pools and empty queues.
Restart ==
    /\ phase = "failed"
    /\ restarts < MaxRestarts
    /\ restarts' = restarts + 1
    /\ phase' = "new"
    /\ pools' = EmptyPools
    /\ diskQueue' = {} /\ claimQueue' = {} /\ task' = NotFound
    /\ rebuiltFrom' = <<{}, {}>>
    /\ UNCHANGED <<disks, volumes, got, obj, extWrites, storeErrors, events, changes>>

-----------------------------------------------------------------------------
(* Informer handlers: queue this node's LocalDisks, and its Bound          *)
(* LocalDiskClaims; Add, Update and Delete do the same.  They run once     *)
(* setupInformers has registered them.                                     *)

HandleLocalDisk(ld) ==
    /\ phase \notin {"new", "failed"}
    /\ events < MaxEvents
    /\ events' = events + 1
    /\ LDNode[ld] = Me /\ LDOwner[ld] = LocalDiskManager
    /\ diskQueue' = diskQueue \cup {ld}
    /\ UNCHANGED <<disks, volumes, pools, phase, got, obj, claimQueue, task,
                   rebuiltFrom, extWrites, storeErrors, restarts, changes>>

HandleLocalDiskClaim(ldc) ==
    /\ phase \notin {"new", "failed"}
    /\ events < MaxEvents
    /\ events' = events + 1
    /\ LDCNode[ldc] = Me /\ LDCOwner[ldc] = LocalDiskManager
    /\ LDCStatus[ldc] = ClaimBound
    /\ claimQueue' = claimQueue \cup {ldc}
    /\ UNCHANGED <<disks, volumes, pools, phase, got, obj, diskQueue, task,
                   rebuiltFrom, extWrites, storeErrors, restarts, changes>>

-----------------------------------------------------------------------------
(* The task worker: each queued item rebuilds the pools and publishes      *)
(* them; a publish that fails puts the item back in its queue.             *)

WorkerRebuild ==
    /\ phase = "idle"
    /\ \E item \in diskQueue \cup claimQueue :
          /\ diskQueue' = diskQueue \ {item}
          /\ claimQueue' = claimQueue \ {item}
          /\ task' = item
    /\ pools' = Rebuilt(disks, volumes)
    /\ rebuiltFrom' = <<disks, volumes>>
    /\ phase' = "wSyncGet"
    /\ UNCHANGED <<disks, volumes, got, obj, env>>

WorkerSyncGet == phase = "wSyncGet" /\ SyncGet("wSyncWrite", "wRetry")
WorkerSyncWrite == phase = "wSyncWrite" /\ SyncWrite("wDone", "wRetry")

\* A store call of the worker fails.
WorkerStoreError ==
    /\ phase \in {"wSyncGet", "wSyncWrite"}
    /\ storeErrors < MaxStoreErrors
    /\ storeErrors' = storeErrors + 1
    /\ phase' = "wRetry"
    /\ UNCHANGED <<disks, volumes, pools, got, obj, diskQueue, claimQueue, task,
                   rebuiltFrom, extWrites, restarts, events, changes>>

\* The item is done, or goes back to its queue.
WorkerFinish ==
    /\ phase \in {"wDone", "wRetry"}
    /\ IF phase = "wRetry" /\ task \in LocalDisks
       THEN diskQueue' = diskQueue \cup {task} ELSE UNCHANGED diskQueue
    /\ IF phase = "wRetry" /\ task \in LocalDiskClaims
       THEN claimQueue' = claimQueue \cup {task} ELSE UNCHANGED claimQueue
    /\ task' = NotFound
    /\ phase' = "idle"
    /\ UNCHANGED <<disks, volumes, pools, got, obj, rebuiltFrom, env>>

-----------------------------------------------------------------------------
(* The environment.                                                       *)

\* The registry discovers or loses a disk or a volume.
RegistryChange ==
    /\ changes < MaxRegistryChanges
    /\ changes' = changes + 1
    /\ \/ \E d \in Disks : disks' = disks \cup {d} /\ UNCHANGED volumes
       \/ \E d \in disks : disks' = disks \ {d} /\ UNCHANGED volumes
       \/ \E v \in Volumes : volumes' = volumes \cup {v} /\ UNCHANGED disks
       \/ \E v \in volumes : volumes' = volumes \ {v} /\ UNCHANGED disks
    /\ UNCHANGED <<pools, phase, got, obj, diskQueue, claimQueue, task,
                   rebuiltFrom, extWrites, storeErrors, restarts, events>>

\* Another controller updates the LocalDiskNode.
ExternalWrite ==
    /\ obj # NotFound
    /\ extWrites < MaxExternalWrites
    /\ extWrites' = extWrites + 1
    /\ obj' = [obj EXCEPT !.version = @ + 1]
    /\ UNCHANGED <<disks, volumes, pools, phase, got, diskQueue, claimQueue, task,
                   rebuiltFrom, storeErrors, restarts, events, changes>>

\* The worker blocks on its empty queues; a failed manager that is not
\* restarted stays down.
Quiescent ==
    /\ \/ phase = "idle" /\ diskQueue \cup claimQueue = {}
       \/ phase = "failed"
    /\ UNCHANGED vars

-----------------------------------------------------------------------------
Init ==
    /\ disks \in SUBSET Disks
    /\ volumes \in SUBSET Volumes
    /\ pools = EmptyPools
    /\ phase = "new"
    /\ got = NotFound
    /\ obj = NotFound
    /\ diskQueue = {} /\ claimQueue = {}
    /\ task = NotFound
    /\ rebuiltFrom = <<{}, {}>>
    /\ extWrites = 0 /\ storeErrors = 0 /\ restarts = 0 /\ events = 0
    /\ changes = 0

Next ==
    \/ SetupInformersFail \/ StartRebuild \/ RegisterGet \/ RegisterWrite
    \/ StartSyncGet \/ StartSyncWrite \/ StartStoreError \/ Restart
    \/ \E ld \in LocalDisks : HandleLocalDisk(ld)
    \/ \E ldc \in LocalDiskClaims : HandleLocalDiskClaim(ldc)
    \/ WorkerRebuild \/ WorkerSyncGet \/ WorkerSyncWrite
    \/ WorkerStoreError \/ WorkerFinish
    \/ RegistryChange \/ ExternalWrite
    \/ Quiescent

\* Start's steps, the restart after a failed Start, and the worker are
\* taken as long as they can be; the environment owes nothing.
Fairness ==
    /\ WF_vars(StartRebuild) /\ WF_vars(RegisterGet) /\ WF_vars(RegisterWrite)
    /\ WF_vars(StartSyncGet) /\ WF_vars(StartSyncWrite) /\ WF_vars(Restart)
    /\ WF_vars(WorkerRebuild) /\ WF_vars(WorkerSyncGet)
    /\ WF_vars(WorkerSyncWrite) /\ WF_vars(WorkerFinish)

Spec == Init /\ [][Next]_vars /\ Fairness

-----------------------------------------------------------------------------
(* Properties.                                                            *)

LocalPool == [class : DevTypes, type : {Regular}, disks : SUBSET Disks,
              volumes : SUBSET Volumes, total : Int, used : Int, free : Int,
              totalCount : Int, usedCount : Int, limit : Int, freeCount : Int]
PoolMap == [DevTypes -> LocalPool \cup {NoPool}]
Status == [pools : PoolMap, totalDisk : Int, totalCapacity : Int, freeCapacity : Int]

\* Every variable holds what the code can hold; in particular every
\* LocalDiskNode this manager created or updated is attached to this node.
TypeOK ==
    /\ disks \in SUBSET Disks /\ volumes \in SUBSET Volumes
    /\ pools \in PoolMap
    /\ phase \in Phases
    /\ obj \in {NotFound} \cup [attach : {Me}, status : Status, version : Nat]
    /\ got \in {NotFound} \cup [attach : {Me}, status : Status, version : Nat]
    /\ diskQueue \subseteq LocalDisks /\ claimQueue \subseteq LocalDiskClaims
    /\ task \in {NotFound} \cup LocalDisks \cup LocalDiskClaims
    /\ rebuiltFrom \in (SUBSET Disks) \X (SUBSET Volumes)

\* Once Start has succeeded and the worker has nothing left to do, the
\* LocalDiskNode in the API server is attached to this node and its status
\* is exactly the pools the manager holds, with their rollups: no failed
\* call, conflicting writer or restart leaves a rebuild unpublished.
PublishedMatchesPools ==
    phase = "idle" /\ diskQueue \cup claimQueue = {} =>
        /\ obj # NotFound
        /\ obj.attach = Me
        /\ obj.status = StatusOf(pools)

\* The spec (3, Lifecycle; 4.1 Rebuild): pools are rebuilt whole from the
\* discovered disks and volumes, and a class with neither has no pool.
PoolsMatchRegistry ==
    \A t \in DevTypes :
        pools[t] = IF DisksOf(rebuiltFrom[1], t) = {} /\ VolsOf(rebuiltFrom[2], t) = {}
                   THEN NoPool ELSE PoolOf(rebuiltFrom[1], rebuiltFrom[2], t)

\* The spec (4.1 Publish, 7): a version conflict is retried, so an
\* Update that loses one race does not fail the node manager.
PublishSurvivesConflict == phase # "failed"

\* The spec (7, InvariantViolation; 9, dangling replicas): a rebuild that
\* would give a pool negative free capacity is an invariant violation and
\* is clamped, so the LocalDiskNode status never publishes a negative free
\* capacity, for a pool or for the node.
PublishedFreeNonNegative ==
    obj # NotFound =>
        /\ obj.status.freeCapacity >= 0
        /\ \A t \in Present(obj.status.pools) : obj.status.pools[t].free >= 0

\* Start eventually succeeds and the worker loop runs.
EventuallyRunning == <>(phase \in WorkerPhases)

=============================================================================
