---------------------------- MODULE LVMScheduler ----------------------------
(***************************************************************************)
(* The LVM volume scheduler plugin (pkg/scheduler/scheduler/scheduler-lvm.go) *)
(* inside the host scheduler's pipeline.                                   *)
(*                                                                         *)
(* Every pod runs one scheduling cycle: Filter on every node, Score on     *)
(* every node that passed, Reserve on the best one; then, asynchronously,  *)
(* its pending claims are provisioned on that node (or the host gives up   *)
(* and calls Unreserve).  Filter and Score read the plugin's informer      *)
(* cache of the LocalStorageNode pools; provisioning changes the          *)
(* authoritative pools in the store, and the cache catches up later.      *)
(* Cycles are serial, as in the host scheduler; bindings are not.          *)
(***************************************************************************)
EXTENDS Integers, Sequences, FiniteSets, TLC

CONSTANTS
    Nodes,          \* cluster nodes
    Classes,        \* the pool classes buildStoragePoolName knows: HDD, SSD, NVMe
    Regular,        \* v1alpha1.PoolTypeRegular
    Pods,           \* pods that go through the scheduler
    LVs,            \* LocalVolumes of already bound claims
    PVCs,           \* pending (unbound) claims
    SCs,            \* storage classes
    PodLVs,         \* PodLVs[p]: the bound LocalVolumes of p (argument lvs of Filter)
    PodPVCs,        \* PodPVCs[p]: p's pending claims, in the order the host passes them
    LVConfig,       \* LVConfig[lv]: hostnames of lv's replicas, or NoConfig
    NoConfig,       \* a LocalVolume whose Spec.Config is still nil
    PVCClass,       \* PVCClass[k]: the storage class named by claim k
    PVCSize,        \* PVCSize[k]: requested bytes of claim k
    SCParams,       \* SCParams[sc]: [poolClass, poolType, replicaNumber] of sc
    InitPools,      \* InitPools[n][c]: LocalStorageNode pool of class c on n, or NoPool
    NoPool,
    NoScore, ScoreErr, NoLoop, NoNode, InvalidPool,   \* sentinels
    MaxNodeScore,   \* framework.MaxNodeScore
    IntWidth        \* bit width of Go's int64 (taken smaller for TLC)

Pool == [free : Nat, limit : Nat, count : Nat]
PoolMap == [Classes -> Pool \cup {NoPool}]

ASSUME ConstAssumption ==
    /\ IsFiniteSet(Nodes) /\ Nodes # {}
    /\ Regular \notin Classes
    /\ PodLVs \in [Pods -> SUBSET LVs]
    /\ PodPVCs \in [Pods -> Seq(PVCs)]
    /\ LVConfig \in [LVs -> (SUBSET Nodes) \cup {NoConfig}]
    /\ PVCClass \in [PVCs -> SCs]
    /\ PVCSize \in [PVCs -> Nat]
    /\ SCParams \in [SCs -> [poolClass : STRING, poolType : STRING, replicaNumber : STRING]]
    /\ InitPools \in [Nodes -> PoolMap]
    /\ NoPool \notin Pool
    /\ NoScore \notin Int /\ ScoreErr \notin Int /\ NoScore # ScoreErr
    /\ NoNode \notin Nodes /\ InvalidPool \notin Classes
    /\ MaxNodeScore \in Nat \ {0}
    /\ IntWidth \in Nat \ {0}

VARIABLES
    store,        \* store[n]: LocalStorageNode pools of n in the API server
    cache,        \* cache[n]: the same object in the plugin's informer cache
    phase,        \* phase[p]: where p is in the host pipeline
    filtered,     \* filtered[p]: nodes Filter has been called on in p's cycle
    feasible,     \* feasible[p]: nodes Filter accepted
    cands,        \* cands[p][n]: qualifiedNodes computed by Filter(p, n) (history)
    scores,       \* scores[p][n]: what Score(p, n) returned, NoScore or ScoreErr
    loop,         \* the Score call in progress: its locals, or NoLoop
    node,         \* node[p]: the node p was reserved on, or NoNode
    provisioned   \* provisioned[p]: how many of p's claims are provisioned

vars == <<store, cache, phase, filtered, feasible, cands, scores, loop, node,
          provisioned>>


Phases == {"queued", "filtering", "scoring", "reserved", "bound",
           "bindFailed", "unreserved", "unschedulable"}
Settled == {"bound", "bindFailed", "unreserved", "unschedulable"}
InCycle == {"filtering", "scoring"}

-----------------------------------------------------------------------------
(* Go's int64 arithmetic and float64-to-int64 conversion.                 *)

Modulus == 2^IntWidth
MinInt == -(Modulus \div 2)
MaxInt == Modulus \div 2 - 1

\* 2^IntWidth is a positive even number.
ASSUME ModulusAssumption == Modulus \in Nat \ {0} /\ Modulus % 2 = 0
Int64 == MinInt..MaxInt

\* Two's complement wrap-around of scoreTotal += score.
Wrap(x) == ((x - MinInt) % Modulus) + MinInt

Abs(x) == IF x < 0 THEN -x ELSE x

\* int64(float64(a) / float64(b)) for b # 0: the conversion truncates toward 0.
Trunc(a, b) == IF (a >= 0) = (b > 0) THEN Abs(a) \div Abs(b)
                                     ELSE -(Abs(a) \div Abs(b))

\* int64 of an infinite or NaN float64: MinInt64 on amd64; on arm64 it
\* saturates, and NaN gives 0.  -Inf gives MinInt64 on both.
NegInfToInt == {MinInt}
NaNToInt == {MinInt, 0}

-----------------------------------------------------------------------------
(* Claims and pools.                                                      *)

\* buildStoragePoolName: the pool of a (class, type) pair, or InvalidPool.
PoolName(poolClass, poolType) ==
    IF poolClass \in Classes /\ poolType = Regular THEN poolClass ELSE InvalidPool

\* The integers whose decimal text the storage classes of a model may hold.
AtoiBound == 9

\* strconv.Atoi accepts an optional sign and decimal digits; s is the text
\* of i.  (Leading zeros and values out of int range are not among the
\* texts the model's storage classes hold.)
ParsesTo(s, i) == s = ToString(i) \/ (i >= 0 /\ s = "+" \o ToString(i))

\* strconv.Atoi(s), with its error dropped: a text that is not a number
\* (the empty text of a missing parameter included) gives 0.
Atoi(s) ==
    IF \E i \in -AtoiBound..AtoiBound : ParsesTo(s, i)
    THEN CHOOSE i \in -AtoiBound..AtoiBound : ParsesTo(s, i)
    ELSE 0

\* constructLocalVolumeForPVC: the LocalVolume the planner is asked about;
\* the replica count is Atoi of the class's replicaNumber parameter.
Vol(k) ==
    LET sc == SCParams[PVCClass[k]]
    IN [pool |-> PoolName(sc.poolClass, sc.poolType),
        size |-> PVCSize[k], replicas |-> Atoi(sc.replicaNumber)]

Claims(p) == {PodPVCs[p][i] : i \in 1..Len(PodPVCs[p])}

\* Replica planner (GetNodeCandidates): a node qualifies for a volume when
\* the volume's pool exists there and has room for it.
Qualifies(view, n, v) ==
    LET P == view[n][v.pool]
    IN /\ P # NoPool
       /\ v.size > 0
       /\ P.free >= v.size
       /\ P.limit >= v.size
       /\ P.count >= 1

Candidates(view, vols) == {n \in Nodes : \A v \in vols : Qualifies(view, n, v)}

-----------------------------------------------------------------------------
(* Filter.                                                                *)

\* Mutant: the hostname loop is dropped, only a nil Config is rejected.
FilterExistingNoHost(p, n) == \A lv \in PodLVs[p] : LVConfig[lv] # NoConfig

\* filterForExistingLocalVolumes: every bound volume has a replica on n.
FilterExisting(p, n) ==
    \A lv \in PodLVs[p] : LVConfig[lv] # NoConfig /\ n \in LVConfig[lv]

\* constructLocalVolumeForPVC succeeds for every pending claim of p: each
\* class names a pool buildStoragePoolName knows.
ClaimsValid(p) == \A k \in Claims(p) : Vol(k).pool # InvalidPool

\* qualifiedNodes of filterForNewPVCs on the cache.
QualifiedNodes(p) == Candidates(cache, {Vol(k) : k \in Claims(p)})

\* Mutant: the final loop over qualifiedNodes returns true for any node.
FilterNewAnyNode(p, n) ==
    \/ PodPVCs[p] = <<>>
    \/ /\ ClaimsValid(p)
       /\ Cardinality(QualifiedNodes(p)) >= Vol(PodPVCs[p][1]).replicas

\* filterForNewPVCs: an invalid pool is an error; the replica count checked
\* is the one of the first claim only.
FilterNew(p, n) ==
    \/ PodPVCs[p] = <<>>
    \/ /\ ClaimsValid(p)
       /\ Cardinality(QualifiedNodes(p)) >= Vol(PodPVCs[p][1]).replicas
       /\ n \in QualifiedNodes(p)

\* The host calls Filter(p, n); rejections and errors both drop n.
Filter(p, n) ==
    /\ phase[p] = "filtering"
    /\ n \notin filtered[p]
    /\ filtered' = [filtered EXCEPT ![p] = @ \cup {n}]
    /\ feasible' = [feasible EXCEPT ![p] =
                      IF FilterExisting(p, n) /\ FilterNew(p, n) THEN @ \cup {n} ELSE @]
    /\ cands' = [cands EXCEPT ![p][n] = IF ClaimsValid(p) THEN QualifiedNodes(p) ELSE {}]
    /\ UNCHANGED <<store, cache, phase, scores, loop, node, provisioned>>

-----------------------------------------------------------------------------
(* Score: the loop over the claims runs on the LocalStorageNode copied    *)
(* out of the cache by the Get at its start.                              *)

\* The pool scoreOneVolume looks up: the claim's class, with type Regular.
ScorePool(k) == PoolName(SCParams[PVCClass[k]].poolClass, Regular)

\* scoreOneVolume: the outcomes of int64(float64(free-cap)/float64(free)*100).
ScoreOne(snap, k) ==
    LET P == snap[ScorePool(k)]
        free == IF P = NoPool THEN 0 ELSE P.free
        cap == PVCSize[k]
    IN IF free # 0 THEN {Trunc((free - cap) * MaxNodeScore, free)}
       ELSE IF cap # 0 THEN NegInfToInt ELSE NaNToInt

ScoreBegin(p, n) ==
    /\ phase[p] = "scoring"
    /\ loop = NoLoop
    /\ n \in feasible[p]
    /\ scores[p][n] = NoScore
    /\ loop' = [pod |-> p, node |-> n, i |-> 1, total |-> 0, snap |-> cache[n]]
    /\ UNCHANGED <<store, cache, phase, filtered, feasible, cands, scores, node,
                   provisioned>>

\* One iteration: buildStoragePoolName(class, Regular) may fail.
ScoreStep ==
    /\ loop # NoLoop
    /\ loop.i <= Len(PodPVCs[loop.pod])
    /\ LET k == PodPVCs[loop.pod][loop.i]
       IN IF ScorePool(k) = InvalidPool
          THEN /\ scores' = [scores EXCEPT ![loop.pod][loop.node] = ScoreErr]
               /\ loop' = NoLoop
          ELSE /\ \E s \in ScoreOne(loop.snap, k) :
                    loop' = [loop EXCEPT !.i = @ + 1, !.total = Wrap(@ + s)]
               /\ UNCHANGED scores
    /\ UNCHANGED <<store, cache, phase, filtered, feasible, cands, node, provisioned>>

\* The return value: int64(float64(total) / float64(100 * n) * 100).
ScoreEnd ==
    /\ loop # NoLoop
    /\ loop.i > Len(PodPVCs[loop.pod])
    /\ LET n == Len(PodPVCs[loop.pod])
           results == IF n = 0 THEN NaNToInt ELSE {Trunc(loop.total, n)}
       IN \E r \in results :
            scores' = [scores EXCEPT ![loop.pod][loop.node] = r]
    /\ loop' = NoLoop
    /\ UNCHANGED <<store, cache, phase, filtered, feasible, cands, node, provisioned>>

-----------------------------------------------------------------------------
(* The host pipeline around the plugin.                                   *)

\* A pod leaves the scheduling queue; cycles do not overlap.
StartCycle(p) ==
    /\ phase[p] = "queued"
    /\ \A q \in Pods : phase[q] \notin InCycle
    /\ phase' = [phase EXCEPT ![p] = "filtering"]
    /\ UNCHANGED <<store, cache, filtered, feasible, cands, scores, loop, node,
                   provisioned>>

\* Every node filtered: no feasible node makes p unschedulable.
EndFilter(p) ==
    /\ phase[p] = "filtering"
    /\ filtered[p] = Nodes
    /\ phase' = [phase EXCEPT ![p] = IF feasible[p] = {} THEN "unschedulable"
                                                        ELSE "scoring"]
    /\ UNCHANGED <<store, cache, filtered, feasible, cands, scores, loop, node,
                   provisioned>>

ScoreValid(p, n) == scores[p][n] \in 0..MaxNodeScore

\* A Score error or a score outside [0, MaxNodeScore] fails the cycle.
ScoreFailed(p) ==
    /\ phase[p] = "scoring"
    /\ loop = NoLoop
    /\ \A n \in feasible[p] : scores[p][n] # NoScore
    /\ \E n \in feasible[p] : ~ScoreValid(p, n)
    /\ phase' = [phase EXCEPT ![p] = "unschedulable"]
    /\ UNCHANGED <<store, cache, filtered, feasible, cands, scores, loop, node,
                   provisioned>>

\* The host picks a best-scored node and calls Reserve, which keeps nothing.
Reserve(p, n) ==
    /\ phase[p] = "scoring"
    /\ loop = NoLoop
    /\ \A m \in feasible[p] : ScoreValid(p, m)
    /\ n \in feasible[p]
    /\ \A m \in feasible[p] : scores[p][m] <= scores[p][n]
    /\ phase' = [phase EXCEPT ![p] = "reserved"]
    /\ node' = [node EXCEPT ![p] = n]
    /\ UNCHANGED <<store, cache, filtered, feasible, cands, scores, loop,
                   provisioned>>

\* The provisioner creates the next claim's replica on the reserved node;
\* it fails when the pool in the store has no room left.
Fits(P, v) == P # NoPool /\ P.free >= v.size /\ P.count >= 1

\* The pool after a volume of s bytes is created in it.
Take(P, s) == [free |-> P.free - s, limit |-> P.limit, count |-> P.count - 1]

\* Mutant: the claim is provisioned without looking at the pool's room.
ProvisionUnchecked(p) ==
    /\ phase[p] = "reserved"
    /\ LET n == node[p]
           i == provisioned[p] + 1
       IN IF i > Len(PodPVCs[p])
          THEN /\ phase' = [phase EXCEPT ![p] = "bound"]
               /\ UNCHANGED <<store, provisioned>>
          ELSE LET v == Vol(PodPVCs[p][i])
               IN /\ store' = [store EXCEPT ![n][v.pool] = Take(store[n][v.pool], v.size)]
                  /\ provisioned' = [provisioned EXCEPT ![p] = i]
                  /\ UNCHANGED phase
    /\ UNCHANGED <<cache, filtered, feasible, cands, scores, loop, node>>

Provision(p) ==
    /\ phase[p] = "reserved"
    /\ LET n == node[p]
           i == provisioned[p] + 1
       IN IF i > Len(PodPVCs[p])
          THEN /\ phase' = [phase EXCEPT ![p] = "bound"]
               /\ UNCHANGED <<store, provisioned>>
          ELSE LET v == Vol(PodPVCs[p][i])
               IN IF Fits(store[n][v.pool], v)
                  THEN /\ store' = [store EXCEPT ![n][v.pool] = Take(store[n][v.pool], v.size)]
                       /\ provisioned' = [provisioned EXCEPT ![p] = i]
                       /\ UNCHANGED phase
                  ELSE /\ phase' = [phase EXCEPT ![p] = "bindFailed"]
                       /\ UNCHANGED <<store, provisioned>>
    /\ UNCHANGED <<cache, filtered, feasible, cands, scores, loop, node>>

\* The host abandons a reserved or failed binding; Unreserve keeps nothing.
Unreserve(p) ==
    /\ phase[p] \in {"reserved", "bindFailed"}
    /\ phase' = [phase EXCEPT ![p] = "unreserved"]
    /\ UNCHANGED <<store, cache, filtered, feasible, cands, scores, loop, node,
                   provisioned>>

\* The informer delivers the latest LocalStorageNode of n to the cache.
Propagate(n) ==
    /\ cache[n] # store[n]
    /\ cache' = [cache EXCEPT ![n] = store[n]]
    /\ UNCHANGED <<store, phase, filtered, feasible, cands, scores, loop, node,
                   provisioned>>

\* Every pod settled and the cache caught up: the scheduler is idle.
Idle ==
    /\ \A p \in Pods : phase[p] \in Settled
    /\ cache = store
    /\ UNCHANGED vars

-----------------------------------------------------------------------------
Init ==
    /\ store = InitPools
    /\ cache = InitPools
    /\ phase = [p \in Pods |-> "queued"]
    /\ filtered = [p \in Pods |-> {}]
    /\ feasible = [p \in Pods |-> {}]
    /\ cands = [p \in Pods |-> [n \in Nodes |-> {}]]
    /\ scores = [p \in Pods |-> [n \in Nodes |-> NoScore]]
    /\ loop = NoLoop
    /\ node = [p \in Pods |-> NoNode]
    /\ provisioned = [p \in Pods |-> 0]

Next ==
    \/ \E p \in Pods :
          \/ StartCycle(p) \/ EndFilter(p) \/ ScoreFailed(p)
          \/ Provision(p) \/ Unreserve(p)
          \/ \E n \in Nodes : Filter(p, n) \/ ScoreBegin(p, n) \/ Reserve(p, n)
    \/ ScoreStep \/ ScoreEnd
    \/ \E n \in Nodes : Propagate(n)
    \/ Idle

\* The host drives every cycle to its end, the plugin's calls return, the
\* provisioner works off reserved pods, and the informer keeps up.  The
\* host is not obliged to Unreserve.
Fairness ==
    /\ \A p \in Pods : WF_vars(StartCycle(p)) /\ WF_vars(EndFilter(p))
                       /\ WF_vars(ScoreFailed(p)) /\ WF_vars(Provision(p))
    /\ \A p \in Pods : \A n \in Nodes :
          WF_vars(Filter(p, n)) /\ WF_vars(ScoreBegin(p, n))
    /\ WF_vars(\E p \in Pods, n \in Nodes : Reserve(p, n))
    /\ WF_vars(ScoreStep) /\ WF_vars(ScoreEnd)
    /\ \A n \in Nodes : WF_vars(Propagate(n))

Spec == Init /\ [][Next]_vars /\ Fairness

-----------------------------------------------------------------------------
(* Properties.                                                            *)

\* Every variable holds what the code can hold: pools in the store never
\* have negative free space or slots (provisioning checks the room first),
\* and every score Score returns is an int64 value, an error or unset.
TypeOK ==
    /\ store \in [Nodes -> PoolMap]
    /\ cache \in [Nodes -> PoolMap]
    /\ phase \in [Pods -> Phases]
    /\ filtered \in [Pods -> SUBSET Nodes]
    /\ feasible \in [Pods -> SUBSET Nodes]
    /\ cands \in [Pods -> [Nodes -> SUBSET Nodes]]
    /\ scores \in [Pods -> [Nodes -> Int \cup {NoScore, ScoreErr}]]
    /\ loop \in {NoLoop} \cup [pod : Pods, node : Nodes, i : Nat, total : Int,
                               snap : PoolMap]
    /\ node \in [Pods -> Nodes \cup {NoNode}]
    /\ provisioned \in [Pods -> Nat]

\* A pod is only ever reserved on a node that holds a replica of every
\* LocalVolume it already uses (filterForExistingLocalVolumes): bound
\* volumes cannot move, so any other node would strand the pod's data.
BoundLocality ==
    \A p \in Pods : node[p] # NoNode =>
        \A lv \in PodLVs[p] : LVConfig[lv] # NoConfig /\ node[p] \in LVConfig[lv]

\* The node a pod is reserved on (chosen after scoring, while the cache may
\* have moved on) was itself among the qualifiedNodes its own Filter call
\* computed, and that set was large enough for the first claim's replicas
\* (filterForNewPVCs).
PlacementQualified ==
    \A p \in Pods : node[p] # NoNode /\ PodPVCs[p] # <<>> =>
        /\ node[p] \in cands[p][node[p]]
        /\ Cardinality(cands[p][node[p]]) >= Vol(PodPVCs[p][1]).replicas

\* The spec (4.4, P5): Score returns a value in [0, MaxNodeScore].
ScoreInRange ==
    \A p \in Pods, n \in Nodes : scores[p][n] \in Int => ScoreValid(p, n)

\* The spec (I6, 4.5, scenario 5): once a pod is reserved on a node its
\* capacity is held, so provisioning its claims there never runs out of room.
ReservationHonoured == \A p \in Pods : phase[p] # "bindFailed"

\* The spec (4.4): a pod with pending claims passes Filter only when the
\* qualifying nodes number at least the largest replicaNumber among them.
ReplicaTopology ==
    \A p \in Pods : node[p] # NoNode =>
        \A k \in Claims(p) : Cardinality(cands[p][node[p]]) >= Vol(k).replicas

\* The spec (5, replicaNumber "positive integer as string"; 6,
\* MalformedClaim): a claim whose class gives no positive replica count is
\* rejected, so every pending claim of a reserved pod asks for at least
\* one replica.
WellFormedReplicas ==
    \A p \in Pods : node[p] # NoNode => \A k \in Claims(p) : Vol(k).replicas >= 1

\* The life of a pod as PodLifecycle sees it: queued and in its cycle it is
\* still pending.
AbsStatus(ph) == IF ph \in {"queued"} \cup InCycle THEN "pending" ELSE ph

\* The nodes holding a replica of every bound LocalVolume of p.
LocalNodes(p) ==
    {n \in Nodes : \A lv \in PodLVs[p] : LVConfig[lv] # NoConfig /\ n \in LVConfig[lv]}

\* The pods whose pending claims all name a pool buildStoragePoolName knows.
ValidPods == {p \in Pods : ClaimsValid(p)}

Lifecycle == INSTANCE PodLifecycle
    WITH status <- [p \in Pods |-> AbsStatus(phase[p])], placedOn <- node,
         Local <- [p \in Pods |-> LocalNodes(p)], Valid <- ValidPods

\* The scheduler, the host pipeline and the provisioner implement the pod
\* lifecycle of PodLifecycle: a pod is reserved once, only while pending,
\* only when its claims name valid pools and only on a node that keeps its
\* bound volumes local; Filter, Score, the cache and the pools are
\* invisible to it.
LifecycleRefined == Lifecycle!ASpec

=============================================================================
