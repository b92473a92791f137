------------------------- MODULE LVMScheduler_proofs -------------------------
(***************************************************************************)
(* Proofs about LVMScheduler for every value of its constants.             *)
(***************************************************************************)
EXTENDS LVMScheduler, TLAPS

\* scoreTotal += score stays an integer after the wrap-around.
LEMMA WrapInt == \A x \in Int : Wrap(x) \in Int
  BY ModulusAssumption DEF Wrap, MinInt

\* The float64 division and conversion of a nonzero divisor is an integer.
LEMMA TruncInt == \A a \in Int, b \in Int \ {0} : Trunc(a, b) \in Int
  BY DEF Trunc, Abs

\* strconv.Atoi with its error dropped returns an integer for any text.
LEMMA AtoiInt == ASSUME NEW s PROVE Atoi(s) \in Int
  <1>1. CASE \E i \in -AtoiBound..AtoiBound : ParsesTo(s, i)
    <2>1. (CHOOSE i \in -AtoiBound..AtoiBound : ParsesTo(s, i))
              \in -AtoiBound..AtoiBound
      BY <1>1
    <2>2. QED
      BY <1>1, <2>1 DEF Atoi, AtoiBound
  <1>2. CASE ~\E i \in -AtoiBound..AtoiBound : ParsesTo(s, i)
    BY <1>2 DEF Atoi
  <1>3. QED
    BY <1>1, <1>2

\* The LocalVolume constructLocalVolumeForPVC builds has a known pool or
\* InvalidPool, a size and a replica count (negative for a text like "-1").
LEMMA VolTyped ==
    ASSUME NEW k \in PVCs
    PROVE  /\ Vol(k).pool \in Classes \cup {InvalidPool}
           /\ Vol(k).size \in Nat
           /\ Vol(k).replicas \in Int
  <1>1. Atoi(SCParams[PVCClass[k]].replicaNumber) \in Int
    BY AtoiInt
  <1>2. QED
    BY <1>1, ConstAssumption DEF Vol, PoolName

\* Creating a volume in a pool that has room for it leaves a pool.
LEMMA TakePool ==
    ASSUME NEW P \in Pool, NEW s \in Nat, P.free >= s, P.count >= 1
    PROVE  Take(P, s) \in Pool
  BY DEF Take, Pool

\* The claims of a pod are the elements of its claim sequence.
LEMMA ClaimsElem ==
    ASSUME NEW p \in Pods, NEW i \in 1..Len(PodPVCs[p])
    PROVE  PodPVCs[p][i] \in Claims(p) /\ PodPVCs[p][i] \in PVCs
  BY ConstAssumption DEF Claims

\* scoreOneVolume on a snapshot of the pools, for a claim whose class names
\* a pool, yields integers only, whichever way NaN and -Inf convert.
LEMMA ScoreOneInt ==
    ASSUME NEW snap \in PoolMap, NEW k \in PVCs, ScorePool(k) # InvalidPool
    PROVE  ScoreOne(snap, k) \subseteq Int
  <1>1. ScorePool(k) \in Classes
    BY DEF ScorePool, PoolName
  <1>2. snap[ScorePool(k)] \in Pool \cup {NoPool}
    BY <1>1 DEF PoolMap
  <1> DEFINE P == snap[ScorePool(k)]
             free == IF P = NoPool THEN 0 ELSE P.free
             cap == PVCSize[k]
  <1>3. free \in Int /\ cap \in Int
    BY <1>2, ConstAssumption DEF Pool
  <1>4. MinInt \in Int
    BY ModulusAssumption DEF MinInt
  <1>5. free # 0 => Trunc((free - cap) * MaxNodeScore, free) \in Int
    <2>1. (free - cap) * MaxNodeScore \in Int
      BY <1>3, ConstAssumption
    <2>2. QED
      BY <1>3, <2>1, TruncInt
  <1>6. QED
    BY <1>4, <1>5 DEF ScoreOne, NegInfToInt, NaNToInt

\* What Filter(p, n) established when it accepted n: the first claim's
\* replicas fit in the qualifiedNodes it computed, and n is among them.
FilterRecord(p, n) ==
    PodPVCs[p] # <<>> =>
        /\ n \in cands[p][n]
        /\ Cardinality(cands[p][n]) >= Vol(PodPVCs[p][1]).replicas

\* The inductive invariant: the type, a Score loop's index is positive, a
\* reserved pod has a node, a node is reserved only among the feasible
\* ones, and a feasible node was accepted by the one Filter call made on it
\* (feasible nodes are filtered, so that call is never repeated).
IInv ==
    /\ TypeOK
    /\ loop # NoLoop => loop.i >= 1
    /\ \A p \in Pods :
          /\ phase[p] = "reserved" => node[p] # NoNode
          /\ node[p] # NoNode => node[p] \in feasible[p]
          /\ feasible[p] \subseteq filtered[p]
          /\ \A n \in feasible[p] :
                /\ FilterExisting(p, n)
                /\ FilterRecord(p, n)
                /\ \A k \in Claims(p) : Vol(k).pool \in Classes

-----------------------------------------------------------------------------
(* IInv holds initially and every action preserves it.                    *)

\* Every initial state (no pod started, cache equal to the store) satisfies IInv.
LEMMA InitIInv == Init => IInv
  <1> SUFFICES ASSUME Init PROVE IInv
    OBVIOUS
  <1>1. TypeOK
    BY ConstAssumption DEF Init, TypeOK, Phases
  <1>2. QED
    BY <1>1 DEF Init, IInv

\* The host's steps that only move a pod through its phases.
LEMMA PhaseStepIInv ==
    ASSUME IInv, NEW p \in Pods,
           StartCycle(p) \/ EndFilter(p) \/ ScoreFailed(p) \/ Unreserve(p)
    PROVE  IInv'
  <1>1. TypeOK'
    BY DEF IInv, TypeOK, StartCycle, EndFilter, ScoreFailed, Unreserve, Phases
  <1>2. \A q \in Pods : phase'[q] = "reserved" => phase[q] = "reserved"
    BY DEF IInv, TypeOK, StartCycle, EndFilter, ScoreFailed, Unreserve
  <1>3. UNCHANGED <<filtered, feasible, cands, loop, node>>
    BY DEF StartCycle, EndFilter, ScoreFailed, Unreserve
  <1>4. QED
    BY <1>1, <1>2, <1>3 DEF IInv, FilterRecord

\* The informer refreshes the cache of one node.
LEMMA PropagateIInv ==
    ASSUME IInv, NEW n \in Nodes, Propagate(n)
    PROVE  IInv'
  <1>1. TypeOK'
    BY DEF IInv, TypeOK, Propagate
  <1>2. QED
    BY <1>1 DEF IInv, FilterRecord, Propagate

\* A pod with no pending claims has no claims to check.
LEMMA NoClaims ==
    ASSUME NEW p \in Pods, PodPVCs[p] = <<>>
    PROVE  Claims(p) = {}
  BY ConstAssumption DEF Claims

\* Filter(p, n) records n as feasible only when both checks accept it, and
\* records the qualifiedNodes it computed; it is called once per node.
LEMMA FilterIInv ==
    ASSUME IInv, NEW p \in Pods, NEW n \in Nodes, Filter(p, n)
    PROVE  IInv'
  <1>1. (IF ClaimsValid(p) THEN QualifiedNodes(p) ELSE {}) \subseteq Nodes
    BY DEF QualifiedNodes, Candidates
  <1>2. TypeOK'
    BY <1>1 DEF IInv, TypeOK, Filter
  <1>3. UNCHANGED <<store, cache, phase, scores, loop, node, provisioned>>
    BY DEF Filter
  <1>4. ASSUME NEW q \in Pods, NEW m \in feasible'[q]
        PROVE  /\ FilterExisting(q, m)
               /\ FilterRecord(q, m)'
               /\ \A k \in Claims(q) : Vol(k).pool \in Classes
    <2>1. CASE q = p /\ m = n
      <3>1. FilterExisting(p, n) /\ FilterNew(p, n)
        BY <2>1 DEF IInv, TypeOK, Filter
      <3>2. PodPVCs[p] # <<>> => cands'[p][n] = QualifiedNodes(p)
        <4>1. PodPVCs[p] # <<>> => ClaimsValid(p)
          BY <3>1 DEF FilterNew
        <4>2. QED
          BY <4>1 DEF IInv, TypeOK, Filter
      <3>3. FilterRecord(p, n)'
        BY <3>1, <3>2 DEF FilterRecord, FilterNew
      <3>4. \A k \in Claims(p) : Vol(k).pool \in Classes
        <4>1. CASE PodPVCs[p] = <<>>
          BY <4>1, NoClaims
        <4>2. CASE PodPVCs[p] # <<>>
          <5>1. \A k \in Claims(p) : Vol(k).pool # InvalidPool
            BY <3>1, <4>2 DEF FilterNew, ClaimsValid
          <5>2. Claims(p) \subseteq PVCs
            BY ConstAssumption DEF Claims
          <5>3. QED
            BY <5>1, <5>2, VolTyped
        <4>3. QED
          BY <4>1, <4>2
      <3>5. QED
        BY <2>1, <3>1, <3>3, <3>4
    <2>2. CASE ~(q = p /\ m = n)
      <3>1. m \in feasible[q]
        BY <2>2 DEF IInv, TypeOK, Filter
      <3>2. cands'[q][m] = cands[q][m]
        BY <2>2 DEF IInv, TypeOK, Filter
      <3>3. QED
        BY <3>1, <3>2 DEF IInv, FilterRecord
    <2>3. QED
      BY <2>1, <2>2
  <1>5. \A q \in Pods : feasible'[q] \subseteq filtered'[q]
    BY DEF IInv, TypeOK, Filter
  <1>6. \A q \in Pods : node'[q] # NoNode => node'[q] \in feasible'[q]
    BY <1>3 DEF IInv, TypeOK, Filter
  <1>7. QED
    BY <1>2, <1>3, <1>4, <1>5, <1>6 DEF IInv

\* Score's Get copies the cache entry of a feasible node into its locals.
LEMMA ScoreBeginIInv ==
    ASSUME IInv, NEW p \in Pods, NEW n \in Nodes, ScoreBegin(p, n)
    PROVE  IInv'
  <1>1. TypeOK'
    BY DEF IInv, TypeOK, ScoreBegin
  <1>2. QED
    BY <1>1 DEF IInv, FilterRecord, ScoreBegin

\* One turn of Score's loop over the claims: an error ends the call with
\* ScoreErr, otherwise the claim's score is added with wrap-around.
LEMMA ScoreStepIInv ==
    ASSUME IInv, ScoreStep
    PROVE  IInv'
  <1> DEFINE k == PodPVCs[loop.pod][loop.i]
  <1>1. loop \in [pod : Pods, node : Nodes, i : Nat, total : Int, snap : PoolMap]
    BY DEF IInv, TypeOK, ScoreStep
  <1>7. loop # NoLoop /\ loop.i <= Len(PodPVCs[loop.pod])
    BY DEF ScoreStep
  <1>8. loop.i >= 1
    BY <1>7 DEF IInv
  <1>9. Len(PodPVCs[loop.pod]) \in Nat
    BY <1>1, ConstAssumption
  <1>6. loop.i \in 1..Len(PodPVCs[loop.pod])
    BY <1>1, <1>7, <1>8, <1>9
  <1>2. k \in PVCs
    BY <1>1, <1>6, ClaimsElem
  <1>3. CASE ScorePool(k) = InvalidPool
    <2>1. scores' = [scores EXCEPT ![loop.pod][loop.node] = ScoreErr] /\ loop' = NoLoop
      BY <1>3 DEF ScoreStep
    <2>2. TypeOK'
      BY <1>1, <2>1 DEF IInv, TypeOK, ScoreStep
    <2>3. QED
      BY <2>1, <2>2 DEF IInv, FilterRecord, ScoreStep
  <1>4. CASE ScorePool(k) # InvalidPool
    <2>1. PICK s \in ScoreOne(loop.snap, k) :
                 loop' = [loop EXCEPT !.i = @ + 1, !.total = Wrap(@ + s)]
      BY <1>4 DEF ScoreStep
    <2>2. s \in Int
      BY <1>1, <1>2, <1>4, ScoreOneInt
    <2>3. Wrap(loop.total + s) \in Int
      BY <1>1, <2>2, WrapInt
    <2>7. loop' = [pod |-> loop.pod, node |-> loop.node, i |-> loop.i + 1,
                   total |-> Wrap(loop.total + s), snap |-> loop.snap]
      BY <1>1, <2>1
    <2>4. /\ loop' \in [pod : Pods, node : Nodes, i : Nat, total : Int, snap : PoolMap]
          /\ loop'.i >= 1
      BY <1>1, <2>3, <2>7
    <2>8. UNCHANGED <<store, cache, phase, filtered, feasible, cands, scores, node,
                     provisioned>>
      BY <1>4 DEF ScoreStep
    <2>5. TypeOK'
      BY <2>4, <2>8 DEF IInv, TypeOK
    <2>6. QED
      BY <2>4, <2>5, <2>8 DEF IInv, FilterRecord
  <1>5. QED
    BY <1>3, <1>4

\* Score's return value, after its loop, is an integer.
LEMMA ScoreEndIInv ==
    ASSUME IInv, ScoreEnd
    PROVE  IInv'
  <1>1. loop \in [pod : Pods, node : Nodes, i : Nat, total : Int, snap : PoolMap]
    BY DEF IInv, TypeOK, ScoreEnd
  <1>2. MinInt \in Int
    BY ModulusAssumption DEF MinInt
  <1>3. \A r \in (IF Len(PodPVCs[loop.pod]) = 0 THEN NaNToInt
                  ELSE {Trunc(loop.total, Len(PodPVCs[loop.pod]))}) : r \in Int
    BY <1>1, <1>2, TruncInt, ConstAssumption DEF NaNToInt
  <1>4. TypeOK'
    BY <1>1, <1>3 DEF IInv, TypeOK, ScoreEnd
  <1>5. QED
    BY <1>4 DEF IInv, FilterRecord, ScoreEnd

\* The host reserves p on one of its feasible nodes.
LEMMA ReserveIInv ==
    ASSUME IInv, NEW p \in Pods, NEW n \in Nodes, Reserve(p, n)
    PROVE  IInv'
  <1>1. TypeOK'
    BY DEF IInv, TypeOK, Reserve, Phases
  <1>2. n \in feasible[p] /\ n # NoNode
    BY ConstAssumption DEF Reserve
  <1>3. QED
    BY <1>1, <1>2 DEF IInv, TypeOK, FilterRecord, Reserve

\* The provisioner creates p's next claim on its reserved node, only in a
\* pool with room for it, or fails the binding; or, all claims done, binds.
LEMMA ProvisionIInv ==
    ASSUME IInv, NEW p \in Pods, Provision(p)
    PROVE  IInv'
  <1> DEFINE n == node[p]
             i == provisioned[p] + 1
  <1>1. n \in feasible[p] /\ n \in Nodes
    BY DEF IInv, TypeOK, Provision
  <1>2. UNCHANGED <<cache, filtered, feasible, cands, scores, loop, node>>
    BY DEF Provision
  <1>3. \A q \in Pods : phase'[q] = "reserved" => phase[q] = "reserved"
    BY DEF IInv, TypeOK, Provision
  <1>4. TypeOK'
    <2>1. CASE i > Len(PodPVCs[p])
      <3>1. phase' = [phase EXCEPT ![p] = "bound"] /\ UNCHANGED <<store, provisioned>>
        BY <2>1 DEF Provision
      <3>2. QED
        BY <1>2, <3>1 DEF IInv, TypeOK, Phases
    <2>2. CASE i <= Len(PodPVCs[p])
      <3> DEFINE v == Vol(PodPVCs[p][i])
                 P == store[n][v.pool]
      <3>1. i \in 1..Len(PodPVCs[p])
        BY <2>2, ConstAssumption DEF IInv, TypeOK
      <3>2. PodPVCs[p][i] \in Claims(p) /\ PodPVCs[p][i] \in PVCs
        BY <3>1, ClaimsElem
      <3>3. v.pool \in Classes /\ v.size \in Nat
        BY <1>1, <3>2, VolTyped DEF IInv
      <3>8. ~(i > Len(PodPVCs[p]))
        BY <3>1, ConstAssumption
      <3>4. P \in Pool \cup {NoPool}
        BY <1>1, <3>3 DEF IInv, TypeOK, PoolMap
      <3>5. CASE Fits(P, v)
        <4>1. Take(P, v.size) \in Pool
          BY <3>3, <3>4, <3>5, TakePool DEF Fits
        <4>2. store' = [store EXCEPT ![n][v.pool] = Take(P, v.size)]
              /\ provisioned' = [provisioned EXCEPT ![p] = i]
              /\ UNCHANGED phase
          BY <3>8, <3>5, Zenon DEF Provision
        <4>4. store' \in [Nodes -> PoolMap]
          BY <1>1, <3>3, <4>1, <4>2 DEF IInv, TypeOK, PoolMap
        <4>5. provisioned' \in [Pods -> Nat]
          BY <4>2 DEF IInv, TypeOK
        <4>3. QED
          BY <1>2, <4>2, <4>4, <4>5 DEF IInv, TypeOK
      <3>6. CASE ~Fits(P, v)
        <4>1. phase' = [phase EXCEPT ![p] = "bindFailed"]
              /\ UNCHANGED <<store, provisioned>>
          BY <3>8, <3>6, Zenon DEF Provision
        <4>2. QED
          BY <1>2, <4>1 DEF IInv, TypeOK, Phases
      <3>7. QED
        BY <3>5, <3>6
    <2>3. QED
      BY <2>1, <2>2, ConstAssumption DEF IInv, TypeOK
  <1>5. QED
    BY <1>2, <1>3, <1>4 DEF IInv, FilterRecord

\* IInv is inductive: every step of Next, and a stutter, preserves it.
THEOREM NextIInv == IInv /\ [Next]_vars => IInv'
  <1> SUFFICES ASSUME IInv, [Next]_vars PROVE IInv'
    OBVIOUS
  <1>1. ASSUME NEW p \in Pods,
               StartCycle(p) \/ EndFilter(p) \/ ScoreFailed(p) \/ Unreserve(p)
        PROVE  IInv'
    BY <1>1, PhaseStepIInv
  <1>2. ASSUME NEW p \in Pods, Provision(p) PROVE IInv'
    BY <1>2, ProvisionIInv
  <1>3. ASSUME NEW p \in Pods, NEW n \in Nodes, Filter(p, n) PROVE IInv'
    BY <1>3, FilterIInv
  <1>4. ASSUME NEW p \in Pods, NEW n \in Nodes, ScoreBegin(p, n) PROVE IInv'
    BY <1>4, ScoreBeginIInv
  <1>5. ASSUME NEW p \in Pods, NEW n \in Nodes, Reserve(p, n) PROVE IInv'
    BY <1>5, ReserveIInv
  <1>6. ASSUME ScoreStep PROVE IInv'
    BY <1>6, ScoreStepIInv
  <1>7. ASSUME ScoreEnd PROVE IInv'
    BY <1>7, ScoreEndIInv
  <1>8. ASSUME NEW n \in Nodes, Propagate(n) PROVE IInv'
    BY <1>8, PropagateIInv
  <1>9. ASSUME Idle \/ UNCHANGED vars PROVE IInv'
    BY <1>9 DEF Idle, vars, IInv, TypeOK, FilterRecord
  <1>10. QED
    BY <1>1, <1>2, <1>3, <1>4, <1>5, <1>6, <1>7, <1>8, <1>9 DEF Next

-----------------------------------------------------------------------------
(* The invariants the runs check, for every instance.                     *)

\* Every reachable state is well typed: pools keep natural free space and
\* slot counts (provisioning only takes what fits), and every score Score
\* returns, through the NaN and -Inf conversions and the int64 wrap-around,
\* is an integer.
THEOREM TypeCorrect == Spec => []TypeOK
  <1>1. IInv => TypeOK
    BY DEF IInv
  <1>2. QED
    BY <1>1, InitIInv, NextIInv, PTL DEF Spec

\* filterForExistingLocalVolumes is never bypassed: a pod is only reserved
\* on a node that holds a replica of each of its bound LocalVolumes.
THEOREM BoundLocalityHolds == Spec => []BoundLocality
  <1>1. IInv => BoundLocality
    BY DEF IInv, BoundLocality, FilterExisting
  <1>2. QED
    BY <1>1, InitIInv, NextIInv, PTL DEF Spec

\* The node a pod is reserved on was among the qualifiedNodes of its own
\* Filter call, and those were enough for the first claim's replicas.
THEOREM PlacementQualifiedHolds == Spec => []PlacementQualified
  <1>1. IInv => PlacementQualified
    BY DEF IInv, PlacementQualified, FilterRecord
  <1>2. QED
    BY <1>1, InitIInv, NextIInv, PTL DEF Spec

-----------------------------------------------------------------------------

-----------------------------------------------------------------------------
(* The scheduler implements PodLifecycle under the mapping of Lifecycle.  *)

\* Moving one pod to phase ph moves its abstract status to AbsStatus(ph).
LEMMA AbsExcept ==
    ASSUME NEW ph, NEW p \in Pods, phase \in [Pods -> Phases],
           phase' = [phase EXCEPT ![p] = ph]
    PROVE  [q \in Pods |-> AbsStatus(phase'[q])]
             = [[q \in Pods |-> AbsStatus(phase[q])] EXCEPT ![p] = AbsStatus(ph)]
  OBVIOUS

\* A step that leaves node and every pod's abstract status alone is a
\* stutter of PodLifecycle.
LEMMA AbsStutter ==
    ASSUME node' = node, \A q \in Pods : AbsStatus(phase'[q]) = AbsStatus(phase[q])
    PROVE  UNCHANGED Lifecycle!avars
  BY DEF Lifecycle!avars

\* Filter, Score, Propagate, Idle and the start of a cycle change neither
\* a pod's abstract status nor its node.
LEMMA InnerStepsStutter ==
    ASSUME IInv,
           \/ \E p \in Pods : StartCycle(p)
           \/ \E p \in Pods, n \in Nodes : Filter(p, n) \/ ScoreBegin(p, n)
           \/ ScoreStep \/ ScoreEnd \/ (\E n \in Nodes : Propagate(n))
           \/ Idle \/ UNCHANGED vars
    PROVE  UNCHANGED Lifecycle!avars
  <1>1. node' = node
    BY DEF StartCycle, Filter, ScoreBegin, ScoreStep, ScoreEnd, Propagate,
           Idle, vars
  <1>2. \A q \in Pods : AbsStatus(phase'[q]) = AbsStatus(phase[q])
    BY DEF IInv, TypeOK, StartCycle, Filter, ScoreBegin, ScoreStep, ScoreEnd,
           Propagate, Idle, vars, AbsStatus, InCycle
  <1>3. QED
    BY <1>1, <1>2, AbsStutter

\* A pod whose cycle ends without a node is given up; one that goes on to
\* scoring is still pending.
LEMMA GiveUpStep ==
    ASSUME IInv, NEW p \in Pods, EndFilter(p) \/ ScoreFailed(p)
    PROVE  [Lifecycle!ANext]_Lifecycle!avars
  <1>1. AbsStatus(phase[p]) = "pending" /\ node' = node
    BY DEF EndFilter, ScoreFailed, AbsStatus, InCycle
  <1>2. CASE phase' = [phase EXCEPT ![p] = "unschedulable"]
    <2>1. Lifecycle!GiveUp(p)
      BY <1>1, <1>2, AbsExcept DEF IInv, TypeOK, AbsStatus, InCycle,
         Lifecycle!GiveUp
    <2>2. QED
      BY <2>1 DEF Lifecycle!ANext
  <1>3. CASE phase' = [phase EXCEPT ![p] = "scoring"]
    <2>1. \A q \in Pods : AbsStatus(phase'[q]) = AbsStatus(phase[q])
      BY <1>1, <1>3 DEF IInv, TypeOK, AbsStatus, InCycle
    <2>2. QED
      BY <1>1, <2>1, AbsStutter
  <1>4. QED
    BY <1>2, <1>3 DEF EndFilter, ScoreFailed

\* Reserve is Place: the node chosen is feasible, so Filter found that it
\* keeps the bound volumes local and that every claim names a valid pool.
LEMMA ReservePlace ==
    ASSUME IInv, NEW p \in Pods, NEW n \in Nodes, Reserve(p, n)
    PROVE  Lifecycle!Place(p, n)
  <1>1. AbsStatus(phase[p]) = "pending"
    BY DEF Reserve, AbsStatus, InCycle
  <1>2. n \in feasible[p]
    BY DEF Reserve
  <1>3. p \in ValidPods
    BY <1>2, ConstAssumption DEF IInv, ValidPods, ClaimsValid
  <1>4. n \in LocalNodes(p)
    BY <1>2 DEF IInv, FilterExisting, LocalNodes
  <1>5. [q \in Pods |-> AbsStatus(phase'[q])]
          = [[q \in Pods |-> AbsStatus(phase[q])] EXCEPT ![p] = "reserved"]
    BY AbsExcept DEF Reserve, IInv, TypeOK, AbsStatus, InCycle
  <1>6. QED
    BY <1>1, <1>3, <1>4, <1>5 DEF Reserve, Lifecycle!Place

\* Provisioning a claim is a stutter; the end of the claims binds the pod
\* and a claim that does not fit fails its binding.
LEMMA ProvisionStep ==
    ASSUME IInv, NEW p \in Pods, Provision(p)
    PROVE  [Lifecycle!ANext]_Lifecycle!avars
  <1>1. AbsStatus(phase[p]) = "reserved" /\ node' = node
    BY DEF Provision, AbsStatus, InCycle
  <1>2. \/ phase' = [phase EXCEPT ![p] = "bound"]
        \/ phase' = [phase EXCEPT ![p] = "bindFailed"]
        \/ phase' = phase
    BY Zenon DEF Provision
  <1>3. CASE phase' = [phase EXCEPT ![p] = "bound"]
    <2>1. Lifecycle!Bind(p)
      BY <1>1, <1>3, AbsExcept DEF IInv, TypeOK, AbsStatus, InCycle,
         Lifecycle!Bind
    <2>2. QED
      BY <2>1 DEF Lifecycle!ANext
  <1>4. CASE phase' = [phase EXCEPT ![p] = "bindFailed"]
    <2>1. Lifecycle!FailBind(p)
      BY <1>1, <1>4, AbsExcept DEF IInv, TypeOK, AbsStatus, InCycle,
         Lifecycle!FailBind
    <2>2. QED
      BY <2>1 DEF Lifecycle!ANext
  <1>5. CASE phase' = phase
    BY <1>1, <1>5, AbsStutter
  <1>6. QED
    BY <1>2, <1>3, <1>4, <1>5

\* Unreserve is Release.
LEMMA UnreserveRelease ==
    ASSUME IInv, NEW p \in Pods, Unreserve(p)
    PROVE  Lifecycle!Release(p)
  <1>1. AbsStatus(phase[p]) \in {"reserved", "bindFailed"}
    BY DEF Unreserve, AbsStatus, InCycle
  <1>2. [q \in Pods |-> AbsStatus(phase'[q])]
          = [[q \in Pods |-> AbsStatus(phase[q])] EXCEPT ![p] = "unreserved"]
    BY AbsExcept DEF Unreserve, IInv, TypeOK, AbsStatus, InCycle
  <1>3. QED
    BY <1>1, <1>2 DEF Unreserve, Lifecycle!Release

\* The scheduler, its host pipeline and the provisioner implement the pod
\* lifecycle: every pod is reserved at most once, while pending, with its
\* claims naming valid pools and on a node that keeps its bound volumes
\* local; it then binds, fails or is released (LifecycleRefined).
THEOREM LifecycleRefinement == Spec => LifecycleRefined
  <1>1. Init => Lifecycle!AInit
    BY DEF Init, Lifecycle!AInit, AbsStatus, InCycle
  <1>2. IInv /\ [Next]_vars => [Lifecycle!ANext]_Lifecycle!avars
    <2> SUFFICES ASSUME IInv, [Next]_vars
                 PROVE  [Lifecycle!ANext]_Lifecycle!avars
      OBVIOUS
    <2>1. ASSUME NEW p \in Pods, NEW n \in Nodes, Reserve(p, n)
          PROVE  [Lifecycle!ANext]_Lifecycle!avars
      BY <2>1, ReservePlace DEF Lifecycle!ANext
    <2>2. ASSUME NEW p \in Pods, Unreserve(p)
          PROVE  [Lifecycle!ANext]_Lifecycle!avars
      BY <2>2, UnreserveRelease DEF Lifecycle!ANext
    <2>3. ASSUME NEW p \in Pods, EndFilter(p) \/ ScoreFailed(p)
          PROVE  [Lifecycle!ANext]_Lifecycle!avars
      BY <2>3, GiveUpStep
    <2>4. ASSUME NEW p \in Pods, Provision(p)
          PROVE  [Lifecycle!ANext]_Lifecycle!avars
      BY <2>4, ProvisionStep
    <2>5. CASE \/ \E p \in Pods : StartCycle(p)
               \/ \E p \in Pods, n \in Nodes : Filter(p, n) \/ ScoreBegin(p, n)
               \/ ScoreStep \/ ScoreEnd \/ (\E n \in Nodes : Propagate(n))
               \/ Idle \/ UNCHANGED vars
      BY <2>5, InnerStepsStutter
    <2>6. QED
      BY <2>1, <2>2, <2>3, <2>4, <2>5 DEF Next
  <1>3. QED
    BY <1>1, <1>2, InitIInv, NextIInv, PTL DEF Spec, LifecycleRefined,
       Lifecycle!ASpec

=============================================================================
