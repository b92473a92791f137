-------------------------- MODULE NodeManager_proofs --------------------------
(***************************************************************************)
(* Proofs about NodeManager for every value of its constants: the status  *)
(* published in the LocalDiskNode is the manager's pools whenever the     *)
(* worker is idle with nothing queued, through store errors, version      *)
(* conflicts, writes by other controllers and restarts.                    *)
(***************************************************************************)
EXTENDS NodeManager, FiniteSetTheorems, TLAPS

\* o is a LocalDiskNode as this manager writes it: attached to this node,
\* with some status and a resource version.
ObjShape(o) ==
    /\ o = [attach |-> Me, status |-> o.status, version |-> o.version]
    /\ o.version \in Nat

\* The sentinel NotFound is no LocalDiskNode object.
NoObject == \A s, v : [attach |-> Me, status |-> s, version |-> v] # NotFound

\* The LocalDiskNode exists and its status is the rollup of m.pools.
Match == obj # NotFound /\ obj.status = StatusOf(pools)

\* Some item waits in a task queue.
Busy == diskQueue \cup claimQueue # {}

\* The inductive invariant.  Both copies of the LocalDiskNode (the stored
\* one and the one a Get fetched) have the manager's shape; an Update is
\* only attempted after a successful Get; a worker phase holds its item; a
\* successful worker publish leaves the status matching the pools, and an
\* idle manager whose status does not match has an item queued (a failed
\* publish requeued it).
IInv ==
    /\ diskQueue \subseteq LocalDisks /\ claimQueue \subseteq LocalDiskClaims
    /\ obj # NotFound => ObjShape(obj)
    /\ got # NotFound => ObjShape(got)
    /\ phase \in {"syncWrite", "wSyncWrite"} => got # NotFound
    /\ phase \in {"wSyncGet", "wSyncWrite", "wRetry"} =>
          task \in LocalDisks \cup LocalDiskClaims
    /\ phase = "wDone" => Match
    /\ phase = "idle" => Match \/ Busy

-----------------------------------------------------------------------------
(* The LocalDiskNode objects the manager writes.                          *)

\* A LocalDiskNode of the manager's shape is an object, not NotFound.
LEMMA ShapeFound ==
    ASSUME NoObject, NEW o, ObjShape(o)
    PROVE  o # NotFound
  BY DEF NoObject, ObjShape

\* The Update of syncNodeResources (status and version) and the ones of
\* register and of other controllers keep the manager's shape.
LEMMA ShapeExcept ==
    ASSUME NEW o, ObjShape(o), NEW s
    PROVE  /\ ObjShape([o EXCEPT !.status = s, !.version = @ + 1])
           /\ [o EXCEPT !.status = s, !.version = @ + 1].status = s
           /\ ObjShape([o EXCEPT !.attach = Me, !.version = @ + 1])
           /\ [o EXCEPT !.attach = Me, !.version = @ + 1].status = o.status
           /\ ObjShape([o EXCEPT !.version = @ + 1])
           /\ [o EXCEPT !.version = @ + 1].status = o.status
  <1>1. o = [attach |-> Me, status |-> o.status, version |-> o.version]
        /\ o.version + 1 \in Nat
    BY DEF ObjShape
  <1>2. [o EXCEPT !.status = s, !.version = @ + 1]
          = [attach |-> Me, status |-> s, version |-> o.version + 1]
    <2>1. [o EXCEPT !.status = s] = [attach |-> Me, status |-> s, version |-> o.version]
      BY <1>1
    <2>2. [[attach |-> Me, status |-> s, version |-> o.version] EXCEPT
              !.version = o.version + 1]
            = [attach |-> Me, status |-> s, version |-> o.version + 1]
      OBVIOUS
    <2>3. QED
      BY <2>1, <2>2, Zenon
  <1>3. [o EXCEPT !.attach = Me, !.version = @ + 1]
          = [attach |-> Me, status |-> o.status, version |-> o.version + 1]
    <2>1. [o EXCEPT !.attach = Me] = o
      BY <1>1
    <2>2. [o EXCEPT !.version = o.version + 1]
            = [attach |-> Me, status |-> o.status, version |-> o.version + 1]
      BY <1>1
    <2>3. QED
      BY <2>1, <2>2, Zenon
  <1>4. [o EXCEPT !.version = @ + 1]
          = [attach |-> Me, status |-> o.status, version |-> o.version + 1]
    BY <1>1
  <1>5. QED
    BY <1>1, <1>2, <1>3, <1>4 DEF ObjShape

-----------------------------------------------------------------------------
(* The rollups: SumOver and Largest over finite sets.  SumOver's          *)
(* recursive function reaches the provers as CHOOSE sum : sum = [T \in     *)
(* SUBSET S |-> ...], so its value is known only once some function is    *)
(* shown to satisfy that equation.  Both facts are proved by taking a     *)
(* counterexample that is minimal for strict inclusion among the subsets  *)
(* of a finite set (WFMin, FS_StrictSubsetOrderingWellFounded).           *)

\* The element the code's loop takes first, as SumOver chooses it.
Pick(T) == CHOOSE y \in T : TRUE

\* The right-hand side of SumOver's recursive equation.
SumBody(g, f, T) == IF T = {} THEN 0 ELSE f[Pick(T)] + g[T \ {Pick(T)}]

\* g satisfies that equation on the subsets of U.
IsSum(g, f, U) == g = [T \in SUBSET U |-> SumBody(g, f, T)]

\* Some set of Sets has no strict subset in Sets.
MinimalIn(Sets) == \E T \in Sets : \A U \in Sets : ~(U \subseteq T /\ U # T)

\* A nonempty family of subsets of a finite set has a minimal member.
LEMMA MinimalSubset ==
    ASSUME NEW Fin, IsFiniteSet(Fin), NEW Sets, Sets \subseteq SUBSET Fin, Sets # {}
    PROVE  MinimalIn(Sets)
  <1>1. IsWellFoundedOn(StrictSubsetOrdering(Fin), FiniteSubsetsOf(Fin))
    BY FS_StrictSubsetOrderingWellFounded
  <1>2. Sets \subseteq FiniteSubsetsOf(Fin)
    BY FS_FiniteSubsetsOfFinite
  <1>3. \E T \in Sets : \A U \in Sets : ~(<<U, T>> \in StrictSubsetOrdering(Fin))
    BY <1>1, <1>2, WFMin
  <1>4. QED
    BY <1>3 DEF StrictSubsetOrdering, MinimalIn

\* Removing the picked element of a nonempty set leaves a strict subset.
LEMMA PickRemove ==
    ASSUME NEW T, T # {}
    PROVE  Pick(T) \in T /\ T \ {Pick(T)} \subseteq T /\ T \ {Pick(T)} # T
  BY DEF Pick

\* A solution of the equation sums integers to integers.
LEMMA SumIntValued ==
    ASSUME NEW S, IsFiniteSet(S), NEW f, \A x \in S : f[x] \in Int,
           NEW U \in SUBSET S, NEW g, IsSum(g, f, U)
    PROVE  \A T \in SUBSET U : g[T] \in Int
  <1> DEFINE B == {T \in SUBSET U : g[T] \notin Int}
  <1> SUFFICES ASSUME B # {} PROVE FALSE
    OBVIOUS
  <1>0. MinimalIn(B)
    BY MinimalSubset
  <1>1. PICK T \in B : \A V \in B : ~(V \subseteq T /\ V # T)
    BY <1>0 DEF MinimalIn
  <1>2. g[T] = SumBody(g, f, T)
    BY DEF IsSum
  <1>3. T # {}
    BY <1>2 DEF SumBody
  <1>4. Pick(T) \in S /\ g[T \ {Pick(T)}] \in Int
    BY <1>1, <1>3, PickRemove
  <1>5. QED
    BY <1>1, <1>2, <1>3, <1>4 DEF SumBody

\* Two solutions agree on the subsets both are defined on.
LEMMA SumAgree ==
    ASSUME NEW S, IsFiniteSet(S), NEW f,
           NEW A \in SUBSET S, NEW g1, IsSum(g1, f, A),
           NEW C \in SUBSET S, NEW g2, IsSum(g2, f, C)
    PROVE  \A T \in SUBSET (A \cap C) : g1[T] = g2[T]
  <1> DEFINE B == {T \in SUBSET (A \cap C) : g1[T] # g2[T]}
  <1> SUFFICES ASSUME B # {} PROVE FALSE
    OBVIOUS
  <1>0. MinimalIn(B)
    BY MinimalSubset
  <1>1. PICK T \in B : \A V \in B : ~(V \subseteq T /\ V # T)
    BY <1>0 DEF MinimalIn
  <1>2. g1[T] = SumBody(g1, f, T) /\ g2[T] = SumBody(g2, f, T)
    BY DEF IsSum
  <1>3. T # {}
    BY <1>2 DEF SumBody
  <1>4. g1[T \ {Pick(T)}] = g2[T \ {Pick(T)}]
    BY <1>1, <1>3, PickRemove
  <1>5. QED
    BY <1>1, <1>2, <1>3, <1>4 DEF SumBody

\* Every subset of a finite set has a solution: one is built for a minimal
\* subset without one from the solutions of its strict subsets, which agree.
LEMMA SumExists ==
    ASSUME NEW S, IsFiniteSet(S), NEW f
    PROVE  \A U \in SUBSET S : \E g : IsSum(g, f, U)
  <1> DEFINE B == {U \in SUBSET S : ~\E g : IsSum(g, f, U)}
             H(V) == CHOOSE h : IsSum(h, f, V)
  <1> SUFFICES ASSUME B # {} PROVE FALSE
    OBVIOUS
  <1>0. MinimalIn(B)
    BY MinimalSubset
  <1>1. PICK U \in B : \A V \in B : ~(V \subseteq U /\ V # U)
    BY <1>0 DEF MinimalIn
  <1>2. \A V \in SUBSET U : V # U => IsSum(H(V), f, V)
    BY <1>1
  <1> DEFINE g == [T \in SUBSET U |->
                     IF T = {} THEN 0
                     ELSE f[Pick(T)] + H(T \ {Pick(T)})[T \ {Pick(T)}]]
  <1>3. ASSUME NEW T \in SUBSET U
        PROVE  g[T] = SumBody(g, f, T)
    <2>1. CASE T = {}
      BY <2>1 DEF SumBody
    <2>2. CASE T # {}
      <3> DEFINE T1 == T \ {Pick(T)}
      <3>1. T1 \in SUBSET U /\ T1 # U /\ IsSum(H(T1), f, T1)
        BY <2>2, <1>2, PickRemove
      <3>2. g[T1] = H(T1)[T1]
        <4>1. CASE T1 = {}
          BY <3>1, <4>1 DEF IsSum, SumBody
        <4>2. CASE T1 # {}
          <5> DEFINE T2 == T1 \ {Pick(T1)}
          <5>1. T2 \in SUBSET U /\ T2 # U /\ IsSum(H(T2), f, T2)
                /\ T2 \in SUBSET (T1 \cap T2)
            BY <3>1, <4>2, <1>2, PickRemove
          <5>2. H(T1)[T2] = H(T2)[T2]
            BY <3>1, <5>1, SumAgree
          <5>3. H(T1)[T1] = f[Pick(T1)] + H(T1)[T2]
            BY <3>1, <4>2 DEF IsSum, SumBody
          <5>4. g[T1] = f[Pick(T1)] + H(T2)[T2]
            BY <3>1, <4>2
          <5> QED
            BY <5>2, <5>3, <5>4
        <4> QED
          BY <4>1, <4>2
      <3> QED
        BY <2>2, <3>2 DEF SumBody
    <2> QED
      BY <2>1, <2>2
  <1>4. IsSum(g, f, U)
    BY <1>3 DEF IsSum
  <1> QED
    BY <1>1, <1>4

\* The code's += loops over a finite set of integers give an integer.
LEMMA SumOverInt ==
    ASSUME NEW S, IsFiniteSet(S), NEW f, \A x \in S : f[x] \in Int
    PROVE  SumOver(f, S) \in Int
  <1> DEFINE sum == CHOOSE g : IsSum(g, f, S)
  <1>1. IsSum(sum, f, S)
    BY SumExists
  <1>2. SumOver(f, S) = sum[S]
    BY DEF SumOver, IsSum, SumBody, Pick
  <1> QED
    BY <1>1, <1>2, SumIntValued

\* The maxCapacity loop over a finite nonempty set of integers finds one
\* of them that no other exceeds.
LEMMA LargestIn ==
    ASSUME NEW S, IsFiniteSet(S), S # {}, S \subseteq Int
    PROVE  Largest(S) \in S
  <1> DEFINE HasMax(T) == \E m \in T : \A x \in T : x <= m
             B == {T \in SUBSET S : T # {} /\ ~HasMax(T)}
  <1>1. HasMax(S)
    <2> SUFFICES ASSUME B # {} PROVE FALSE
      OBVIOUS
    <2>0. MinimalIn(B)
      BY MinimalSubset
    <2>1. PICK T \in B : \A V \in B : ~(V \subseteq T /\ V # T)
      BY <2>0 DEF MinimalIn
    <2> DEFINE x == Pick(T)
               T1 == T \ {x}
    <2>2. x \in T /\ T1 \subseteq T /\ T1 # T
      BY <2>1, PickRemove
    <2>3. CASE T1 = {}
      <3>1. T = {x} /\ x \in Int
        BY <2>2, <2>3
      <3> QED
        BY <2>1, <3>1 DEF HasMax
    <2>4. CASE T1 # {}
      <3>1. HasMax(T1)
        BY <2>1, <2>2, <2>4
      <3>2. PICK m \in T1 : \A y \in T1 : y <= m
        BY <3>1
      <3> QED
        BY <2>1, <2>2, <3>2
    <2> QED
      BY <2>3, <2>4
  <1> QED
    BY <1>1 DEF Largest

-----------------------------------------------------------------------------
(* The pools and the status the code builds are well typed.               *)

\* The capacities of finitely many disks form a finite set.
LEMMA CapacitiesFinite ==
    ASSUME NEW X \in SUBSET Disks
    PROVE  IsFiniteSet({DiskCap[d] : d \in X})
  <1> DEFINE T == {DiskCap[d] : d \in X}
             cap == [d \in X |-> DiskCap[d]]
  <1>1. IsFiniteSet(X)
    BY NodeManagerAssumption, FS_Subset
  <1>2. cap \in Surjection(X, T)
    BY DEF Surjection
  <1> QED
    BY <1>1, <1>2, FS_Surjection

\* rebuildLocalPools builds a LocalPool for each class from what the
\* registry lists: its sums, counts and largest disk are integers.
LEMMA PoolOfTyped ==
    ASSUME NEW ds \in SUBSET Disks, NEW vs \in SUBSET Volumes, NEW t \in DevTypes
    PROVE  PoolOf(ds, vs, t) \in LocalPool
  <1>1. IsFiniteSet(DisksOf(ds, t)) /\ IsFiniteSet(VolsOf(vs, t))
    BY NodeManagerAssumption, FS_Subset DEF DisksOf, VolsOf
  <1>2. SumOver(DiskCap, DisksOf(ds, t)) \in Int
    BY <1>1, NodeManagerAssumption, SumOverInt DEF DisksOf
  <1>3. SumOver(VolCap, VolsOf(vs, t)) \in Int
    BY <1>1, NodeManagerAssumption, SumOverInt DEF VolsOf
  <1>4. Cardinality(VolsOf(vs, t)) \in Nat
    BY <1>1, FS_CardinalityType
  <1>5. Largest({0} \cup {DiskCap[d] : d \in DisksOf(ds, t)}) \in Int
    <2> DEFINE L == {0} \cup {DiskCap[d] : d \in DisksOf(ds, t)}
    <2>1. IsFiniteSet(L)
      <3>1. IsFiniteSet({DiskCap[d] : d \in DisksOf(ds, t)})
        BY CapacitiesFinite DEF DisksOf
      <3>2. L = {DiskCap[d] : d \in DisksOf(ds, t)} \cup {0}
        OBVIOUS
      <3> QED
        BY <3>1, <3>2, FS_AddElement
    <2>2. L \subseteq Int
      BY NodeManagerAssumption DEF DisksOf
    <2> QED
      BY <2>1, <2>2, LargestIn
  <1> QED
    BY <1>2, <1>3, <1>4, <1>5, NodeManagerAssumption
    DEF PoolOf, LocalPool, DisksOf, VolsOf

\* A rebuild keeps m.pools a map from the classes to pools or NoPool.
LEMMA RebuiltTyped ==
    ASSUME pools \in PoolMap, NEW ds \in SUBSET Disks, NEW vs \in SUBSET Volumes
    PROVE  Rebuilt(ds, vs) \in PoolMap
  BY PoolOfTyped DEF Rebuilt, PoolMap

\* The status syncNodeResources writes: the pools and integer rollups.
LEMMA StatusTyped ==
    ASSUME NEW ps \in PoolMap
    PROVE  StatusOf(ps) \in Status
  <1>1. IsFiniteSet(Present(ps))
    BY NodeManagerAssumption, FS_Subset DEF Present
  <1>2. \A t \in Present(ps) :
          ps[t] \in LocalPool /\ Cardinality(ps[t].disks) \in Nat
    <2> SUFFICES ASSUME NEW t \in Present(ps)
                 PROVE  ps[t] \in LocalPool /\ Cardinality(ps[t].disks) \in Nat
      OBVIOUS
    <2>1. ps[t] \in LocalPool
      BY DEF Present, PoolMap
    <2>2. IsFiniteSet(ps[t].disks)
      BY <2>1, NodeManagerAssumption, FS_Subset DEF LocalPool
    <2> QED
      BY <2>1, <2>2, FS_CardinalityType
  <1>3. SumOver([t \in Present(ps) |-> Cardinality(ps[t].disks)], Present(ps)) \in Int
    BY <1>1, <1>2, SumOverInt
  <1>4. SumOver([t \in Present(ps) |-> ps[t].total], Present(ps)) \in Int
    BY <1>1, <1>2, SumOverInt DEF LocalPool
  <1>5. SumOver([t \in Present(ps) |-> ps[t].free], Present(ps)) \in Int
    BY <1>1, <1>2, SumOverInt DEF LocalPool
  <1> QED
    BY <1>3, <1>4, <1>5 DEF StatusOf, Status

\* The LocalDiskNode objects TypeOK allows.
ObjType == [attach : {Me}, status : Status, version : Nat]

\* An object of the manager's shape with a well-typed status is one.
LEMMA ShapeTyped ==
    ASSUME NEW o, ObjShape(o), o.status \in Status
    PROVE  o \in ObjType
  BY DEF ObjShape, ObjType

LEMMA TypedShape ==
    ASSUME NEW o \in ObjType
    PROVE  ObjShape(o) /\ o.status \in Status
  BY DEF ObjShape, ObjType

-----------------------------------------------------------------------------
(* IInv holds initially and every action preserves it.                    *)

\* Initially nothing is stored, fetched or queued and Start has not begun.
LEMMA InitIInv == Init => IInv
  BY DEF Init, IInv

\* Start's local steps, its failures and the restart touch neither object
\* and move between Start's phases only.
LEMMA StartLocalIInv ==
    ASSUME IInv,
           SetupInformersFail \/ StartRebuild \/ RegisterGet \/ StartSyncGet
           \/ StartStoreError \/ Restart
    PROVE  IInv'
  BY DEF IInv, SetupInformersFail, StartRebuild, RegisterGet, StartSyncGet,
         SyncGet, StartStoreError, Restart

\* register Creates an object of the manager's shape or Updates the one it
\* fetched.
LEMMA RegisterWriteIInv ==
    ASSUME IInv, RegisterWrite
    PROVE  IInv'
  <1>1. obj' # NotFound => ObjShape(obj')
    <2>1. CASE got = NotFound /\ obj = NotFound
              /\ obj' = [attach |-> Me, status |-> StatusOf(EmptyPools), version |-> 1]
      BY <2>1 DEF ObjShape
    <2>2. CASE got # NotFound /\ obj' = [got EXCEPT !.attach = Me, !.version = @ + 1]
      BY <2>2, ShapeExcept DEF IInv
    <2>3. CASE UNCHANGED obj
      BY <2>3 DEF IInv
    <2>4. QED
      BY <2>1, <2>2, <2>3, Zenon DEF RegisterWrite
  <1>2. phase' \in {"syncGet", "failed"}
    BY DEF RegisterWrite
  <1>3. QED
    BY <1>1, <1>2 DEF IInv, RegisterWrite

\* A successful Update of syncNodeResources publishes StatusOf(pools).
LEMMA SyncWriteOk ==
    ASSUME NoObject, IInv, got # NotFound,
           obj' = [got EXCEPT !.status = StatusOf(pools), !.version = @ + 1],
           pools' = pools
    PROVE  ObjShape(obj') /\ Match'
  <1>1. ObjShape(obj') /\ obj'.status = StatusOf(pools)
    BY ShapeExcept DEF IInv
  <1>2. obj' # NotFound
    BY <1>1, ShapeFound
  <1>3. QED
    BY <1>1, <1>2 DEF Match

\* Start's Update publishes the pools or, on a conflict, fails Start.
LEMMA StartSyncWriteIInv ==
    ASSUME NoObject, IInv, StartSyncWrite
    PROVE  IInv'
  <1>1. got # NotFound
    BY DEF IInv, StartSyncWrite
  <1>2. CASE Version(obj) = got.version
    <2>1. obj' = [got EXCEPT !.status = StatusOf(pools), !.version = @ + 1]
          /\ phase' = "idle" /\ UNCHANGED <<pools, got>>
      BY <1>2 DEF StartSyncWrite, SyncWrite
    <2>2. ObjShape(obj') /\ Match'
      BY <1>1, <2>1, SyncWriteOk
    <2>3. QED
      BY <2>1, <2>2 DEF IInv, StartSyncWrite, SyncWrite
  <1>3. CASE Version(obj) # got.version
    BY <1>3 DEF IInv, StartSyncWrite, SyncWrite
  <1>4. QED
    BY <1>2, <1>3

\* The informer handlers only add items of this node to the queues.
LEMMA HandleIInv ==
    ASSUME IInv,
           \/ \E ld \in LocalDisks : HandleLocalDisk(ld)
           \/ \E ldc \in LocalDiskClaims : HandleLocalDiskClaim(ldc)
    PROVE  IInv'
  BY DEF IInv, HandleLocalDisk, HandleLocalDiskClaim, Match, Busy

\* The worker takes a queued item and rebuilds; its phases hold the item.
LEMMA WorkerRebuildIInv ==
    ASSUME IInv, WorkerRebuild
    PROVE  IInv'
  BY DEF IInv, WorkerRebuild

\* The worker's Get fetches the stored object; a failed call sends the
\* item to be retried.
LEMMA WorkerSyncGetIInv ==
    ASSUME IInv, WorkerSyncGet \/ WorkerStoreError
    PROVE  IInv'
  BY DEF IInv, WorkerSyncGet, SyncGet, WorkerStoreError

\* The worker's Update publishes the pools or, on a conflict, sends the
\* item to be retried.
LEMMA WorkerSyncWriteIInv ==
    ASSUME NoObject, IInv, WorkerSyncWrite
    PROVE  IInv'
  <1>1. got # NotFound
    BY DEF IInv, WorkerSyncWrite
  <1>2. CASE Version(obj) = got.version
    <2>1. obj' = [got EXCEPT !.status = StatusOf(pools), !.version = @ + 1]
          /\ phase' = "wDone" /\ UNCHANGED <<pools, got, task>>
      BY <1>2 DEF WorkerSyncWrite, SyncWrite
    <2>2. ObjShape(obj') /\ Match'
      BY <1>1, <2>1, SyncWriteOk
    <2>3. QED
      BY <2>1, <2>2 DEF IInv, WorkerSyncWrite, SyncWrite
  <1>3. CASE Version(obj) # got.version
    BY <1>3 DEF IInv, WorkerSyncWrite, SyncWrite
  <1>4. QED
    BY <1>2, <1>3

\* A finished item leaves a matching status; a failed one is queued again.
LEMMA WorkerFinishIInv ==
    ASSUME IInv, WorkerFinish
    PROVE  IInv'
  <1>1. CASE phase = "wDone"
    BY <1>1 DEF IInv, WorkerFinish, Match
  <1>2. CASE phase = "wRetry"
    <2>1. task \in diskQueue' \cup claimQueue'
      BY <1>2 DEF IInv, WorkerFinish
    <2>2. Busy'
      BY <2>1 DEF Busy
    <2>3. QED
      BY <1>2, <2>2 DEF IInv, WorkerFinish
  <1>3. QED
    BY <1>1, <1>2 DEF WorkerFinish

\* The registry changes what the next rebuild sees, not the pools; another
\* controller's Update bumps the version and keeps the status.
LEMMA EnvironmentIInv ==
    ASSUME NoObject, IInv, RegistryChange \/ ExternalWrite \/ Quiescent
    PROVE  IInv'
  <1>1. CASE RegistryChange \/ Quiescent
    BY <1>1 DEF IInv, RegistryChange, Quiescent, vars, Match, Busy
  <1>2. CASE ExternalWrite
    <2>1. ObjShape(obj') /\ obj'.status = obj.status
      BY <1>2, ShapeExcept DEF IInv, ExternalWrite
    <2>2. obj' # NotFound
      BY <2>1, ShapeFound
    <2>3. Match => Match'
      BY <1>2, <2>1, <2>2 DEF ExternalWrite, Match
    <2>4. QED
      BY <1>2, <2>1, <2>3 DEF IInv, ExternalWrite, Busy
  <1>3. QED
    BY <1>1, <1>2

\* IInv is inductive when NotFound is no object: every step of Next, and
\* a stutter, preserves it.
THEOREM NextIInv == NoObject => (IInv /\ [Next]_vars => IInv')
  <1> SUFFICES ASSUME NoObject, IInv, [Next]_vars PROVE IInv'
    OBVIOUS
  <1>1. CASE SetupInformersFail \/ StartRebuild \/ RegisterGet \/ StartSyncGet
             \/ StartStoreError \/ Restart
    BY <1>1, StartLocalIInv
  <1>2. CASE RegisterWrite
    BY <1>2, RegisterWriteIInv
  <1>3. CASE StartSyncWrite
    BY <1>3, StartSyncWriteIInv
  <1>4. CASE \/ \E ld \in LocalDisks : HandleLocalDisk(ld)
             \/ \E ldc \in LocalDiskClaims : HandleLocalDiskClaim(ldc)
    BY <1>4, HandleIInv
  <1>5. CASE WorkerRebuild
    BY <1>5, WorkerRebuildIInv
  <1>6. CASE WorkerSyncGet \/ WorkerStoreError
    BY <1>6, WorkerSyncGetIInv
  <1>7. CASE WorkerSyncWrite
    BY <1>7, WorkerSyncWriteIInv
  <1>8. CASE WorkerFinish
    BY <1>8, WorkerFinishIInv
  <1>9. CASE RegistryChange \/ ExternalWrite \/ Quiescent
    BY <1>9, EnvironmentIInv
  <1>10. CASE UNCHANGED vars
    BY <1>10 DEF IInv, vars, Match, Busy
  <1>11. QED
    BY <1>1, <1>2, <1>3, <1>4, <1>5, <1>6, <1>7, <1>8, <1>9, <1>10 DEF Next

-----------------------------------------------------------------------------
(* TypeOK: the pools the manager rebuilds and the statuses it publishes   *)
(* are well typed.  TypeOK is not inductive alone: an Update writes the   *)
(* object a Get fetched, so IInv's "an Update follows a successful Get"   *)
(* is needed as well.                                                     *)

\* A fresh manager holds no pools and has nothing stored or fetched.
LEMMA InitTypeOK == Init => TypeOK
  BY DEF Init, TypeOK, EmptyPools, PoolMap, Phases, StartPhases

\* Start's local steps, its failures and the restart: the rebuild of
\* rebuildLocalPools yields a PoolMap, and a restart empties it.
LEMMA StartLocalTypeOK ==
    ASSUME TypeOK,
           SetupInformersFail \/ StartRebuild \/ RegisterGet \/ StartSyncGet
           \/ StartStoreError \/ Restart
    PROVE  TypeOK'
  <1>1. CASE StartRebuild
    <2>1. pools' \in PoolMap
      BY <1>1, RebuiltTyped DEF TypeOK, StartRebuild
    <2> QED
      BY <1>1, <2>1 DEF TypeOK, StartRebuild, Phases, StartPhases
  <1>2. CASE Restart
    BY <1>2 DEF TypeOK, Restart, EmptyPools, PoolMap, Phases, StartPhases
  <1>3. CASE SetupInformersFail \/ RegisterGet \/ StartSyncGet \/ StartStoreError
    BY <1>3 DEF TypeOK, SetupInformersFail, RegisterGet, StartSyncGet, SyncGet,
                StartStoreError, Phases, StartPhases
  <1> QED
    BY <1>1, <1>2, <1>3

\* register Creates an object with the status of empty pools, or sets
\* the attach node of the object it fetched.
LEMMA RegisterWriteTypeOK ==
    ASSUME TypeOK, IInv, RegisterWrite
    PROVE  TypeOK'
  <1>1. obj' \in {NotFound} \cup ObjType
    <2>1. CASE got = NotFound /\ obj = NotFound
              /\ obj' = [attach |-> Me, status |-> StatusOf(EmptyPools), version |-> 1]
      <3>1. EmptyPools \in PoolMap
        BY DEF EmptyPools, PoolMap
      <3> QED
        BY <2>1, <3>1, StatusTyped DEF ObjType
    <2>2. CASE got # NotFound /\ obj' = [got EXCEPT !.attach = Me, !.version = @ + 1]
      <3>1. ObjShape(got) /\ got.status \in Status
        BY <2>2, TypedShape DEF TypeOK, ObjType
      <3> QED
        BY <2>2, <3>1, ShapeExcept, ShapeTyped
    <2>3. CASE UNCHANGED obj
      BY <2>3 DEF TypeOK, ObjType
    <2> QED
      BY <2>1, <2>2, <2>3, Zenon DEF RegisterWrite
  <1> QED
    BY <1>1 DEF TypeOK, RegisterWrite, ObjType, Phases, StartPhases

\* syncNodeResources' Update writes StatusOf(pools) into the fetched object.
LEMMA SyncWriteTypeOK ==
    ASSUME TypeOK, IInv, StartSyncWrite \/ WorkerSyncWrite
    PROVE  TypeOK'
  <1>1. got # NotFound
    BY DEF IInv, StartSyncWrite, WorkerSyncWrite
  <1>2. ObjShape(got) /\ got.status \in Status
    BY <1>1, TypedShape DEF TypeOK, ObjType
  <1>3. StatusOf(pools) \in Status
    BY StatusTyped DEF TypeOK
  <1>4. [got EXCEPT !.status = StatusOf(pools), !.version = @ + 1] \in ObjType
    BY <1>2, <1>3, ShapeExcept, ShapeTyped
  <1>5. obj' \in {NotFound} \cup ObjType
    BY <1>4 DEF TypeOK, ObjType, StartSyncWrite, WorkerSyncWrite, SyncWrite
  <1> QED
    BY <1>5 DEF TypeOK, ObjType, StartSyncWrite, WorkerSyncWrite, SyncWrite,
                Phases, StartPhases, WorkerPhases

\* The informer handlers and the worker's local steps move items between
\* the queues and the task, and rebuild the pools.
LEMMA WorkerLocalTypeOK ==
    ASSUME TypeOK,
           \/ \E ld \in LocalDisks : HandleLocalDisk(ld)
           \/ \E ldc \in LocalDiskClaims : HandleLocalDiskClaim(ldc)
           \/ WorkerRebuild \/ WorkerSyncGet \/ WorkerStoreError \/ WorkerFinish
    PROVE  TypeOK'
  <1>1. CASE WorkerRebuild
    <2>1. pools' \in PoolMap
      BY <1>1, RebuiltTyped DEF TypeOK, WorkerRebuild
    <2> QED
      BY <1>1, <2>1 DEF TypeOK, WorkerRebuild, Phases, WorkerPhases
  <1>2. CASE WorkerFinish
    BY <1>2 DEF TypeOK, WorkerFinish, Phases, WorkerPhases
  <1>3. CASE \/ \E ld \in LocalDisks : HandleLocalDisk(ld)
             \/ \E ldc \in LocalDiskClaims : HandleLocalDiskClaim(ldc)
             \/ WorkerSyncGet \/ WorkerStoreError
    BY <1>3 DEF TypeOK, HandleLocalDisk, HandleLocalDiskClaim, WorkerSyncGet,
                SyncGet, WorkerStoreError, Phases, WorkerPhases
  <1> QED
    BY <1>1, <1>2, <1>3

\* The registry changes within Disks and Volumes; another controller's
\* Update bumps the version of a well-typed object.
LEMMA EnvironmentTypeOK ==
    ASSUME TypeOK, RegistryChange \/ ExternalWrite \/ Quiescent
    PROVE  TypeOK'
  <1>1. CASE RegistryChange \/ Quiescent
    BY <1>1 DEF TypeOK, RegistryChange, Quiescent, vars
  <1>2. CASE ExternalWrite
    <2>1. ObjShape(obj) /\ obj.status \in Status
      BY <1>2, TypedShape DEF TypeOK, ObjType, ExternalWrite
    <2>2. obj' \in ObjType
      BY <1>2, <2>1, ShapeExcept, ShapeTyped DEF ExternalWrite
    <2> QED
      BY <1>2, <2>2 DEF TypeOK, ObjType, ExternalWrite
  <1> QED
    BY <1>1, <1>2

\* TypeOK /\ IInv is inductive when NotFound is no object.
THEOREM NextTypeOK == NoObject => (TypeOK /\ IInv /\ [Next]_vars => TypeOK')
  <1> SUFFICES ASSUME NoObject, TypeOK, IInv, [Next]_vars PROVE TypeOK'
    OBVIOUS
  <1>1. CASE SetupInformersFail \/ StartRebuild \/ RegisterGet \/ StartSyncGet
             \/ StartStoreError \/ Restart
    BY <1>1, StartLocalTypeOK
  <1>2. CASE RegisterWrite
    BY <1>2, RegisterWriteTypeOK
  <1>3. CASE StartSyncWrite \/ WorkerSyncWrite
    BY <1>3, SyncWriteTypeOK
  <1>4. CASE \/ \E ld \in LocalDisks : HandleLocalDisk(ld)
             \/ \E ldc \in LocalDiskClaims : HandleLocalDiskClaim(ldc)
             \/ WorkerRebuild \/ WorkerSyncGet \/ WorkerStoreError \/ WorkerFinish
    BY <1>4, WorkerLocalTypeOK
  <1>5. CASE RegistryChange \/ ExternalWrite \/ Quiescent
    BY <1>5, EnvironmentTypeOK
  <1>6. CASE UNCHANGED vars
    BY <1>6 DEF TypeOK, vars
  <1> QED
    BY <1>1, <1>2, <1>3, <1>4, <1>5, <1>6 DEF Next

\* Whatever the store errors, conflicts, restarts and registry changes,
\* every pool rebuildLocalPools builds and every LocalDiskNode status
\* syncNodeResources publishes has integer rollups, and every object the
\* manager writes is attached to its node (TypeOK).
THEOREM TypeCorrect == NoObject => (Spec => []TypeOK)
  <1> SUFFICES ASSUME NoObject PROVE Spec => []TypeOK
    OBVIOUS
  <1>1. Init => TypeOK /\ IInv
    BY InitTypeOK, InitIInv
  <1>2. TypeOK /\ IInv /\ [Next]_vars => (TypeOK /\ IInv)'
    BY NextTypeOK, NextIInv
  <1> QED
    BY <1>1, <1>2, PTL DEF Spec

-----------------------------------------------------------------------------
(* The invariant the publish run checks, for every instance.              *)

\* However store errors, version conflicts, other controllers' Updates and
\* restarts interleave with Start and the worker, a manager that is idle
\* with empty queues has published exactly its pools, in a LocalDiskNode
\* attached to its node (PublishedMatchesPools).
THEOREM PublishedMatchesPoolsHolds == NoObject => (Spec => []PublishedMatchesPools)
  <1> SUFFICES ASSUME NoObject PROVE Spec => []PublishedMatchesPools
    OBVIOUS
  <1>1. IInv => PublishedMatchesPools
    BY DEF IInv, PublishedMatchesPools, Match, Busy, ObjShape
  <1>2. IInv /\ [Next]_vars => IInv'
    BY NextIInv
  <1>3. QED
    BY <1>1, <1>2, InitIInv, PTL DEF Spec

=============================================================================
