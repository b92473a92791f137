-------------------------- MODULE VolumeQoS_proofs --------------------------
(***************************************************************************)
(* Proofs about the volume QoS writer (VolumeQoS).                         *)
(***************************************************************************)
EXTENDS VolumeQoS, TLAPS
\* st_rdev regrouped: the low minor byte, then the major and the high minor bits.
\* A dev_t's minor part spans 256 times the 4096 majors' stride.
LEMMA RdevSplit ==
    ASSUME NEW ma \in Int, NEW mi \in Int
    PROVE  (mi % 256) + ma * 256 + (mi \div 256) * MinorSpan
             = (mi % 256) + (ma + (mi \div 256) * 4096) * 256
  BY SMT DEF MinorSpan

\* The throttle files name device <<ma, mi>> again after getDeviceNumber.
DecodesBack(ma, mi) == KernelDev(GetDeviceNumber(<<ma, mi>>)) = <<ma, mi>>

\* getDeviceNumber, read through the kernel's MKDEV, names the device stat
\* reported exactly when its minor number is below 256.
THEOREM DecodeExact ==
    \A ma, mi \in Nat :
        ma < 4096 /\ mi < MinorSpan => (DecodesBack(ma, mi) <=> mi < 256)
<1> SUFFICES ASSUME NEW ma \in Nat, NEW mi \in Nat, ma < 4096, mi < MinorSpan
             PROVE  DecodesBack(ma, mi) <=> mi < 256
  OBVIOUS
<1> DEFINE lo == mi % 256
           hi == ma + (mi \div 256) * 4096
<1>1. lo \in 0..255 /\ hi \in Nat
  BY SMT DEF lo, hi
<1>2. Rdev(<<ma, mi>>) = lo + hi * 256
  <2>1. Rdev(<<ma, mi>>) = (mi % 256) + ma * 256 + (mi \div 256) * MinorSpan
    BY DEF Rdev
  <2>2. (mi % 256) + ma * 256 + (mi \div 256) * MinorSpan = lo + hi * 256
    BY RdevSplit DEF lo, hi
  <2> QED
    BY <2>1, <2>2
<1>3. (lo + hi * 256) \div 256 = hi /\ (lo + hi * 256) % 256 = lo
  BY <1>1, SMT
<1>4. hi % 4096 = ma
  BY SMT DEF hi
<1>5. KernelDev(GetDeviceNumber(<<ma, mi>>)) = <<ma, lo>>
  BY <1>2, <1>3, <1>4 DEF GetDeviceNumber, KernelDev
<1>6. lo = mi <=> mi < 256
  BY SMT DEF lo
<1> QED
  BY <1>5, <1>6 DEF DecodesBack

\* The device numbers getDeviceNumber returns are pairs of naturals.
LEMMA DecodeTyped ==
    ASSUME NEW d \in Devices
    PROVE  GetDeviceNumber(d) \in Nat \X Nat
<1>1. d[1] \in Nat /\ d[2] \in Nat
  <2>1. d \in Nat \X Nat
    BY VolumeQoSAssumption
  <2> QED
    BY <2>1
<1>2. Rdev(d) \in Nat
  BY <1>1, SMT DEF Rdev, MinorSpan
<1>3. Rdev(d) \div 256 \in Nat /\ Rdev(d) % 256 \in Nat
  BY <1>2, SMT
<1> QED
  BY <1>3 DEF GetDeviceNumber

-----------------------------------------------------------------------------
(* The hypotheses about the node, and the inductive invariant.            *)

\* Two paths never lead to the same device.
DistinctDevices ==
    \A p, q \in Paths : p # q /\ DevOf[p] # NoDevice => DevOf[p] # DevOf[q]

\* The major:minor getDeviceNumber makes of a path's device names that
\* device or no device of the node (by DecodeExact, true of every device
\* whose minor is below 256).
NoAlias ==
    \A p \in Paths : DevOf[p] # NoDevice =>
        LET kd == KernelDev(GetDeviceNumber(DevOf[p]))
        IN  kd \in Devices => kd = DevOf[p]

CallRec == [path : Paths, req : Request, dev : (Nat \X Nat) \cup {NoDevice},
            done : 0..3]

\* A call in progress: its path shows no result yet, its request is the
\* path's last, its device number is the decoded one, and the cgroup-v1
\* files written so far hold their values.
CallInv ==
    call # NoCall =>
        /\ result[call.path] = "none"
        /\ last[call.path] = call.req
        /\ mode # "Unavailable"
        /\ call.dev # NoDevice =>
              /\ DevOf[call.path] # NoDevice
              /\ call.dev = GetDeviceNumber(DevOf[call.path])
        /\ \A i \in 1..call.done :
              /\ call.dev # NoDevice
              /\ limit[V1Files[i]][DevOf[call.path]] = Want(V1Files[i], call.req)

\* AppliedOnSuccess, with the device of a successful path known to exist.
DoneInv ==
    mode # "Unavailable" =>
        \A p \in Paths : result[p] = "ok" =>
            /\ DevOf[p] # NoDevice
            /\ \A k \in Keys : limit[k][DevOf[p]] = Want(k, last[p])

IInv == TypeOK /\ CallInv /\ DoneInv

LEMMA InitIInv == Init => IInv
<1> SUFFICES ASSUME Init PROVE IInv
  OBVIOUS
<1>1. TypeOK
  BY VolumeQoSAssumption DEF Init, TypeOK, Keys, V1Files
<1>2. CallInv /\ DoneInv
  BY DEF Init, CallInv, DoneInv
<1> QED
  BY <1>1, <1>2 DEF IInv

\* Only the noop implementation, built when cgroups are unavailable,
\* returns without a call in progress.
LEMMA ImplNoop == TypeOK => (Impl = "noop" <=> mode = "Unavailable")
  BY VolumeQoSAssumption DEF TypeOK, Impl

\* The four cgroup-v1 files are distinct and are the keys.
LEMMA FilesDistinct ==
    /\ \A i, j \in 1..4 : i # j => V1Files[i] # V1Files[j]
    /\ \A i \in 1..4 : V1Files[i] \in Keys
    /\ Len(V1Files) = 4
  BY DEF V1Files, Keys

\* A call that returns an error changes neither the kernel's throttles nor
\* any other path's result.
LEMMA ReturnErrIInv ==
    ASSUME IInv, call # NoCall, Return("err"),
           UNCHANGED <<mode, limit, last, calls>>,
           execErrors' \in 0..MaxExecErrors
    PROVE  IInv'
<1>1. call \in CallRec /\ result[call.path] = "none"
  BY DEF IInv, TypeOK, CallRec, CallInv
<1>2. TypeOK'
  BY <1>1 DEF IInv, TypeOK, Return, CallRec
<1>3. CallInv'
  BY DEF Return, CallInv
<1>4. DoneInv'
  BY <1>1 DEF IInv, DoneInv, Return
<1> QED
  BY <1>2, <1>3, <1>4 DEF IInv

\* A new call, or the noop's immediate return, keeps every variable typed.
LEMMA ConfigureTyped ==
    ASSUME TypeOK, NEW p \in Paths, NEW r \in Request, Configure(p, r)
    PROVE  TypeOK'
<1>1. calls' \in 0..MaxCalls
  BY VolumeQoSAssumption DEF TypeOK, Configure
<1>2. last' \in [Paths -> Request \cup {NoRequest}]
  BY DEF TypeOK, Configure
<1>3. call' \in {NoCall} \cup CallRec /\ result' \in [Paths -> {"none", "ok", "err"}]
  BY DEF TypeOK, Configure, CallRec
<1>4. UNCHANGED <<mode, limit, execErrors>>
  BY DEF Configure
<1> QED
  BY <1>1, <1>2, <1>3, <1>4 DEF TypeOK, CallRec

LEMMA ConfigureIInv ==
    ASSUME IInv, NEW p \in Paths, NEW r \in Request, Configure(p, r)
    PROVE  IInv'
<1>1. CASE Impl = "noop"
  <2>1. mode = "Unavailable" /\ mode' = mode
    BY <1>1, ImplNoop DEF IInv, Configure
  <2>2. TypeOK'
    BY ConfigureTyped DEF IInv
  <2>3. CallInv'
    BY <1>1 DEF IInv, TypeOK, Configure, CallInv
  <2> QED
    BY <2>1, <2>2, <2>3 DEF IInv, DoneInv
<1>2. CASE Impl # "noop"
  <2>1. mode # "Unavailable" /\ mode' = mode
    BY <1>2, ImplNoop DEF IInv, Configure
  <2>2. call' = [path |-> p, req |-> r, dev |-> NoDevice, done |-> 0]
        /\ result' = [result EXCEPT ![p] = "none"]
        /\ last' = [last EXCEPT ![p] = r]
        /\ UNCHANGED limit
    BY <1>2 DEF Configure
  <2>3. TypeOK'
    BY ConfigureTyped DEF IInv
  <2>4. CallInv'
    BY <2>1, <2>2 DEF IInv, TypeOK, CallInv
  <2>5. DoneInv'
    BY <2>1, <2>2 DEF IInv, TypeOK, DoneInv
  <2> QED
    BY <2>3, <2>4, <2>5 DEF IInv
<1> QED
  BY <1>1, <1>2

LEMMA StatIInv ==
    ASSUME IInv, StatDevice
    PROVE  IInv'
<1>1. call \in CallRec
  BY DEF IInv, TypeOK, CallRec, StatDevice
<1>2. CASE DevOf[call.path] = NoDevice
  BY <1>2, ReturnErrIInv DEF StatDevice, IInv, TypeOK
<1>3. CASE DevOf[call.path] # NoDevice
  <2> DEFINE dn == GetDeviceNumber(DevOf[call.path])
  <2>1. DevOf[call.path] \in Devices
    BY <1>1, <1>3, VolumeQoSAssumption DEF CallRec
  <2>2. dn \in Nat \X Nat /\ dn # NoDevice
    BY <2>1, DecodeTyped, VolumeQoSAssumption
  <2>3. call' = CallAt(call, dn, 0) /\ UNCHANGED <<mode, limit, result, last>>
    BY <1>3 DEF StatDevice
  <2>4. TypeOK'
    BY <1>1, <2>2, <2>3 DEF IInv, TypeOK, StatDevice, CallAt, CallRec
  <2>5. CallAt(call, dn, 0) # NoCall
    BY <1>1, <2>2, VolumeQoSAssumption DEF CallAt, CallRec, Request
  <2>6. CallInv'
    <3>1. call'.path = call.path /\ call'.req = call.req /\ call'.dev = dn
          /\ call'.done = 0
      BY <2>3 DEF CallAt
    <3>2. result[call.path] = "none" /\ last[call.path] = call.req
          /\ mode # "Unavailable"
      BY DEF IInv, CallInv, StatDevice
    <3> QED
      BY <1>3, <2>2, <2>3, <2>5, <3>1, <3>2 DEF CallInv, dn
  <2>7. DoneInv'
    BY <2>3 DEF IInv, DoneInv
  <2> QED
    BY <2>4, <2>6, <2>7 DEF IInv
<1> QED
  BY <1>2, <1>3

\* A cgroup-v1 write that the kernel accepts lands on the path's own
\* device (NoAlias); the last one completes the four limits, and no other
\* path's device is touched (DistinctDevices).
LEMMA V1AdvanceIInv ==
    ASSUME DistinctDevices, NoAlias, IInv, call # NoCall, call.dev # NoDevice,
           NEW k, k = V1Files[call.done + 1],
           V1Advance(k, Want(k, call.req)), UNCHANGED <<mode, last, calls>>
    PROVE  IInv'
<1> DEFINE dv == DevOf[call.path]
           v == Want(k, call.req)
           j == call.done + 1
<1>1. /\ call \in CallRec
      /\ result[call.path] = "none" /\ last[call.path] = call.req
      /\ mode # "Unavailable"
      /\ dv # NoDevice /\ call.dev = GetDeviceNumber(dv)
      /\ \A i \in 1..call.done : limit[V1Files[i]][dv] = Want(V1Files[i], call.req)
  BY DEF IInv, TypeOK, CallRec, CallInv
<1>2. j \in 1..4 /\ k \in Keys
  BY <1>1, FilesDistinct DEF CallRec
<1>3. dv \in Devices /\ v \in Values
  BY <1>1, VolumeQoSAssumption DEF CallRec, Want, Request
<1>4. KernelDev(call.dev) = dv
  <2>1. KernelDev(call.dev) \in Devices
    BY DEF V1Advance, Accepts
  <2> QED
    BY <1>1, <2>1 DEF NoAlias, CallRec
<1>5. limit' = [limit EXCEPT ![k][dv] = v]
  BY <1>4 DEF V1Advance
<1>6. \A kk \in Keys, d \in Devices :
        limit'[kk][d] = IF kk = k /\ d = dv THEN v ELSE limit[kk][d]
  BY <1>2, <1>3, <1>5 DEF IInv, TypeOK
<1>7. limit' \in [Keys -> [Devices -> Values \cup {NoLimit}]]
  BY <1>2, <1>3, <1>5 DEF IInv, TypeOK
<1>8. \A q \in Paths : result[q] = "ok" => DevOf[q] # NoDevice /\ DevOf[q] # dv
  BY <1>1 DEF IInv, DoneInv, DistinctDevices, CallRec
<1>9. \A i \in 1..4 : i < j => limit'[V1Files[i]][dv] = Want(V1Files[i], call.req)
  BY <1>1, <1>2, <1>3, <1>6, FilesDistinct DEF CallRec
<1>10. limit'[V1Files[j]][dv] = Want(V1Files[j], call.req)
  BY <1>2, <1>3, <1>6
<1>11. \A q \in Paths : result[q] = "ok" =>
          \A kk \in Keys : limit'[kk][DevOf[q]] = limit[kk][DevOf[q]]
  BY <1>6, <1>8, VolumeQoSAssumption
<1>12. CASE j = 4
  <2>1. result' = [result EXCEPT ![call.path] = "ok"] /\ call' = NoCall
        /\ UNCHANGED execErrors
    BY <1>12, FilesDistinct DEF V1Advance, Return
  <2>2. TypeOK'
    BY <1>1, <1>7, <2>1 DEF IInv, TypeOK, CallRec
  <2>3. CallInv'
    BY <2>1 DEF CallInv
  <2>4. \A kk \in Keys : limit'[kk][dv] = Want(kk, call.req)
    BY <1>9, <1>10, <1>12 DEF Keys
  <2>5. DoneInv'
    BY <1>1, <1>11, <2>1, <2>4 DEF IInv, DoneInv, CallRec
  <2> QED
    BY <2>2, <2>3, <2>5 DEF IInv
<1>13. CASE j # 4
  <2>1. call' = CallAt(call, call.dev, j) /\ UNCHANGED <<result, execErrors>>
    BY <1>13, FilesDistinct DEF V1Advance
  <2>2. j \in 0..3
    BY <1>2, <1>13
  <2>3. call' \in CallRec /\ call' # NoCall
    BY <1>1, <2>1, <2>2, VolumeQoSAssumption DEF CallAt, CallRec, Request
  <2>4. TypeOK'
    <3>1. call' \in {NoCall} \cup [path : Paths, req : Request,
                          dev : (Nat \X Nat) \cup {NoDevice}, done : 0..3]
      BY <2>3 DEF CallRec
    <3>2. UNCHANGED <<mode, result, last, calls, execErrors>>
      BY <2>1
    <3> QED
      BY <1>7, <3>1, <3>2 DEF IInv, TypeOK
  <2>5. CallInv'
    <3>1. \A i \in 1..j : limit'[V1Files[i]][dv] = Want(V1Files[i], call.req)
      BY <1>2, <1>9, <1>10
    <3> QED
      BY <1>1, <2>1, <2>3, <3>1 DEF CallInv, CallAt
  <2>6. DoneInv'
    BY <1>11, <2>1 DEF IInv, DoneInv
  <2> QED
    BY <2>4, <2>5, <2>6 DEF IInv
<1> QED
  BY <1>12, <1>13

\* A cgroup-v1 step: a write that lands, or an error returned with the
\* throttles as they are.
LEMMA V1WriteIInv ==
    ASSUME DistinctDevices, NoAlias, IInv, CgroupV1Write
    PROVE  IInv'
<1>1. Impl = "v1" /\ call # NoCall /\ call.dev # NoDevice
      /\ UNCHANGED <<mode, last, calls>>
  BY DEF CgroupV1Write
<1> DEFINE k == V1Files[call.done + 1]
           v == Want(k, call.req)
<1>2. CASE V1Advance(k, v)
  BY <1>1, <1>2, V1AdvanceIInv
<1>3. CASE ~Accepts(call.dev, {v}) /\ Return("err") /\ UNCHANGED <<limit, execErrors>>
  BY <1>1, <1>3, ReturnErrIInv DEF IInv, TypeOK
<1>4. CASE ExecFails /\ Return("err") /\ UNCHANGED limit
  <2>1. execErrors' \in 0..MaxExecErrors
    BY <1>4, VolumeQoSAssumption DEF ExecFails, IInv, TypeOK
  <2> QED
    BY <1>1, <1>4, <2>1, ReturnErrIInv
<1> QED
  BY <1>2, <1>3, <1>4 DEF CgroupV1Write

\* A cgroup-v2 io.max line the kernel accepts sets the four limits of the
\* path's own device and of no other.
LEMMA V2OkIInv ==
    ASSUME DistinctDevices, NoAlias, IInv, call # NoCall, call.dev # NoDevice,
           Accepts(call.dev, {call.req.iops, call.req.tput}),
           limit' = [kk \in Keys |->
                       [limit[kk] EXCEPT ![KernelDev(call.dev)] = Want(kk, call.req)]],
           Return("ok"), UNCHANGED <<mode, last, calls, execErrors>>
    PROVE  IInv'
<1> DEFINE dv == DevOf[call.path]
<1>1. /\ call \in CallRec
      /\ result[call.path] = "none" /\ last[call.path] = call.req
      /\ mode # "Unavailable"
      /\ dv # NoDevice /\ call.dev = GetDeviceNumber(dv)
  BY DEF IInv, TypeOK, CallRec, CallInv
<1>2. dv \in Devices /\ \A kk \in Keys : Want(kk, call.req) \in Values
  BY <1>1, VolumeQoSAssumption DEF CallRec, Want, Request
<1>3. KernelDev(call.dev) = dv
  <2>1. KernelDev(call.dev) \in Devices
    BY DEF Accepts
  <2> QED
    BY <1>1, <2>1 DEF NoAlias, CallRec
<1>4. \A kk \in Keys, d \in Devices :
        limit'[kk][d] = IF d = dv THEN Want(kk, call.req) ELSE limit[kk][d]
  BY <1>2, <1>3 DEF IInv, TypeOK
<1>5. limit' \in [Keys -> [Devices -> Values \cup {NoLimit}]]
  BY <1>2, <1>3 DEF IInv, TypeOK
<1>6. result' = [result EXCEPT ![call.path] = "ok"] /\ call' = NoCall
  BY DEF Return
<1>7. TypeOK'
  BY <1>1, <1>5, <1>6 DEF IInv, TypeOK, CallRec
<1>8. CallInv'
  BY <1>6 DEF CallInv
<1>9. \A q \in Paths : result[q] = "ok" => DevOf[q] # NoDevice /\ DevOf[q] # dv
  BY <1>1 DEF IInv, DoneInv, DistinctDevices, CallRec
<1>10. DoneInv'
  <2> SUFFICES ASSUME NEW q \in Paths, result'[q] = "ok"
               PROVE  DevOf[q] # NoDevice
                      /\ \A kk \in Keys : limit'[kk][DevOf[q]] = Want(kk, last'[q])
    BY <1>1 DEF DoneInv
  <2>1. CASE q = call.path
    BY <1>1, <1>2, <1>4, <2>1
  <2>2. CASE q # call.path
    <3>1. result[q] = "ok"
      BY <1>1, <1>6, <2>2 DEF CallRec
    <3>2. DevOf[q] \in Devices
      BY <3>1, <1>9, VolumeQoSAssumption
    <3>3. DevOf[q] # NoDevice
          /\ \A kk \in Keys : limit[kk][DevOf[q]] = Want(kk, last[q])
      BY <1>1, <3>1 DEF IInv, DoneInv
    <3>4. \A kk \in Keys : limit'[kk][DevOf[q]] = limit[kk][DevOf[q]]
      BY <1>4, <1>9, <3>1, <3>2
    <3>5. last' = last
      OBVIOUS
    <3> QED
      BY <3>3, <3>4, <3>5
  <2> QED
    BY <2>1, <2>2
<1> QED
  BY <1>7, <1>8, <1>10 DEF IInv

\* A cgroup-v2 step.
LEMMA V2WriteIInv ==
    ASSUME DistinctDevices, NoAlias, IInv, CgroupV2Write
    PROVE  IInv'
<1>1. call # NoCall /\ call.dev # NoDevice /\ UNCHANGED <<mode, last, calls>>
  BY DEF CgroupV2Write
<1>2. CASE /\ Accepts(call.dev, {call.req.iops, call.req.tput})
           /\ limit' = [kk \in Keys |->
                          [limit[kk] EXCEPT ![KernelDev(call.dev)] = Want(kk, call.req)]]
           /\ Return("ok") /\ UNCHANGED execErrors
  BY <1>1, <1>2, V2OkIInv
<1>3. CASE ~Accepts(call.dev, {call.req.iops, call.req.tput}) /\ Return("err")
           /\ UNCHANGED <<limit, execErrors>>
  BY <1>1, <1>3, ReturnErrIInv DEF IInv, TypeOK
<1>4. CASE ExecFails /\ Return("err") /\ UNCHANGED limit
  <2>1. execErrors' \in 0..MaxExecErrors
    BY <1>4, VolumeQoSAssumption DEF ExecFails, IInv, TypeOK
  <2> QED
    BY <1>1, <1>4, <2>1, ReturnErrIInv
<1> QED
  BY <1>2, <1>3, <1>4 DEF CgroupV2Write

\* Every step of the writer keeps IInv.
LEMMA NextIInv ==
    ASSUME DistinctDevices, NoAlias, IInv, [Next]_vars
    PROVE  IInv'
<1>1. CASE \E p \in Paths, r \in Request : Configure(p, r)
  BY <1>1, ConfigureIInv
<1>2. CASE StatDevice
  BY <1>2, StatIInv
<1>3. CASE CgroupV1Write
  BY <1>3, V1WriteIInv
<1>4. CASE CgroupV2Write
  BY <1>4, V2WriteIInv
<1>5. CASE Done \/ UNCHANGED vars
  BY <1>5 DEF Done, vars, IInv, TypeOK, CallInv, DoneInv, CallRec
<1> QED
  BY <1>1, <1>2, <1>3, <1>4, <1>5 DEF Next

\* For devices the kernel names by the number getDeviceNumber derives
\* (NoAlias) and volumes on distinct devices, a ConfigureQoSForDevice that
\* returned nil left exactly its limits on the path's device, whatever a
\* failed cgroup-v1 write midway left behind for other calls.
THEOREM AppliedOnSuccessHolds ==
    DistinctDevices /\ NoAlias => (Spec => []AppliedOnSuccess)
<1> SUFFICES ASSUME DistinctDevices, NoAlias PROVE Spec => []AppliedOnSuccess
  OBVIOUS
<1>1. Init => IInv
  BY InitIInv
<1>2. IInv /\ [Next]_vars => IInv'
  BY NextIInv
<1>3. IInv => AppliedOnSuccess
  BY DEF IInv, DoneInv, AppliedOnSuccess
<1> QED
  BY <1>1, <1>2, <1>3, PTL DEF Spec

\* Volumes whose devices have minors below 256 (sdX partitions, the first
\* 256 device-mapper volumes) get their own device back from the decoding.
LEMMA SmallMinorsNoAlias ==
    (\A p \in Paths : DevOf[p] # NoDevice => DevOf[p][2] < 256) => NoAlias
<1> SUFFICES ASSUME \A p \in Paths : DevOf[p] # NoDevice => DevOf[p][2] < 256,
                    NEW p \in Paths, DevOf[p] # NoDevice
             PROVE  KernelDev(GetDeviceNumber(DevOf[p])) = DevOf[p]
  BY DEF NoAlias
<1> DEFINE d == DevOf[p]
<1>1. d \in Nat \X Nat /\ d[1] < 4096 /\ d[2] < MinorSpan
  BY VolumeQoSAssumption DEF d
<1>3. PICK ma \in Nat, mi \in Nat : d = <<ma, mi>>
  BY <1>1
<1>4. d[1] = ma /\ d[2] = mi /\ d[2] < 256
  BY <1>3 DEF d
<1>5. ma < 4096 /\ mi < MinorSpan /\ mi < 256
  BY <1>1, <1>4
<1>6. DecodesBack(ma, mi)
  BY <1>5, DecodeExact
<1>7. KernelDev(GetDeviceNumber(<<ma, mi>>)) = <<ma, mi>>
  BY <1>6 DEF DecodesBack
<1> QED
  BY <1>3, <1>7

\* Whenever every volume sits on its own device with a minor below 256,
\* a ConfigureQoSForDevice that returned nil left exactly its limits on
\* the path's device.
THEOREM AppliedOnSuccessSmallMinors ==
    /\ DistinctDevices
    /\ \A p \in Paths : DevOf[p] # NoDevice => DevOf[p][2] < 256
    => (Spec => []AppliedOnSuccess)
  BY SmallMinorsNoAlias, AppliedOnSuccessHolds

-----------------------------------------------------------------------------
(* Type correctness, and the throttle each step touches.  Neither needs   *)
(* DistinctDevices: TypeOK is inductive together with DevInv, which says  *)
(* that a call's device number is the one getDeviceNumber made of its     *)
(* path's device.                                                          *)

\* A stat'ed call carries getDeviceNumber of its path's device.
DevInv ==
    call # NoCall /\ call.dev # NoDevice =>
        /\ DevOf[call.path] # NoDevice
        /\ call.dev = GetDeviceNumber(DevOf[call.path])

TInv == TypeOK /\ DevInv

LEMMA InitTInv == Init => TInv
  BY InitIInv DEF IInv, TInv, DevInv, Init

\* Returning from a call leaves everything typed.
LEMMA ReturnTyped ==
    ASSUME TypeOK, call # NoCall, NEW r \in {"ok", "err"}, Return(r),
           UNCHANGED <<mode, last, calls>>,
           limit' \in [Keys -> [Devices -> Values \cup {NoLimit}]],
           execErrors' \in 0..MaxExecErrors
    PROVE  TInv'
  <1>1. call \in CallRec
    BY DEF TypeOK, CallRec
  <1> QED
    BY <1>1 DEF TInv, TypeOK, DevInv, Return, CallRec

LEMMA ConfigureTInv ==
    ASSUME TInv, NEW p \in Paths, NEW r \in Request, Configure(p, r)
    PROVE  TInv'
  <1>1. TypeOK'
    BY ConfigureTyped DEF TInv
  <1>2. DevInv'
    BY DEF TInv, DevInv, Configure
  <1> QED
    BY <1>1, <1>2 DEF TInv

LEMMA StatTInv ==
    ASSUME TInv, StatDevice
    PROVE  TInv'
  <1>1. call \in CallRec
    BY DEF TInv, TypeOK, CallRec, StatDevice
  <1>2. CASE DevOf[call.path] = NoDevice
    <2>1. execErrors' \in 0..MaxExecErrors
      BY <1>2 DEF TInv, TypeOK, StatDevice
    <2> QED
      BY <1>2, <2>1, ReturnTyped DEF StatDevice, TInv, TypeOK
  <1>3. CASE DevOf[call.path] # NoDevice
    <2> DEFINE dn == GetDeviceNumber(DevOf[call.path])
    <2>1. DevOf[call.path] \in Devices
      BY <1>1, <1>3, VolumeQoSAssumption DEF CallRec
    <2>2. dn \in Nat \X Nat /\ dn # NoDevice
      BY <2>1, DecodeTyped, VolumeQoSAssumption
    <2>3. call' = CallAt(call, dn, 0) /\ UNCHANGED <<mode, limit, result, last>>
      BY <1>3 DEF StatDevice
    <2>4. TypeOK'
      BY <1>1, <2>2, <2>3 DEF TInv, TypeOK, StatDevice, CallAt, CallRec
    <2>5. DevInv'
      BY <1>3, <2>2, <2>3 DEF DevInv, CallAt
    <2> QED
      BY <2>4, <2>5 DEF TInv
  <1> QED
    BY <1>2, <1>3

\* A throttle the kernel accepts for a stat'ed call keeps limit typed.
LEMMA WriteTyped ==
    ASSUME TypeOK, NEW k \in Keys, NEW dn, KernelDev(dn) \in Devices,
           NEW v \in Values
    PROVE  [limit EXCEPT ![k][KernelDev(dn)] = v]
              \in [Keys -> [Devices -> Values \cup {NoLimit}]]
  BY DEF TypeOK

LEMMA V1WriteTInv ==
    ASSUME TInv, CgroupV1Write
    PROVE  TInv'
  <1>1. call \in CallRec /\ call # NoCall /\ call.dev # NoDevice
        /\ UNCHANGED <<mode, last, calls>>
    BY DEF TInv, TypeOK, CallRec, CgroupV1Write
  <1> DEFINE k == V1Files[call.done + 1]
             v == Want(k, call.req)
             j == call.done + 1
  <1>2. j \in 1..4 /\ k \in Keys /\ v \in Values
    BY <1>1, FilesDistinct DEF CallRec, Want, Request
  <1>3. CASE V1Advance(k, v)
    <2>1. limit' \in [Keys -> [Devices -> Values \cup {NoLimit}]]
      BY <1>2, <1>3, WriteTyped DEF TInv, V1Advance, Accepts
    <2>2. CASE j = 4
      <3>1. Return("ok") /\ UNCHANGED execErrors
        BY <1>3, <2>2, FilesDistinct DEF V1Advance
      <3> QED
        BY <1>1, <2>1, <3>1, ReturnTyped DEF TInv, TypeOK
    <2>4. CASE j # 4
      <3>1. call' = CallAt(call, call.dev, j) /\ UNCHANGED <<result, execErrors>>
        BY <2>4, <1>3, FilesDistinct DEF V1Advance
      <3>2. call' \in CallRec /\ call' # NoCall
        BY <1>1, <1>2, <2>4, <3>1, VolumeQoSAssumption DEF CallAt, CallRec, Request
      <3>3. TypeOK'
        BY <1>1, <2>1, <3>1, <3>2 DEF TInv, TypeOK, CallRec
      <3>4. DevInv'
        BY <1>1, <3>1 DEF TInv, DevInv, CallAt
      <3> QED
        BY <3>3, <3>4 DEF TInv
    <2> QED
      BY <2>2, <2>4
  <1>4. CASE ~Accepts(call.dev, {v}) /\ Return("err") /\ UNCHANGED <<limit, execErrors>>
    BY <1>1, <1>4, ReturnTyped DEF TInv, TypeOK
  <1>5. CASE ExecFails /\ Return("err") /\ UNCHANGED limit
    <2>1. execErrors' \in 0..MaxExecErrors
      BY <1>5, VolumeQoSAssumption DEF ExecFails, TInv, TypeOK
    <2> QED
      BY <1>1, <1>5, <2>1, ReturnTyped DEF TInv, TypeOK
  <1> QED
    BY <1>3, <1>4, <1>5 DEF CgroupV1Write

LEMMA V2WriteTInv ==
    ASSUME TInv, CgroupV2Write
    PROVE  TInv'
  <1>1. call \in CallRec /\ call # NoCall /\ call.dev # NoDevice
        /\ UNCHANGED <<mode, last, calls>>
    BY DEF TInv, TypeOK, CallRec, CgroupV2Write
  <1>2. CASE /\ Accepts(call.dev, {call.req.iops, call.req.tput})
             /\ limit' = [kk \in Keys |->
                            [limit[kk] EXCEPT ![KernelDev(call.dev)] = Want(kk, call.req)]]
             /\ Return("ok") /\ UNCHANGED execErrors
    <2>1. KernelDev(call.dev) \in Devices /\ \A kk \in Keys : Want(kk, call.req) \in Values
      BY <1>1, <1>2 DEF Accepts, CallRec, Request, Want
    <2>2. limit' \in [Keys -> [Devices -> Values \cup {NoLimit}]]
      BY <1>2, <2>1 DEF TInv, TypeOK
    <2> QED
      BY <1>1, <1>2, <2>2, ReturnTyped DEF TInv, TypeOK
  <1>3. CASE ~Accepts(call.dev, {call.req.iops, call.req.tput}) /\ Return("err")
             /\ UNCHANGED <<limit, execErrors>>
    BY <1>1, <1>3, ReturnTyped DEF TInv, TypeOK
  <1>4. CASE ExecFails /\ Return("err") /\ UNCHANGED limit
    <2>1. execErrors' \in 0..MaxExecErrors
      BY <1>4, VolumeQoSAssumption DEF ExecFails, TInv, TypeOK
    <2> QED
      BY <1>1, <1>4, <2>1, ReturnTyped DEF TInv, TypeOK
  <1> QED
    BY <1>2, <1>3, <1>4 DEF CgroupV2Write

\* Every step of the writer keeps TInv, for every node.
LEMMA NextTInv == TInv /\ [Next]_vars => TInv'
  <1> SUFFICES ASSUME TInv, [Next]_vars PROVE TInv'
    OBVIOUS
  <1>1. CASE \E p \in Paths, r \in Request : Configure(p, r)
    BY <1>1, ConfigureTInv
  <1>2. CASE StatDevice
    BY <1>2, StatTInv
  <1>3. CASE CgroupV1Write
    BY <1>3, V1WriteTInv
  <1>4. CASE CgroupV2Write
    BY <1>4, V2WriteTInv
  <1>5. CASE Done \/ UNCHANGED vars
    BY <1>5 DEF Done, vars, TInv, TypeOK, DevInv
  <1> QED
    BY <1>1, <1>2, <1>3, <1>4, <1>5 DEF Next

\* Whatever the cgroups mode, the devices and the calls, the writer's
\* state is well typed: a cgroup-v1 call is always between two of its four
\* writes and every throttle holds a value a caller passed (TypeOK).
THEOREM TypeCorrect == Spec => []TypeOK
  <1>1. TInv => TypeOK
    BY DEF TInv
  <1> QED
    BY <1>1, InitTInv, NextTInv, PTL DEF Spec

\* The body of QoSOnOwnDevice: a step changes no throttle but the ones of
\* the device of the path being configured.
OwnDevice ==
    \A k \in Keys, d \in Devices :
        limit'[k][d] # limit[k][d] => call # NoCall /\ d = DevOf[call.path]

\* A device number the kernel accepts for a stat'ed call names the call's
\* own device when no decoded number aliases another device.
LEMMA AcceptedOwnDevice ==
    ASSUME NoAlias, TInv, call # NoCall, call.dev # NoDevice,
           KernelDev(call.dev) \in Devices
    PROVE  KernelDev(call.dev) = DevOf[call.path]
  <1>1. call.path \in Paths
    BY DEF TInv, TypeOK
  <1> QED
    BY <1>1 DEF TInv, DevInv, NoAlias

\* Every step writes only the throttles of its own call's device.
LEMMA NextOwnDevice == NoAlias /\ TInv /\ [Next]_vars => [OwnDevice]_vars
  <1> SUFFICES ASSUME NoAlias, TInv, [Next]_vars PROVE [OwnDevice]_vars
    OBVIOUS
  <1>1. CASE UNCHANGED limit
    BY <1>1 DEF OwnDevice
  <1>2. CASE CgroupV1Write /\ ~UNCHANGED limit
    <2>1. call # NoCall /\ call.dev # NoDevice /\ call \in CallRec
      BY <1>2 DEF CgroupV1Write, TInv, TypeOK, CallRec
    <2> DEFINE k == V1Files[call.done + 1]
    <2>2. V1Advance(k, Want(k, call.req))
      BY <1>2 DEF CgroupV1Write, ExecFails
    <2>3. KernelDev(call.dev) = DevOf[call.path]
      BY <2>1, <2>2, AcceptedOwnDevice DEF V1Advance, Accepts
    <2>4. k \in Keys
      BY <2>1, FilesDistinct DEF CallRec
    <2> QED
      BY <2>1, <2>2, <2>3, <2>4 DEF V1Advance, OwnDevice, TInv, TypeOK
  <1>3. CASE CgroupV2Write /\ ~UNCHANGED limit
    <2>1. call # NoCall /\ call.dev # NoDevice
          /\ Accepts(call.dev, {call.req.iops, call.req.tput})
          /\ limit' = [kk \in Keys |->
                         [limit[kk] EXCEPT ![KernelDev(call.dev)] = Want(kk, call.req)]]
      BY <1>3 DEF CgroupV2Write
    <2>2. KernelDev(call.dev) = DevOf[call.path]
      BY <2>1, AcceptedOwnDevice DEF Accepts
    <2> QED
      BY <2>1, <2>2 DEF OwnDevice, TInv, TypeOK
  <1>4. CASE ~UNCHANGED limit /\ ~CgroupV1Write /\ ~CgroupV2Write
    BY <1>4 DEF Next, Configure, StatDevice, Done, vars
  <1> QED
    BY <1>1, <1>2, <1>3, <1>4

\* When the major:minor getDeviceNumber derives never names another device
\* of the node, no ConfigureQoSForDevice call ever changes the throttle of
\* a device other than its own path's (QoSOnOwnDevice); qos_devnum shows
\* the hypothesis is needed, with dm-256 written as dm-0.
THEOREM QoSOnOwnDeviceHolds == NoAlias => (Spec => QoSOnOwnDevice)
  <1> SUFFICES ASSUME NoAlias PROVE Spec => [][OwnDevice]_vars
    BY DEF QoSOnOwnDevice, OwnDevice
  <1>1. TInv /\ [Next]_vars => [OwnDevice]_vars
    BY NextOwnDevice
  <1> QED
    BY <1>1, InitTInv, NextTInv, PTL DEF Spec

\* In particular on every node whose volumes' devices have minors below 256.
THEOREM QoSOnOwnDeviceSmallMinors ==
    (\A p \in Paths : DevOf[p] # NoDevice => DevOf[p][2] < 256)
    => (Spec => QoSOnOwnDevice)
  BY SmallMinorsNoAlias, QoSOnOwnDeviceHolds

=============================================================================
