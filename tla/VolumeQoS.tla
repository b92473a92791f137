----------------------------- MODULE VolumeQoS -----------------------------
(***************************************************************************)
(* The volume QoS writer of local-storage                                  *)
(* (pkg/local-storage/member/node/qos/cgroups.go).                         *)
(*                                                                         *)
(* NewVolumeCgroupsManager picks an implementation from the host's cgroups *)
(* mode.  ConfigureQoSForDevice stats the volume's device path, derives    *)
(* major:minor from st_rdev and writes the IOPS and throughput limits into *)
(* the kernel's per-device throttle table: four files written one by one   *)
(* under cgroup v1, one io.max line under cgroup v2, nothing for noop.     *)
(* Callers configure one volume at a time.                                 *)
(*                                                                         *)
(* The kernel side is modelled by what it does: stat reports the device    *)
(* number in the Linux encoding (new_encode_dev), the throttle files parse *)
(* "major:minor value" into a 32-bit dev_t (MKDEV) and refuse an unknown   *)
(* device (ENODEV) or a value that is not an unsigned number (EINVAL), and *)
(* the shell that runs the echo may fail on its own.                       *)
(***************************************************************************)
EXTENDS Integers, Sequences

CONSTANTS
    Modes,          \* cgroups modes the host may run in
    Paths,          \* device paths of volumes
    DevOf,          \* DevOf[p]: <<major, minor>> of the device at p, or NoDevice
    Devices,        \* <<major, minor>> of every block device of the node
    Values,         \* iops and throughput values callers pass (int64)
    MaxCalls,       \* bound on ConfigureQoSForDevice calls
    MaxExecErrors,  \* bound on shell commands failing by themselves
    NoDevice, NoLimit, NoCall, NoRequest   \* sentinels

\* 2^MINORBITS: a dev_t keeps 20 bits of minor and 12 of major.
MinorSpan == 1048576

ASSUME VolumeQoSAssumption ==
    /\ Modes \subseteq {"Legacy", "Hybrid", "Unified", "Unavailable"}
    /\ Devices \subseteq Nat \X Nat
    /\ \A d \in Devices : d[1] < 4096 /\ d[2] < MinorSpan
    /\ DevOf \in [Paths -> Devices \cup {NoDevice}]
    /\ Values \subseteq Int
    /\ MaxCalls \in Nat /\ MaxExecErrors \in Nat
    /\ NoDevice \notin Nat \X Nat /\ NoLimit \notin Values
    /\ NoCall \notin [path : Paths, req : [iops : Values, tput : Values],
                      dev : (Nat \X Nat) \cup {NoDevice}, done : Nat]

VARIABLES
    mode,        \* cgroups.Mode() when the manager was built
    limit,       \* limit[k][d]: the kernel's throttle of key k for device d
    call,        \* the ConfigureQoSForDevice call in progress, or NoCall
    result,      \* result[p]: what the last call for p returned
    last,        \* last[p]: the iops and throughput of that call (history)
    calls, execErrors   \* environment counters

vars == <<mode, limit, call, result, last, calls, execErrors>>

\* The four throttle keys, in the order cgroupV1 writes their files.
V1Files == <<"read_bps", "write_bps", "read_iops", "write_iops">>
Keys == {V1Files[i] : i \in 1..4}

\* The value ConfigureQoSForDevice(devPath, iops, throughput) gives key k.
Want(k, r) == IF k \in {"read_bps", "write_bps"} THEN r.tput ELSE r.iops

Request == [iops : Values, tput : Values]

-----------------------------------------------------------------------------
(* The kernel.                                                             *)

\* st_rdev as stat reports it: new_encode_dev(MKDEV(major, minor)).
Rdev(d) == (d[2] % 256) + d[1] * 256 + (d[2] \div 256) * MinorSpan

\* The dev_t a throttle file makes of "major:minor": MKDEV into 32 bits,
\* where the major keeps 12 bits (minor is below 256 here).
KernelDev(dn) == <<dn[1] % 4096, dn[2]>>

\* A throttle write succeeds when the device exists and every value parses
\* as an unsigned number.
Accepts(dn, vals) == KernelDev(dn) \in Devices /\ \A v \in vals : v >= 0

-----------------------------------------------------------------------------
(* The code.                                                               *)

\* NewVolumeCgroupsManager: the implementation each mode gets.
Impl == CASE mode = "Legacy" -> "v1"
          [] mode \in {"Hybrid", "Unified"} -> "v2"
          [] mode = "Unavailable" -> "noop"

\* getDeviceNumber: major and minor taken from st_rdev.
GetDeviceNumber(d) == <<Rdev(d) \div 256, Rdev(d) % 256>>

\* Call c after its device number became dn and i files were written.
CallAt(c, dn, i) == [path |-> c.path, req |-> c.req, dev |-> dn, done |-> i]

\* The call returns r to its caller.
Return(r) ==
    /\ result' = [result EXCEPT ![call.path] = r]
    /\ call' = NoCall

\* writeFile: the shell's echo fails by itself (an exec error).
ExecFails ==
    /\ execErrors < MaxExecErrors
    /\ execErrors' = execErrors + 1

\* A caller calls ConfigureQoSForDevice(p, iops, throughput).
Configure(p, r) ==
    /\ call = NoCall /\ calls < MaxCalls
    /\ calls' = calls + 1
    /\ last' = [last EXCEPT ![p] = r]
    /\ IF Impl = "noop"
       THEN /\ result' = [result EXCEPT ![p] = "ok"]
            /\ UNCHANGED call
       ELSE /\ call' = [path |-> p, req |-> r, dev |-> NoDevice, done |-> 0]
            /\ result' = [result EXCEPT ![p] = "none"]
    /\ UNCHANGED <<mode, limit, execErrors>>

\* getDeviceNumber: stat the path; a failed stat returns its error.
StatDevice ==
    /\ call # NoCall /\ call.dev = NoDevice
    /\ IF DevOf[call.path] = NoDevice
       THEN Return("err")
       ELSE /\ call' = CallAt(call, GetDeviceNumber(DevOf[call.path]), 0)
            /\ UNCHANGED result
    /\ UNCHANGED <<mode, limit, last, calls, execErrors>>

\* Mutant: a refused write is not returned (`if err != nil` dropped); the
\* call goes on to the next file and ends with nil.
CgroupV1WriteIgnoreErr ==
    /\ Impl = "v1" /\ call # NoCall /\ call.dev # NoDevice
    /\ LET k == V1Files[call.done + 1]
           v == Want(k, call.req)
       IN /\ limit' = IF Accepts(call.dev, {v})
                      THEN [limit EXCEPT ![k][KernelDev(call.dev)] = v] ELSE limit
          /\ IF call.done + 1 = Len(V1Files) THEN Return("ok")
             ELSE call' = CallAt(call, call.dev, call.done + 1) /\ UNCHANGED result
    /\ UNCHANGED <<mode, last, calls, execErrors>>

\* Mutant: the call does not end after the last file (off by one).
V1AdvanceNoFinish(k, v) ==
    /\ Accepts(call.dev, {v})
    /\ limit' = [limit EXCEPT ![k][KernelDev(call.dev)] = v]
    /\ IF call.done = Len(V1Files) THEN Return("ok")
       ELSE call' = CallAt(call, call.dev, call.done + 1) /\ UNCHANGED result
    /\ UNCHANGED execErrors

\* A cgroupV1 write of value v into the file of key k succeeds; the last
\* one returns nil.
V1Advance(k, v) ==
    /\ Accepts(call.dev, {v})
    /\ limit' = [limit EXCEPT ![k][KernelDev(call.dev)] = v]
    /\ IF call.done + 1 = Len(V1Files) THEN Return("ok")
       ELSE call' = CallAt(call, call.dev, call.done + 1) /\ UNCHANGED result
    /\ UNCHANGED execErrors

\* cgroupV1: write the next throttle file; a failed write returns its error.
CgroupV1Write ==
    /\ Impl = "v1" /\ call # NoCall /\ call.dev # NoDevice
    /\ LET k == V1Files[call.done + 1]
           v == Want(k, call.req)
       IN \/ V1Advance(k, v)
          \/ /\ ~Accepts(call.dev, {v})
             /\ Return("err")
             /\ UNCHANGED <<limit, execErrors>>
          \/ /\ ExecFails
             /\ Return("err")
             /\ UNCHANGED limit
    /\ UNCHANGED <<mode, last, calls>>

\* cgroupV2: one io.max line sets all four keys of the device.
CgroupV2Write ==
    /\ Impl = "v2" /\ call # NoCall /\ call.dev # NoDevice
    /\ \/ /\ Accepts(call.dev, {call.req.iops, call.req.tput})
          /\ limit' = [k \in Keys |->
                         [limit[k] EXCEPT ![KernelDev(call.dev)] = Want(k, call.req)]]
          /\ Return("ok")
          /\ UNCHANGED execErrors
       \/ /\ ~Accepts(call.dev, {call.req.iops, call.req.tput})
          /\ Return("err")
          /\ UNCHANGED <<limit, execErrors>>
       \/ /\ ExecFails
          /\ Return("err")
          /\ UNCHANGED limit
    /\ UNCHANGED <<mode, last, calls>>

\* The callers have made all their calls.
Done ==
    /\ call = NoCall /\ calls = MaxCalls
    /\ UNCHANGED vars

Init ==
    /\ mode \in Modes
    /\ limit = [k \in Keys |-> [d \in Devices |-> NoLimit]]
    /\ call = NoCall
    /\ result = [p \in Paths |-> "none"]
    /\ last = [p \in Paths |-> NoRequest]
    /\ calls = 0 /\ execErrors = 0

Next ==
    \/ \E p \in Paths, r \in Request : Configure(p, r)
    \/ StatDevice
    \/ CgroupV1Write
    \/ CgroupV2Write
    \/ Done

\* A call in progress runs to its return.
Fairness == WF_vars(StatDevice) /\ WF_vars(CgroupV1Write) /\ WF_vars(CgroupV2Write)

Spec == Init /\ [][Next]_vars /\ Fairness

-----------------------------------------------------------------------------
(* Properties.                                                             *)

\* Every variable holds a value of its type; a cgroup-v1 call is between
\* two of its four writes.
TypeOK ==
    /\ mode \in Modes
    /\ limit \in [Keys -> [Devices -> Values \cup {NoLimit}]]
    /\ call \in {NoCall} \cup [path : Paths, req : Request,
                              dev : (Nat \X Nat) \cup {NoDevice}, done : 0..3]
    /\ result \in [Paths -> {"none", "ok", "err"}]
    /\ last \in [Paths -> Request \cup {NoRequest}]
    /\ calls \in 0..MaxCalls /\ execErrors \in 0..MaxExecErrors

\* When the manager was built without error, a ConfigureQoSForDevice that
\* returned nil left the kernel throttling the path's device with exactly
\* the limits of that call: a write that failed midway (cgroup v1) is
\* never reported as success.
AppliedOnSuccess ==
    mode # "Unavailable" =>
        \A p \in Paths : result[p] = "ok" =>
            \A k \in Keys : limit[k][DevOf[p]] = Want(k, last[p])

\* A configure step changes only the throttle of the device of the path
\* being configured (getDeviceNumber names that device).
QoSOnOwnDevice ==
    [][\A k \in Keys, d \in Devices :
          limit'[k][d] # limit[k][d] => call # NoCall /\ d = DevOf[call.path]]_vars

=============================================================================
