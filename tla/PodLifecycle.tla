---------------------------- MODULE PodLifecycle ----------------------------
(***************************************************************************)
(* What the scheduler, together with the host pipeline and the            *)
(* provisioner, promises of each pod (spec 4.4 and 4.5), with the cycles,  *)
(* the cache and the pools abstracted away.                                *)
(*                                                                         *)
(* A pending pod is either found unschedulable or reserved on one node.    *)
(* That node holds a replica of every LocalVolume the pod already uses,    *)
(* and the pod is reserved only when each of its pending claims names a    *)
(* valid pool.  The reservation is final.  Afterwards the binding          *)
(* completes or fails, and the host may abandon a reserved or failed pod.  *)
(***************************************************************************)

CONSTANTS
    Pods,       \* pods that go through the scheduler
    Nodes,      \* cluster nodes
    Local,      \* Local[p]: nodes holding a replica of every bound volume of p
    Valid,      \* pods whose pending claims all name a valid pool
    NoNode      \* no node yet

VARIABLES
    status,     \* status[p]: where p is in its life
    placedOn    \* placedOn[p]: the node p is reserved on, or NoNode

avars == <<status, placedOn>>

Statuses == {"pending", "reserved", "bound", "bindFailed", "unreserved",
             "unschedulable"}

AInit ==
    /\ status = [p \in Pods |-> "pending"]
    /\ placedOn = [p \in Pods |-> NoNode]

\* The pod is reserved on a node that keeps its bound volumes local.
Place(p, n) ==
    /\ status[p] = "pending"
    /\ p \in Valid /\ n \in Local[p]
    /\ status' = [status EXCEPT ![p] = "reserved"]
    /\ placedOn' = [placedOn EXCEPT ![p] = n]

\* No node is found for the pod.
GiveUp(p) ==
    /\ status[p] = "pending"
    /\ status' = [status EXCEPT ![p] = "unschedulable"]
    /\ UNCHANGED placedOn

\* The binding of a reserved pod completes or fails.
Bind(p) ==
    /\ status[p] = "reserved"
    /\ status' = [status EXCEPT ![p] = "bound"]
    /\ UNCHANGED placedOn

FailBind(p) ==
    /\ status[p] = "reserved"
    /\ status' = [status EXCEPT ![p] = "bindFailed"]
    /\ UNCHANGED placedOn

\* The host abandons a reserved pod, or one whose binding failed.
Release(p) ==
    /\ status[p] \in {"reserved", "bindFailed"}
    /\ status' = [status EXCEPT ![p] = "unreserved"]
    /\ UNCHANGED placedOn

ANext ==
    \E p \in Pods :
        \/ \E n \in Nodes : Place(p, n)
        \/ GiveUp(p) \/ Bind(p) \/ FailBind(p) \/ Release(p)

ASpec == AInit /\ [][ANext]_avars

=============================================================================
