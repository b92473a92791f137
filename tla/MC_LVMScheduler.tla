-------------------------- MODULE MC_LVMScheduler --------------------------
(***************************************************************************)
(* Small instances of LVMScheduler for TLC.  Two nodes.  The HDD pool of   *)
(* n1 holds one 2-byte claim (3 bytes free); the HDD pool of n2 has room   *)
(* but takes no volume above 1 byte, so a 2-byte claim qualifies on n1     *)
(* only while it would score higher on n2.  An SSD pool on n2 only.        *)
(***************************************************************************)
EXTENDS LVMScheduler

CONSTANTS n1, n2, p1, p2, p3, lv1, k1, k2, k3, k4, scHDD, scSSD2

MCClasses == {"HDD", "SSD", "NVMe"}

MCPVCClass == [k \in {k1, k2, k3, k4} |-> IF k = k3 THEN scSSD2 ELSE scHDD]
MCPVCSize == [k \in {k1, k2, k3, k4} |-> IF k \in {k1, k2} THEN 2 ELSE 1]

MCSCParams ==
    [sc \in {scHDD, scSSD2} |->
        IF sc = scHDD
        THEN [poolClass |-> "HDD", poolType |-> "REGULAR", replicaNumber |-> "1"]
        ELSE [poolClass |-> "SSD", poolType |-> "REGULAR", replicaNumber |-> "2"]]

MCLVConfig == [lv \in {lv1} |-> {n1}]


MCInitPools ==
    [n \in {n1, n2} |->
        [c \in MCClasses |->
            CASE c = "HDD" -> IF n = n1 THEN [free |-> 3, limit |-> 3, count |-> 4]
                                  ELSE [free |-> 4, limit |-> 1, count |-> 4]
              [] c = "SSD" /\ n = n2 -> [free |-> 2, limit |-> 2, count |-> 4]
              [] OTHER -> NoPool]]

\* p1 and p2 compete for HDD space; p3 already uses lv1 on n1.
SafetyPodLVs == [p \in {p1, p2, p3} |-> IF p = p3 THEN {lv1} ELSE {}]
SafetyPodPVCs == [p \in {p1, p2, p3} |->
                    CASE p = p1 -> <<k1>> [] p = p2 -> <<k2>> [] p = p3 -> <<k4>>]

\* p1 needs a 1-byte HDD claim with 1 replica, then an SSD claim with 2 replicas.
TopologyPodLVs == [p \in {p1} |-> {}]
TopologyPodPVCs == [p \in {p1} |-> <<k4, k3>>]

\* p3 has only bound volumes: Score is called with no unbound claims.
EmptyPodLVs == [p \in {p3} |-> {lv1}]
EmptyPodPVCs == [p \in {p3} |-> <<>>]

=============================================================================
