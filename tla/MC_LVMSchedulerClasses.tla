----------------------- MODULE MC_LVMSchedulerClasses -----------------------
(***************************************************************************)
(* An instance of LVMScheduler whose storage classes are not all well     *)
(* formed.  scThin names pool type THIN, which buildStoragePoolName        *)
(* refuses; scNoReplica has no replicaNumber parameter, so Atoi reads the  *)
(* empty text.  p1 asks for a 3-byte HDD claim (n1 only), p2 for a claim  *)
(* of scThin, and p3 uses lv1 on n1 and asks for a 1-byte claim of        *)
(* scNoReplica, which fits on both nodes.                                  *)
(***************************************************************************)
EXTENDS MC_LVMScheduler

CONSTANTS k5, k6, scThin, scNoReplica

ClassesPVCs == {k1, k5, k6}

ClassesPVCClass ==
    [k \in ClassesPVCs |-> CASE k = k5 -> scThin
                             [] k = k6 -> scNoReplica
                             [] OTHER  -> scHDD]

ClassesPVCSize == [k \in ClassesPVCs |-> IF k = k1 THEN 3 ELSE 1]

ClassesSCParams ==
    [sc \in {scHDD, scThin, scNoReplica} |->
        CASE sc = scHDD -> [poolClass |-> "HDD", poolType |-> "REGULAR",
                            replicaNumber |-> "1"]
          [] sc = scThin -> [poolClass |-> "HDD", poolType |-> "THIN",
                             replicaNumber |-> "1"]
          [] sc = scNoReplica -> [poolClass |-> "HDD", poolType |-> "REGULAR",
                                  replicaNumber |-> ""]]

ClassesPodLVs == [p \in {p1, p2, p3} |-> IF p = p3 THEN {lv1} ELSE {}]
ClassesPodPVCs == [p \in {p1, p2, p3} |->
                     CASE p = p1 -> <<k1>> [] p = p2 -> <<k5>> [] p = p3 -> <<k6>>]

=============================================================================
