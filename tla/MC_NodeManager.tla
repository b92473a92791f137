--------------------------- MODULE MC_NodeManager ---------------------------
(***************************************************************************)
(* Small instances of NodeManager for TLC: one HDD disk and one SSD disk,  *)
(* one HDD volume larger than the HDD disk (a pool with negative free     *)
(* space), one SSD volume; one LocalDisk and one LocalDiskClaim of this   *)
(* node and one LocalDisk of another node.                                 *)
(***************************************************************************)
EXTENDS NodeManager

CONSTANTS nA, nB, d1, d2, v1, v2, ld1, ld2, ldc1

MCDevTypes == {"HDD", "SSD", "NVMe"}
MCDiskType == [d \in {d1, d2} |-> IF d = d1 THEN "HDD" ELSE "SSD"]
MCDiskCap == [d \in {d1, d2} |-> IF d = d1 THEN 2 ELSE 3]
MCVolType == [v \in {v1, v2} |-> IF v = v1 THEN "HDD" ELSE "SSD"]
MCVolCap == [v \in {v1, v2} |-> IF v = v1 THEN 3 ELSE 1]
MCLDNode == [ld \in {ld1, ld2} |-> IF ld = ld1 THEN nA ELSE nB]
MCLDOwner == [ld \in {ld1, ld2} |-> "local-disk-manager"]
MCLDCNode == [c \in {ldc1} |-> nA]
MCLDCOwner == [c \in {ldc1} |-> "local-disk-manager"]
MCLDCStatus == [c \in {ldc1} |-> "Bound"]

=============================================================================
