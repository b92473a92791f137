---------------------------- MODULE MC_VolumeQoS ----------------------------
(***************************************************************************)
(* Small instances of VolumeQoS for TLC.  sdb (8:16) and dm-1 (253:1) have *)
(* minors below 256; dm-256 (253:256) is the 257th device-mapper volume.   *)
(* A fourth path has no device yet.  Callers pass a valid limit or -1.     *)
(***************************************************************************)
EXTENDS VolumeQoS

CONSTANTS pSdb, pDm1, pDm256, pGone

MCPaths == {pSdb, pDm1, pDm256, pGone}

MCDevOf == [p \in MCPaths |->
              CASE p = pSdb -> <<8, 16>> [] p = pDm1 -> <<253, 1>>
                [] p = pDm256 -> <<253, 256>> [] p = pGone -> NoDevice]

\* Without dm-0, a write meant for dm-256 is refused.
MCDevices == {<<8, 16>>, <<253, 1>>, <<253, 256>>}

\* With dm-0 present, that write lands on dm-0.
MCDevicesDm0 == MCDevices \cup {<<253, 0>>}

MCValues == {-1, 100}

MCModes == {"Legacy", "Hybrid", "Unified", "Unavailable"}

=============================================================================
