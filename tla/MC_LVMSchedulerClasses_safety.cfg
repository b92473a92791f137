CONSTANTS
    n1 = n1
    n2 = n2
    p1 = p1
    p2 = p2
    p3 = p3
    lv1 = lv1
    k1 = k1
    k2 = k2
    k3 = k3
    k4 = k4
    k5 = k5
    k6 = k6
    scThin = scThin
    scNoReplica = scNoReplica
    scHDD = scHDD
    scSSD2 = scSSD2
    Nodes = {n1, n2}
    Pods = {p1, p2, p3}
    LVs = {lv1}
    PVCs = {k1, k5, k6}
    SCs = {scHDD, scThin, scNoReplica}
    Classes <- MCClasses
    Regular = "REGULAR"
    PodLVs <- ClassesPodLVs
    PodPVCs <- ClassesPodPVCs
    LVConfig <- MCLVConfig
    NoConfig = NoConfig
    PVCClass <- ClassesPVCClass
    PVCSize <- ClassesPVCSize
    SCParams <- ClassesSCParams
    InitPools <- MCInitPools
    NoPool = NoPool
    InvalidPool = InvalidPool
    NoNode = NoNode
    NoLoop = NoLoop
    ScoreErr = ScoreErr
    NoScore = NoScore
    MaxNodeScore = 100
    IntWidth = 16

SPECIFICATION Spec
INVARIANTS TypeOK BoundLocality PlacementQualified
PROPERTIES LifecycleRefined
