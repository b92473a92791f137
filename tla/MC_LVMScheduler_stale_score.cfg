CONSTANTS
    n1 = n1
    n2 = n2
    p1 = p1
    p2 = p2
    p3 = p3
    lv1 = lv1
    k1 = k1
    k2 = k2
    k3 = k3
    k4 = k4
    scHDD = scHDD
    scSSD2 = scSSD2
    Nodes = {n1, n2}
    Pods = {p1, p2, p3}
    LVs = {lv1}
    PVCs = {k1, k2, k3, k4}
    SCs = {scHDD, scSSD2}
    Classes <- MCClasses
    Regular = "REGULAR"
    PodLVs <- SafetyPodLVs
    PodPVCs <- SafetyPodPVCs
    LVConfig <- MCLVConfig
    NoConfig = NoConfig
    PVCClass <- MCPVCClass
    PVCSize <- MCPVCSize
    SCParams <- MCSCParams
    InitPools <- MCInitPools
    NoPool = NoPool
    InvalidPool = InvalidPool
    NoNode = NoNode
    NoLoop = NoLoop
    ScoreErr = ScoreErr
    NoScore = NoScore
    MaxNodeScore = 100
    IntWidth = 16

SPECIFICATION Spec
INVARIANT ScoreInRange
