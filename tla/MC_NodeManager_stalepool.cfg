CONSTANTS
    nA = nA
    nB = nB
    d1 = d1
    d2 = d2
    v1 = v1
    v2 = v2
    ld1 = ld1
    ld2 = ld2
    ldc1 = ldc1
    Me = nA
    DevTypes <- MCDevTypes
    Regular = "REGULAR"
    Disks = {d1, d2}
    DiskType <- MCDiskType
    DiskCap <- MCDiskCap
    Volumes = {v1, v2}
    VolType <- MCVolType
    VolCap <- MCVolCap
    LocalDisks = {ld1, ld2}
    LDNode <- MCLDNode
    LDOwner <- MCLDOwner
    LocalDiskClaims = {ldc1}
    LDCNode <- MCLDCNode
    LDCOwner <- MCLDCOwner
    LDCStatus <- MCLDCStatus
    LocalDiskManager = "local-disk-manager"
    ClaimBound = "Bound"
    MaxLimitVolume = 2
    MaxExternalWrites = 1
    MaxStoreErrors = 1
    MaxRestarts = 2
    MaxEvents = 2
    MaxRegistryChanges = 2
    NotFound = NotFound
    NoPool = NoPool

SPECIFICATION Spec
INVARIANT PoolsMatchRegistry
