\* Every cgroups mode, three calls, one shell failure; no dm-0.
CONSTANTS
    pSdb = pSdb
    pDm1 = pDm1
    pDm256 = pDm256
    pGone = pGone
    NoDevice = NoDevice
    NoLimit = NoLimit
    NoCall = NoCall
    NoRequest = NoRequest
    Modes <- MCModes
    Paths <- MCPaths
    DevOf <- MCDevOf
    Devices <- MCDevices
    Values <- MCValues
    MaxCalls = 3
    MaxExecErrors = 1
SPECIFICATION Spec
INVARIANT TypeOK
INVARIANT AppliedOnSuccess
