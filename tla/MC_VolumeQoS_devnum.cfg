\* Every cgroups mode, two calls, with dm-0 present beside dm-256.
CONSTANTS
    pSdb = pSdb
    pDm1 = pDm1
    pDm256 = pDm256
    pGone = pGone
    NoDevice = NoDevice
    NoLimit = NoLimit
    NoCall = NoCall
    NoRequest = NoRequest
    Modes <- MCModes
    Paths <- MCPaths
    DevOf <- MCDevOf
    Devices <- MCDevicesDm0
    Values <- MCValues
    MaxCalls = 2
    MaxExecErrors = 1
SPECIFICATION Spec
PROPERTY QoSOnOwnDevice
