\* Liveness; internal.rsp.ready is always high, as MemBusControl and the
\* DynamicMemoryBackbone drive it.
CONSTANTS
    Sets <- OneSet
    Tags <- TwoTags
    ZeroTag = 0
    NWays = 2
    NIds = 2
    NInternalIds = 1
    Data = {d}
    CacheableTags = {0, 1}
    MaxPrefetches = 1
    SecDmp = FALSE
    SelectiveDisabling = FALSE
    None = None
    ReadWrite = TRUE
    RspReady = {TRUE}
    Garbage <- ReadOnly
    Partitions <- NoSecrets
    SecurityModes = {"OFF"}
    ChangesCsrs = FALSE
SPECIFICATION FairSpec
PROPERTIES
    CmdsAreAccepted
    LoadsAreAnswered
    RequestsComplete
