\* A data cache of one set and two ways, three lines (one not cacheable) competing for them.
CONSTANTS
    Sets <- OneSet
    Tags <- ThreeTags
    ZeroTag = 0
    NWays = 2
    NIds = 2
    NInternalIds = 2
    Data = {d}
    CacheableTags = {1, 2}
    MaxPrefetches = 1
    SecDmp = FALSE
    SelectiveDisabling = FALSE
    None = None
    ReadWrite = TRUE
    RspReady = {TRUE}
    Garbage <- ReadOnly
    Partitions <- NoSecrets
    SecurityModes = {"OFF"}
    ChangesCsrs = FALSE
SPECIFICATION Spec
INVARIANTS
    TypeOK
    OneCopyPerLine
    FreshRequestsAreNeeded
    RequestsMatchMemory
    LoadsWaitOnce
    PrefetchBound
