\* The write bit of a prefetch command is not assigned.
CONSTANTS
    Sets <- OneSet
    Tags <- TwoTags
    ZeroTag = 0
    NWays = 2
    NIds = 2
    NInternalIds = 1
    Data = {d}
    CacheableTags = {0, 1}
    MaxPrefetches = 1
    SecDmp = FALSE
    SelectiveDisabling = FALSE
    None = None
    ReadWrite = TRUE
    RspReady = {TRUE}
    Garbage <- ReadOrWrite
    Partitions <- NoSecrets
    SecurityModes = {"OFF"}
    ChangesCsrs = FALSE
SPECIFICATION Spec
INVARIANTS
    RequestsMatchMemory
