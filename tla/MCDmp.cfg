\* A recursive prefetcher that takes the next line as well; loads only.
CONSTANTS
    Sets <- OneSet
    Tags <- FourTags
    ZeroTag = 0
    NWays = 1
    NIds = 2
    NInternalIds = 1
    Data = {d}
    CacheableTags = {0, 1, 2, 3}
    MaxPrefetches = 1
    SecDmp = FALSE
    SelectiveDisabling = FALSE
    None = None
    ReadWrite = FALSE
    RspReady = {TRUE}
    Garbage <- ReadOnly
    Partitions <- NoSecrets
    SecurityModes = {"OFF"}
    ChangesCsrs = FALSE
    Pointers <- Pointing
    LineAfter <- Following
    MaxRecursionDepth = 1
    NextLinePrefetches = 1
    QueueSize = 2
SPECIFICATION DmpSystemSpec
INVARIANTS
    DmpSystemTypeOK
    ChaseIsBounded
    DepthsAreRight
