\* Stores, fills, prefetches and merged loads of two lines that compete for one way,
\* with distinguishable data.
CONSTANTS
    Sets <- OneSet
    Tags <- TwoTags
    ZeroTag = 0
    NWays = 1
    NIds = 2
    NInternalIds = 2
    Data = {d1, d2}
    CacheableTags = {0, 1}
    MaxPrefetches = 1
    SecDmp = FALSE
    SelectiveDisabling = FALSE
    None = None
    ReadWrite = TRUE
    RspReady = {TRUE}
    Garbage <- ReadOnly
    Partitions <- NoSecrets
    SecurityModes = {"OFF"}
    ChangesCsrs = FALSE
SPECIFICATION Spec
SYMMETRY DataSymmetry
INVARIANTS
    CachedIsCurrent
PROPERTIES
    ImplementsMemory
