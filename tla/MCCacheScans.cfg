\* Both defences, with their CSRs rewritten at any time; loads only.
CONSTANTS
    Sets <- OneSet
    Tags <- TwoTags
    ZeroTag = 0
    NWays = 2
    NIds = 2
    NInternalIds = 2
    Data = {d}
    CacheableTags = {0, 1}
    MaxPrefetches = 1
    SecDmp = TRUE
    SelectiveDisabling = TRUE
    None = None
    ReadWrite = FALSE
    RspReady = {TRUE}
    Garbage <- ReadOnly
    Partitions <- OneSecretLine
    SecurityModes = {"OFF", "MEDIUM", "HIGH"}
    ChangesCsrs = TRUE
SPECIFICATION AuditSpec
INVARIANTS
    ResponseScansArePermitted
