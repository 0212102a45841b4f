\* SecDMP with a secret partition that changes while requests are in flight.
CONSTANTS
    Sets <- OneSet
    Tags <- TwoTags
    ZeroTag = 0
    NWays = 1
    NIds = 2
    NInternalIds = 2
    Data = {public, secret}
    PublicData = {public}
    CacheableTags = {0, 1}
    MaxPrefetches = 1
    SecDmp = TRUE
    SelectiveDisabling = FALSE
    None = None
    ReadWrite = TRUE
    RspReady = {TRUE}
    Garbage <- ReadOnly
    Partitions <- OneSecretLine
    SecurityModes = {"OFF"}
    ChangesCsrs = TRUE
SPECIFICATION SecrecySpec
INVARIANTS
    ScannedDataIsPublic
    SecrecyInvariant
