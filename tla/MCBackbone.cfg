\* Two load stages and the store stage over two ids, with a cache that accepts and answers.
SPECIFICATION FairSpec
CONSTANTS
    a1 = a1
    None = None
    NStages = 2
    NIds = 2
    Address <- OneLine
INVARIANTS
    BackboneInvariant
    AnswersOwnLoad
    IdsAreFree
    LoadsSentOnce
PROPERTIES
    LoadsGetTheBus
    SentLoadsFinish
