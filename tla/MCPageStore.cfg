\* Host writes, trims and formats interleaved with refresh events; every
\* layer needs a refresh after at least two periods.
CONSTANTS
    PagesInBlock = 2
    LayersPerBlock = 1
    TotalBlocks = 3
    PageCountToMaxPerf = 1
    LogicalPages = 2
    GcThresholdPct = 40
    ReclaimBlock = 1
    BadBlockThreshold = 3
    InitEraseCount = 0
    MaxRefreshLayer = 8
    RandomTweak = FALSE
    GcMode = 0
    ReclaimThresholdPct = 10
    EvictPolicy = "GREEDY"
    DChoiceParam = 3
    RecoParamPct = 20
    NumQueues = 3
    ReenrolSlack = 24
    UIntModulus = 65536
    MinHorizon = 2
    RBERLimit = 3
    RBERExceeds <- MCRBERExceeds
    EccExceeds <- MCRBERExceeds
    RefreshMode = 0
    GroupingSize = 1
    SegmentStride = 21
    Erased = Erased
    Dirty = Dirty
    NoMapping = NoMapping

SPECIFICATION FairStoreSpec

\* A panic ends the simulation: those states have no successor.
CHECK_DEADLOCK FALSE

INVARIANTS
    TypeOK
    MappingConsistent
    FreePoolConsistent
    RefreshQueuesConsistent
    RefreshDeadline
PROPERTY PagesEventuallyRefreshed PageImplementsLogicalStore
