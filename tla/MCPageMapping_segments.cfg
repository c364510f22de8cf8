\* Host writes, trims and formats interleaved with refresh events; every
\* layer needs a refresh after at least two periods.
CONSTANTS
    PagesInBlock = 2
    LayersPerBlock = 4
    TotalBlocks = 3
    PageCountToMaxPerf = 1
    LogicalPages = 1
    GcThresholdPct = 40
    ReclaimBlock = 1
    BadBlockThreshold = 3
    InitEraseCount = 0
    MaxRefreshLayer = 8
    RandomTweak = FALSE
    GcMode = 0
    ReclaimThresholdPct = 10
    EvictPolicy = "GREEDY"
    DChoiceParam = 3
    RecoParamPct = 20
    NumQueues = 3
    ReenrolSlack = 24
    UIntModulus = 65536
    MinHorizon = 2
    RBERLimit = 3
    RBERExceeds <- MCRBERExceeds
    EccExceeds <- MCRBERExceeds
    RefreshMode = 2
    GroupingSize = 1
    SegmentStride = 1
    Erased = Erased
    Dirty = Dirty
    NoMapping = NoMapping

SPECIFICATION FairSpec

\* A panic ends the simulation: those states have no successor.
CHECK_DEADLOCK FALSE

PROPERTY PagesEventuallyRefreshed
