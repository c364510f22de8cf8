CONSTANTS
    PagesInBlock = 2
    LayersPerBlock = 1
    TotalBlocks = 5
    HotBlocksLimit = 2
    CooldownWindowSize = 1
    PageCountToMaxPerf = 1
    LogicalPages = 2
    GcThresholdPct = 40
    ReclaimBlock = 1
    BadBlockThreshold = 2
    InitEraseCount = 0
    MaxRefreshLayer = 8
    RandomTweak = FALSE
    GcMode = 0
    ReclaimThresholdPct = 10
    EvictPolicy = "GREEDY"
    RecoParamPct = 20
    NumQueues = 2
    ReenrolSlack = 24
    UIntModulus = 65536
    MinHorizon = 1
    RBERLimit = 2
    RBERExceeds <- MCRBERExceeds
    EccExceeds <- MCRBERExceeds
    RefreshMode = 0
    GroupingSize = 1
    SegmentStride = 21
    Erased = Erased
    Dirty = Dirty
    NoMapping = NoMapping
SPECIFICATION Spec
CHECK_DEADLOCK FALSE
INVARIANTS WindowsConsistent
