\* The hot/cold FTL under a host that writes, trims and refreshes but never
\* formats, with the request ghost of SepStore.  Cold GC runs GC_MODE_1
\* (nBlocks = 0.7 * coldBlocksLimit - nColdFreeBlocks) and POLICY_RECO with lambda = 1.
CONSTANTS
    PagesInBlock = 2
    LayersPerBlock = 1
    TotalBlocks = 5
    HotBlocksLimit = 2
    CooldownWindowSize = 1
    PageCountToMaxPerf = 1
    LogicalPages = 2
    GcThresholdPct = 40
    ReclaimBlock = 1
    BadBlockThreshold = 2
    InitEraseCount = 0
    MaxRefreshLayer = 8
    RandomTweak = FALSE
    GcMode = 1
    ReclaimThresholdPct = 70
    EvictPolicy = "RECO"
    RecoParamPct = 100
    MaxRefreshedCount = 2
    NumQueues = 2
    ReenrolSlack = 24
    UIntModulus = 65536
    MinHorizon = 1
    RBERLimit = 2
    RBERExceeds <- MCRBERExceeds
    EccExceeds <- MCRBERExceeds
    RefreshMode = 0
    GroupingSize = 1
    SegmentStride = 21
    Erased = Erased
    Dirty = Dirty
    NoMapping = NoMapping
SPECIFICATION StoreSpec
CHECK_DEADLOCK FALSE
CONSTRAINT RefreshedCountBound
INVARIANTS WindowsConsistent
PROPERTY ImplementsLogicalStore
