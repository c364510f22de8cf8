\* refreshPage drains one layer per event, fewer than a queue can hold.
CONSTANTS
    PagesInBlock = 2
    LayersPerBlock = 1
    TotalBlocks = 3
    PageCountToMaxPerf = 1
    LogicalPages = 2
    GcThresholdPct = 40
    ReclaimBlock = 1
    BadBlockThreshold = 3
    InitEraseCount = 0
    MaxRefreshLayer = 1
    RandomTweak = FALSE
    GcMode = 0
    ReclaimThresholdPct = 10
    EvictPolicy = "GREEDY"
    DChoiceParam = 3
    RecoParamPct = 20
    NumQueues = 3
    ReenrolSlack = 24
    UIntModulus = 65536
    MinHorizon = 2
    RBERLimit = 3
    RBERExceeds <- MCRBERExceeds
    EccExceeds <- MCRBERExceeds
    RefreshMode = 0
    GroupingSize = 1
    SegmentStride = 21
    Erased = Erased
    Dirty = Dirty
    NoMapping = NoMapping

SPECIFICATION Spec

\* A panic ends the simulation: those states have no successor.
CHECK_DEADLOCK FALSE

INVARIANT RefreshQueuesConsistent
