CONSTANTS
    SIZE = 4
    Addr = {a1, a2, a3}
    NoAddr = NoAddr
    Set = {s1, s2}
    Member = {0, 1, 2, 3, 4, 5}
    SmallSize = 5
    SmallerSize = 3
    WordSize = 4
    Inputs <- Graphs
    N = 8
    Unit = 4
    First = 2
    Nibble = 2
    Base = 2
    Signed = 2
    Run = 2
    WideRun = 2
    OffsetBytes = 1
    CoreCounts = {1, 2}
    Warmup = 1
    Simulated = 2
    RetireWidth = 2
    DeadlockCycle = 3
    SwapLatency = 2
    Period = 2
    MaxCycle = 4
    Networks <- SmallNetworks
    Nodes = {0, 1, 2, 3, 4, 5}
    Threads = {t1, t2}
    NeighborRounds = 1
    Webs <- SmallWebs
    Alpha = 5
    Beta = 4
    LocalSize = 1
    WordBits = 2
    Chunk = 2
    Delta = 2
    FusionLimit = 2
    Bins = 8
    Meshes <- SmallMeshes
    Divisor = 2
    Streams <- PageSweeps
    PageBlocks = 8
    Tags = 4
    StWays = 2
    PtPrime = 3
    PtWays = 2
    SigShift = 4
    Signatures = 16
    CsigMax = 4
    GcMax = 2
    BufferSize = 3
    MaxEvictions = 1
    MaxSwaps = 1
    MaxWaiting = 1
    EdgeLists <- SmallEdgeLists
    PlainLists <- SmallPlainLists
    Fillers = {t1, t2}
    BlockSize = 2
    WordsAfter = {0, 33}
    Identifiers = {1, 2}
    MaxPriority = 5
    Open = 2
    Grain = 1
    NullBkt = 100
    Arrays <- SmallArrays
    ScanBlock = 2
    Lanes = 2
    FlagWords = 2
    LaneSize = 3
    SortCalls <- SmallSorts
    MAX_RADIX = 1
    PerSet = 1
    PerBlock = 2
    Threshold = 3
    ISORT = 3
    Inserters = {t1, t2}
    Additions <- SmallAdditions
    Slack = 2
    Hash <- SmallHash
    Histograms <- SmallHistograms
    SeqHistogram = 4
    SeqCountSort = 3
    SqrtDivisor = 1
    MaxBuckets = 4
    LowMask = 2
    Frontiers <- SmallFrontiers
    EdgeBlock = 2
    SearchBase = 1
SPECIFICATION PartsSpec
INVARIANTS
    RingConsistent
    CheckQueueExact
    ListsExact
    SearchExact
    LoopExact
    ComponentsExact
    GapExact
    SignaturePathSound
    LigraExact
PROPERTIES
    ImplementsFifo
    ImplementsSets
CHECK_DEADLOCK FALSE
