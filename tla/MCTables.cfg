CONSTANTS
    Parts = {"lru", "rrip", "mockingjay", "profiler", "solver", "btb"}
    NUM_WAY = 3
    InitLru = 5
    Tag = {"s", "t", "u", "v"}
    NoTag = none
    RripWays = 2
    maxRRPV = 3
    RripInitLru = 7
    LruRange = 16
    Samplers = 3
    PSEL_MAX = 1
    BIP_MAX = 2
    SHCT_MAX = 1
    SamplerInitLru = 9
    RripLine = {0, 1, 2}
    NoRripLine = none
    RegionOf <- MCHalf
    Signature = {0}
    MaxSampled = 3
    LLC_WAY = 2
    HISTORY = 2
    GRANULARITY = 2
    NeverMargin = 1
    SAMPLED_CACHE_WAYS = 2
    SampledIndex <- MCParity
    TimestampRange = 5
    FLEXMIN_PENALTY = 2
    TemporalDivisor = 2
    MjLine = {0, 2, 4}
    NoMjLine = none
    Pc = {0}
    MaxAccesses = 6
    ExactBits = 1
    MAX_BUCKET = 5
    SAMPLING_PERIOD = 2
    REFRESH_PERIOD = 4
    Block = {0, 1, 2, 4}
    TagOf <- MCHalf
    MaxNow = 8
    Buckets <- MCBuckets
    MaxCount = 2
    Lines = {1, 2, 3, 4}
    BTB_SETS = 2
    BTB_WAYS = 1
    INDIRECT_SIZE = 2
    RAS_SIZE = 2
    CALL_SIZE_TRACKERS = 8
    BIMODAL_PRIME = 3
    COUNTER_BITS = 2
    ExclusiveOr <- MCXor
    Branches <- MCBranches
    MaxBranches = 6
SPECIFICATION Spec
CHECK_DEADLOCK FALSE
INVARIANTS TypeOK AgesAreDistinct LinesSampledOnce SamplesAreReuses
PROPERTIES ReplacesLeastRecent ReusedOutlivesUnused SolverFindsTheCut ReturnsArePredicted
