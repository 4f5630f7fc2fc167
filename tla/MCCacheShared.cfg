CONSTANTS
    L1I = L1I
    L1D = L1D
    L2C = L2C
    fetch = fetch
    data = data
    common = common
    own = own
    Memory = Memory
    Cache <- MCCache
    Client <- MCClient
    Below <- MCBelow
    FillLevel <- MCFillLevel
    Addr <- MCAddr
    LineOf <- MCLineOf
    Sets = {0}
    SetOf <- MCSetOf
    Ways <- MCOne
    MSHR_SIZE <- MCTwo
    RQ_SIZE <- MCOne
    WQ_SIZE <- MCOne
    PQ_SIZE <- MCOne
    MEM_RQ_SIZE = 1
    MEM_WQ_SIZE = 1
    MatchOffset = {L1I, L1D}
    PrefetchAsLoad = {}
    Bypassing = {L2C}
    LoadAddr <- MCLoadAddr
    StoreAddr <- MCStoreAddr
    PrefetchAddr <- MCPrefetch
    MaxRequests = 4
SPECIFICATION FairSpec
INVARIANTS MissCarriedOnce LoadCarriedOnce
PROPERTIES DirtyNotDropped LoadsAnswered
CHECK_DEADLOCK FALSE
