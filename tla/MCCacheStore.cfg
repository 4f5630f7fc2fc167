CONSTANTS
    L1D = L1D
    L2C = L2C
    cpu = cpu
    a0 = a0
    a1 = a1
    b0 = b0
    c0 = c0
    Memory = Memory
    Cache <- MCCache
    Client <- MCClient
    Below <- MCBelow
    FillLevel <- MCFillLevel
    Addr <- MCAddr
    LineOf <- MCLineOf
    Sets = {0}
    SetOf <- MCSetOf
    Ways <- MCWays
    MSHR_SIZE <- MCOne
    RQ_SIZE <- MCOne
    WQ_SIZE <- MCOne
    PQ_SIZE <- MCOne
    MEM_RQ_SIZE = 1
    MEM_WQ_SIZE = 1
    MatchOffset = {L1D}
    PrefetchAsLoad = {}
    Bypassing = {}
    LoadAddr <- MCLoadAddr
    StoreAddr <- MCStoreAddr
    PrefetchAddr <- MCNoPrefetch
    MaxRequests = 3
SPECIFICATION FairSpec
PROPERTY StoreNotForgotten
CHECK_DEADLOCK FALSE
