CONSTANTS
    PAGE_SIZE = 4
    page_size = 4
    PTE_BYTES = 1
    pt_levels = 4
    VPage <- MCVPage
    FreeLists <- MCFreeLists
    MSHR_SIZE = 2
    RQ_SIZE = 1
    PSCLSets <- MCOneSet
    PSCLWays <- MCOneWay
    BLOCK_SIZE = 2
    DataWrites = TRUE
    MaxRequests = 4
SPECIFICATION FairSpec
INVARIANTS TypeOK DueFirst OnlyForwardsAreLost PagingCachesHoldTheTable PagesHaveOneUse
PROPERTIES WalksEnd
CHECK_DEADLOCK FALSE
