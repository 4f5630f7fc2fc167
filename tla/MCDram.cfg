CONSTANTS
    DRAM_CHANNELS = 1
    DRAM_RANKS = 1
    DRAM_BANKS = 2
    DRAM_COLUMNS = 1
    DRAM_ROWS = 2
    DRAM_RQ_SIZE = 2
    DRAM_WQ_SIZE = 3
    tRP = 1
    tRCD = 1
    tCAS = 1
    DRAM_DBUS_TURN_AROUND_TIME = 2
    DRAM_DBUS_RETURN_TIME = 2
    r1 = r1
    r2 = r2
    Name = {r1, r2}
    Block <- MCBlock
    MaxRequests = 5
SPECIFICATION FairSpec
INVARIANTS TypeOK BankHasItsPacket
PROPERTIES BusTurnsAround ImplementsMemoryService ReadsAnswered
