CONSTANTS
    Traces <- MCTraces
    MaxLength = 5
    IFETCH_SIZE = 2
    FETCH_WIDTH = 2
    DECODE_SIZE = 1
    DISPATCH_SIZE = 1
    DIB_SIZE = 1
    ITLB_SIZE = 2
    L1I_SIZE = 1
    Address = {"A", "B"}
    ROB_SIZE = 3
    LQ_SIZE = 2
    SQ_SIZE = 2
    SCHEDULER_SIZE = 2
SPECIFICATION FairSpec
INVARIANTS EntriesHeldOnce CountersAgree RegistersReady NothingReadPastMispredict
PROPERTIES ImplementsSequentialMachine EveryInstructionRetires
CHECK_DEADLOCK FALSE
