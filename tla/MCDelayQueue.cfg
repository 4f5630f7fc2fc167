\* Three members in four slots, so the ring wraps after every fourth push.
CONSTANTS
    Size = 3
    Latency = 2
    DelayFloor <- MCDelayFloor
    a = a
    b = b
    NoItem = NoItem
    Item <- MCItem
SPECIFICATION Spec
INVARIANTS TypeOK ReadyIsPrefix ReadyHaveWaited
PROPERTY ImplementsDelayedFifo
