\* The same queue as the decode buffer: ready members pushed behind waiting ones.
CONSTANTS
    Size = 3
    Latency = 2
    DelayFloor <- MCDelayFloor
    a = a
    b = b
    NoItem = NoItem
    Item <- MCItem
SPECIFICATION DecodeSpec
INVARIANT ReadyHaveWaited
