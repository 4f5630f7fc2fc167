CONSTANTS
    NUM_WAY = 3
    InitLru = 5
    t1 = t1
    t2 = t2
    t3 = t3
    t4 = t4
    Tag <- MCTag
    NoTag = NoTag
SPECIFICATION DibSpec
PROPERTY ReplacesLeastRecent
