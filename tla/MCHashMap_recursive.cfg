SPECIFICATION FairSpec
CONSTANTS
    Threads = {t1, t2}
    Keys = {"a", "b"}
    Ops = {"find", "insert"}
    Positions = {0, 1}
    Counts = {0, 1}
    NewCapacities = {3}
    DefaultCapacity = 2
    SizeMod = 256
    WriterPriority = TRUE
    MaxPairs = 1
    nullptr = nullptr
    hashFunction <- LinearHash
PROPERTIES
    HoldersRelease
CHECK_DEADLOCK FALSE
