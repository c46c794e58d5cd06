SPECIFICATION FiniteSpec
CONSTANTS
    Threads = {t1, t2}
    Keys = {"a", "b"}
    Ops = {"find", "size", "insert", "extend", "clear"}
    Positions = {0}
    Counts = {0}
    NewCapacities = {3, 5}
    DefaultCapacity = 2
    SizeMod = 256
    WriterPriority = FALSE
    MaxPairs = 5
    MaxCalls = 3
    nullptr = nullptr
    hashFunction <- LinearHash
INVARIANTS
    InsertionOrder
PROPERTIES
    HoldersRelease
    EveryCallReturns
CHECK_DEADLOCK FALSE
