SPECIFICATION Spec
CONSTANTS
    Threads = {t1}
    Keys = {"a"}
    Ops = {"insert", "remove"}
    Positions = {0, 1}
    Counts = {0, 1}
    NewCapacities = {3}
    DefaultCapacity = 2
    SizeMod = 256
    WriterPriority = FALSE
    MaxPairs = 2
    nullptr = nullptr
    hashFunction <- LinearHash
INVARIANTS
    RemoveAllTakesAll
