SPECIFICATION Spec
CONSTANTS
    Threads = {t1}
    Keys = {6}
    Ops = {"operator[]", "insert"}
    Positions = {0, 1}
    Counts = {0, 1}
    NewCapacities = {3}
    DefaultCapacity = 3
    SizeMod = 128
    WriterPriority = FALSE
    MaxPairs = 1
    nullptr = nullptr
    hashFunction <- IntegerHash
INVARIANTS
    RangesNameAPairOnce
