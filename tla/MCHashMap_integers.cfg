SPECIFICATION Spec
CONSTANTS
    Threads = {t1, t2}
    Keys <- SignedKeys
    Ops = {"find", "insert", "remove", "extend", "clear"}
    Positions = {0, 1}
    Counts = {0, 1}
    NewCapacities = {5}
    DefaultCapacity = 3
    SizeMod = 128
    WriterPriority = FALSE
    MaxPairs = 3
    nullptr = nullptr
    hashFunction <- IntegerHash
SYMMETRY ThreadSymmetry
INVARIANTS
    OnePlacePerPair
    PairsAreReachable
PROPERTIES
    PairsLeaveByRemoveOrClear
