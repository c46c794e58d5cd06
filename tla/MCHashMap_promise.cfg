SPECIFICATION Spec
CONSTANTS
    Threads = {t1, t2}
    Keys = {"a", "c"}
    Ops = {"find", "equalRange", "operator[]", "size", "empty", "capacity", "insert", "remove", "extend", "clear"}
    Positions = {0, 1, 2}
    Counts = {0, 2}
    NewCapacities = {3}
    DefaultCapacity = 2
    SizeMod = 256
    WriterPriority = FALSE
    MaxPairs = 3
    nullptr = nullptr
    hashFunction <- LinearHash
SYMMETRY ThreadSymmetry
INVARIANTS
    TypeOK
    NoDataRace
PROPERTIES
    ReadersSeeOneTable
    ImplementsMultimap
