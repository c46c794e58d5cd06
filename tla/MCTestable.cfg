SPECIFICATION Spec
CONSTANTS
    Threads = {t1, t2, t3}
    Keys = {"a"}
    Ops = {"find", "equalRange", "operator[]", "size", "empty", "capacity", "insert", "remove", "extend", "clear"}
    Positions = {0}
    Counts = {1}
    NewCapacities = {3}
    DefaultCapacity = 1
    SizeMod = 256
    WriterPriority = FALSE
    MaxCalls = 3
SYMMETRY ThreadSymmetry
INVARIANTS
    TypeOK
    LogInEndOrder
    ConflictsDoNotOverlap
    ResultsFollowLockTimes
    CorrectMapPasses
