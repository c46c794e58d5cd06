SPECIFICATION Spec
CONSTANTS
    Maps = {m1, m2}
    Pairs = {p1, p2, p3}
    Tables = {t1, t2, t3}
    nullptr = nullptr
    DefaultCapacity = 1
    NewCapacities = {3}
    ListLengths = {0, 1}
    MaxCapacity = 3
SYMMETRY ObjectSymmetry
INVARIANTS
    TypeOK
    TablesHaveOneOwner
PROPERTIES
    ReferencesSurvive
    ImplementsCollections
CHECK_DEADLOCK FALSE
