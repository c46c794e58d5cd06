SPECIFICATION FairSpec
CONSTANTS
    Threads = {t1}
    Keys <- SignedKeys
    Ops = {"insert", "extend"}
    Positions = {0, 1}
    Counts = {0, 1}
    NewCapacities = {5}
    DefaultCapacity = 3
    SizeMod = 128
    WriterPriority = FALSE
    MaxPairs = 3
    nullptr = nullptr
    hashFunction <- IntegerHash
PROPERTIES
    ExtensionsEnd
