SPECIFICATION Spec
CONSTANTS
    Keys = {1}
    nCount = 3
    Finders = {"find"}
    DefaultCapacity = 127
INVARIANTS
    SizeChecksPass
CHECK_DEADLOCK FALSE
