SPECIFICATION Spec
CONSTANTS
    Keys = {1}
    nCount = 3
    Finders = {"find", "equalRange"}
    DefaultCapacity = 127
INVARIANTS
    TimingsHaveOneOwner
    FalseAlarmsAreStale
    WorkersDoTheirWork
CHECK_DEADLOCK FALSE
