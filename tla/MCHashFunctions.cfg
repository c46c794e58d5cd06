SPECIFICATION Spec
CONSTANTS
    DEFAULT_A = 7
    DEFAULT_B = 2
    DEFAULT_P = 11
    SizeMod = 32
    MaxModulo = 9
    MaxKey = 20
    MaxLen = 9
    MaxCityLen = 1000
INVARIANTS
    StringProbesAreComplete
    IntProbesAreComplete
    LongTailsCollide
    CityStaysInside
    CityReadsEveryByte
CHECK_DEADLOCK FALSE
