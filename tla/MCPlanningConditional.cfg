CONSTANTS
    U32Max = 3
    SEQUENTIAL_THRESHOLD = 1
    PATTERN_TTL = 1
    MAX_TRACKED = 2
    Window = 1
    Length <- MCLength
    IgnoresRange = {"dump", "void"}
    IgnoresIfRange = {"page"}
    Entity <- MCEntity
    SliceSize = 2
    Requests <- MCRequests
    MaxRequests = 3
    MaxWaiting = 2
    MaxClock = 1
    MaxLosses = 1
SPECIFICATION Spec
INVARIANT NoRangesMeansIgnored
CHECK_DEADLOCK FALSE
