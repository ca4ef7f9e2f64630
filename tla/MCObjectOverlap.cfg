SPECIFICATION Spec
CONSTANTS
    r1 = r1
    r2 = r2
    r3 = r3
    Requests <- ThreeRequests
    Slices <- ThreeSlices
    Spans <- AllThree
    Readahead = 2
    MaxVersion = 3
    Reported <- AllStrong
    MaxRestarts = 0
    MaxPurges = 0
    MaxHours = 0
    MaxDisconnects = 0
    Evicting = FALSE
    Failing = FALSE
    StaleOnError = TRUE
    NoCell = NoCell
CHECK_DEADLOCK FALSE
SYMMETRY Interchangeable
INVARIANT
    GenerationIsOneVersion
