SPECIFICATION Spec
CONSTANTS
    r1 = r1
    r2 = r2
    r3 = r3
    Requests <- TwoRequests
    Slices <- MCSlices
    Spans <- AnySpan
    Readahead = 1
    MaxVersion = 2
    Reported <- AllStrong
    MaxRestarts = 1
    MaxPurges = 0
    MaxHours = 0
    MaxDisconnects = 0
    Evicting = TRUE
    Failing = TRUE
    StaleOnError = TRUE
    NoCell = NoCell
CHECK_DEADLOCK FALSE
SYMMETRY Interchangeable
INVARIANT
    NoMixedResponse
