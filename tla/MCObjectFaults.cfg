SPECIFICATION FairSpec
CONSTANTS
    r1 = r1
    r2 = r2
    r3 = r3
    Requests <- TwoRequests
    Slices <- MCSlices
    Spans <- WholeObject
    Readahead = 1
    MaxVersion = 2
    Reported <- ThenWeak
    MaxRestarts = 1
    MaxPurges = 1
    MaxHours = 1
    MaxDisconnects = 1
    Evicting = TRUE
    Failing = TRUE
    StaleOnError = TRUE
    NoCell = NoCell
CHECK_DEADLOCK FALSE
INVARIANTS
    SelfDescribing
    FlightsAreLed
PROPERTIES
    RequestsEnd
