SPECIFICATION FairSpec
CONSTANTS
    r1 = r1
    r2 = r2
    Requests <- MCRequests
    Tasks <- MCTasks
    Length <- Shrinks
    NoFill = NoFill
CHECK_DEADLOCK FALSE
INVARIANTS
    OneFiller
    ReadyIsReadable
PROPERTIES
    WakesAtItsSlice
    FillsEnd
