SPECIFICATION FairSpec
CONSTANTS
    U32Max = 3
    SliceSize = 3
    Readahead = 2
    Totals <- MCTotals
    Specs <- ParsedSpecs
CHECK_DEADLOCK FALSE
INVARIANTS
    FramesTile
    CompleteIsWhole
    AbortedIsShort
PROPERTIES
    ResponseEnds
