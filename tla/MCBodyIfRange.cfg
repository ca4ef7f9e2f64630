SPECIFICATION Spec
CONSTANTS
    U32Max = 3
    SliceSize = 3
    Readahead = 2
    Totals <- MCTotals
    Specs <- ParsedSpecs
INVARIANT
    IfRangeHonoured
