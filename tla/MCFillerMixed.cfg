SPECIFICATION Spec
CONSTANTS
    r1 = r1
    r2 = r2
    Requests <- MCRequests
    Tasks <- MCTasks
    Length <- Constant
    NoFill = NoFill
CHECK_DEADLOCK FALSE
INVARIANT
    OneVersionPerResponse
