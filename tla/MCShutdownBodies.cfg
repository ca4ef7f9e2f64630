SPECIFICATION Spec
CONSTANTS
    Handlers = {h1, h2}
CHECK_DEADLOCK FALSE
INVARIANT
    FinishedMeansStreamed
