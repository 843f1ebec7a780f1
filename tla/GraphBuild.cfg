SPECIFICATION Spec
CONSTANTS
    MAX_VISITED = 6
    USIZE = 16
    Counts = {0, 2, 5}
    BatchSizes = {0, 2}
    MaxNodes = 5
    MaxCalls = 6
INVARIANTS
    RunCanComplete
    ParallelForComplete
