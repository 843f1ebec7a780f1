SPECIFICATION Spec
CONSTANTS
    MAX_VISITED = 6
    USIZE = 16
    Counts = {}
    BatchSizes = {0, 2}
    MaxNodes = 3
    MaxCalls = 7
INVARIANT PrecedesUnlessCycle
