SPECIFICATION Spec
CONSTANTS
    Batches <- MCBatches
    Rooms = {1, 2}
    CAPACITY = 11
    PTR = 16
    None = None
INVARIANT BatchExact
CHECK_DEADLOCK FALSE
