SPECIFICATION Spec
CONSTANTS
    Threads = {s, t, u}
    CAPACITY = 2
    MaxTasks = 4
INVARIANTS
    TicketsMatch
    RefusalsJustified
PROPERTIES
    ImplementsFifoQueue
