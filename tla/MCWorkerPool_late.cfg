SPECIFICATION Spec
CONSTANTS
    Workers = {v, w}
    IOWorkers = {}
    Producers = {p}
    Tasks = {"a", "b", "c", "e"}
    IOTasks = {}
    External <- Pair
    Children <- TreeChildren
    StoreBuffer = TRUE
    MayShutdown = TRUE
    None = None
INVARIANTS OnlyLateMissed ShutdownDrainsDeques
CHECK_DEADLOCK FALSE
