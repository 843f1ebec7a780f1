SPECIFICATION Spec
CONSTANTS
    Workers = {w}
    IOWorkers = {}
    Producers = {p}
    Tasks = {"a"}
    IOTasks = {}
    External <- Root
    Children <- TreeChildren
    StoreBuffer = TRUE
    MayShutdown = FALSE
    None = None
INVARIANT NoSleepOnWork
CHECK_DEADLOCK FALSE
