SPECIFICATION FairSpec
CONSTANTS
    Workers = {w}
    IOWorkers = {i}
    Producers = {p}
    Tasks = {"a", "b", "c", "io"}
    IOTasks = {"io"}
    External <- Root
    Children <- TreeChildren
    StoreBuffer = TRUE
    MayShutdown = TRUE
    None = None
INVARIANTS OnlyLateMissed NoIOSleepOnWork
PROPERTY ShutdownTerminates
CHECK_DEADLOCK FALSE
