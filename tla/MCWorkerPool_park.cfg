SPECIFICATION FairSpec
CONSTANTS
    Workers = {v, w}
    IOWorkers = {}
    Producers = {p}
    Tasks = {"a", "b", "c"}
    IOTasks = {}
    External <- Root
    Children <- TreeChildren
    StoreBuffer = FALSE
    MayShutdown = TRUE
    None = None
INVARIANTS NoSleepOnWork ShutdownDrainsDeques
PROPERTY ScheduledRuns
CHECK_DEADLOCK FALSE
