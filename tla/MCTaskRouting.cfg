SPECIFICATION FairSpec
CONSTANTS
    Workers = {"v", "w"}
    IOWorkers = {"io"}
    Externals = {"main"}
    Main = "main"
    Helpers = {"main"}
    Awaited = {"a"}
    Tasks = {"a", "b", "c", "e", "h", "i", "m", "n"}
    Domain <- MixDomain
    Priority <- MixPriority
    Calls <- MixCalls
    QUEUE = 1
    IOQUEUE = 1
    BATCH = 2
    USIZE = 4
    None = None
INVARIANTS NothingLost MainCountExact
PROPERTIES ImplementsMainQueue AllTasksRun
CHECK_DEADLOCK FALSE
