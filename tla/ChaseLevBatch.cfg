SPECIFICATION BatchSpec
CONSTANTS
    Thieves = {q}
    Batchers = {q}
    CAPACITY = 8
    BATCH = 2
    WIDTH = 16
    MaxTasks = 4
    MaxLive = 4
    Pops = TRUE
INVARIANTS
    TakenOnce
