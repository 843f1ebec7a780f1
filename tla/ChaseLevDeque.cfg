SPECIFICATION Spec
CONSTANTS
    Thieves = {p, q}
    CAPACITY = 2
    WIDTH = 16
    MaxTasks = 5
    MaxLive = 5
    Pops = TRUE
INVARIANTS
    TakenOnce
    EmptyMeansNothingLeft
    QuietNothingLost
PROPERTIES
    ImplementsStealDeque
