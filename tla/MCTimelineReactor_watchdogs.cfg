SPECIFICATION Spec
CONSTANTS
    Tasks <- RaceTasks
    Successors <- RaceSuccessors
    Waits <- RaceWaits
    TaskOf <- RaceTaskOf
    Handles = {"gpu"}
    Handle <- Timeline
    Value <- RaceValue
    Timeout <- AllAtOne
    Notifiers = {}
    Pollers = {"caller","idle"}
    Caller = "caller"
    Device = TRUE
    MaxValue = 2
    MaxClock = 1
    None = None
INVARIANTS RunsAfterSignal CompletedMeansDone TimeoutReported CountsWaits

