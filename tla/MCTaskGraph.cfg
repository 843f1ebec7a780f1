SPECIFICATION FairSpec
CONSTANTS
    Nodes <- GraphNodes
    Edges <- GraphEdges
    Source <- MCSource
    Target <- MCTarget
    Branch <- MCBranch
    LoopBack <- MCLoopBack
    Conditions <- GraphConditions
    Branches = {0, 1}
    Domain <- GraphDomain
    Threads <- MCThreads
    Caller = "main"
    Serves <- MCServes
    Inlines <- MCInlines
    MAX_VISITED = 128
    MAX_CYCLE = 64
    HALF = 5
    None = None
INVARIANTS
    TypeOK
    PredecessorsFirst
    ReleasedOnce
    CompletedIsQuiescent
    SkippedIffNoActiveEdge
PROPERTIES
    FinishedStaysFinished
    RunTerminates
