SPECIFICATION FairSpec
CONSTANTS
    Nodes = {"J", "K", "d", "N", "b", "D", "x", "y", "e", "k"}
    Flows = {"J", "K", "N", "D", "d"}
    Repeaters = {"x"}
    Parent <- NestParent
    Edges <- NestEdges
    Mode <- NestMode
    Exit <- MCExit
    Domain <- NestDomain
    Threads = {"main", "w", "io"}
    Caller = "main"
    Serves <- MCServes
    Inlines = {"main", "w"}
    None = None
INVARIANTS ChildrenFirst ArenasUnused RunsOnce
PROPERTY RunReturns
