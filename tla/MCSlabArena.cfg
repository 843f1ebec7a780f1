SPECIFICATION FairSpec
CONSTANTS
    Threads = {"t", "u"}
    InitialSlabs = 2
    ChunkSlabs = 3
    AllowGrowth = TRUE
    MaxChunks = 2
    USIZE = 16
    SLAB_SIZE = 8
    CACHELINE_SIZE = 4
    MIN_ALIGN = 2
    HEADER = 2
    ADDRESSES = 128
    Base <- MCBase
    Requests <- MCRequests
    MaxOps <- MCMaxOps
INVARIANTS OneOwner AvailableExact BlocksDisjoint
PROPERTY CallsReturn
CHECK_DEADLOCK FALSE
