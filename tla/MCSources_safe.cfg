SPECIFICATION MCSpec
CONSTANTS
    Skews <- MCSkews
    Jumps <- MCJumps
    MaxRtt = 3
    MaxAge = 2
    MaxOffset = 5
    MaxTtl = 5
    Deadline = 6
    MaxTime = 8
    None = None
    Parts = {"clock", "rate", "rateAlgo", "rateQueue", "market", "strays", "private", "oco", "registry", "shared", "window", "trace", "diagnosis", "search", "wide"}
INVARIANTS
    NoLateAcceptance
    BudgetIsKept
PROPERTIES
    StreamsAreTrue
    RegistryIsSound
    DiagnosesAreTrue
CHECK_DEADLOCK FALSE
