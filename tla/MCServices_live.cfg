SPECIFICATION MCFairSpec
CONSTANTS
    Version <- MCVersion
    Initial = "v0"
    Process = {"p1", "p2", "p3"}
    Scripts <- FewScripts
    None = None
    MaxCrashes = 1
    Parts = {"update", "wanted", "answers", "poll", "rooting", "drain", "research", "asking"}
PROPERTIES
    ServicesGoOn
CHECK_DEADLOCK FALSE
