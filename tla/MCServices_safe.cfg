SPECIFICATION MCSpec
CONSTANTS
    Version <- MCVersion
    Initial = "v0"
    Process = {"p1", "p2", "p3"}
    Scripts <- SomeScripts
    None = None
    MaxCrashes = 2
    Parts = {"update", "agent", "mail", "poll", "tagged", "untagged", "root", "bridge", "log", "retry", "retention", "pages", "paged", "shared", "rank", "screen", "walk"}
INVARIANTS
    CandidateNeedsAck
    CommittedWasReady
    ActiveIsAccepted
    MarketAnswersAreWhole
PROPERTIES
    HostIsSafe
    ControlIsOrderly
    ResearchIsOrderly
CHECK_DEADLOCK FALSE
