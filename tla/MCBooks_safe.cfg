SPECIFICATION MCSpec
CONSTANTS
    Intent = {"i1"}
    Retention = 2
    Limit = 1
    MaxDay = 3
    MaxGeneration = 2
    MaxAborts = 1
    Parts = {"recovery", "worker", "upkeep", "files", "lots", "costs", "capture", "skewed", "captures", "assign", "summary", "page", "types"}
INVARIANTS
    ClearedKnowsOrders
    ClearedHoldsCentral
    CommitsSurvive
    LedgerBalances
    CapitalIsReplay
PROPERTIES
    HistoryIsWhole
CHECK_DEADLOCK FALSE
