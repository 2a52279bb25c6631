SPECIFICATION MCSpec
CONSTANTS
    Q = 2
    Turns = {"maintenance", "status"}
    Users = {}
    AlgoOutcomes = {"failed"}
    CloseOutcomes = {"filled", "partial", "rejected"}
    Faults = {"read", "clock", "request", "reply", "capture", "authority", "crash"}
    MaxFaults = 1
    Parts = {"exit", "users", "cancels", "covered", "removing", "census", "sampled", "plan", "stops", "previews", "sizing", "precise", "price", "bars", "operators", "position"}
INVARIANTS
    OnePostPerKey
    CloseAfterEntryEnds
    ReceiptsHold
    UsersAreSafe
    EvidenceIsOneGeneration
PROPERTIES
    LossLimitsHold
    StrategyIsOrderly
CHECK_DEADLOCK FALSE
