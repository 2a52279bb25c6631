SPECIFICATION MCSpec
CONSTANTS
    i1 = i1
    i2 = i2
    Account = {"a1", "a2"}
    RealAccount = {"a1", "a2"}
    Strategy = {"s1"}
    Instrument = {"x1", "x2"}
    MaxAccounts = 2
    Intent = {"i"}
    IntentAccount <- OneAccount
    Plan = {"p1"}
    NoPlan = "none"
    PlanLoss <- OnePlan
    PlanUsd <- OnePlan
    PlanStrategy <- OneStrategy
    PlanInstrument <- OneInstrument
    CampaignLimit = 4
    Window = 1
    LimitChoice <- TwoLimits
    TotalChoice = {4}
    RowChoice <- SomeRows
    OccupiedChoice = {0}
    MaxTime = 2
    MaxRevision = 3
    MaxGeneration = 2
    Parts = {"campaign", "policy"}
SYMMETRY IntentSymmetry
INVARIANTS
    StopRevokesHeld
    CampaignLossHolds
    TwoIntentsHold
PROPERTIES
    ImplementsReservation
CHECK_DEADLOCK FALSE
