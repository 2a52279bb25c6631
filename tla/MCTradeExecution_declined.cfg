SPECIFICATION MCSpec
CONSTANTS
    Intent = {"i1"}
    Executor = {"e1", "e2"}
    Reconciler = {}
    MaxTries = 1
    MaxQueue = 2
    MaxRevision = 1
    MaxNoise = 0
    MaxFaults = 0
    Parts = {"faults"}
INVARIANTS
    DeclinedMeansNoReservation
CHECK_DEADLOCK FALSE
