SPECIFICATION MCSpec
CONSTANTS
    Intent = {"i1"}
    Executor = {"e1"}
    Reconciler = {"m1"}
    MaxTries = 2
    MaxQueue = 2
    MaxRevision = 2
    MaxNoise = 1
    MaxFaults = 1
    Parts = {"faults", "pair", "race"}
INVARIANTS
    AtMostOnePost
    ExposureIsReserved
    RevokedNeverSent
    AckedMeansFinal
    RivalsSendOne
PROPERTIES
    TerminalIsFinal
    WorkerIsReservation
CHECK_DEADLOCK FALSE
