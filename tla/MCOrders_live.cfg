SPECIFICATION MCFairSpec
CONSTANTS
    Q = 2
    Turns = {"maintenance"}
    Users = {}
    AlgoOutcomes = {"attached", "failed"}
    CloseOutcomes = {"filled", "partial", "rejected"}
    Faults = {"read", "clock", "request", "reply", "capture", "authority", "crash"}
    MaxFaults = 1
    Parts = {"exit", "dead", "planning", "settling", "trade"}
PROPERTIES
    OrdersAreSettled
CHECK_DEADLOCK FALSE
