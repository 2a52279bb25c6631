SPECIFICATION MCFairSpec
CONSTANTS
    Q = 2
    Turns = {"maintenance"}
    Users = {}
    AlgoOutcomes = {"failed"}
    CloseOutcomes = {"filled"}
    Faults = {"clock"}
    MaxFaults = 1
    Parts = {"exit"}
PROPERTIES
    UncoveredIsLeft
CHECK_DEADLOCK FALSE
