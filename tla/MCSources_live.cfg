SPECIFICATION MCFairSpec
CONSTANTS
    Skews <- MCSkews
    Jumps <- MCJumps
    MaxRtt = 3
    MaxAge = 2
    MaxOffset = 5
    MaxTtl = 5
    Deadline = 6
    MaxTime = 8
    None = None
    Parts = {"recovering", "readback", "serving", "recording", "answering", "demand", "rivals"}
PROPERTIES
    SourcesServe
CHECK_DEADLOCK FALSE
