SPECIFICATION FairSpec
CONSTANTS
    i1 = i1
    i2 = i2
    NoInstance = NoInstance
    Instance = {i1}
    Initial = {{}, {i1}}
    Kind = {"parameter"}
    MaxChanges = 1
    MaxFaults = 0
    MaxMoves = 1
    Concurrency = 1
    MaxAttempts = 3
    Deadlines = 3
PROPERTIES
    Propagates
CHECK_DEADLOCK FALSE
