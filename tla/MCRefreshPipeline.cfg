SPECIFICATION FairSpec
CONSTANTS
    i1 = i1
    i2 = i2
    NoInstance = NoInstance
    Instance = {i1, i2}
    Initial = {{}, {i1}, {i1, i2}}
    Kind = {"parameter", "clash", "secret"}
    MaxChanges = 2
    MaxFaults = 1
    MaxMoves = 1
    Concurrency = 2
    MaxAttempts = 2
    Deadlines = 2
INVARIANTS
    TypeOK
    DoneMeansLoaded
PROPERTIES
    EventsSettle
    PropagatesWhenQuiet
CHECK_DEADLOCK FALSE
