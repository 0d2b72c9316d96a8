SPECIFICATION FairSpec
CONSTANTS
    v1 = v1
    v2 = v2
    l1 = l1
    l2 = l2
    Value = {v1}
    Absent = Absent
    NoLoad = NoLoad
    Load = {l1, l2}
    NParam = 3
    EmptyPages = FALSE
    Prefix <- PrefixFirst
    Refused = {2}
    Inherited = {3}
    MaxWrites = 2
    MaxFaults = 1
INVARIANTS
    TypeOK
    CacheWasReadable
    MapsAgree
PROPERTIES
    FailedRefreshKeepsMaps
    ImplementsContract
    LoadsEnd
    EventuallyServes
    NeverOlderWhenSerial
