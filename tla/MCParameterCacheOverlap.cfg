SPECIFICATION Spec
CONSTANTS
    v1 = v1
    v2 = v2
    l1 = l1
    l2 = l2
    Value = {v1, v2}
    Absent = Absent
    NoLoad = NoLoad
    Load = {l1, l2}
    NParam = 1
    EmptyPages = FALSE
    Prefix <- FlatPaths
    Refused = {}
    Inherited = {}
    MaxWrites = 1
    MaxFaults = 0
INVARIANTS
    NeverOlderThanAcked
