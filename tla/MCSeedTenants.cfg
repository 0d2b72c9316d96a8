SPECIFICATION Spec
CONSTANTS
    r1 = r1
    r2 = r2
    Run = {r1, r2}
    Absent = Absent
    Gone = Gone
    Handmade <- Handmades
    MaxFaults = 1
    MaxChanges = 1
INVARIANTS
    TypeOK
    SuccessMeansSeeded
    UsersComeLast
    NoGroupHasACause
    NoTagsHaveACause
SYMMETRY Symmetry
CHECK_DEADLOCK FALSE
