SPECIFICATION Spec
CONSTANTS
    t1 = t1
    t2 = t2
    n1 = n1
    n2 = n2
    None = None
    Tenant = {t1, t2}
    Name = {n1, n2}
    Token <- Tokens
    Call = {r1, r2}
    Batches <- KeyLists
    MaxTime = 1
    MaxChanges = 1
    MaxFaults = 1
INVARIANTS
    TypeOK
    OnlyVerifiedCallersAreServed
    OwnActiveConfiguration
    BatchIsOfOneLoad
    
SYMMETRY Symmetry
CHECK_DEADLOCK FALSE
