SPECIFICATION Spec
CONSTANTS
    t1 = t1
    t2 = t2
    r1 = r1
    r2 = r2
    g1 = g1
    g2 = g2
    Tenant = {t1}
    Request = {r1, r2}
    Gateway = {g1}
    Amounts = {0, 1}
    Kinds = {"create"}
    MaxUpdates = 1
    GivenId = {}
    Blank = Blank
    Bodies <- PlainBodies
    None = None
    Error = Error
    Data = Data
    Default = Default
INVARIANTS
    OrderMeetsItsMinimum
CHECK_DEADLOCK FALSE
