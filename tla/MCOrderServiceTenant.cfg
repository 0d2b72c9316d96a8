SPECIFICATION Spec
CONSTANTS
    t1 = t1
    t2 = t2
    r1 = r1
    r2 = r2
    g1 = g1
    g2 = g2
    Tenant = {t1, t2}
    Request = {r1, r2}
    Gateway = {g1, g2}
    Amounts = {0}
    Kinds = {"create"}
    MaxUpdates = 0
    GivenId = {}
    Blank = Blank
    Bodies <- PlainBodies
    None = None
    Error = Error
    Data = Data
    Default = Default
INVARIANTS
    OrdersUseOwnConfig
CHECK_DEADLOCK FALSE
