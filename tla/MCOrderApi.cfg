SPECIFICATION ApiSpec
CONSTANTS
    t1 = t1
    t2 = t2
    r1 = r1
    r2 = r2
    g1 = g1
    c1 = c1
    c2 = c2
    x = x
    Tenant = {t1, t2}
    Request = {r1, r2}
    Gateway = {}
    Amounts = {0, 1}
    Kinds = {"create", "findAll", "findOne"}
    MaxUpdates = 1
    GivenId = {x}
    Blank = Blank
    Bodies <- AllBodies
    None = None
    Error = Error
    Data = Data
    Default = Default
    Token <- Tokens
    Http <- Requests
    Constraint = {c1, c2}
    MaxTime = 1
    MaxFaults = 1
INVARIANTS
    ApiTypeOK
    StatusTells
    NobodyActsForOthers
    UncheckedHasACause
    ErrorsTellAll
    NoConfigMeansFetchFailed
    OwnOrderIsFound
    OneOrderPerCreate
    ListsAreCurrent
    TypeOK
PROPERTIES
    ImplementsOrderBook
SYMMETRY Symmetry
CHECK_DEADLOCK FALSE
