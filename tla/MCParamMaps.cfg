SPECIFICATION Spec
CONSTANTS
    Path <- MixedPaths
    Dangerous = {"__proto__", "constructor", "prototype"}
    Inherited = {"__proto__", "constructor", "toString"}
    Root = "config-service"
    Env = "dev"
    Tenant = {"acme", "globex"}
    MaxItems = 5
INVARIANTS
    TypeOK
    TreeThrowsOnCollision
    TreeServes
    GroupsServe
    ObjectsHaveAValueBelow
CHECK_DEADLOCK FALSE
