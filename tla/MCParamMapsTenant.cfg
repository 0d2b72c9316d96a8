SPECIFICATION Spec
CONSTANTS
    Path <- SeededPaths
    Dangerous = {"__proto__", "constructor", "prototype"}
    Inherited = {"__proto__", "constructor", "toString"}
    Root = "config-service"
    Env = "dev"
    Tenant = {"acme", "globex"}
    MaxItems = 4
INVARIANTS
    OwnParameterIsReturned
CHECK_DEADLOCK FALSE
