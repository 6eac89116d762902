CONSTANTS
    None = None
    Prefixes <- MCPrefixes
    RIBs <- MCRIBs
    MaxFailures = 3
SPECIFICATION Spec
INVARIANTS
    TypeOK
    CleanSyncReplacesRoutes
    NoDanglingRoute
    WrongOnlyIfSuspect
PROPERTIES
    NoBlink
CHECK_DEADLOCK FALSE
