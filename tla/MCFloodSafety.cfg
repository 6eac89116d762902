CONSTANTS
    None = None
    Nodes = {1, 2, 3}
    Level <- MCLevel
    TieIDs <- MCNodeTIE
    DefaultLifetime = 9
    LifetimeDiff2Ignore = 0
    ReoriginateBeforeExpiry = 2
    MaxTIDEHeaders = 25
    Links <- MCLeavesLinks
    LocalPrefixes <- MCFixedPrefixes
    DisaggSets <- MCNoDisagg
    MaxFlaps = 1
    MaxFaults = 2
    MaxRestarts = 1
    MaxDisagg = 0
    MaxTicks = 0
    MaxTotal = 3
SPECIFICATION Spec
INVARIANTS
    TypeOK
    VersionDeterminesContent
    OriginatorIsAhead
    ScopeRespected
PROPERTIES
    NoRegression
CHECK_DEADLOCK FALSE
