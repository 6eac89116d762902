CONSTANTS
    None = None
    Nodes = {1, 3}
    Level <- MCLevel
    TieIDs <- MCPrefixTIE
    DefaultLifetime = 4
    LifetimeDiff2Ignore = 1
    ReoriginateBeforeExpiry = 2
    MaxTIDEHeaders = 25
    Links <- MCPairLinks
    LocalPrefixes <- MCFixedPrefixes
    DisaggSets <- MCNoDisagg
    MaxFlaps = 0
    MaxFaults = 0
    MaxRestarts = 0
    MaxDisagg = 0
    MaxTicks = 3
    MaxTotal = 9
SPECIFICATION Spec
INVARIANTS
    EngineKeepsRunning
CHECK_DEADLOCK FALSE
