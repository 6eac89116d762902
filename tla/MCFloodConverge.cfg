CONSTANTS
    None = None
    Nodes = {1, 3}
    Level <- MCLevel
    TieIDs <- MCBothWays
    DefaultLifetime = 9
    LifetimeDiff2Ignore = 0
    ReoriginateBeforeExpiry = 2
    MaxTIDEHeaders = 1
    Links <- MCPairLinks
    LocalPrefixes <- MCFixedPrefixes
    DisaggSets <- MCDisagg
    MaxFlaps = 0
    MaxFaults = 1
    MaxRestarts = 1
    MaxDisagg = 2
    MaxTicks = 1
    MaxTotal = 2
SPECIFICATION FairSpec
PROPERTIES
    Converges
CHECK_DEADLOCK FALSE
