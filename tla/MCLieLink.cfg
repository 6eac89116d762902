CONSTANTS
    None = None
    DefaultLIEHoldtime = 2
    MultipleNeighborsLIEHoldtimeMultiplier = 2
    SystemIDs = {1, 2, 3}
    Levels = {0, 1}
    Addresses = {1, 2, 3}
    LinkIDs = {1, 2, 3}
    FloodPorts = {1}
    Holdtimes = {2}
    Stations <- MCStations
    Spares <- MCSpares
    AgeCap = 5
    MaxLosses = 3
    MaxRestarts = 2
SPECIFICATION FairSpec
INVARIANTS
    TypeOK
    OneSidedIsBounded
    NoFalseMultipleNeighbors
PROPERTIES
    AdjacencyForms
