CONSTANTS
    None = None
    DefaultLIEHoldtime = 1
    MultipleNeighborsLIEHoldtimeMultiplier = 2
    SystemIDs = {1, 2, 3}
    Levels = {0, 1, 2, 3}
    Addresses = {1, 2, 3}
    LinkIDs = {1, 2}
    FloodPorts = {1, 2}
    Holdtimes = {1}
    Self <- MCSelf
    Packets <- MCTwoPackets
    AgeCap = 3
    StateChangeCap = 2
SPECIFICATION Spec
INVARIANTS
    HoldtimeBoundsAdjacency
