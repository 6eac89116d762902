CONSTANTS
    None = None
    Nodes = {1, 2, 3, 4}
    Prefixes = {"p", "q"}
    Snapshots <- MCSnapshots
SPECIFICATION SpfSpec
INVARIANTS
    DijkstraInv
    SolvesEquations
PROPERTIES
    ComputesShortestPaths
CHECK_DEADLOCK FALSE
