CONSTANTS
    None = None
    Nodes = {1, 2, 3, 4, 5}
    Leaves = {3, 4, 5}
    Prefixes = {"p", "q", "r"}
    LeafPrefixes <- MCLeafPrefixes
    Starts <- MCStarts
SPECIFICATION Spec
INVARIANTS
    TypeOK
    BystandersUndisturbed
PROPERTIES
    TrafficFlows
    DisaggSettles
CHECK_DEADLOCK FALSE
