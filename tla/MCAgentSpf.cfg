CONSTANTS
    None = None
    Topologies <- MCTopologies
    ToDisaggregate <- MCDisagg
    Leaf = FALSE
    MaxChanges = 3
SPECIFICATION Spec
INVARIANTS
    TypeOK
    NoLostWakeup
PROPERTIES
    RoutesCatchUp
    DisaggCatchesUp
    SpfSettlesWithoutDisagg
CHECK_DEADLOCK FALSE
