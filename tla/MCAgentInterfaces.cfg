CONSTANTS
    None = None
    Ifaces = {e1, e2}
    AdjEventCap = 2
    AdjChangeCap = 1
    MaxInstances = 2
    MaxSockets = 2
    MaxLieChanges = 4
    MaxConfigs = 2
SYMMETRY MCSymmetry
SPECIFICATION Spec
INVARIANTS
    TypeOK
    ReceiveLoopServes
    NoSocketLeak
    FollowsLie
CHECK_DEADLOCK FALSE
