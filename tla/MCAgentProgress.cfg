CONSTANTS
    None = None
    Ifaces = {e1}
    AdjEventCap = 2
    AdjChangeCap = 1
    MaxInstances = 1
    MaxSockets = 2
    MaxLieChanges = 4
    MaxConfigs = 0
SPECIFICATION FairSpec
PROPERTIES
    EventsAreHandled
    CancelledLoopsEnd
CHECK_DEADLOCK FALSE
