SPECIFICATION SignalsSpec
CONSTANTS
    k1 = k1
    k2 = k2
    k3 = k3
    k4 = k4
    None = None
    Requests = {k1, k2, k3, k4}
    MaxPolls = 2
    Mixes <- CommandMixes
    BACKPRESSURE_PERSISTED_LIMIT = 2
    MaxRows = 7
    MaxWaits = 2
    MaxLosses = 2
    Window = 2
    MaxWire = 2
    MaxTimers = 2
    PromptMixes <- MCPromptMixes
INVARIANTS
    FramesReachTheCaller
CHECK_DEADLOCK FALSE
