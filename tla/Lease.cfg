SPECIFICATION BootSpec
CONSTANTS
    Instances = {p1, p2, p3}
    p1 = p1
    p2 = p2
    p3 = p3
    None = None
    TtlMs = 5
    Late <- Lateness
    MaxSkips = 1
    MaxTime = 8
    N = 3
    MaxTurns = 2
    MaxRestarts = 1
SYMMETRY Punctual
INVARIANTS
    DriverOwnsRow
    WaitKeepsItsWord
PROPERTIES
    DisplacedKeepsOff
    BootIsDecided
CHECK_DEADLOCK FALSE
