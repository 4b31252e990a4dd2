SPECIFICATION SdkSpec
CONSTANTS
    h1 = h1
    h2 = h2
    s1 = s1
    s2 = s2
    b1 = b1
    b2 = b2
    b3 = b3
    b4 = b4
    Build = Build
    a1 = a1
    a2 = a2
    a3 = a3
    e1 = e1
    e2 = e2
    r1 = r1
    r2 = r2
    w1 = w1
    w2 = w2
    w3 = w3
    None = None
    Hosts = {h1, h2}
    Streams = {s1, s2}
    GateMixes <- MCGateMixes
    Calls = {b1, b2, b3, b4, Build}
    Mixes <- MCClientMixes
    StartCalls = {a1, a2, a3}
    StartMixes <- MCStartMixes
    Nil = Nil
    Execs = {e1, e2}
    Readers = {r1, r2}
    Of <- MCOf
    ExecMixes <- MCExecMixes
    Nobody = Nobody
    Boxes = {w1, w2, w3}
    Items = 3
    MaxAttempts = 2
    FlowMixes <- MCFlowMixes
INVARIANTS
    PendingExecsThrow
CHECK_DEADLOCK FALSE
