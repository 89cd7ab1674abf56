SPECIFICATION Spec
CONSTANTS
    c1 = c1
    c2 = c2
    c3 = c3
    Conns = {c1, c2, c3}
    PeerOf <- MCPeerOf
    Outbound = {c2, c3}
    Relayed = {c2}
    Wide <- MCWide
    Loopback = {"lo"}
    Settings <- MCSettings
    MaxInt = 7
    HighShare = 2
    LowShare = 2
    TransientShare = 2
    MinTransient = 1
    Subnets = 2
INVARIANT TableReached
PROPERTIES RefusedOnlyAtCap  CallbacksRun
CHECK_DEADLOCK FALSE
