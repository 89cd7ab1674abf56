CONSTANTS
    s1 = s1
    s2 = s2
    echo = echo
    ping = ping
    Streams = {s1}
    Protocols = {echo, ping}
    ProtocolOf <- MCProtocolOf
    NumServices = 2
    ShutdownTimeouts = {1}
    MaxStarts = 1
SPECIFICATION Spec
CHECK_DEADLOCK FALSE
INVARIANTS DrainedMeansIdle
