CONSTANTS
    s1 = s1
    s2 = s2
    echo = echo
    ping = ping
    Streams = {s1, s2}
    Protocols = {echo, ping}
    ProtocolOf <- MCProtocolOf
    NumServices = 2
    ShutdownTimeouts = {0, 1}
    MaxStarts = 2
SPECIFICATION Spec
CHECK_DEADLOCK FALSE
INVARIANTS ServicesStacked NothingHeldWhenDown CountedStreamsDrained OnlyStraysPanic
PROPERTIES NoStreamAcceptedWhileClosing ServeReturns
