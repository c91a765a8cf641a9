SPECIFICATION FairSpec
CONSTANTS
    Ports = {p1, p2}
    p1 = p1
    p2 = p2
    Configured <- MCConfigured
    Loop <- MCLoop
    Threads = {t1, t2, t3}
    Connections = {c1, c2}
    MaxParts = 2
    NoPort = NoPort
    NoConnection = NoConnection
INVARIANTS
    OpenIsServed
PROPERTIES
    PendingIsAccepted
    ConnectionsEnd
CHECK_DEADLOCK FALSE
