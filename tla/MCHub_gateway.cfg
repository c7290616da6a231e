\* Two connections over a limit of one, two events of their location and one of another.
SPECIFICATION FairSpec
CONSTANTS
    c1 = c1
    c2 = c2
    e1 = e1
    e2 = e2
    e3 = e3
    Connections = {c1, c2}
    Events = {e1, e2, e3}
    Scope <- TwoLocations
    None = None
    Buffer = 1
    ConnectionLimit = 1
CHECK_DEADLOCK FALSE
INVARIANTS TypeOK NoSilentLoss MetricsBalance
PROPERTIES NoSendOnClosed SlowPeerIsCut
