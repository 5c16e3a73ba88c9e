CONSTANTS
    Sockets = {s1, s2}
    Clients = {c1, c2}
    None = None
    Backlog = 1
    CacheSize = 2
    SocketIsShared = FALSE
    MaxIrs = 2
    MaxOthers = 1
    MaxNet = 2
SPECIFICATION Spec
SYMMETRY Symmetry
INVARIANTS
    TypeOK
    OneHome
    Agreement
    NoIdleDeferred
    AcceptIsServed
CHECK_DEADLOCK FALSE
