CONSTANTS
    Threads = {t1, t2}
    Mss = 2
    WindowDefault = 4
    Caps = {0, 3}
    PoolRunsDry = TRUE
    Total = 5
SPECIFICATION FairSpec
INVARIANTS
    QueueInOrder
    WindowIsFree
    PromiseKept
    NoReaderBesidesData
PROPERTIES
    EdgeNeverRecedes
    StreamKept
    Completes
    PeerSatisfied
