CONSTANTS
    Threads = {t1, t2}
    Mss = 2
    QueueMax = 2
    MaxRetries = 1
    SackBuild = TRUE
    PoolRunsDry = FALSE
    Lossy = FALSE
    MaxSeq = 3
    MaxLen = 2
    MaxWindow = 2
    MaxSegs = 1
    MaxAcks = 2
SPECIFICATION Spec
SYMMETRY Symmetry
INVARIANTS
    QueueIsUnacked
    TimerRunsWhenNeeded
    WaiterHasWakeup
    ReleasedIsDelivered
    WithinWindow
CHECK_DEADLOCK FALSE
