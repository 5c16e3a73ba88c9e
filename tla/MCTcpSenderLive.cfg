CONSTANTS
    Threads = {t1, t2}
    Mss = 2
    QueueMax = 2
    MaxRetries = 1
    SackBuild = TRUE
    PoolRunsDry = TRUE
    Lossy = TRUE
    MaxSeq = 2
    MaxLen = 2
    MaxWindow = 2
    MaxSegs = 1
    MaxAcks = 1
SPECIFICATION FairSpec
PROPERTY QueueDrains
CHECK_DEADLOCK FALSE
