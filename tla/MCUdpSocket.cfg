CONSTANTS
    Threads = {t1, t2, t3}
    Sockets = {s1, s2, s3}
    Sharing = {s1, s2}
    First = {s2}
    None = None
    QueueMax = 1
    Careless = {}
SPECIFICATION Spec
SYMMETRY Symmetry
INVARIANTS
    ReadersAgree
    BindersAgree
    NoBinderBesidesFreePort
    NoReaderBesidesData
