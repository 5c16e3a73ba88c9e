CONSTANTS
    Threads = {t1, t2, t3}
    Sockets = {s1, s2, s3}
    Sharing = {}
    First = {}
    None = None
    QueueMax = 1
    Careless = {"behind"}
SPECIFICATION Spec
SYMMETRY Symmetry
INVARIANTS BindersAgree

