CONSTANTS
    Ends = {a, b}
    MaxRetries = 0
    Msl2 = 1
    Window = 1
    MaxTime = 2
    QuickReopen = FALSE
    MaxNet = 3
SPECIFICATION Spec
SYMMETRY Symmetry
INVARIANTS
    SameConnection
    WaitHasCause
CHECK_DEADLOCK FALSE
