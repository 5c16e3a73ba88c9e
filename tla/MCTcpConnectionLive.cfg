CONSTANTS
    Ends = {a, b}
    MaxRetries = 1
    Msl2 = 2
    Window = 2
    MaxTime = 1
    QuickReopen = FALSE
    MaxNet = 2
SPECIFICATION Spec
PROPERTY Settles
CHECK_DEADLOCK FALSE
