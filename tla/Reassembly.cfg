\* Two datagrams of three units, cut in every way, and room for four fragments:
\* the limit is met while both are incomplete.
CONSTANTS
    Datagrams = {d1, d2}
    Size = 3
    PoolTotal = 8
    Reserve = 4
    MaxTime = 1
    MaxReceived = 2
SPECIFICATION Spec
INVARIANT
    DispatchedIsWhole
PROPERTY
    BegunEnds
