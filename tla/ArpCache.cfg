\* Two entries for three addresses, so that entries in use are taken over; two
\* packets may wait at an entry and the third pushes the first out.
CONSTANTS
    Entries = {e1, e2}
    Addresses = {a1, a2, a3}
    Packets = {p1, p2, p3}
    None = none
    MaxDepth = 2
    MaxRetries = 1
    UpdateRate = 1
    ExpirationRate = 2
    MaxRestarts = 1
SPECIFICATION Spec
INVARIANTS
    ListsAgree
    WaitHasTimer
    SentToItsAddress
PROPERTY
    WaitEnds
