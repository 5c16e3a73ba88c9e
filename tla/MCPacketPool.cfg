\* Three packets, three threads, the IP thread and the driver: every interleaving
\* of acknowledgement, completion, retransmission and release of three packets.
CONSTANTS
    Packets = {p1, p2, p3}
    Threads = {t1, t2, t3}
    IpThread = ip
    Driver = isr
    NoPacket = null
SPECIFICATION Spec
SYMMETRY Symmetry
INVARIANTS
    TypeOK
    ExclusiveOwner
    ReleaseAccepted
    DriverExclusive
    CountsAgree
    WaitersServed

PROPERTY
    FirstComeFirstServed
