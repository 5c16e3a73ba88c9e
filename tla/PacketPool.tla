----------------------------- MODULE PacketPool -----------------------------
(***************************************************************************)
(* One NX_PACKET_POOL and the life of its packets: nx_packet_allocate,      *)
(* nx_packet_release, nx_packet_transmit_release, the pool's suspension     *)
(* list and its timeout (nx_packet_pool_cleanup), with the two owners that  *)
(* share a TCP packet, the socket's transmit list and the network driver.   *)
(*                                                                          *)
(* Three kinds of context release packets: the application's threads, the   *)
(* IP thread (acknowledgements and queue flushes) and the driver's          *)
(* completion interrupt.  nx_packet_release checks the packet's mark before *)
(* it disables interrupts and hands a packet over after it has enabled them *)
(* again, so a release is four steps here and the contexts interleave       *)
(* between any two of them.                                                 *)
(*                                                                          *)
(* Abstracted: the available list and the transmit list are sets (the order *)
(* of neither matters to ownership); a packet is one NX_PACKET, not a       *)
(* chain; payload pointers and lengths are left out.                        *)
(***************************************************************************)
EXTENDS Naturals, Sequences, FiniteSets, SequencesExt

CONSTANTS Packets,      \* the packets of the pool
          Threads,      \* application threads
          IpThread,     \* the context of _nx_ip_thread_entry
          Driver,       \* the context of the driver's transmit-complete interrupt
          NoPacket      \* NX_NULL

ASSUME PoolAssumption ==
    /\ IsFiniteSet(Packets)
    /\ NoPacket \notin Packets
    /\ IpThread \notin Threads
    /\ Driver \notin Threads
    /\ IpThread # Driver

Contexts == Threads \cup {IpThread, Driver}

VARIABLES
    mark,       \* nx_packet_union_next: FREE, ALLOCATED, or a link of the transmit list
    txDone,     \* nx_packet_queue_next = NX_DRIVER_TX_DONE
    free,       \* nx_packet_pool_available_list
    available,  \* nx_packet_pool_available
    waiters,    \* nx_packet_pool_suspension_list, head first
    suspended,  \* nx_packet_pool_suspended_count
    hold,       \* the packet an application thread has a pointer to
    sent,       \* nx_tcp_socket_transmit_sent_head .. tail
    acking,     \* packets an acknowledgement has unlinked and is walking
    driver,     \* packets the driver has been given and has not completed
    rpc,        \* how far each context is inside _nx_packet_release
    rpkt,       \* the packet it releases
    rthr        \* the waiting threads it has unlinked and not yet resumed (at most one)

vars == <<mark, txDone, free, available, waiters, suspended, hold, sent, acking,
          driver, rpc, rpkt, rthr>>

poolVars == <<free, available, waiters, suspended>>
tcpVars == <<sent, acking>>
relVars == <<rpc, rpkt, rthr>>

Marks == {"FREE", "ALLOCATED", "ENQUEUED"}
ReleaseSteps == {"idle", "enter", "checked", "handoff"}

Waiting(t) == \E i \in DOMAIN waiters : waiters[i] = t

\* A running thread: not on the suspension list, not unlinked and about to be
\* resumed, not inside a release of its own.
Ready(t) == /\ ~Waiting(t)
            /\ \A c \in Contexts : t \notin rthr[c]
            /\ rpc[t] = "idle"

TypeOK ==
    /\ mark \in [Packets -> Marks]
    /\ txDone \in [Packets -> BOOLEAN]
    /\ free \subseteq Packets
    /\ available \in Nat
    /\ waiters \in Seq(Threads)
    /\ suspended \in Nat
    /\ hold \in [Threads -> Packets \cup {NoPacket}]
    /\ sent \subseteq Packets
    /\ acking \subseteq Packets
    /\ driver \subseteq Packets
    /\ rpc \in [Contexts -> ReleaseSteps]
    /\ rpkt \in [Contexts -> Packets \cup {NoPacket}]
    /\ rthr \in [Contexts -> SUBSET Threads]

\* nx_packet_pool_create links every packet into the available list.
Init ==
    /\ mark = [p \in Packets |-> "FREE"]
    /\ txDone = [p \in Packets |-> FALSE]
    /\ free = Packets
    /\ available = Cardinality(Packets)
    /\ waiters = <<>>
    /\ suspended = 0
    /\ hold = [t \in Threads |-> NoPacket]
    /\ sent = {}
    /\ acking = {}
    /\ driver = {}
    /\ rpc = [c \in Contexts |-> "idle"]
    /\ rpkt = [c \in Contexts |-> NoPacket]
    /\ rthr = [c \in Contexts |-> {}]

-----------------------------------------------------------------------------
(* nx_packet_allocate *)

\* A packet is available: unlink it, mark it, clear its queue link.
Allocate(t) ==
    /\ Ready(t)
    /\ hold[t] = NoPacket
    /\ available > 0
    /\ \E p \in free :
          /\ free' = free \ {p}
          /\ available' = available - 1
          /\ mark' = [mark EXCEPT ![p] = "ALLOCATED"]
          /\ txDone' = [txDone EXCEPT ![p] = FALSE]
          /\ hold' = [hold EXCEPT ![t] = p]
    /\ UNCHANGED <<waiters, suspended, tcpVars, driver, relVars>>

\* Mutant: the suspended count is not incremented.
AllocateSuspend_NotCounted(t) ==
    /\ Ready(t) /\ hold[t] = NoPacket /\ available = 0
    /\ waiters' = Append(waiters, t)
    /\ UNCHANGED <<mark, txDone, free, available, suspended, hold, tcpVars, driver, relVars>>

\* None is: with a wait option the thread goes to the tail of the suspension
\* list (with NX_NO_WAIT the call returns NX_NO_PACKET and changes nothing).
AllocateSuspend(t) ==
    /\ Ready(t)
    /\ hold[t] = NoPacket
    /\ available = 0
    /\ waiters' = Append(waiters, t)
    /\ suspended' = suspended + 1
    /\ UNCHANGED <<mark, txDone, free, available, hold, tcpVars, driver, relVars>>

\* Mutant: the suspended count is not decremented.
WaitTimeout_NotCounted ==
    /\ \E i \in DOMAIN waiters : waiters' = RemoveAt(waiters, i)
    /\ UNCHANGED <<mark, txDone, free, available, suspended, hold, tcpVars, driver, relVars>>

\* Mutant: the head moves past the removed thread even when it is not the head
\* (what the cleanups of the TCP suspension lists do).
WaitTimeout_HeadMoves ==
    /\ \E i \in DOMAIN waiters :
          waiters' = SubSeq(waiters, i + 1, Len(waiters)) \o SubSeq(waiters, 1, i - 1)
    /\ suspended' = suspended - 1
    /\ UNCHANGED <<mark, txDone, free, available, hold, tcpVars, driver, relVars>>

\* nx_packet_pool_cleanup: the wait of one thread, wherever it stands on the
\* list, ends with NX_NO_PACKET.
WaitTimeout ==
    /\ \E i \in DOMAIN waiters : waiters' = RemoveAt(waiters, i)
    /\ suspended' = suspended - 1
    /\ UNCHANGED <<mark, txDone, free, available, hold, tcpVars, driver, relVars>>

-----------------------------------------------------------------------------
(* nx_packet_release, in the context c *)

StartRelease(c, p) ==
    /\ rpc' = [rpc EXCEPT ![c] = "enter"]
    /\ rpkt' = [rpkt EXCEPT ![c] = p]
    /\ rthr' = rthr

\* The mark is read with interrupts enabled; anything but ALLOCATED is
\* refused with NX_PTR_ERROR.
ReleaseCheck(c) ==
    /\ rpc[c] = "enter"
    /\ IF mark[rpkt[c]] = "ALLOCATED"
         THEN rpc' = [rpc EXCEPT ![c] = "checked"] /\ rpkt' = rpkt
         ELSE /\ rpc' = [rpc EXCEPT ![c] = "idle"]
              /\ rpkt' = [rpkt EXCEPT ![c] = NoPacket]
    /\ UNCHANGED <<mark, txDone, poolVars, hold, tcpVars, driver, rthr>>

\* Mutant: the suspension list is not looked at.
ReleaseToPool_AlwaysToPool(c) ==
    /\ rpc[c] = "checked"
    /\ mark' = [mark EXCEPT ![rpkt[c]] = "FREE"]
    /\ txDone' = [txDone EXCEPT ![rpkt[c]] = FALSE]
    /\ free' = free \cup {rpkt[c]}
    /\ available' = available + 1
    /\ rpc' = [rpc EXCEPT ![c] = "idle"]
    /\ rpkt' = [rpkt EXCEPT ![c] = NoPacket]
    /\ UNCHANGED <<waiters, suspended, hold, tcpVars, driver, rthr>>

\* Nobody waits: the packet goes to the front of the available list.
ReleaseToPool(c) ==
    /\ rpc[c] = "checked"
    /\ waiters = <<>>
    /\ mark' = [mark EXCEPT ![rpkt[c]] = "FREE"]
    /\ txDone' = [txDone EXCEPT ![rpkt[c]] = FALSE]
    /\ free' = free \cup {rpkt[c]}
    /\ available' = available + 1
    /\ rpc' = [rpc EXCEPT ![c] = "idle"]
    /\ rpkt' = [rpkt EXCEPT ![c] = NoPacket]
    /\ UNCHANGED <<waiters, suspended, hold, tcpVars, driver, rthr>>

\* A thread waits: unlink the head of the suspension list and clear its cleanup.
ReleaseUnlinkWaiter(c) ==
    /\ rpc[c] = "checked"
    /\ waiters # <<>>
    /\ waiters' = Tail(waiters)
    /\ suspended' = suspended - 1
    /\ rpc' = [rpc EXCEPT ![c] = "handoff"]
    /\ rthr' = [rthr EXCEPT ![c] = {Head(waiters)}]
    /\ UNCHANGED <<mark, txDone, free, available, hold, tcpVars, driver, rpkt>>

\* With interrupts enabled again: set the packet up, store it through the
\* waiting thread's pointer and resume the thread.
ReleaseHandOff(c) ==
    /\ rpc[c] = "handoff"
    /\ mark' = [mark EXCEPT ![rpkt[c]] = "ALLOCATED"]
    /\ txDone' = [txDone EXCEPT ![rpkt[c]] = FALSE]
    /\ hold' = [t \in Threads |-> IF t \in rthr[c] THEN rpkt[c] ELSE hold[t]]
    /\ rpc' = [rpc EXCEPT ![c] = "idle"]
    /\ rpkt' = [rpkt EXCEPT ![c] = NoPacket]
    /\ rthr' = [rthr EXCEPT ![c] = {}]
    /\ UNCHANGED <<poolVars, tcpVars, driver>>

-----------------------------------------------------------------------------
(* The calls that end an owner's hold on a packet *)

\* An application thread releases the packet it holds.
AppRelease(t) ==
    /\ Ready(t)
    /\ hold[t] # NoPacket
    /\ hold' = [hold EXCEPT ![t] = NoPacket]
    /\ StartRelease(t, hold[t])
    /\ UNCHANGED <<mark, txDone, poolVars, tcpVars, driver>>

\* A packet sent without TCP (UDP, ICMP, ARP, a TCP control segment): the
\* driver is its only owner.
DatagramSend(t) ==
    /\ Ready(t)
    /\ hold[t] # NoPacket
    /\ hold' = [hold EXCEPT ![t] = NoPacket]
    /\ driver' = driver \cup {hold[t]}
    /\ UNCHANGED <<mark, txDone, poolVars, tcpVars, relVars>>

\* nx_tcp_socket_send_internal: link the packet at the transmit list's tail,
\* then hand it to the driver through _nx_ip_packet_send.
TcpSend(t) ==
    /\ Ready(t)
    /\ hold[t] # NoPacket
    /\ hold' = [hold EXCEPT ![t] = NoPacket]
    /\ mark' = [mark EXCEPT ![hold[t]] = "ENQUEUED"]
    /\ sent' = sent \cup {hold[t]}
    /\ driver' = driver \cup {hold[t]}
    /\ UNCHANGED <<txDone, poolVars, acking, relVars>>

\* Mutant: the completion mark survives the retransmission.
TcpRetransmit_KeepsMark ==
    /\ acking = {}
    /\ rpc[IpThread] = "idle"
    /\ \E p \in sent : txDone[p] /\ driver' = driver \cup {p}
    /\ UNCHANGED <<mark, txDone, poolVars, hold, tcpVars, relVars>>

\* nx_tcp_socket_retransmit: only a packet the driver has completed is sent
\* again; its completion mark is cleared first.
TcpRetransmit ==
    /\ acking = {}
    /\ rpc[IpThread] = "idle"
    /\ \E p \in sent :
          /\ txDone[p]
          /\ txDone' = [txDone EXCEPT ![p] = FALSE]
          /\ driver' = driver \cup {p}
    /\ UNCHANGED <<mark, poolVars, hold, tcpVars, relVars>>

\* nx_tcp_socket_state_ack_check and nx_tcp_socket_transmit_queue_flush first
\* move the list's head past the packets to release ...
TcpUnlink ==
    /\ acking = {}
    /\ rpc[IpThread] = "idle"
    /\ \E s \in SUBSET sent :
          /\ s # {}
          /\ sent' = sent \ s
          /\ acking' = s
    /\ UNCHANGED <<mark, txDone, poolVars, hold, driver, relVars>>

\* Mutant: an acknowledged packet is released even if the driver has it.
TcpReleaseAcked_NoDoneTest(p) ==
    /\ p \in acking
    /\ rpc[IpThread] = "idle"
    /\ acking' = acking \ {p}
    /\ mark' = [mark EXCEPT ![p] = "ALLOCATED"]
    /\ StartRelease(IpThread, p)
    /\ UNCHANGED <<txDone, poolVars, hold, sent, driver>>

\* Mutant: the packet keeps its link of the transmit list.
TcpReleaseAcked_StillLinked(p) ==
    /\ p \in acking
    /\ rpc[IpThread] = "idle"
    /\ acking' = acking \ {p}
    /\ IF txDone[p] THEN StartRelease(IpThread, p) ELSE UNCHANGED relVars
    /\ UNCHANGED <<mark, txDone, poolVars, hold, sent, driver>>

\* ... then visit each: mark it ALLOCATED and, if the driver is done with it,
\* release it.  A packet still in the driver is left for the driver to release.
TcpReleaseAcked(p) ==
    /\ p \in acking
    /\ rpc[IpThread] = "idle"
    /\ acking' = acking \ {p}
    /\ mark' = [mark EXCEPT ![p] = "ALLOCATED"]
    /\ IF txDone[p] THEN StartRelease(IpThread, p) ELSE UNCHANGED relVars
    /\ UNCHANGED <<txDone, poolVars, hold, sent, driver>>

\* nx_packet_transmit_release: a packet still linked into a transmit list is
\* only marked, any other is released.
TransmitRelease(p) ==
    /\ p \in driver
    /\ rpc[Driver] = "idle"
    /\ driver' = driver \ {p}
    /\ IF mark[p] \notin {"ALLOCATED", "FREE"}
         THEN txDone' = [txDone EXCEPT ![p] = TRUE] /\ UNCHANGED relVars
         ELSE StartRelease(Driver, p) /\ txDone' = txDone
    /\ UNCHANGED <<mark, poolVars, hold, tcpVars>>

-----------------------------------------------------------------------------
Next ==
    \/ \E t \in Threads :
          \/ Allocate(t) \/ AllocateSuspend(t)
          \/ AppRelease(t) \/ DatagramSend(t) \/ TcpSend(t)
    \/ WaitTimeout
    \/ TcpRetransmit \/ TcpUnlink
    \/ \E p \in Packets : TcpReleaseAcked(p) \/ TransmitRelease(p)
    \/ \E c \in Contexts :
          \/ ReleaseCheck(c) \/ ReleaseToPool(c)
          \/ ReleaseUnlinkWaiter(c) \/ ReleaseHandOff(c)

Spec == Init /\ [][Next]_vars
-----------------------------------------------------------------------------
(* Properties *)

Held(p) == \E t \in Threads : hold[t] = p
Releasing(p) == \E c \in Contexts : rpkt[c] = p
InTcp(p) == p \in sent \cup acking

\* Every packet has exactly one owner: the available list, one thread, one
\* release in progress, or the pair transmit list and driver, which alone may
\* share it.  A packet in two places is a double free or a use after free; a
\* packet in none is a leak.  (The protocol of TX_DONE in ack_check,
\* transmit_queue_flush, retransmit and transmit_release.)
OneOwner ==
    \A p \in Packets :
        /\ p \in free \/ Held(p) \/ Releasing(p) \/ InTcp(p) \/ p \in driver
        /\ p \in free => ~Held(p) /\ ~Releasing(p) /\ ~InTcp(p) /\ p \notin driver
        /\ Held(p) => ~Releasing(p) /\ ~InTcp(p) /\ p \notin driver
        /\ Releasing(p) => ~InTcp(p) /\ p \notin driver

\* No two threads, and no two releases, own the same packet, so a packet is
\* handed to one waiter only and _nx_packet_release runs once per allocation.
NoSharedPacket ==
    /\ \A t, u \in Threads : hold[t] = hold[u] /\ hold[t] # NoPacket => t = u
    /\ \A c, d \in Contexts : rpkt[c] = rpkt[d] /\ rpkt[c] # NoPacket => c = d

\* Every packet has one owner, and that one is one thread or one release.
ExclusiveOwner == OneOwner /\ NoSharedPacket

\* The release that _nx_packet_release's ALLOCATED test would refuse with
\* NX_PTR_ERROR never happens, although the test runs with interrupts enabled
\* and, for a completed TCP packet, after the driver has dropped the lock.
ReleaseAccepted ==
    \A c \in Contexts : rpc[c] # "idle" => mark[rpkt[c]] = "ALLOCATED"

\* A packet the driver still reads is never marked complete, so neither an
\* acknowledgement nor a retransmission can touch it: while it is on the
\* transmit list, exactly one of driver and completion mark holds.
DriverExclusive ==
    \A p \in Packets :
        /\ p \in driver => ~txDone[p]
        /\ p \in sent \cup acking /\ p \notin driver => txDone[p]

\* nx_packet_pool_available and nx_packet_pool_suspended_count, each updated
\* beside its list by five functions, stay equal to the lists' lengths.
CountsAgree ==
    /\ available = Cardinality(free)
    /\ suspended = Len(waiters)

\* No thread waits while a packet is available: a release hands its packet to
\* a waiter instead of the list (a missed hand-off would suspend it for ever).
NoWaiterBesidesFree == waiters # <<>> => free = {}

\* A thread is on the suspension list at most once, and one that is, or is
\* being handed a packet, holds none: the packet stored through its pointer
\* overwrites nothing.
WaiterHoldsNothing ==
    /\ \A i, j \in DOMAIN waiters : waiters[i] = waiters[j] => i = j
    /\ \A i \in DOMAIN waiters : hold[waiters[i]] = NoPacket
    /\ \A c \in Contexts : \A t \in rthr[c] : hold[t] = NoPacket /\ ~Waiting(t)

\* No hand-off of a released packet is missed, and none overwrites a packet.
WaitersServed == NoWaiterBesidesFree /\ WaiterHoldsNothing

\* First come, first served: whatever waits, timeouts and hand-offs interleave,
\* a thread that began to wait after t neither passes t on the list nor is
\* handed a packet while t still waits.
Queued(t, w) == \E k \in DOMAIN w : w[k] = t
Before(t, u, w) == \E j, k \in DOMAIN w : j < k /\ w[j] = t /\ w[k] = u
FirstComeFirstServed ==
    [][\A t, u \in Threads :
          Before(t, u, waiters) /\ Queued(t, waiters')
            => /\ Queued(u, waiters') => Before(t, u, waiters')
               /\ \A c \in Contexts : u \notin rthr'[c]]_vars

=============================================================================
