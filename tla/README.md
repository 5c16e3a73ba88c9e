# A verification development for NetX Duo

TLA+ models of the TCP/IP stack in `common/src` of this repository, the TLC
configurations that check them, and TLAPS proofs about them. Each definition is
a translation of the C code; `PROJECT.json` maps it to its lines.

## 1. The system

NetX Duo is a TCP/IP stack for the ThreadX kernel. One `NX_IP` instance has one
helper thread (`_nx_ip_thread_entry`) and one mutex (`nx_ip_protection`);
application threads call the API and take the mutex themselves; drivers call
in from interrupts; the ThreadX timer thread ends the waits of suspended
threads. The assumed build is the default one (no timestamps, RTT estimator,
low watermark, keepalive) unless a constant says otherwise.

| component | state | operations | hard part | must hold |
|---|---|---|---|---|
| packet pool | available list and count, suspension list and count, a mark in each packet | allocate, release, transmit release, timeout, delete | release tests the mark unlocked and hands over with interrupts enabled; a TCP packet has two owners, acknowledgement and driver | one owner per packet, nothing lost, waiters served in order |
| TCP send | sequence, outstanding bytes, windows, transmit list, suspended senders | send, SWS test, arm the probe, resume | the mutex is given up four times in one call | no gap or overlap in the list, stay in the peer's window, never wait for nothing |
| TCP acknowledgements | the same, timer, FIN flag | ack_check, transmit_check | stale, partial, duplicate ACKs; probe byte and FIN widen the range | release only what the peer has |
| retransmission, probe | timer, retries, probe byte and failures | per tick: give up, probe, resend, resend FIN | timer stopped and started in many places | the timer runs when needed; queue drains |
| TCP receive | receive queue, rx sequence, window, suspended receivers | data_check, receive, window update | overlap, trimming, FIN out of order | what is delivered is a prefix of the stream |
| thread suspension | circular lists through the threads, deferred cleanup flag | suspend, resume, cleanup, deferred walk | timeout racing a resume; head moves on any timeout | no lost or doubly resumed thread |
| port binding | port table, bind suspension list per owner | bind, unbind, timeout | list handed from owner to owner | every waiter is served or times out |
| TCP server | socket state, listen request and the socket parked on it, SYN cache (unfinished handshakes, finished ones without a socket) | listen, accept, disconnect, unaccept, relisten, unlisten; SYN, ACK, FIN, RST; resends and expiry | repeated and late segments of an earlier attempt, cookies, a full cache, a suspended call against packets that change the state | one home per connection, both ends agree, no SYN left beside an idle socket |
| TCP connection: opening and closing | state, numbers, FIN flags, timer and retries, threads in connect and disconnect | connect, disconnect, listen, the eleven states' handlers, timer | segments of an earlier connection of the same ports, simultaneous open and close, a suspended call against packets and timer | both ends are in the same connection, no state lasts for ever, no stranded caller |
| UDP | bound list of a port, receive queue, pending ICMP error, rings of suspended readers and binders | bind, unbind, receive, delivery, ICMP error, timeouts | receive and timeouts run without the mutex; a list of binders passes from socket to socket | rings hold who waits, nobody waits for what is there |
| ARP cache | entries, hash and dynamic and static lists, active count, queued packets, retry counters | send, answer, set, create, delete, invalidate, periodic update | an entry is evicted, made static or resolved while packets wait in it | packets go to their host and none waits for ever |
| ND cache | the same for IPv6, a state per entry | | | |
| IP reassembly | received fragments, datagrams under assembly with their time | fragment in, assemble, time out, disable | overlaps, repetitions, holes, the pool's limit | only whole datagrams are dispatched, every one begun ends |
| IGMP/MLD, IPv6 autoconfiguration, ICMP, raw, RARP | counters and small lists | | | |
| addons, TLS, crypto, TSN, ports | programs on top or below | | | not modelled |

Interaction: threads, IP thread and driver share packets (pool); application
threads and the IP thread share a socket under the mutex; the IP thread is
woken by event flags; suspended threads are resumed by handlers or by timeouts.
`PROJECT.json` lists every component, and every hazard at its line.

## 2. Modules

### PacketPool

One pool and the life of its packets. A context (application thread, IP thread,
driver interrupt) is at one of four places in `_nx_packet_release` (`rpc`),
because that function tests the packet's mark with interrupts enabled
(`StartRelease`, `ReleaseCheck`), does its list work with interrupts disabled
(`ReleaseToPool`, `ReleaseUnlinkWaiter`) and completes a hand-off with
interrupts enabled again (`ReleaseHandOff`). All other operations are one
interrupt-disabled section each. `TcpSend`, `TcpRetransmit`, `TcpUnlink` and
`TcpReleaseAcked` are the parts of the TCP code that touch a packet's two links:
the acknowledgement first moves the list's head (`TcpUnlink`), then visits the
packets one by one while the driver keeps completing them (`TransmitRelease`).

| TLA+ | C |
|---|---|
| `mark`, `txDone` | `nx_packet_union_next`, `nx_packet_queue_next = NX_DRIVER_TX_DONE` |
| `free`, `available` | `nx_packet_pool_available_list`, `nx_packet_pool_available` |
| `waiters`, `suspended` | `nx_packet_pool_suspension_list`, `nx_packet_pool_suspended_count` |
| `hold` | the packet pointer an application thread has |
| `sent`, `acking` | the transmit list, and the packets `ack_check` has unlinked |
| `driver` | packets given to the driver and not completed |
| `rpc`, `rpkt`, `rthr` | progress of a release, its packet, the waiter it unlinked |

Abstracted: the available and transmit lists are sets, because only ownership
is asked about; a packet is one `NX_PACKET`, not a chain. An application thread
releases only a packet it holds, once: an application that releases twice is
outside the contract of the API.

### TcpSender

The sending half of one connected socket. `_nx_tcp_socket_send_internal` is cut
where it gives the mutex up: `Send`/`SendAgain` (one pass of its loop), `Allocated` /
`AllocateFails` (after `_nx_packet_allocate`), `Commit` (after the checksum),
and the suspension ended by `TransmitCheck`, `WaitTimeout` or `Shut`. Handlers
that run under the mutex are one action each: `AckArrives` (ack_check and the
state handler that follows it), the four outcomes of a timer expiry
(`TimerGivesUp`, `TimerProbes`, `TimerResends`, `TimerResendsFin`), `Disconnect`,
`PeerResets`. The peer and the network are external: the peer takes what is in
order and inside its window, acknowledges each segment and opens its window;
a message stays in the network until it is lost, so it can arrive repeatedly
and out of order.

Sequence numbers are offsets from the first byte; `stream` records which thread
wrote the byte of each sequence number, which is what makes a wrong byte visible.

Abstracted: the congestion window and the transmit byte limit never are the
smaller bound (fast retransmit and SACK only resend earlier, and a resent
segment is what the network's repetition already gives); the peer sends no data
(no CLOSE_WAIT); the back-off only decides when the timer expires, and it may
at any time; the user timeout is left out; retry counters stop at `MaxRetries`,
their only comparison. `NoProbe` and `NoSegment` stand for fields the code does
not read before it writes them all. A thread resumed from its suspension makes
its next pass in one step (in the code a raised preemption threshold, not the
mutex, keeps others out).

### TcpReceiver, ByteStream

The receiving half of one connected socket. `rcv` holds `rx_sequence`, the free
window, what was last put on the wire and what was last acknowledged; `queue`
is the receive queue, each packet with its header's sequence number and its
bytes. A segment takes one of four ways: `ArrivesOutside` (the early return of
packet_process, which may answer), `EmptyArrives`, `DuplicateArrives`, or
`DataArrives`: trimming (`Trimmed`), insertion (`Inserted`), READY marking
(`Contiguous`, `MarkReady`), window accounting (`Consume`), hand-off to suspended
readers (`Served`, `HandedOff`), then `Concludes`: the acknowledgement decision and
`nx_tcp_socket_state_established`. Readers are `Receive`, `ReceiveWaits`,
`ReceiveEnds`, `WaitTimesOut`; `DelayedAck` and `PassCompletes` acknowledge what no
segment triggers. The walk over the queue goes by places, as the code's does: `Stop` is where it
ends and `Inserted` what it leaves. The READY loop is written as what it computes on a
queue without overlaps, which `QueueInOrder` shows every queue to be.

The peer (external) keeps to the window it was offered. Because it may cut its
stream anew and the network may delay anything, every segment it could ever have
sent may arrive at any time, so no set of segments in flight is kept; of the
acknowledgements only the newest is, since an older one tells the peer nothing
more. A byte's value is its number, so a misplaced byte shows.

`ByteStream` is the promise to the application: the stream's bytes once and in order,
and its end after the last. `StreamKept` states that TcpReceiver implements it
(`delivered` and `ended` are what readers were given).

Abstracted: the threshold of an immediate acknowledgement may be reached by any
new data; timers may expire at any time; SACK, timestamps, urgent data and the
low-watermark build are left out, window scaling is 0; callbacks do nothing.

### TcpServer

Passive opens on one port. `sock` holds the sockets the server takes in turn,
`listen` the request and the socket parked on it; `half` and `queued` are the SYN
cache's two lists: handshakes not finished (answered, or `DEFERRED` because no
socket was ready), and finished ones that wait for a socket. `others` counts the
entries other ports use of the shared cache.

`ServerReceives` is the input path: the bound socket of the peer (`Home`,
`SocketInput`), a connection that awaits accept (`Hold`), the cache
(`SynReceived`, `AckReceived`, `ResetReceived`), else a reset. `NewSyn` decides
between a cached entry, a deferred one and a cookie; `Finish` between
a hand-over to the parked socket (`HandOver`) and the accept queue.
`AnswerDeferred` is part of every action whose code calls it. `CacheTimer` is
the periodic pass over the cache. The calls are `Listen`,
`AcceptNow`/`Accept`/`AcceptFails`, `DisconnectOpening`/`DisconnectNow`/
`Disconnect`/`DisconnectReturns`, `Unaccept`, `Relisten`, `Unlisten`; a thread that
suspended runs on in a step of its own, `AcceptTimeout` and
`DisconnectTimeout` end its wait.

The clients and the network are external: a client opens, resends, gives up and
opens again with a new initial number, and segments stay in the network until
pushed out, so old ones arrive at any later time.

Abstracted: a connection is named by its client and the client's initial number,
our own initial number by the way the SYN was answered (entry or cookie); a
closing handshake is one step; a FIN stands for every segment after the
handshake; time is not counted.

### TcpConnection

Connections between two sockets, one after the other on the same pair of ports.
`sock` holds state, numbers, FIN flags, timer and retries, and `peer`: whether the
input path finds the socket for a segment of the other end. `connect` and `disconnect`
are the threads in those calls. `SocketInput` is `nx_tcp_socket_packet_process` in its
order: `SynSent`, or `Outside` and `Inside` the window (resets, SYNs and their challenge,
`SynReceived`, then `Acked`, `TakesFin` and the `StateHandler` of the state); `Passive` is
the SYN cache for a port that listens, `NoConnection` the reset for a segment nobody
takes. `Timer` is a tick for one socket: it counts, gives up, resends the SYN or the FIN,
or ends TIMED_WAIT. `DisconnectReturns` is the part of disconnect after its wait, which
cleans up what is not in TIMED_WAIT.

Abstracted: no data, so the window is open; the passive side is one entry, which
TcpServer has in full (`entry`, the two initial numbers); accept is called when the socket
is parked. Initial numbers are more than a window apart (`Gap`) and do not wrap around: a
call of connect takes a new one; the SYN cache's is a function of the client's and of a
coarse clock (`Iss`, the cookie construction), so a SYN that is repeated within one
`period` of that clock gets the same number and a later one another. `CounterSteps` is
the clock; with `QuickReopen` FALSE it has stepped between two connects. The numbers that
`Cleaned` leaves in a closed socket are zero in the model: only the next connect
reads them, to make its own.

Two things the model made visible. A repeated FIN is left of the window in TIMED_WAIT:
it is acknowledged and dropped (`Outside`), so the restart of the 2MSL timer that
`nx_tcp_socket_packet_process.c:705-729` describes does not happen. And a simultaneous
open stops the timer in SYN_RECEIVED (`nx_tcp_socket_state_syn_sent.c:291-294`), so its
SYN-ACK is not sent again, although the periodic code provides for it; a lost one leaves
a thread in connect to its own time-out. `Settles` therefore leaves SYN_RECEIVED out.

### UdpSocket

Sockets that want one UDP port. The suspension rings are modelled as linked
(`next`, `prev`, and a pointer in the socket), because what goes wrong with them is
a pointer into the wrong ring. `Link` and `Unlink` are the code's ring operations,
`After` is where the pointer goes. Threads have no priorities: whoever may run, runs.

`bind`, `unbind`, the delivery and the ICMP error handler hold the IP mutex (`busy`);
`receive` (`ReceiveNow`, `ReceiveWaits`) and the timeouts (`ReceiveTimeout`, `BindTimeout`)
take none, they only disable interrupts. So they come between any two steps of a handler,
and a handler is cut wherever it enables interrupts and preemption:

- `unbind`: `Unbind` (off the port), `UnbindFlush` (the queue, or else the count of readers
  is looked at), `UnbindList`, `UnbindClear` (the list is read, then cleared), per reader
  `UnbindTest`, `UnbindWake`, `UnbindCount`, at last `UnbindHandOver`. A reader that is
  resumed may run, and suspend elsewhere, before it is counted. For a socket not bound:
  `UnbindWaiting` reads the thread whose bind is in progress, `UnbindCancel` cleans it up.
- the ICMP handler: `IcmpError` (the error is pending), `IcmpTest` (is anybody counted?),
  `IcmpLift`, which finds what is there by then, perhaps nobody.
- a datagram: `Arrives`, `DeliverCopy` for each socket that shares the port, `DeliverFirst`;
  each takes a waiting reader before the queue.

While all of these come in any order, the properties need an application that keeps three
rules; the code neither enforces nor documents them. `Careless` names those that are not
kept. Each is needed: without it TLC finds the properties violated by steps the code can take.

- **unbind**: when a socket is unbound, at most one thread waits in receive on it, without a
  timeout. `unbind` walks the detached list outside the lock (`nx_udp_socket_unbind.c:299-334`).
  A timeout between two steps unlinks its thread and re-installs a head of the list
  (`nx_udp_receive_cleanup.c:102-110`), or, coming after the count was tested, makes the count
  wrap. Of two readers, the first to be resumed may run at once and suspend elsewhere, which
  overwrites its links: `thread_ptr -> tx_thread_suspended_previous` of the last one (330)
  then leads to the wrong thread, and the last reader stays suspended on a socket that
  is not bound, its clean-up cleared.
- **behind**: a thread that waits in bind behind another has no timeout, and its bind is not
  cancelled. This is the finding of `udp_bind`. Any number may wait, and the list is handed
  from socket to socket.
- **cancel**: a bind with a timeout is not cancelled by unbinding its socket. The thread is read
  at `nx_udp_socket_unbind.c:185` before the clean-up disables interrupts; if its wait ends
  in between and it suspends in receive, it is cleaned up as if it waited in bind.

A fourth hazard of the same kind is outside the model, which has no results of calls: a
reader that collects the pending error between the two sections of the ICMP handler
(`nx_udp_socket_icmp_error_process.c:128-136`) and suspends again is resumed with
`NX_SUCCESS` and no packet, so that a successful receive does not mean a datagram.

Abstracted: a datagram is a token with a good or bad checksum; results of calls, receive
callbacks and other ports are left out.

### ArpCache

The IPv4 ARP cache, all addresses in one hash list. `Send` is the ARP part of
`_nx_ip_driver_packet_send` (`SendResolved`, `SendWaits`, `SendFirst`),
`AllocateDynamic` takes the tail of the dynamic list, and deletes it first if it was
in use (`Victim`, `Freed`); `Receive` and `Learn` are arp_packet_receive, `DynamicSet`,
`DynamicResolve`, `StaticCreate...`, `DynamicDelete`, `StaticDelete`, `EntryDelete`,
`StaticEntriesDelete` and `DynamicInvalidate` the calls of the same names, and
`PeriodicUpdate` the one-second pass (`Ticked` per entry). `wire` is what the last step
gave to the driver.

Abstracted: one interface; packets fit its MTU; conflict detection and answers to
requests leave the cache alone.

### Reassembly

`received` is the list the receive path fills (`Arrive`), `assembly` the datagrams
under assembly. `Assemble` is one call of `_nx_ip_fragment_assembly`: it folds the
whole received list into the assembly list, fragment by fragment (`Placed`: the
limit `Fits`, the search and the inherited time `Merged`, the ordered insertion
`Insert`, the test `Complete`). `TimeoutCheck`, `Disable` and `Enable` are the calls of
those names. `IsWhole` is the reference a dispatched datagram is compared with.

Fragments are every piece that a datagram of `Size` units can be cut into, repeated
and in any order. Overlapping fragments never complete a datagram: it is released
when its time has run out.

## 3. Runs and bounds

| run | checks | bounds |
|---|---|---|
| `packet_pool` | type; `ExclusiveOwner`, `ReleaseAccepted`, `DriverExclusive`, `CountsAgree`, `WaitersServed`, `FirstComeFirstServed` | 3 packets, 3 threads, symmetric; two waiters besides a running release, and a packet in each owner's hands |
| `sender` | `QueueIsUnacked`, `TimerRunsWhenNeeded`, `WaiterHasWakeup`, `ReleasedIsDelivered`, `WithinWindow` | 2 senders, 3 bytes, packets of up to 2, window up to 2, 2 queued, 1 retry, 1 segment and 2 acknowledgements in flight, so that acknowledgements overtake each other |
| `sender_live` | `QueueDrains` | 2 senders, 2 bytes, fair specification, allocations may fail |
| `receiver` | `QueueInOrder`, `WindowIsFree`, `PromiseKept`, `NoReaderBesidesData`; `EdgeNeverRecedes`; `StreamKept`; `Completes`, `PeerSatisfied` | 2 readers, 5 bytes and a FIN, segments of up to 2, a buffer of 4, no cap or one of 3, acknowledgements that find no packet |
| `server` | type; `OneHome`, `Agreement`, `NoIdleDeferred`, `AcceptIsServed` | 2 sockets, 2 clients, 2 connection attempts, a cache of 2 of which other ports may use 1, a backlog of 1, 2 segments in the network |
| `connection` | `SameConnection`, `WaitHasCause` | 2 symmetric ends, 2 calls of connect or steps of the counter, 3 segments in the network, no retry, 2MSL of 1 tick |
| `connection_live` | `Settles` | 2 ends without symmetry, 1 call of connect or step of the counter, 2 segments, 1 retry, 2MSL of 2 ticks |
| `udp` | `ReadersAgree`, `BindersAgree`, `NoBinderBesidesFreePort`, `NoReaderBesidesData` | 3 threads, symmetric, 3 sockets of which 2 share the port, queue of 1; receive and timeouts between any two steps |
| `arp` | `ListsAgree`, `WaitHasTimer`, `SentToItsAddress`; `WaitEnds` | 2 entries for 3 addresses, 3 packets, 2 per entry, 1 retry, expiry after 2 ticks |
| `reassembly` | `DispatchedIsWhole`; `BegunEnds` | 2 datagrams of 3 units cut in every way, 2 fragments between two passes, room for 4 |
| `probe_byte` | `StreamIntact` is violated | 2 senders, 2 bytes |
| `udp_bind` | `BindersAgree` is violated with two threads in bind, the second with a timeout | 3 threads, 3 sockets |

The sender's bounds let everything happen that its code distinguishes: a packet
of 2 with a window of 1 is sent in two segments with the mutex free in between;
the window closes with data outstanding and without; the list fills; both
senders wait at once; a head segment is partly acknowledged; retries exhaust.
Bounds are named: `MaxSeq`, `MaxLen`, `MaxWindow`, `MaxSegs`, `MaxAcks` (TcpSender);
`Total` (TcpReceiver); `MaxIrs`, `MaxOthers`, `MaxNet` (TcpServer); `MaxTime`, `MaxNet` (TcpConnection);
`MaxRestarts` (ArpCache); `MaxReceived` (Reassembly); PacketPool and UdpSocket need none.
In `receiver` the buffer is smaller than the stream and of two segments: the window
closes, falls below the silly-window floor, slides and reopens; three packets can
lie behind a gap; one arrival can serve both readers; the FIN can come before,
with or after the last data. `CHECK_DEADLOCK FALSE` in the sender's runs: a closed
socket does nothing; in `server`: when the clients have used up `MaxIrs`, nothing
need happen; the same holds in `connection` of `MaxTime`.
In `server` two attempts let one client come back while segments of its first are in
the network, or two clients compete; the cache fills, so that SYNs are deferred or
answered by cookies; one socket is parked while the other is connected.
In `connection` two calls of connect are a simultaneous open, or two connections in
succession with segments of the first left over; both ends close at once or one after the
other; a server's end outlives the client's; the network holds a SYN, a SYN-ACK and an ACK
of the first connection at once, which is what it takes to rebuild it. In `udp` two
readers can share a ring while a third thread delivers, collects or binds, two binders wait
for a port that passes from one to the next, and a reader comes back while its socket is
being unbound. In `arp` an address without
an entry takes one whose packets wait, and the third packet pushes the first out of an
entry's queue. In `reassembly` the limit is met with both datagrams incomplete.

Some constants choose a build or a use of the code, and where a run checks a
property for one value that fails for the other, the table says so:

| constant | checked | otherwise |
|---|---|---|
| `SackBuild` (TcpSender) | `TRUE` | a build without SACK does not look at the window again after the allocation: `WithinWindow` fails |
| `PoolRunsDry` (TcpSender) | `FALSE` in `sender`, `TRUE` in `sender_live` | a resumed sender whose allocation fails returns, and the next waiter has no wake-up: `WaiterHasWakeup` fails |
| `SocketIsShared` (TcpServer) | `FALSE`: one thread at a time uses a socket | accept and disconnect write the state after their wait whatever other threads made of the socket: `AcceptIsServed` fails |
| `Careless` (UdpSocket) | `{}` in `udp`: the application keeps the rules of section 2 | `"unbind"`, `"cancel"`: a timeout or a resumed reader edits a ring that unbind has in hand, `ReadersAgree` and `NoReaderBesidesData` fail; `"behind"`: the finding of `udp_bind` |
| `QuickReopen` (TcpConnection) | `FALSE`: the counter of the SYN cache's numbers (a step is 2048 ticks, `nx_api.h:2604-2610`) steps between two connects of the same ports | `TRUE`: a SYN and an ACK of the earlier connection, both repeated, establish it again at the server while the client opens the next, and both ends are then synchronised on different numbers: `SameConnection` fails |
| `Lossy` (TcpSender) | `FALSE` in `sender`: a message is lost only when another pushes it out | `TRUE` in `sender_live` and `probe_byte`: it may also leave by itself, which the liveness property needs |

Two more outcomes that the sender's model shows are listed as hazards, without a run:
a disconnect after a zero-window probe does not recognise the acknowledgement of its FIN,
and resends the FIN without a retry limit until the wait of the disconnect call ends
(`Settles` is about connections without data, which have no probe); and a sender
between two segments may suspend on a socket that was closed meanwhile, where it waits
for its own time-out.

The violation runs show disagreements between the code and a comment beside it;
`PROJECT.json` "findings" quotes each and describes its counterexample.

### Fairness

`FairSpec` assumes: a thread that has begun a call goes on (the scheduler runs
it; ThreadX schedules by priority, so this takes an application that does not
starve its senders); the driver completes packets; the periodic timer runs (the
IP thread serves its event); the peer's application reads. For the network,
strong fairness: a segment that tells the peer something new is not lost every
time, nor is the peer's newest acknowledgement. Nothing is assumed of
applications' timeouts, disconnects or resets.

TcpReceiver's `FairSpec`: the application goes on reading, the peer goes on
retransmitting or probing (RFC 9293), an acknowledgement that is due again and again
finds a packet some time, and not every one is lost. Waits may time out and the cap
may change for ever.

ArpCache's and Reassembly's `Spec` have weak fairness of the periodic pass
(`PeriodicUpdate`, `TimeoutCheck`): the IP thread serves its one-second event. Of answers,
new packets and calls nothing is assumed, except that in ArpCache calls which start a
resolution over are finitely many (`MaxRestarts`); without that bound an application
can keep a packet waiting by starting over for ever. In Reassembly fragments may go on
arriving for ever.

TcpConnection's `Spec` has weak fairness of each socket's `Timer`: the IP thread serves its
timer event. Nothing is assumed of the network, of the peer or of the threads.

TcpServer and UdpSocket have no fairness: their properties are of safety.

`PromiseKept` also shows that the window is never below `rx_window_last_sent` in this
build, the case that `nx_tcp_socket_receive.c:219` guards against and the same
subtraction at `nx_tcp_socket_state_data_check.c:1288` does not.

## 4. Proofs

Each proof module holds for every value of its model's constants under the named
assumption of that model (`PoolAssumption`, `ConnectionAssumption`, ...: finite sets of
threads or sockets, distinct names, positive sizes). None assumes anything of a state.
The invariant of each was checked by TLC on a small instance before it was proved. A
proof has one lemma per action, with one step per conjunct the action can disturb; the
properties then follow from the invariant. `Lists` holds what all of them need of
sequences: a first place exists (`FirstExists`), what removing one element does to length,
order and repetitions (`RemoveAtProperties`, `RemoveAtPlaces`, `Removed`), what appending, joining,
rotating and taking the first or last element do to the elements and to repetitions
(`Appended`, `Joined`, `Rotated`, `HeadTaken`, `LastTaken`), and that joining a list of
lists obeys its recursion (`FlattenIs`).

| module | proves | condition |
|---|---|---|
| `PacketPoolProofs` | every safety property of `packet_pool` and `FirstComeFirstServed` | |
| `TcpSenderProofs` | `QueueIsUnacked`, `ReleasedIsDelivered`, `TimerRunsWhenNeeded` | |
| | `WithinWindow` | `SackBuild = TRUE` |
| | `WaiterHasWakeup` | `PoolRunsDry = FALSE` |
| `TcpReceiverProofs` | `QueueInOrder`, `WindowIsFree`, `PromiseKept`, `NoReaderBesidesData`, the action property `EdgeNeverRecedes`, and `StreamKept`: the receiver implements `ByteStream` | |
| `TcpServerProofs` | `TypeOK`, `OneHome`, `Agreement` | |
| | `AcceptIsServed`, `NoIdleDeferred` | `SocketIsShared = FALSE` |
| `TcpConnectionProofs` | `WaitHasCause` | |
| | `SameConnection` | `QuickReopen = FALSE` |
| `ArpCacheProofs` | `ListsAgree`, `WaitHasTimer`, `SentToItsAddress` | |
| `UdpSocketProofs` | `ReadersAgree`, `BindersAgree`, `NoBinderBesidesFreePort`, `NoReaderBesidesData` | `Careless = {}` |

The conditions are those of the table in section 3: with the other value of the constant
the property fails, in the code as in the model, and TLC shows how.

**PacketPool.** `ExclusiveOwner` says where a packet is, but whether a
step keeps it so depends on the packet's mark and on what the releases in
progress hold. `IInv` joins the properties (`WaitersServed` among them: a thread in its
own release neither waits nor is being handed a packet) and adds the mark of each owner's
packets (`MarksFollowOwner`: FREE on the list, ALLOCATED in a thread's or a release's
hands and in the driver alone, ENQUEUED on the transmit list), that a release at
work has a packet and an idle one has none, that exactly the releases handing over have an
unlinked waiter, and that no thread is unlinked by two releases (`ReleaseSteady`).

**TcpSender.** None of the properties says why the list stays right when an acknowledgement
arrives, since an acknowledgement is believed. `IInv` puts everything in one order: what
is acknowledged is at most what the peer has, which is at most the end of the data
(`DataEnd`, what was sent without the FIN) and one byte more only while a zero-window
probe runs ahead of an empty list (`Limit`); every segment in the network ends by that
limit, and no acknowledgement in it says more than the peer has. The list begins where
the unacknowledged data begins and ends at `DataEnd` (`QueueOk`, of any two packets
where `QueueIsUnacked` says it of neighbours). `ThreadsFit` keeps what a thread has read
before it gave the mutex up: its segment is no longer than what is left of its packet.
`WindowKept` adds to `IInv` what a thread may send of the segment it has built, and uses that
the peer's right edge never recedes. `WaiterHasWakeup` is inductive beside `IInv`.

**TcpReceiver.** `QueueInOrder` speaks of neighbours; inserting or dropping packets makes
others neighbours, so `InOrder` says it of any two, says where the READY part ends, that
beyond it there is a gap, and that no packet goes beyond the stream: only so can the FIN not be
taken before the last byte. Each action is proved to keep `IInv`, not to move the right
edge back and to be a step of `ByteStream` or a stutter (`Kept`), so one case analysis gives
the invariant, the action property and the refinement.

**TcpServer.** `Base` holds for callers of any kind. It adds to `OneHome` and `Agreement` that
nothing on the server and nothing in the network has numbers its client has not
used yet (`NumbersKnown`), since an old ACK or cookie may still complete a handshake.
`Served` needs that one thread at a time makes calls on a socket: the parked socket is the
one that is open and free, a thread in accept is on it or has timed out, and nothing is
queued while it is parked.

**TcpConnection.** `WaitHasCause` needs that connect and disconnect of one socket exclude
each other (`OneCall`); without that, a timer that gives up on a FIN would leave a waiting
connect behind.

`SameConnection` says nothing of the segments that are still under way, and they decide
which connection comes about. Its invariant `CInv` has two parts. `Numbers`: every number of a
socket, an entry or a segment is counted from an initial number, by one for the SYN and one
for the FIN. Initial numbers have names (`Ids`: the time of the connect; for the SYN cache's,
the time of the SYN and the period) and are `Gap` apart (`NumbersApart`), so a number tells its
name (`OneInitial`), and one inside the window tells it of the connection.
`Agreement` speaks of names only: the one each end has (`Own`), the one it has of its peer
(`Peer`), and the claims "mine is i, yours is j" that a segment, a socket, an entry, or a peer
that has heard them still holds (`Claims`). It says that no name is from a later period
(`Born`); that a claim about the end's present name agrees with what it holds (`Current`);
that a name of the SYN cache belongs to one SYN (`Matched`); that an end which opened itself did so
after every answer of its cache that is still claimed (`OpenedLast`), and after its
peers under other names (`OthersEarlier`); that not both caches answered in one period
(`OneServer`); and that two claims do not cross (`NotCrossed`). Each action is, for `Agreement`,
one of four kinds of step: claims are forgotten, an end learns its peer's name, opens, or
answers a SYN (`ForgettingAgrees`, `LearningAgrees`, `OpeningAgrees`, `AnsweringAgrees`),
besides a step of the counter. Of two synchronised ends each has a claim about the
other's name, so by `NotCrossed` and `Current` they have the same two (`AgreedConnection`).
TLC checked `CInv` with 2 segments and 2 steps of time before it was proved.

**ArpCache.** `IInv` says of the lists, as sets, what `ListsAgree` says of them
(`Shared`), and adds what an entry may hold by whether it is in use and dynamic (`Fits`):
an entry in use has its own host's hardware address or none, and none only while it is
dynamic and its timer runs. Held packets wait at the entry of their destination
(`HeldAtTheirs`), and an address has one entry (`OneEntryEach`), so that a packet is
held once. An operation that takes elements out of the middle of a list is `Picked`, by rank;
that it takes each of them once (`PickedProperties`) rests on an injection between finite
sets of one size being onto. `DynamicInvalidate` empties the cache only because the
count of dynamic entries is right.

**UdpSocket.** `ReadersAgree` walks the links, which says nothing of what an operation on
the links does to a ring. `IInv` says it without a walk: the links of the threads that wait
in a ring invert each other, and a set of them closed under `next`, and not empty, is all
of them (`Cycle`; `RingOf` adds the pointer). Joining and leaving keep that, whoever leaves
(`CycleJoined`, `CycleLeft`), and `RingIs` shows that the walk meets the whole
cycle: among one more steps than there are threads two are at the same thread. The readers
of a socket are such a ring, except that `unbind` has a reader in hand (`ReadersKept`). The
binders need a witness: `BindersKept` says that there are disjoint sets `H[s]` of threads,
one for each socket `s` that has the port or is giving it up, each the ring of that
socket's list; the hand-over moves a set, less its first thread, to another socket. Only the
first of a set is sure to remember its holder (`owner`), which is why those behind it may
not time out. `NothingThere` is what a reader does not wait beside, and `BusyFits` ties each
step of a handler to what the steps of others have left of what it looked at before: most of
the proof is that receive and the timeouts, at every one of these steps, keep it.

Left to TLC:
- liveness (`QueueDrains`, `Completes`, `PeerSatisfied`, `Settles`, `WaitEnds`,
  `BegunEnds`): fairness needs ENABLED, which the prover does not do;
- `DispatchedIsWhole` of Reassembly: assembling folds over a list of fragments, so what it
  computes for every list is an induction over data.

## 5. Plan

Of the safety properties of the runs that pass, only `DispatchedIsWhole` has no theorem; it
would take a form of the assembly list that needs no induction over fragments.

Models to come: **TcpPort** (TCP client bind and unbind, the twin of UdpSocket's bind
part), **TcpRecovery** (duplicate ACKs, fast recovery, congestion window, user timeout),
**TcpStream** (sender and receiver composed), **NdCache**, the DHCP client.

## 6. Not modelled

Addons (DHCP, DNS, MQTT, HTTP, ...), TLS and crypto, TSN, ports, drivers,
samples and tests: programs on top of the stack or platform code. They are most of the
repository's lines, which is why the map covers a small share of them: the project is
about the core of the stack in `common/src`, of which IPv6 (ND, MLD, autoconfiguration),
IGMP, ICMP echo and raw sockets are not modelled either. The `nxe_`
layer checks arguments and keeps no state. Header formatting, checksums, trace
and statistics never decide a state change the properties see.
