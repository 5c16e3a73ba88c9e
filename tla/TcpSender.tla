------------------------------ MODULE TcpSender ------------------------------
(***************************************************************************)
(* The sending half of one connected NX_TCP_SOCKET: nx_tcp_socket_send from *)
(* several application threads, acknowledgements, the retransmission and    *)
(* zero-window probe timer, the FIN of nx_tcp_socket_disconnect, a reset,   *)
(* and a peer behind a network that loses, repeats and reorders.            *)
(*                                                                          *)
(* The IP mutex serialises the handlers, so each is one step; but           *)
(* send_internal gives the mutex up while it allocates, while it computes a *)
(* checksum, after each segment and while it is suspended, and there it is  *)
(* split: anything may happen before it has the mutex again.                *)
(*                                                                          *)
(* Sequence numbers are offsets in the stream: 0 is the first byte, and the *)
(* FIN takes one.  Abstracted: payload is the thread that wrote it; the     *)
(* peer sends no data; the congestion window never is the smaller one and a *)
(* timeout resends any part of what it may (fast retransmit only repeats    *)
(* segments earlier, which the network does here).                          *)
(***************************************************************************)
EXTENDS Naturals, FiniteSets, SequencesExt

CONSTANTS
    Threads,        \* application threads
    Mss,            \* _nx_tcp_socket_payload_mss
    QueueMax,       \* nx_tcp_socket_transmit_queue_maximum
    MaxRetries,     \* nx_tcp_socket_timeout_max_retries
    SackBuild,      \* NX_ENABLE_TCP_SACK is defined
    PoolRunsDry,    \* _nx_packet_allocate may fail inside a send
    Lossy,          \* a message leaves the network by itself too, not only pushed out
    MaxSeq,         \* bound: bytes the application offers
    MaxLen,         \* bound: bytes of one packet
    MaxWindow,      \* bound: the peer's receive buffer
    MaxSegs,        \* bound: segments the network holds
    MaxAcks         \* bound: acknowledgements the network holds

ASSUME SenderAssumption ==
    /\ IsFiniteSet(Threads)
    /\ {Mss, QueueMax, MaxRetries} \subseteq Nat \ {0}
    /\ {MaxSeq, MaxLen, MaxWindow, MaxSegs, MaxAcks} \subseteq Nat \ {0}
    /\ {SackBuild, PoolRunsDry, Lossy} \subseteq BOOLEAN

VARIABLES
    state,      \* nx_tcp_socket_state
    txSeq,      \* nx_tcp_socket_tx_sequence
    out,        \* nx_tcp_socket_tx_outstanding_bytes
    adv,        \* nx_tcp_socket_tx_window_advertised
    advMax,     \* nx_tcp_socket_tx_window_advertised_max
    queue,      \* nx_tcp_socket_transmit_sent_head .. tail
    probe,      \* nx_tcp_socket_zero_window_probe_has_data, _sequence, _data, _failure
    timer,      \* nx_tcp_socket_timeout # 0
    retries,    \* nx_tcp_socket_timeout_retries
    finAcked,   \* nx_tcp_socket_fin_acked
    waiters,    \* nx_tcp_socket_transmit_suspension_list
    pc,         \* where each thread is in send_internal, or in disconnect
    left,       \* the length of the packet it sends
    seg,        \* the segment it has built
    stream,     \* who wrote each byte given a sequence number so far
    segs,       \* segments on their way to the peer
    acks,       \* acknowledgements on their way back
    peer        \* what the peer has: bytes, FIN, right edge of its window

vars == <<state, txSeq, out, adv, advMax, queue, probe, timer, retries, finAcked,
          waiters, pc, left, seg, stream, segs, acks, peer>>
windowVars == <<adv, advMax>>
threadVars == <<waiters, pc, left, seg>>
netVars == <<segs, acks, peer>>

\* Unused until the next one is built or armed, when all of it is set.
NoSegment == [seq |-> 0, len |-> 0]
NoProbe == [on |-> FALSE, seq |-> 0, data |-> <<>>, failure |-> 0]

Init ==
    /\ state = "ESTABLISHED" /\ txSeq = 0 /\ out = 0
    /\ adv \in 0..MaxWindow /\ advMax = adv
    /\ queue = <<>>
    /\ probe = NoProbe
    /\ timer = FALSE /\ retries = 0 /\ finAcked = FALSE
    /\ waiters = <<>>
    /\ pc = [t \in Threads |-> "idle"]
    /\ left = [t \in Threads |-> 0]
    /\ seg = [t \in Threads |-> NoSegment]
    /\ stream = <<>>
    /\ segs = {} /\ acks = {}
    /\ peer = [bytes |-> <<>>, fin |-> FALSE, edge |-> adv]

-----------------------------------------------------------------------------
(* The network *)

\* The network with the messages of new in it.  It holds max of them: what is
\* pushed out is lost, but not all of what is new.
Put(net, new, max) ==
    LET all == net \cup new
    IN  IF Cardinality(all) <= max THEN {all}
        ELSE {n \in kSubset(max, all) : n \cap new # {}}

Data(s, n) == [seq |-> s, data |-> SubSeq(stream, s + 1, s + n), fin |-> FALSE]
Fin(s) == [seq |-> s, data |-> <<>>, fin |-> TRUE]

-----------------------------------------------------------------------------
(* nx_tcp_socket_send_internal *)

\* _nx_tcp_socket_sws_send_permitted, for given outstanding bytes and windows
SwsPermits(o, a, m) ==
    LET usable == IF a > o THEN a - o ELSE 0
    IN  /\ usable # 0
        /\ \/ o = 0
           \/ usable >= Mss
           \/ m \div 2 # 0 /\ usable >= m \div 2

\* How many bytes of a packet of n bytes the windows let go in one segment.
Credit(n, o, a, m) ==
    LET usable == IF a > o THEN a - o ELSE 0
    IN  IF n > usable /\ ~SwsPermits(o, a, m) THEN 0
        ELSE IF usable > Mss THEN Mss ELSE usable

\* Mutant: the timer is left to the transmit list (the code before the fix its
\* comment describes).
ProbeArm_NoTimer(t) ==
    IF adv # 0 \/ probe.on THEN UNCHANGED <<probe, timer, retries>>
    ELSE /\ probe' = [on |-> TRUE, seq |-> txSeq, data |-> <<t>>, failure |-> 0]
         /\ UNCHANGED <<timer, retries>>

\* _nx_tcp_socket_zero_window_probe_arm with the packet of thread t
ProbeArm(t) ==
    IF adv # 0 THEN UNCHANGED <<probe, timer, retries>>
    ELSE /\ probe' = IF probe.on THEN probe
                     ELSE [on |-> TRUE, seq |-> txSeq, data |-> <<t>>, failure |-> 0]
         /\ timer' = TRUE
         /\ retries' = IF timer THEN retries ELSE 0

\* One pass of the loop for a packet of n bytes, up to the point where it
\* gives the mutex up: to allocate a packet for what fits, to checksum the
\* segment it has built, to suspend, or to return NX_WINDOW_OVERFLOW or
\* NX_TX_QUEUE_DEPTH.
LoopBody(t, n) ==
    LET w == Credit(n, out, adv, advMax)
    IN  /\ \/ /\ w # 0 /\ Len(queue) < QueueMax
              /\ left' = [left EXCEPT ![t] = n]
              /\ \/ /\ pc' = [pc EXCEPT ![t] = "alloc"]
                    /\ seg' = [seg EXCEPT ![t] = [seq |-> 0, len |-> IF n > w THEN w ELSE n]]
                 \/ /\ n <= w
                    /\ pc' = [pc EXCEPT ![t] = "built"]
                    /\ seg' = [seg EXCEPT ![t] = [seq |-> txSeq, len |-> n]]
              /\ UNCHANGED <<probe, timer, retries, waiters>>
           \/ /\ ~(w # 0 /\ Len(queue) < QueueMax)
              /\ \/ pc' = [pc EXCEPT ![t] = "blocked"] /\ waiters' = Append(waiters, t)
                    /\ left' = [left EXCEPT ![t] = n]
                 \/ pc' = [pc EXCEPT ![t] = "idle"] /\ waiters' = waiters
                    /\ left' = [left EXCEPT ![t] = 0]
              /\ seg' = [seg EXCEPT ![t] = NoSegment]
              /\ ProbeArm(t)
        /\ UNCHANGED <<state, txSeq, out, windowVars, queue, finAcked, stream, netVars>>

\* Bytes the threads in send have still to send.
Offered == MapThenSumSet(LAMBDA u : left[u], Threads)

\* The call: the state is checked and the first pass made under one mutex hold.
Send(t) ==
    /\ pc[t] = "idle"
    /\ state = "ESTABLISHED"
    /\ \E n \in 1..MaxLen : txSeq + n + Offered <= MaxSeq /\ LoopBody(t, n)

\* Another pass: after a segment of a longer packet, after a changed sequence
\* number, or after the thread was resumed.  The state is not looked at.
SendAgain(t) == pc[t] = "loop" /\ LoopBody(t, left[t])

\* The thread leaves the call, with or without an error.
Return(t) ==
    /\ pc' = [pc EXCEPT ![t] = "idle"]
    /\ left' = [left EXCEPT ![t] = 0]
    /\ seg' = [seg EXCEPT ![t] = NoSegment]
    /\ UNCHANGED waiters

\* Mutant: the windows are not looked at again after the allocation.
Allocated_NoSecondLook(t) ==
    /\ pc[t] = "alloc"
    /\ pc' = [pc EXCEPT ![t] = "built"]
    /\ seg' = [seg EXCEPT ![t].seq = txSeq]
    /\ UNCHANGED <<state, txSeq, out, windowVars, queue, probe, timer, retries,
                   finAcked, waiters, left, stream, netVars>>

\* The packet is allocated and filled, and the mutex held again.  A build with
\* NX_ENABLE_TCP_SACK looks at the state and the windows once more; any other
\* builds the segment it had planned.
Allocated(t) ==
    /\ pc[t] = "alloc"
    /\ LET usable == IF adv > out THEN adv - out ELSE 0
       IN  IF SackBuild /\ state # "ESTABLISHED"
             THEN /\ Return(t)
                  /\ UNCHANGED <<state, txSeq, out, windowVars, queue, probe, timer, retries,
                                 finAcked, stream, netVars>>
           ELSE IF SackBuild /\ seg[t].len > usable
             THEN LoopBody(t, left[t])
           ELSE /\ pc' = [pc EXCEPT ![t] = "built"]
                /\ seg' = [seg EXCEPT ![t].seq = txSeq]
                /\ UNCHANGED <<state, txSeq, out, windowVars, queue, probe, timer, retries,
                               finAcked, waiters, left, stream, netVars>>

\* _nx_packet_allocate returns an error: so does the call.
AllocateFails(t) ==
    /\ PoolRunsDry
    /\ pc[t] = "alloc"
    /\ Return(t)
    /\ UNCHANGED <<state, txSeq, out, windowVars, queue, probe, timer, retries, finAcked,
                   stream, netVars>>

\* The checksum is computed and the mutex held again.  With the sequence number
\* taken by another sender the pass is made again; with the connection gone
\* the call returns; else the segment is queued and sent.
Commit(t) ==
    LET n == seg[t].len
        more == left[t] - n
    IN  /\ pc[t] = "built"
        /\ \/ /\ seg[t].seq # txSeq
              /\ pc' = [pc EXCEPT ![t] = "loop"]
              /\ seg' = [seg EXCEPT ![t] = NoSegment]
              /\ UNCHANGED <<state, txSeq, out, queue, probe, timer, retries, stream, waiters,
                             left, segs>>
           \/ /\ seg[t].seq = txSeq /\ state # "ESTABLISHED"
              /\ Return(t)
              /\ UNCHANGED <<state, txSeq, out, queue, probe, timer, retries, stream, segs>>
           \/ /\ seg[t].seq = txSeq /\ state = "ESTABLISHED"
              /\ txSeq' = txSeq + n
              /\ stream' = stream \o [k \in 1..n |-> t]
              /\ probe' = NoProbe
              /\ queue' = Append(queue, [seq |-> txSeq, len |-> n, done |-> FALSE])
              /\ IF queue = <<>> THEN out' = n /\ timer' = TRUE /\ retries' = 0
                                 ELSE out' = out + n /\ UNCHANGED <<timer, retries>>
              /\ segs' \in Put(segs, {[seq |-> txSeq, data |-> [k \in 1..n |-> t], fin |-> FALSE]}, MaxSegs)
              /\ left' = [left EXCEPT ![t] = more]
              /\ pc' = [pc EXCEPT ![t] = IF more = 0 THEN "idle" ELSE "loop"]
              /\ seg' = [seg EXCEPT ![t] = NoSegment]
              /\ UNCHANGED <<state, waiters>>
        /\ UNCHANGED <<windowVars, finAcked, acks, peer>>

\* _nx_tcp_transmit_cleanup: the wait ends with an error.  The list's head moves
\* past the thread whichever thread it is.
WaitTimeout(t) ==
    \E i \in DOMAIN waiters :
        /\ waiters[i] = t
        /\ waiters' = SubSeq(waiters, i + 1, Len(waiters)) \o SubSeq(waiters, 1, i - 1)
        /\ pc' = [pc EXCEPT ![t] = "idle"]
        /\ left' = [left EXCEPT ![t] = 0]
        /\ UNCHANGED <<state, txSeq, out, windowVars, queue, probe, timer, retries, finAcked,
                       seg, stream, netVars>>

\* The driver has transmitted the i-th packet of the queue.
DriverDone(i) ==
    /\ i \in DOMAIN queue /\ ~queue[i].done
    /\ queue' = [queue EXCEPT ![i].done = TRUE]
    /\ UNCHANGED <<state, txSeq, out, windowVars, probe, timer, retries, finAcked, threadVars,
                   stream, netVars>>

-----------------------------------------------------------------------------
(* The end of the connection *)

\* nx_tcp_socket_block_cleanup, nx_tcp_socket_transmit_queue_flush and
\* nx_tcp_transmit_cleanup of every suspended sender.  Segments still in the
\* network are nobody's any more.
Shut(closer) ==
    /\ state' = "CLOSED"
    /\ timer' = FALSE
    /\ probe' = NoProbe
    /\ queue' = <<>>
    /\ waiters' = <<>>
    /\ pc' = [t \in Threads |-> IF pc[t] = "blocked" \/ t \in closer THEN "idle" ELSE pc[t]]
    /\ left' = [t \in Threads |-> IF pc[t] = "blocked" THEN 0 ELSE left[t]]
    /\ segs' = {} /\ acks' = {}
    /\ UNCHANGED <<txSeq, out, windowVars, retries, finAcked, seg, stream, peer>>

\* nx_tcp_socket_disconnect, without a wait option (a RST is sent) ...
DisconnectNow(t) == pc[t] = "idle" /\ state = "ESTABLISHED" /\ Shut({})

\* Mutant: the timer is not started for the FIN.
Disconnect_NoTimer(t) ==
    /\ pc[t] = "idle"
    /\ state = "ESTABLISHED"
    /\ state' = "FIN_WAIT_1"
    /\ txSeq' = txSeq + 1
    /\ segs' \in Put(segs, {Fin(txSeq)}, MaxSegs)
    /\ pc' = [pc EXCEPT ![t] = "closing"]
    /\ UNCHANGED <<out, windowVars, queue, probe, timer, retries, finAcked, waiters, left, seg,
                   stream, acks, peer>>

\* ... and with one, up to its suspension: the FIN is sent.
Disconnect(t) ==
    /\ pc[t] = "idle"
    /\ state = "ESTABLISHED"
    /\ state' = "FIN_WAIT_1"
    /\ txSeq' = txSeq + 1
    /\ IF queue = <<>> THEN timer' = TRUE /\ retries' = 0 ELSE UNCHANGED <<timer, retries>>
    /\ segs' \in Put(segs, {Fin(txSeq)}, MaxSegs)
    /\ pc' = [pc EXCEPT ![t] = "closing"]
    /\ UNCHANGED <<out, windowVars, queue, probe, finAcked, waiters, left, seg, stream, acks, peer>>

\* The disconnecting thread runs again: its wait timed out, the connection was
\* reset, or (from FIN_WAIT_2) the peer's FIN came.
DisconnectEnds(t) == pc[t] = "closing" /\ Shut({t})

\* The peer's RST: nx_tcp_socket_connection_reset.
PeerResets == state # "CLOSED" /\ Shut({})

-----------------------------------------------------------------------------
(* nx_tcp_fast_periodic_processing, when the socket's timer has run down *)

FinPending == state = "FIN_WAIT_1" /\ ~finAcked

\* _nx_tcp_socket_data_unacked, and starting_tx_sequence of the ACK check
Unacked == txSeq - out - (IF FinPending THEN 1 ELSE 0)

\* ending_tx_sequence: with a probe out, its byte may be acknowledged as well.
Ending == IF probe.on THEN txSeq + 1 ELSE txSeq

\* Counters saturate at the limit they are compared with.
More(counter) == IF counter < MaxRetries THEN counter + 1 ELSE counter

\* A probe that is armed moves the retry limit onto its own failure count.
Exhausted == (IF probe.on THEN probe.failure ELSE retries) >= MaxRetries

TimerGivesUp == timer /\ state # "CLOSED" /\ Exhausted /\ Shut({})

\* nx_tcp_socket_retransmit against a zero window: probe with the first byte
\* the peer lacks, or with the one a sender armed.  With neither, nothing.
TimerProbes ==
    /\ timer /\ ~Exhausted
    /\ adv = 0
    /\ queue # <<>> \/ (state = "ESTABLISHED" /\ probe.on)
    /\ LET old == IF probe.on THEN probe.failure ELSE 0
           at == IF queue # <<>> THEN Unacked ELSE probe.seq
           byte == IF queue # <<>> THEN <<stream[Unacked + 1]>> ELSE probe.data
       IN  /\ probe' = [on |-> TRUE, seq |-> at, data |-> byte, failure |-> More(old)]
           /\ segs' \in Put(segs, {[seq |-> at, data |-> byte, fin |-> FALSE]}, MaxSegs)
    /\ retries' = More(retries)
    /\ UNCHANGED <<state, txSeq, out, windowVars, queue, timer, finAcked, threadVars, stream,
                   acks, peer>>

\* The packets a timeout sends again: from the head on, those the driver has
\* completed, up to a congestion window of one segment.
Resendable ==
    {i \in DOMAIN queue : /\ \A j \in 1..i : queue[j].done
                          /\ queue[i].seq + queue[i].len <= Unacked + Mss}

\* Mutant: the timer is not started again.
TimerResends_NotRearmed ==
    /\ timer /\ ~Exhausted
    /\ adv # 0
    /\ queue # <<>>
    /\ timer' = FALSE
    /\ segs' \in Put(segs, {Data(queue[i].seq, queue[i].len) : i \in Resendable}, MaxSegs)
    /\ UNCHANGED <<state, txSeq, out, windowVars, queue, probe, retries, finAcked, threadVars,
                   stream, acks, peer>>

\* nx_tcp_socket_retransmit otherwise.  A head that is partly acknowledged is
\* sent as a slice, a copy of what remains of it.
TimerResends ==
    /\ timer /\ ~Exhausted
    /\ adv # 0
    /\ queue # <<>>
    /\ probe' = NoProbe
    /\ retries' = More(retries)
    /\ queue' = [i \in DOMAIN queue |->
                    IF i \in Resendable /\ queue[i].seq >= Unacked
                      THEN [queue[i] EXCEPT !.done = FALSE] ELSE queue[i]]
    /\ LET from(i) == IF queue[i].seq < Unacked THEN Unacked ELSE queue[i].seq
       IN  segs' \in Put(segs, {Data(from(i), queue[i].seq + queue[i].len - from(i)) :
                                  i \in Resendable}, MaxSegs)
    /\ UNCHANGED <<state, txSeq, out, windowVars, timer, finAcked, threadVars, stream, acks, peer>>

TimerResendsFin ==
    /\ timer /\ ~Exhausted
    /\ queue = <<>>
    /\ state = "FIN_WAIT_1"
    /\ retries' = More(retries)
    /\ segs' \in Put(segs, {Fin(txSeq - 1)}, MaxSegs)
    /\ UNCHANGED <<state, txSeq, out, windowVars, queue, probe, timer, finAcked, threadVars,
                   stream, acks, peer>>

-----------------------------------------------------------------------------
(* nx_tcp_socket_packet_process, for an acknowledgement *)

\* acked_bytes
Acked(m) ==
    IF m.ack <= Unacked THEN 0 ELSE IF m.ack - Unacked < out THEN m.ack - Unacked ELSE out

\* packet_release_count
\* Mutant: a packet counts as acknowledged when its first byte is.
Released_ByStart(m) ==
    IF m.ack = Ending THEN Len(queue)
    ELSE Cardinality({i \in DOMAIN queue : Unacked <= m.ack /\ queue[i].seq < m.ack})

Released(m) ==
    IF m.ack = Ending THEN Len(queue)
    ELSE Cardinality({i \in DOMAIN queue : /\ Unacked <= m.ack
                                           /\ queue[i].seq + queue[i].len <= m.ack})

\* Mutant: off by one, the acknowledgement of the last byte of data passes.
AcksFin_OffByOne(m) == m.ack + 1 >= Ending /\ state # "ESTABLISHED"

\* "Is this ACK to FIN?"
AcksFin(m) == m.ack = Ending /\ state # "ESTABLISHED"

\* The timer and the retry count after k packets were released and n bytes
\* acknowledged: both start again on progress, but the timer stops when an
\* open window leaves nothing to wait for, and in FIN_WAIT_2.
AckTimer(k, n) ==
    LET drained == k # 0 /\ k = Len(queue)
        restart == n # 0 \/ (k # 0 /\ (~drained \/ state = "FIN_WAIT_1"))
    IN  /\ retries' = IF restart THEN 0 ELSE retries
        /\ timer' = (/\ timer \/ restart
                     /\ ~(drained /\ state # "FIN_WAIT_1" /\ adv' # 0)
                     /\ ~(state = "FIN_WAIT_1" /\ finAcked'))

\* nx_tcp_socket_state_transmit_check: resume the first suspended sender if
\* something of its packet can be sent.
TransmitCheck ==
    IF /\ state = "ESTABLISHED" /\ waiters # <<>>
       /\ Credit(left[Head(waiters)], out', adv', advMax') # 0
       /\ Len(queue') < QueueMax
      THEN /\ waiters' = Tail(waiters)
           /\ pc' = [pc EXCEPT ![Head(waiters)] = "loop"]
      ELSE UNCHANGED <<waiters, pc>>

\* nx_tcp_socket_state_ack_check, then nx_tcp_socket_state_transmit_check or
\* nx_tcp_socket_state_fin_wait1.
AckCheck(m) ==
    /\ finAcked' = (finAcked \/ AcksFin(m))
    /\ out' = out - Acked(m)
    /\ adv' = IF m.ack >= Unacked THEN m.wnd ELSE adv
    /\ advMax' = IF adv' > advMax THEN adv' ELSE advMax
    /\ probe' = IF adv' <= out' /\ m.ack >= probe.seq THEN [probe EXCEPT !.failure = 0] ELSE probe
    /\ queue' = SubSeq(queue, Released(m) + 1, Len(queue))
    /\ AckTimer(Released(m), Acked(m))
    /\ TransmitCheck
    /\ state' = IF state = "FIN_WAIT_1" /\ finAcked' THEN "FIN_WAIT_2" ELSE state
    /\ UNCHANGED <<txSeq, left, seg, stream>>

\* An acknowledgement of more than was sent is only answered.
AckArrives(m) ==
    /\ m \in acks
    /\ state # "CLOSED"
    /\ IF m.ack > Ending
         THEN UNCHANGED <<state, txSeq, out, windowVars, queue, probe, timer, retries, finAcked,
                          threadVars, stream>>
         ELSE AckCheck(m)
    /\ UNCHANGED netVars

-----------------------------------------------------------------------------
(* The peer and the network.  The peer takes what is in order and inside its *)
(* window, acknowledges every segment, and opens its window as its           *)
(* application reads.  A message stays in the network, to arrive again or    *)
(* after a later one, until it is lost.                                      *)

Got == Len(peer.bytes)
AckOf(p) == [ack |-> Len(p.bytes) + (IF p.fin THEN 1 ELSE 0), wnd |-> p.edge - Len(p.bytes)]

PeerTakes(m) ==
    LET last == IF peer.edge < m.seq + Len(m.data) THEN peer.edge ELSE m.seq + Len(m.data)
    IN  IF peer.fin \/ m.seq > Got THEN peer
        ELSE [peer EXCEPT !.bytes = @ \o SubSeq(m.data, Got - m.seq + 1, last - m.seq),
                          !.fin = m.fin /\ m.seq = Got]

PeerReceives(m) ==
    /\ m \in segs
    /\ state # "CLOSED"
    /\ \E p \in {PeerTakes(m)} : peer' = p /\ acks' \in Put(acks, {AckOf(p)}, MaxAcks)
    /\ UNCHANGED <<state, txSeq, out, windowVars, queue, probe, timer, retries, finAcked,
                   threadVars, stream, segs>>

\* Its application reads, and the window update is sent.
PeerOpens ==
    /\ state # "CLOSED"
    /\ \E e \in (peer.edge + 1)..(Got + MaxWindow) :
          /\ peer' = [peer EXCEPT !.edge = e]
          /\ acks' \in Put(acks, {AckOf([peer EXCEPT !.edge = e])}, MaxAcks)
    /\ UNCHANGED <<state, txSeq, out, windowVars, queue, probe, timer, retries, finAcked,
                   threadVars, stream, segs>>

\* A message that is never delivered is as good as lost, so that safety needs no
\* step for it; liveness does.
NetworkLoses ==
    /\ Lossy
    /\ \/ acks' = acks /\ \E m \in segs : segs' = segs \ {m}
       \/ segs' = segs /\ \E m \in acks : acks' = acks \ {m}
    /\ UNCHANGED <<state, txSeq, out, windowVars, queue, probe, timer, retries, finAcked,
                   threadVars, stream, peer>>

-----------------------------------------------------------------------------
ThreadStep(t) ==
    Send(t) \/ SendAgain(t) \/ Allocated(t) \/ AllocateFails(t) \/ Commit(t) \/ WaitTimeout(t)

Closing(t) == DisconnectNow(t) \/ Disconnect(t) \/ DisconnectEnds(t)

TimerExpires == TimerGivesUp \/ TimerProbes \/ TimerResends \/ TimerResendsFin

Next ==
    \/ \E t \in Threads : ThreadStep(t) \/ Closing(t)
    \/ \E i \in 1..QueueMax : DriverDone(i)
    \/ TimerExpires
    \/ PeerResets
    \/ \E m \in segs : PeerReceives(m)
    \/ \E m \in acks : AckArrives(m)
    \/ PeerOpens
    \/ NetworkLoses

Spec == Init /\ [][Next]_vars

\* A thread that has begun to send goes on, the driver completes, the timer
\* runs, the peer's application reads.  The network loses for ever neither the
\* segment the peer waits for nor its newest acknowledgement.
Fairness ==
    /\ \A t \in Threads : WF_vars(SendAgain(t) \/ Allocated(t) \/ Commit(t))
    /\ \A i \in 1..QueueMax : WF_vars(DriverDone(i))
    /\ WF_vars(TimerExpires)
    /\ WF_vars(PeerOpens)
    /\ SF_vars(\E m \in segs : PeerReceives(m) /\ PeerTakes(m) # peer)
    /\ SF_vars(\E m \in segs : PeerReceives(m))
    /\ SF_vars(\E m \in acks : AckArrives(m) /\ m = AckOf(peer))

FairSpec == Spec /\ Fairness
-----------------------------------------------------------------------------
(* Properties *)

Connected == state # "CLOSED"
FinSent == IF state = "ESTABLISHED" THEN 0 ELSE 1

\* The transmit list is the stretch of the stream the peer has not
\* acknowledged: no gap, no overlap, its end the next sequence number, and the
\* outstanding count its length from the first byte not acknowledged, whichever
\* of several senders, partial acknowledgements and a FIN came in between.
QueueIsUnacked ==
    Connected =>
        /\ \A i \in 1..(Len(queue) - 1) : queue[i + 1].seq = queue[i].seq + queue[i].len
        /\ queue = <<>> => out = 0
        /\ queue # <<>> =>
              /\ queue[Len(queue)].seq + queue[Len(queue)].len = txSeq - FinSent
              /\ txSeq - FinSent - out \in queue[1].seq..(queue[1].seq + queue[1].len - 1)

\* Nothing leaves the transmit list that the peer does not have, and the FIN
\* counts as acknowledged only when the peer has it and all the data before it:
\* an acknowledgement of a probe, a stale or a duplicate one never passes for more.
ReleasedIsDelivered ==
    Connected =>
        /\ txSeq - FinSent - out <= Got
        /\ finAcked => peer.fin /\ Got = txSeq - 1

\* The timer runs while a packet or a FIN is not acknowledged.
TimerRunsWhenNeeded == Connected /\ (queue # <<>> \/ FinPending) => timer

\* New data never passes the right edge of the window the peer has advertised,
\* though the window is read before send_internal gives the mutex up and
\* several senders share it.
WithinWindow == state = "ESTABLISHED" => txSeq <= peer.edge

\* A suspended sender never waits for an event nobody will cause: the timer
\* runs, or a thread is on its way to start it, by a segment or by the probe
\* that stands in for a window update that may have been lost.
WaiterHasWakeup ==
    state = "ESTABLISHED" /\ waiters # <<>>
        => timer \/ \E t \in Threads : pc[t] \in {"loop", "alloc", "built"}

\* What was queued is acknowledged in the end, or the connection is given up.
QueueDrains == queue # <<>> ~> queue = <<>>

\* The bytes the peer has are the bytes of the stream.
StreamIntact ==
    \A i \in 1..Got : i <= Len(stream) => peer.bytes[i] = stream[i]

=============================================================================
