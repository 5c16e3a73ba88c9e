----------------------------- MODULE TcpReceiver -----------------------------
(***************************************************************************)
(* The receiving half of one connected NX_TCP_SOCKET: segments of a peer   *)
(* that cuts its stream anew with every transmission, over a network that  *)
(* loses, repeats and reorders; nx_tcp_socket_receive from several         *)
(* threads; the window, delayed acknowledgements and the peer's FIN.       *)
(*                                                                         *)
(* Every handler runs under the IP mutex and is one step.                  *)
(*                                                                         *)
(* Sequence numbers are offsets in the peer's stream: byte i has number i  *)
(* and, so that misplaced bytes show, value i; the FIN has number Total.   *)
(* Abstracted: the peer has sent any segment its window ever allowed, so   *)
(* any of them may arrive at any time; after new data the threshold for    *)
(* an immediate acknowledgement may or may not be reached; the delayed ACK *)
(* timer may expire at any time.  Options (SACK, timestamps) and the       *)
(* urgent pointer are left out, window scaling is 0.                       *)
(***************************************************************************)
EXTENDS Naturals, FiniteSets, SequencesExt

CONSTANTS
    Threads,        \* application threads
    Mss,            \* nx_tcp_socket_connect_mss
    WindowDefault,  \* nx_tcp_socket_rx_window_default
    Caps,           \* values of nx_tcp_socket_rx_window_cap, 0 for none
    PoolRunsDry,    \* _nx_packet_allocate may fail for an acknowledgement
    Total           \* bound: bytes the peer sends

ASSUME ReceiverAssumption ==
    /\ IsFiniteSet(Threads)
    /\ {Mss, WindowDefault} \subseteq Nat \ {0}
    /\ Caps \subseteq Nat /\ Total \in Nat
    /\ PoolRunsDry \in BOOLEAN

VARIABLES
    state,      \* nx_tcp_socket_state
    rcv,        \* rx_sequence, rx_window_current, rx_window_last_sent, rx_sequence_acked
    cap,        \* nx_tcp_socket_rx_window_cap
    fin,        \* {nx_tcp_socket_fin_sequence} when fin_received, else {}
    queue,      \* nx_tcp_socket_receive_queue_head .. tail
    waiters,    \* nx_tcp_socket_receive_suspension_list
    delivered,  \* the bytes handed to readers so far
    ended,      \* a reader got NX_NOT_CONNECTED
    ack,        \* the newest acknowledgement on its way to the peer, if any
    peer        \* SND.UNA of the peer, and the right edge it may send up to

vars == <<state, rcv, cap, fin, queue, waiters, delivered, ended, ack, peer>>
readerVars == <<waiters, delivered, ended>>

Min2(a, b) == IF a < b THEN a ELSE b
Max2(a, b) == IF a > b THEN a ELSE b
\* An unsigned difference that stops at 0
Less(a, b) == IF a > b THEN a - b ELSE 0

End(p) == p.seq + Len(p.data)
Bytes(b, e) == [i \in 1..(e - b) |-> b + i - 1]

Segment(b, e, f) == [seq |-> b, data |-> Bytes(b, e), fin |-> f]

-----------------------------------------------------------------------------
(* The window *)

Capped(w) == IF cap = 0 THEN w ELSE Min2(w, cap)

Init ==
    /\ state = "ESTABLISHED"
    /\ cap \in Caps
    /\ rcv = [seq |-> 0, win |-> WindowDefault, sent |-> Capped(WindowDefault), acked |-> 0]
    /\ fin = {}
    /\ queue = <<>>
    /\ waiters = <<>> /\ delivered = <<>> /\ ended = FALSE
    /\ ack = {}
    /\ peer = [una |-> 0, edge |-> rcv.sent]

\* Mutant: the cap applies to what has been offered already.
Open_CapPullsBack(r) == Capped(r.win)

\* _nx_tcp_socket_rx_window_open
Open(r) == Min2(r.win, Max2(Capped(r.win), r.sent))

\* NX_TCP_SWS_FLOOR
SwsFloor == Min2(Mss, WindowDefault \div 2)

\* _nx_tcp_socket_rx_window_advertised: below the floor the right edge stays.
Advertised(r) == IF Open(r) >= SwsFloor THEN Open(r) ELSE Min2(Open(r), r.sent)

\* _nx_tcp_socket_window_update_step
UpdateStep ==
    LET w == Capped(WindowDefault)
    IN  IF w <= 16 * Mss THEN Min2(w \div 2, 2 * Mss) ELSE w \div 2

\* _nx_tcp_packet_send_control with an ACK, or a data segment that carries one
AckSent(r) == [r EXCEPT !.acked = r.seq, !.sent = Advertised(r)]
AckMessage(r) == {[seq |-> r.seq, edge |-> r.seq + Advertised(r)]}

\* One call of _nx_tcp_packet_send_ack: sent, or given up for want of a packet.
SendAck(r) ==
    \/ rcv' = AckSent(r) /\ ack' = AckMessage(r)
    \/ PoolRunsDry /\ rcv' = r /\ UNCHANGED ack

NoAck(r) == rcv' = r /\ UNCHANGED ack

-----------------------------------------------------------------------------
(* nx_tcp_socket_packet_process: is the segment inside the window? *)

ReceiveWindow == IF rcv.win < SwsFloor THEN Min2(rcv.win, rcv.sent) ELSE rcv.win

InWindow(s) ==
    IF s.data = <<>>
    THEN IF ReceiveWindow = 0 THEN s.seq = rcv.seq \/ ~s.fin
         ELSE rcv.seq <= s.seq /\ s.seq < rcv.seq + ReceiveWindow
    ELSE ReceiveWindow > 0 /\ s.seq < rcv.seq + ReceiveWindow /\ End(s) > rcv.seq

\* Mutant: data received already is answered only with something new.
ArrivesOutside_OldDataUnanswered(s) ==
    /\ ~InWindow(s)
    /\ IF s.seq + 1 >= rcv.seq \/ rcv.seq # rcv.acked \/ Advertised(rcv) # rcv.sent
       THEN SendAck(rcv) ELSE NoAck(rcv)
    /\ UNCHANGED <<state, cap, fin, queue, readerVars, peer>>

\* Mutant: a repeated FIN, one before rx_sequence, is not answered.
ArrivesOutside_FinUnanswered(s) ==
    /\ ~InWindow(s)
    /\ IF s.seq >= rcv.seq \/ s.data # <<>> \/ rcv.seq # rcv.acked \/ Advertised(rcv) # rcv.sent
       THEN SendAck(rcv) ELSE NoAck(rcv)
    /\ UNCHANGED <<state, cap, fin, queue, readerVars, peer>>

\* The early return for a segment outside of the window
ArrivesOutside(s) ==
    /\ ~InWindow(s)
    /\ IF \/ s.seq + 1 >= rcv.seq
          \/ s.data # <<>>
          \/ rcv.seq # rcv.acked
          \/ Advertised(rcv) # rcv.sent
       THEN SendAck(rcv) ELSE NoAck(rcv)
    /\ UNCHANGED <<state, cap, fin, queue, readerVars, peer>>

-----------------------------------------------------------------------------
(* nx_tcp_socket_state_data_check *)

\* _nx_tcp_socket_state_data_trim_front and its caller: what begins at s
TrimFront(p, s) ==
    IF p.seq >= s THEN p
    ELSE [p EXCEPT !.seq = s, !.data = SubSeq(@, s - p.seq + 1, Len(@))]

\* _nx_tcp_socket_state_data_trim: what ends before s
Trim(p, s) == IF End(p) <= s THEN p ELSE [p EXCEPT !.data = SubSeq(@, 1, s - p.seq)]

\* A segment as it is queued: old bytes and bytes beyond the window cut off
Trimmed(s) ==
    Trim(TrimFront([seq |-> s.seq, data |-> s.data, ready |-> FALSE], rcv.seq), rcv.seq + rcv.win)

\* One queued packet holds all of p.
Covered(p) == \E x \in Range(queue) : x.seq <= p.seq /\ End(p) <= End(x)

\* Where the walk stops: at the first of the places, or past the tail.
Stop(places) == CHOOSE i \in places \cup {Len(queue) + 1} : \A j \in places : i <= j

\* Mutant: the packet before is not cut where the new one begins.
Inserted_TailKept(p) ==
    LET at   == Stop({i \in DOMAIN queue : queue[i].seq >= p.seq})
        next == Stop({i \in DOMAIN queue : i >= at /\ End(queue[i]) > End(p)})
    IN  SubSeq(queue, 1, at - 1)
        \o <<IF next > Len(queue) THEN p ELSE Trim(p, queue[next].seq)>>
        \o SubSeq(queue, next, Len(queue))

\* The walk that inserts p: packets p covers are released, one that p runs
\* into at its end cuts p, one that reaches into p is cut itself.
Inserted(p) ==
    LET at   == Stop({i \in DOMAIN queue : queue[i].seq >= p.seq})
        next == Stop({i \in DOMAIN queue : i >= at /\ End(queue[i]) > End(p)})
    IN  [i \in 1..(at - 1) |-> Trim(queue[i], p.seq)]
        \o <<IF next > Len(queue) THEN p ELSE Trim(p, queue[next].seq)>>
        \o SubSeq(queue, next, Len(queue))

\* How many packets of q, from the head, follow on each other from rx_sequence
Contiguous(q) ==
    LET Expected(i) == IF i = 1 THEN rcv.seq ELSE Max2(rcv.seq, End(q[i - 1]))
    IN  CHOOSE n \in 0..Len(q) :
            /\ \A i \in 1..n : q[i].seq <= Expected(i)
            /\ n < Len(q) => q[n + 1].seq > Expected(n + 1)

MarkReady(q, n) ==
    [i \in DOMAIN q |-> IF i <= n /\ End(q[i]) > rcv.seq THEN [q[i] EXCEPT !.ready = TRUE] ELSE q[i]]

Data(q) == FlattenSeq([i \in DOMAIN q |-> q[i].data])

\* Mutant: a FIN is acted upon as soon as it is seen.
Concludes_FinOutOfOrder(r, need, f, ws) ==
    IF f = {} THEN
        /\ IF need THEN SendAck(r) ELSE NoAck(r)
        /\ waiters' = ws
        /\ UNCHANGED <<state, ended>>
    ELSE
        /\ state' = "CLOSE_WAIT"
        /\ waiters' = <<>>
        /\ ended' = (ended \/ ws # <<>>)
        /\ SendAck([r EXCEPT !.seq = @ + 1])

\* The end of the handler: data_check's acknowledgement, then
\* nx_tcp_socket_state_established, which takes the FIN when it is its turn,
\* ends the waits that are left and acknowledges again.
Concludes(r, need, f, ws) ==
    IF f # {r.seq} THEN
        /\ IF need THEN SendAck(r) ELSE NoAck(r)
        /\ waiters' = ws
        /\ UNCHANGED <<state, ended>>
    ELSE
        /\ state' = "CLOSE_WAIT"
        /\ waiters' = <<>>
        /\ ended' = (ended \/ ws # <<>>)
        /\ \/ SendAck([r EXCEPT !.seq = @ + 1])
           \/ /\ PoolRunsDry /\ need
              /\ rcv' = [AckSent(r) EXCEPT !.seq = @ + 1]
              /\ ack' = AckMessage(r)

\* nx_tcp_socket_fin_sequence after segment s, queued as p
FinOf(s, p) == IF s.fin THEN {End(p)} ELSE fin

\* A segment without data: a bare acknowledgement or a FIN
EmptyArrives(s) ==
    /\ state = "ESTABLISHED" /\ s.data = <<>> /\ InWindow(s)
    /\ LET f == FinOf(s, s)
           need == queue = <<>> /\ rcv.seq \notin {s.seq, s.seq + 1}
       IN  fin' = f /\ Concludes(rcv, need, f, waiters)
    /\ UNCHANGED <<cap, queue, delivered, peer>>

\* All its bytes are queued already: it is dropped and acknowledged.
DuplicateArrives(s) ==
    /\ state = "ESTABLISHED" /\ s.data # <<>> /\ InWindow(s)
    /\ LET p == Trimmed(s)
           f == FinOf(s, p)
       IN  Covered(p) /\ fin' = f /\ Concludes(rcv, TRUE, f, waiters)
    /\ UNCHANGED <<cap, queue, delivered, peer>>

\* Mutant: what was offered last is not used up by the bytes that came.
Consume_OfferKept(r, n) == [r EXCEPT !.seq = @ + n, !.win = @ - n]

\* The receive window after rx_sequence has moved past n bytes
Consume(r, n) ==
    [r EXCEPT !.seq = @ + n, !.win = @ - n, !.sent = Less(@, n)]

\* Mutant: the bytes handed to waiting readers do not reopen the window.
HandedOff_WindowKept(r, bytes) == r

\* What waiting readers are given reopens the window.
HandedOff(r, bytes) == [r EXCEPT !.win = @ + Len(bytes)]

\* Mutant: one reader is resumed, as one sender is by an acknowledgement.
Served_OnlyOne(n) == IF n > 0 /\ waiters # <<>> THEN 1 ELSE 0

\* How many waiting readers get one of the n packets that are ready
Served(n) == Min2(n, Len(waiters))

\* The rest of data_check for queue q, whose first n packets are contiguous:
\* k of them go to readers.  gap: the segment was out of order; early: the
\* acknowledgement threshold is reached (its exemption of a FIN is no condition:
\* after a hand-off it reads the header of the packet handed over).
Queued(q, n, k, gap, f, early) ==
    \E ready \in {MarkReady(q, n)} :
    \E r \in {HandedOff(Consume(rcv, IF n = 0 THEN 0 ELSE Less(End(q[n]), rcv.seq)),
                        Data(SubSeq(ready, 1, k)))} :
        LET wide == r.sent > Open(r) \/ Open(r) - r.sent >= Capped(WindowDefault) \div 2
            news == r.seq # r.acked \/ Advertised(r) # r.sent
        IN  /\ queue' = SubSeq(ready, k + 1, Len(q))
            /\ delivered' = delivered \o Data(SubSeq(ready, 1, k))
            /\ Concludes(r, gap \/ ((wide \/ (early /\ r.seq # rcv.seq)) /\ news), f,
                         SubSeq(waiters, k + 1, Len(waiters)))

DataArrives(s) ==
    /\ state = "ESTABLISHED" /\ s.data # <<>> /\ InWindow(s)
    /\ \E p \in {Trimmed(s)}, early \in BOOLEAN :
          /\ ~Covered(p)
          /\ fin' = FinOf(s, p)
          /\ \E q \in {Inserted(p)} : \E n \in {Contiguous(q)} :
                Queued(q, n, Served(n), p.seq > rcv.seq, FinOf(s, p), early)
    /\ UNCHANGED <<cap, peer>>

-----------------------------------------------------------------------------
(* nx_tcp_socket_receive and its suspension *)

\* A packet is ready.
Receive(t) ==
    /\ t \notin Range(waiters)
    /\ queue # <<>> /\ queue[1].ready
    /\ queue' = Tail(queue)
    /\ delivered' = delivered \o queue[1].data
    /\ LET r == [rcv EXCEPT !.win = IF Len(queue) = 1 THEN WindowDefault
                                    ELSE @ + Len(queue[1].data)]
       IN  IF state = "ESTABLISHED" /\ Open(r) > r.sent /\ Open(r) - r.sent >= UpdateStep
           THEN SendAck(r) ELSE NoAck(r)
    /\ UNCHANGED <<state, cap, fin, waiters, ended, peer>>

\* Nothing is ready and the caller waits.
ReceiveWaits(t) ==
    /\ t \notin Range(waiters)
    /\ IF queue = <<>> THEN state = "ESTABLISHED" ELSE ~queue[1].ready
    /\ waiters' = Append(waiters, t)
    /\ UNCHANGED <<state, rcv, cap, fin, queue, delivered, ended, ack, peer>>

\* NX_NOT_CONNECTED: the queue is empty and the peer has closed.
ReceiveEnds(t) ==
    /\ t \notin Range(waiters)
    /\ queue = <<>> /\ state = "CLOSE_WAIT"
    /\ ended' = TRUE
    /\ UNCHANGED <<state, rcv, cap, fin, queue, waiters, delivered, ack, peer>>

\* nx_tcp_receive_cleanup: the wait option of waiter i expires.  The head of
\* the circular list moves on to the next of i, whether i was the head or not.
WaitTimesOut ==
    /\ \E i \in DOMAIN waiters :
          waiters' = SubSeq(waiters, i + 1, Len(waiters)) \o SubSeq(waiters, 1, i - 1)
    /\ UNCHANGED <<state, rcv, cap, fin, queue, delivered, ended, ack, peer>>

-----------------------------------------------------------------------------
(* Acknowledgements that no segment triggers *)

\* nx_tcp_fast_periodic_processing: the delayed acknowledgement is due.
DelayedAck ==
    /\ \/ rcv.seq # rcv.acked
       \/ /\ Open(rcv) > rcv.sent
          /\ \/ Open(rcv) - rcv.sent >= UpdateStep
             \/ rcv.sent < Mss /\ Open(rcv) >= 2 * Mss
    /\ SendAck(rcv)
    /\ UNCHANGED <<state, cap, fin, queue, readerVars, peer>>

\* nx_tcp_receive_pass_complete: the frames at hand have all been processed.
PassCompletes ==
    /\ state = "ESTABLISHED" /\ rcv.seq - rcv.acked >= 2 * Mss
    /\ SendAck(rcv)
    /\ UNCHANGED <<state, cap, fin, queue, readerVars, peer>>

\* nx_tcp_socket_send_internal or a retransmission sends data, and with it the
\* acknowledgement.  A send that gives its segment up after this loses it, as
\* the network may.
DataCarriesAck ==
    /\ rcv' = AckSent(rcv) /\ ack' = AckMessage(rcv)
    /\ UNCHANGED <<state, cap, fin, queue, readerVars, peer>>

\* The application writes the socket's cap.
CapChanges ==
    /\ cap' \in Caps \ {cap}
    /\ UNCHANGED <<state, rcv, fin, queue, readerVars, ack, peer>>

-----------------------------------------------------------------------------
(* The peer and the network *)

\* Any segment the peer may have sent, cut anywhere: inside the window it knew
\* at some time, or one byte beyond it, to probe a window that is full.
PeerSegments ==
    LET Cuts == {c \in (0..Total) \X (0..Total) : c[1] <= c[2] /\ c[2] <= c[1] + Mss}
        Sent == {c \in Cuts : \/ c[2] <= peer.edge
                              \/ c[1] = peer.edge /\ c[2] = c[1] + 1 /\ peer.una = peer.edge}
    IN  {Segment(c[1], c[2], FALSE) : c \in Sent}
        \cup {Segment(c[1], Total, TRUE) : c \in {x \in Sent : x[2] = Total /\ Total <= peer.edge}}

Arrives(s) == ArrivesOutside(s) \/ EmptyArrives(s) \/ DuplicateArrives(s) \/ DataArrives(s)

\* The peer hears an acknowledgement; it keeps the furthest edge it was given.
PeerHears ==
    /\ \E a \in ack :
          peer' = [una |-> Max2(peer.una, a.seq), edge |-> Max2(peer.edge, a.edge)]
    /\ ack' = {}
    /\ UNCHANGED <<state, rcv, cap, fin, queue, readerVars>>

NetworkLoses ==
    /\ ack # {} /\ ack' = {}
    /\ UNCHANGED <<state, rcv, cap, fin, queue, readerVars, peer>>

-----------------------------------------------------------------------------
Next ==
    \/ \E s \in PeerSegments : Arrives(s)
    \/ \E t \in Threads : Receive(t) \/ ReceiveWaits(t) \/ ReceiveEnds(t)
    \/ WaitTimesOut
    \/ DelayedAck \/ PassCompletes \/ DataCarriesAck \/ CapChanges
    \/ PeerHears \/ NetworkLoses

Spec == Init /\ [][Next]_vars

\* The peer sends what is not acknowledged again and again, or probes.
PeerResends ==
    \E s \in PeerSegments : s.seq = peer.una /\ (s.data # <<>> \/ s.fin) /\ Arrives(s)

\* An acknowledgement, delayed or in answer to the peer, gets its packet.
AckLeaves == (DelayedAck \/ PeerResends) /\ ack' \notin {ack, {}}

\* The application goes on reading, the peer keeps retransmitting, the periodic
\* timer runs; the pool is not dry, nor an acknowledgement lost, every time.
FairSpec ==
    /\ Spec
    /\ WF_vars(\E t \in Threads : Receive(t) \/ ReceiveEnds(t))
    /\ WF_vars(PeerResends)
    /\ SF_vars(AckLeaves)
    /\ SF_vars(PeerHears)

-----------------------------------------------------------------------------
(* Properties *)

\* Bytes of the stream below rx_sequence, which also counts the FIN
Accepted == Min2(rcv.seq, Total)

\* The receive queue is cut from the stream without overlap: the READY packets
\* follow on what the readers have, up to rx_sequence, and what is beyond a
\* gap is not READY (the walk and the READY loop of data_check).
QueueInOrder ==
    LET Before(i) == IF i = 1 THEN Len(delivered) ELSE End(queue[i - 1])
    IN  /\ \A i \in DOMAIN queue :
              /\ queue[i].data # <<>>
              /\ queue[i].data = Bytes(queue[i].seq, End(queue[i]))
              /\ queue[i].seq >= Before(i)
              /\ queue[i].ready = (End(queue[i]) <= rcv.seq)
              /\ queue[i].ready => queue[i].seq = Before(i)
              /\ ~queue[i].ready => queue[i].seq > rcv.seq
        /\ Accepted > Len(delivered) => \E i \in DOMAIN queue : End(queue[i]) = Accepted

\* rx_window_current is the buffer less the bytes no reader has yet, through
\* arrivals, hand-offs and reads, so that the window can reopen fully.
WindowIsFree == rcv.win = WindowDefault - (Accepted - Len(delivered))

\* What the peer was allowed to send still fits: neither the edge it knows, nor
\* the one on its way, nor rx_window_last_sent, goes beyond the free buffer (and
\* the unsigned differences with rx_window_last_sent do not wrap).
PromiseKept ==
    /\ rcv.sent <= rcv.win
    /\ peer.edge <= rcv.seq + rcv.win
    /\ \A a \in ack : a.edge <= rcv.seq + rcv.win
    /\ \A i \in DOMAIN queue : End(queue[i]) <= rcv.seq + rcv.win

\* RFC 9293 3.8.6.2.2, as nx_tcp_socket_rx_window_open promises: the right edge
\* put on the wire is never pulled back.
EdgeNeverRecedes == [][rcv'.seq + rcv'.sent >= rcv.seq + rcv.sent]_vars

\* No thread is suspended in nx_tcp_socket_receive while a packet is READY, or
\* once the peer has closed.
NoReaderBesidesData ==
    waiters # <<>> => /\ state = "ESTABLISHED"
                      /\ queue # <<>> => ~queue[1].ready

\* Readers get the peer's stream, and its end after the last byte only.
Stream == INSTANCE ByteStream WITH Total <- Total, delivered <- delivered, ended <- ended
StreamKept == Stream!Spec

\* Every byte reaches a reader, then the end does, although segments,
\* acknowledgements and window updates are lost.
Completes == <>ended

\* The peer learns that all it sent has arrived, and can close.
PeerSatisfied == <>(peer.una = Total + 1)

=============================================================================
