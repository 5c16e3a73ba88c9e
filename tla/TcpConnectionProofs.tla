------------------------- MODULE TcpConnectionProofs -------------------------
(***************************************************************************)
(* Proofs about TcpConnection for any retry limit, window, TIMED_WAIT time *)
(* and number of segments, connects and steps of the SYN cache's counter.  *)
(*                                                                         *)
(* WaitHasCause is inductive with two things more: the types of the        *)
(* sockets and of the segments, and that no thread waits in connect while  *)
(* another is in disconnect of the same socket (OneCall).  Without OneCall *)
(* a timer that gives up on a FIN would leave a waiting connect behind.    *)
(*                                                                         *)
(* SameConnection needs to know where every number comes from.  Numbers    *)
(* says that each is counted from an initial number, which is named by the *)
(* times it was made at (Ids); initial numbers are far apart, so a number  *)
(* in the window tells its connection.  Agreement then speaks of these     *)
(* names only: of the one each end has, the one it has of its peer, and    *)
(* the claims that segments, sockets and entries still make.  A step is    *)
(* one of four kinds for it: claims are forgotten (Forgets), an end learns *)
(* its peer's number (Learns), opens (Opens) or answers a SYN (Answered).  *)
(* Two ends that have each other's claims have the same two numbers.       *)
(***************************************************************************)
EXTENDS TcpConnection, FiniteSetTheorems, TLAPS

States == {"CLOSED", "LISTEN"} \cup Opening \cup Synchronised

Sockets == [state : States, server : BOOLEAN, parked : BOOLEAN, peer : BOOLEAN, tx : Int, rx : Int,
            fin : Int, finAcked : BOOLEAN, timer : Nat, retries : Nat]

Segments == [to : Ends, type : {"SYN", "SYN_ACK", "ACK", "FIN", "RST", "RST_ACK"}, seq : Int, ack : Int]

Entries == [irs : Int, iss : Int]

\* The time and the period
Clocks == Nat \X Nat

TypeInv ==
    /\ sock \in [Ends -> Sockets]
    /\ entry \in [Ends -> Entries]
    /\ connect \in [Ends -> {"none", "waiting"}]
    /\ disconnect \in [Ends -> {"none", "waiting", "woken"}]
    /\ clock \in Clocks
    /\ net \subseteq Segments

\* The calls of one socket exclude each other: nx_tcp_socket_disconnect of an
\* opening socket ends the connect first.
OneCall == \A e \in Ends : disconnect[e] # "none" => connect[e] = "none"

IInv == TypeInv /\ WaitHasCause /\ OneCall

\* What WaitHasCause and OneCall say of one end, whose socket is r and whose
\* threads in connect and disconnect are c and d.
Coherent(r, c, d) ==
    /\ c = "waiting" => r.state \in Opening
    /\ d = "waiting" => r.state \in SendsFin \cup {"FIN_WAIT_2"}
    /\ r.state \in SendsFin \cup {"SYN_SENT", "TIMED_WAIT"} <=> r.timer > 0
    /\ d # "none" => c = "none"

-----------------------------------------------------------------------------
(* What the actions are built from *)

\* There is another end.
LEMMA OtherEnd == ASSUME NEW e \in Ends PROVE Other(e) \in Ends /\ Other(e) # e
<1>1. \E o \in Ends : o # e
  <2> SUFFICES ASSUME \A o \in Ends : o = e PROVE FALSE  OBVIOUS
  <2>1. Ends = {e}  OBVIOUS
  <2>2. Cardinality({e}) = 1  BY FS_Singleton
  <2> QED  BY <2>1, <2>2, ConnectionAssumption DEF ConnectionAssumption
<1> QED  BY <1>1 DEF Other

\* What is sent comes into the network, and nothing else does.
LEMMA SendNet == ASSUME NEW new, Send(new) PROVE net' \subseteq net \cup new
BY DEF Send, kSubset

\* A segment that the socket sends is a segment.
LEMMA SegmentType ==
    ASSUME NEW e \in Ends, NEW type \in {"SYN", "SYN_ACK", "ACK", "FIN", "RST", "RST_ACK"},
           NEW seq \in Int, NEW ack \in Int
    PROVE  Segment(e, type, seq, ack) \in Segments
BY OtherEnd DEF Segment, Segments

\* ... with the socket's numbers,
LEMMA SocketSegments ==
    ASSUME NEW e \in Ends, NEW r \in Sockets
    PROVE  {Ack(e, r), Fin(e, r), Syn(e, r)} \subseteq Segments
<1>1. r.tx \in Int /\ r.rx \in Int /\ r.tx - 1 \in Int  BY DEF Sockets
<1>2. Ack(e, r) \in Segments  BY <1>1, SegmentType DEF Ack
<1>3. Fin(e, r) \in Segments  BY <1>1, SegmentType DEF Fin
<1>4. Syn(e, r) \in Segments  BY <1>1, SegmentType DEF Syn
<1> QED  BY <1>2, <1>3, <1>4

\* ... in answer to one that arrived,
LEMMA RstType ==
    ASSUME NEW e \in Ends, NEW m \in Segments
    PROVE  Rst(e, m) \in Segments
<1>1. m.ack \in Int /\ m.seq + 1 \in Int  BY DEF Segments
<1> QED  BY <1>1, SegmentType DEF Rst

\* ... and from the SYN cache.
LEMMA SynAckType ==
    ASSUME NEW e \in Ends, NEW n \in Entries
    PROVE  SynAck(e, n) \in Segments
<1>1. n.iss \in Int /\ n.irs + 1 \in Int  BY DEF Entries
<1> QED  BY <1>1, SegmentType DEF SynAck

\* A SYN makes an entry out of an entry.
LEMMA RecordedType ==
    ASSUME NEW n \in Entries, NEW m \in Segments, period \in Nat
    PROVE  Recorded(n, m) \in Entries
<1>1. Window \in Nat /\ MaxTime \in Nat /\ m.seq \in Int
  BY ConnectionAssumption DEF ConnectionAssumption, Segments
<1>2. Gap * MaxTime * (period + 1) \in Int  BY <1>1 DEF Gap
<1>3. Iss(m.seq, period) \in Int  BY <1>1, <1>2 DEF Iss
<1> QED  BY <1>1, <1>3 DEF Recorded, Entries

-----------------------------------------------------------------------------
(* The steps.  Each changes one end. *)

\* In a good state each end is coherent.
LEMMA EndIsCoherent ==
    ASSUME IInv, NEW e \in Ends
    PROVE  /\ sock[e] \in Sockets /\ connect[e] \in {"none", "waiting"}
           /\ disconnect[e] \in {"none", "waiting", "woken"}
           /\ Coherent(sock[e], connect[e], disconnect[e])
BY DEF IInv, TypeInv, WaitHasCause, OneCall, Coherent

\* A step that leaves its end coherent, and adds segments to the network, is good.
LEMMA EndStep ==
    ASSUME IInv, NEW e \in Ends, NEW r \in Sockets, NEW c \in {"none", "waiting"},
           NEW d \in {"none", "waiting", "woken"}, Coherent(r, c, d),
           sock' = [sock EXCEPT ![e] = r],
           connect' = [connect EXCEPT ![e] = c],
           disconnect' = [disconnect EXCEPT ![e] = d],
           entry' \in [Ends -> Entries], clock' \in Clocks, net' \subseteq Segments
    PROVE  IInv'
<1>1. TypeInv'  BY DEF IInv, TypeInv
<1>2. WaitHasCause'
  <2> SUFFICES ASSUME NEW x \in Ends PROVE Coherent(sock'[x], connect'[x], disconnect'[x])
    BY DEF WaitHasCause, Coherent
  <2>1. CASE x = e  BY <2>1 DEF IInv, TypeInv
  <2>2. CASE x # e
    <3>1. sock'[x] = sock[x] /\ connect'[x] = connect[x] /\ disconnect'[x] = disconnect[x]
      BY <2>2 DEF IInv, TypeInv
    <3> QED  BY <3>1, EndIsCoherent
  <2> QED  BY <2>1, <2>2
<1>3. OneCall'  BY DEF IInv, TypeInv, OneCall, Coherent
<1> QED  BY <1>1, <1>2, <1>3 DEF IInv

\* A step of no socket and no thread is good too.
LEMMA NoEndStep ==
    ASSUME IInv, sock' = sock, connect' = connect, disconnect' = disconnect,
           entry' \in [Ends -> Entries], clock' \in Clocks, net' \subseteq Segments
    PROVE  IInv'
BY DEF IInv, TypeInv, WaitHasCause, OneCall

\* A socket after nx_tcp_socket_create is a socket.
LEMMA FreshType == Fresh \in Sockets
BY DEF Fresh, Sockets, States

\* A thread that is resumed waits no longer.
LEMMA WokenIs ==
    ASSUME NEW call, NEW S, call \in [Ends -> S], NEW e \in Ends
    PROVE  Woken(call, e) = [call EXCEPT ![e] = IF call[e] = "waiting" THEN "woken" ELSE call[e]]
BY DEF Woken

\* nx_tcp_socket_block_cleanup stops the timer with the connection.
LEMMA CleanedIs ==
    ASSUME NEW r \in Sockets
    PROVE  /\ Cleaned(r) \in Sockets
           /\ Cleaned(r).state \in {"LISTEN", "CLOSED"} /\ Cleaned(r).timer = 0
<1> DEFINE s == IF r.server THEN "LISTEN" ELSE "CLOSED"
           no == FALSE
           z == 0
<1>1. s \in {"LISTEN", "CLOSED"} /\ s \in States /\ no \in BOOLEAN /\ z \in Int  BY DEF States
<1>2. Cleaned(r) = [r EXCEPT !.state = s, !.peer = no, !.timer = 0, !.tx = z, !.rx = z,
                             !.fin = z, !.finAcked = no]
  BY DEF Cleaned
<1> HIDE DEF s, no, z
<1>3. ASSUME NEW t \in States, NEW y \in Int, NEW b \in BOOLEAN
      PROVE  [r EXCEPT !.state = t, !.peer = b, !.timer = 0, !.tx = y, !.rx = y, !.fin = y,
                       !.finAcked = b] \in Sockets
  BY DEF Sockets
<1>4. Cleaned(r).state = s /\ Cleaned(r).timer = 0  BY <1>2 DEF Sockets
<1>5. Cleaned(r) \in Sockets
  <2>1. [r EXCEPT !.state = s, !.peer = no, !.timer = 0, !.tx = z, !.rx = z, !.fin = z,
                  !.finAcked = no] \in Sockets
    BY <1>1, <1>3, Zenon
  <2> QED  BY <1>2, <2>1, Zenon
<1> QED  BY <1>1, <1>4, <1>5

\* nx_tcp_socket_connection_reset resumes whoever waits.
LEMMA ConnectionResetStep ==
    ASSUME IInv, NEW e \in Ends, ConnectionReset(e),
           entry' \in [Ends -> Entries], clock' \in Clocks, net' \subseteq Segments
    PROVE  IInv'
<1> DEFINE r == Unconnected(e, Cleaned(sock[e]))
           d == IF disconnect[e] = "waiting" THEN "woken" ELSE disconnect[e]
<1>1. sock[e] \in Sockets /\ disconnect[e] \in {"none", "waiting", "woken"}  BY EndIsCoherent
<1>2. r \in Sockets /\ r.state \in {"LISTEN", "CLOSED"} /\ r.timer = 0
  BY <1>1, CleanedIs DEF Unconnected, Sockets, States
<1>3. d \in {"none", "woken"}  BY <1>1
<1>4. Coherent(r, "none", d)
  BY <1>2, <1>3 DEF Coherent, Opening, SendsFin
<1>5. disconnect' = [disconnect EXCEPT ![e] = d]
  BY WokenIs DEF ConnectionReset, IInv, TypeInv
<1>6. sock' = [sock EXCEPT ![e] = r] /\ connect' = [connect EXCEPT ![e] = "none"]
  BY DEF ConnectionReset, ConnectEnds
<1> HIDE DEF r, d
<1> QED  BY <1>2, <1>3, <1>4, <1>5, <1>6, EndStep

\* A connect starts the timer with its SYN.
LEMMA ConnectStep ==
    ASSUME IInv, NEW e \in Ends, Connect(e)
    PROVE  IInv'
<1> DEFINE r == [Fresh EXCEPT !.state = "SYN_SENT", !.peer = TRUE,
                              !.tx = Gap * time' + 1, !.timer = 1]
<1>1. PICK c \in {"none", "waiting"} : connect' = [connect EXCEPT ![e] = c]  BY DEF Connect
<1>2. /\ time' \in Nat /\ clock' \in Clocks /\ Gap \in Nat /\ disconnect[e] = "none"
  BY ConnectionAssumption DEF Connect, Free, IInv, TypeInv, ConnectionAssumption, Gap, clock, Clocks
<1>3. Gap * time' + 1 \in Int  BY <1>2
<1>4. r \in Sockets /\ r.state = "SYN_SENT" /\ r.timer = 1
  <2> DEFINE x == Gap * time' + 1
  <2>1. r = [Fresh EXCEPT !.state = "SYN_SENT", !.peer = TRUE, !.tx = x, !.timer = 1]  OBVIOUS
  <2>2. "SYN_SENT" \in States  BY DEF States, Opening
  <2> HIDE DEF x, r
  <2> QED  BY <1>3, <2>1, <2>2, FreshType DEF Sockets, x
<1>5. Coherent(r, c, "none")  BY <1>4 DEF Coherent, Opening, SendsFin
<1>6. sock' = [sock EXCEPT ![e] = r] /\ disconnect' = [disconnect EXCEPT ![e] = "none"] /\ sock'[e] = r
  BY <1>2 DEF Connect, IInv, TypeInv
<1> HIDE DEF r
<1>7. net' \subseteq Segments
  BY <1>4, <1>6, SendNet, SocketSegments DEF Connect, IInv, TypeInv
<1>8. entry' \in [Ends -> Entries]  BY DEF Connect, IInv, TypeInv
<1> QED  BY <1>1, <1>2, <1>4, <1>5, <1>6, <1>7, <1>8, EndStep

\* The wait in connect times out: the timer stops with it.
LEMMA ConnectTimeoutStep ==
    ASSUME IInv, NEW e \in Ends, ConnectTimeout(e)
    PROVE  IInv'
<1> DEFINE r == [sock[e] EXCEPT !.state = "CLOSED", !.timer = 0]
<1>1. sock[e] \in Sockets /\ disconnect[e] = "none"
  BY EndIsCoherent DEF ConnectTimeout, Coherent
<1>2. r \in Sockets /\ r.state = "CLOSED" /\ r.timer = 0  BY <1>1 DEF Sockets, States
<1>3. Coherent(r, "none", "none")  BY <1>2 DEF Coherent, Opening, SendsFin
<1>4. /\ sock' = [sock EXCEPT ![e] = r] /\ connect' = [connect EXCEPT ![e] = "none"]
      /\ disconnect' = [disconnect EXCEPT ![e] = "none"]
  BY <1>1 DEF ConnectTimeout, Unconnected, ConnectEnds, IInv, TypeInv
<1>5. entry' \in [Ends -> Entries] /\ clock' \in Clocks /\ net' \subseteq Segments
  BY DEF ConnectTimeout, IInv, TypeInv
<1> HIDE DEF r
<1> QED  BY <1>2, <1>3, <1>4, <1>5, EndStep

\* nx_tcp_socket_disconnect of an opening socket ends the connect and the timer.
LEMMA DisconnectOpeningStep ==
    ASSUME IInv, NEW e \in Ends, DisconnectOpening(e)
    PROVE  IInv'
<1> DEFINE r == [sock[e] EXCEPT !.state = "CLOSED", !.timer = 0,
                                !.retries = IF sock[e].state = "SYN_RECEIVED" THEN 0 ELSE @,
                                !.tx = IF sock[e].state = "SYN_RECEIVED" THEN @ + 1 ELSE @]
<1>1. sock[e] \in Sockets /\ disconnect[e] = "none"
  BY EndIsCoherent DEF DisconnectOpening
<1>2. r \in Sockets /\ r.state = "CLOSED" /\ r.timer = 0
  <2> DEFINE rt == IF sock[e].state = "SYN_RECEIVED" THEN 0 ELSE sock[e].retries
             x == IF sock[e].state = "SYN_RECEIVED" THEN sock[e].tx + 1 ELSE sock[e].tx
  <2>1. sock[e].tx \in Int /\ sock[e].retries \in Nat /\ "CLOSED" \in States  BY <1>1 DEF Sockets, States
  <2>2. rt \in Nat /\ x \in Int  BY <2>1
  <2>3. r = [sock[e] EXCEPT !.state = "CLOSED", !.timer = 0, !.retries = rt, !.tx = x]  OBVIOUS
  <2> HIDE DEF rt, x, r
  <2> QED  BY <1>1, <2>1, <2>2, <2>3 DEF Sockets
<1>3. Coherent(r, "none", "none")  BY <1>2 DEF Coherent, Opening, SendsFin
<1>4. /\ sock' = [sock EXCEPT ![e] = r] /\ connect' = [connect EXCEPT ![e] = "none"]
      /\ disconnect' = [disconnect EXCEPT ![e] = "none"] /\ sock'[e] = r
  BY <1>1 DEF DisconnectOpening, ConnectEnds, IInv, TypeInv
<1> HIDE DEF r
<1>5. net' \subseteq Segments
  BY <1>2, <1>4, SendNet, SocketSegments DEF DisconnectOpening, IInv, TypeInv
<1>6. entry' \in [Ends -> Entries] /\ clock' \in Clocks
  BY DEF DisconnectOpening, IInv, TypeInv
<1> QED  BY <1>2, <1>3, <1>4, <1>5, <1>6, EndStep

\* ... with NX_NO_WAIT cleans the socket up.
LEMMA DisconnectNowStep ==
    ASSUME IInv, NEW e \in Ends, DisconnectNow(e)
    PROVE  IInv'
<1> DEFINE r == Cleaned(sock[e])
<1>1. sock[e] \in Sockets /\ disconnect[e] = "none" /\ connect[e] = "none"
  BY EndIsCoherent DEF DisconnectNow, Free
<1>2. r \in Sockets /\ r.state \in {"LISTEN", "CLOSED"} /\ r.timer = 0  BY <1>1, CleanedIs
<1>3. Coherent(r, "none", "none")  BY <1>2 DEF Coherent, Opening, SendsFin
<1>4. /\ sock' = [sock EXCEPT ![e] = r] /\ connect' = [connect EXCEPT ![e] = "none"]
      /\ disconnect' = [disconnect EXCEPT ![e] = "none"]
  BY <1>1 DEF DisconnectNow, IInv, TypeInv
<1> HIDE DEF r
<1>5. Segment(e, "RST", sock[e].tx, 0) \in Segments  BY <1>1, SegmentType DEF Sockets
<1>6. net' \subseteq Segments  BY <1>5, SendNet DEF DisconnectNow, IInv, TypeInv
<1>7. entry' \in [Ends -> Entries] /\ clock' \in Clocks
  BY DEF DisconnectNow, IInv, TypeInv
<1> QED  BY <1>2, <1>3, <1>4, <1>6, <1>7, EndStep

\* ... and with a wait starts the timer with its FIN.
LEMMA DisconnectStep ==
    ASSUME IInv, NEW e \in Ends, Disconnect(e)
    PROVE  IInv'
<1> DEFINE r == [sock[e] EXCEPT !.state = IF @ = "CLOSE_WAIT" THEN "LAST_ACK" ELSE "FIN_WAIT_1",
                                !.timer = 1, !.retries = 0, !.tx = @ + 1]
<1>1. sock[e] \in Sockets /\ disconnect[e] = "none" /\ connect[e] = "none"
  BY EndIsCoherent DEF Disconnect, Free
<1>2. r \in Sockets /\ r.state \in {"LAST_ACK", "FIN_WAIT_1"} /\ r.timer = 1
  <2> DEFINE s == IF sock[e].state = "CLOSE_WAIT" THEN "LAST_ACK" ELSE "FIN_WAIT_1"
             x == sock[e].tx + 1
  <2>1. s \in States /\ s \in {"LAST_ACK", "FIN_WAIT_1"}  BY DEF States, Synchronised
  <2>2. x \in Int  BY <1>1 DEF Sockets
  <2>3. r = [sock[e] EXCEPT !.state = s, !.timer = 1, !.retries = 0, !.tx = x]  OBVIOUS
  <2> HIDE DEF s, x, r
  <2> QED  BY <1>1, <2>1, <2>2, <2>3 DEF Sockets
<1>3. Coherent(r, "none", "waiting")  BY <1>2 DEF Coherent, Opening, SendsFin
<1>4. /\ sock' = [sock EXCEPT ![e] = r] /\ connect' = [connect EXCEPT ![e] = "none"]
      /\ disconnect' = [disconnect EXCEPT ![e] = "waiting"] /\ sock'[e] = r
  BY <1>1 DEF Disconnect, IInv, TypeInv
<1> HIDE DEF r
<1>5. net' \subseteq Segments
  BY <1>2, <1>4, SendNet, SocketSegments DEF Disconnect, IInv, TypeInv
<1>6. entry' \in [Ends -> Entries] /\ clock' \in Clocks
  BY DEF Disconnect, IInv, TypeInv
<1> QED  BY <1>2, <1>3, <1>4, <1>5, <1>6, EndStep

\* The wait in disconnect times out.
LEMMA DisconnectTimeoutStep ==
    ASSUME IInv, NEW e \in Ends, DisconnectTimeout(e)
    PROVE  IInv'
<1>1. sock[e] \in Sockets /\ connect[e] = "none" /\ Coherent(sock[e], "none", "woken")
  BY EndIsCoherent DEF DisconnectTimeout, Coherent
<1>2. /\ sock' = [sock EXCEPT ![e] = sock[e]] /\ connect' = [connect EXCEPT ![e] = "none"]
      /\ disconnect' = [disconnect EXCEPT ![e] = "woken"]
  BY <1>1, WokenIs DEF DisconnectTimeout, IInv, TypeInv
<1>3. entry' \in [Ends -> Entries] /\ clock' \in Clocks /\ net' \subseteq Segments
  BY DEF DisconnectTimeout, IInv, TypeInv
<1> QED  BY <1>1, <1>2, <1>3, EndStep

\* The resumed thread leaves a socket in TIMED_WAIT alone and closes any other.
LEMMA DisconnectReturnsStep ==
    ASSUME IInv, NEW e \in Ends, DisconnectReturns(e)
    PROVE  IInv'
<1> DEFINE r == IF sock[e].state # "TIMED_WAIT" THEN Cleaned(sock[e]) ELSE sock[e]
<1>1. sock[e] \in Sockets /\ connect[e] = "none" /\ Coherent(sock[e], "none", "woken")
  BY EndIsCoherent DEF DisconnectReturns, Coherent
<1>2. r \in Sockets /\ Coherent(r, "none", "none")
  BY <1>1, CleanedIs DEF Coherent, Opening, SendsFin
<1>3. /\ sock' = [sock EXCEPT ![e] = r] /\ connect' = [connect EXCEPT ![e] = "none"]
      /\ disconnect' = [disconnect EXCEPT ![e] = "none"]
  BY <1>1 DEF DisconnectReturns, IInv, TypeInv
<1>4. entry' \in [Ends -> Entries] /\ clock' \in Clocks /\ net' \subseteq Segments
  BY DEF DisconnectReturns, IInv, TypeInv
<1> HIDE DEF r
<1> QED  BY <1>2, <1>3, <1>4, EndStep

\* Nobody waits on a socket that starts to listen, and no timer runs.
LEMMA ListenStep ==
    ASSUME IInv, NEW e \in Ends, Listen(e)
    PROVE  IInv'
<1> DEFINE r == [Fresh EXCEPT !.state = "LISTEN", !.server = TRUE, !.parked = TRUE]
<1>1. disconnect[e] = "none" /\ connect[e] = "none" /\ entry[e] \in Entries
  BY DEF Listen, Free, IInv, TypeInv
<1>2. r \in Sockets /\ r.state = "LISTEN" /\ r.timer = Fresh.timer  BY FreshType DEF Sockets, States
<1>3. Coherent(r, "none", "none")
  <2> HIDE DEF r
  <2> QED  BY <1>2 DEF Coherent, Opening, SendsFin, Fresh
<1>4. /\ sock' = [sock EXCEPT ![e] = r] /\ connect' = [connect EXCEPT ![e] = "none"]
      /\ disconnect' = [disconnect EXCEPT ![e] = "none"]
  BY <1>1 DEF Listen, IInv, TypeInv
<1> HIDE DEF r
<1>5. net' \subseteq Segments
  BY <1>1, SendNet, SynAckType DEF Listen, IInv, TypeInv
<1>6. entry' \in [Ends -> Entries] /\ clock' \in Clocks  BY DEF Listen, IInv, TypeInv
<1> QED  BY <1>2, <1>3, <1>4, <1>5, <1>6, EndStep

\* ... or stops to.
LEMMA UnlistenStep ==
    ASSUME IInv, NEW e \in Ends, Unlisten(e)
    PROVE  IInv'
<1>1. disconnect[e] = "none" /\ connect[e] = "none"  BY DEF Unlisten, Free
<1>2. Fresh \in Sockets  BY FreshType
<1>3. Coherent(Fresh, "none", "none")  BY DEF Coherent, Opening, SendsFin, Fresh
<1>4. /\ sock' = [sock EXCEPT ![e] = Fresh] /\ connect' = [connect EXCEPT ![e] = "none"]
      /\ disconnect' = [disconnect EXCEPT ![e] = "none"]
  BY <1>1 DEF Unlisten, IInv, TypeInv
<1>5. net' \subseteq Segments /\ clock' \in Clocks  BY DEF Unlisten, IInv, TypeInv
<1>6. entry' \in [Ends -> Entries]  BY DEF Unlisten, IInv, TypeInv, NoEntry, Entries
<1> QED  BY <1>2, <1>3, <1>4, <1>5, <1>6, EndStep

\* The timer of nx_tcp_fast_periodic_processing runs, gives up, sends again or
\* ends TIMED_WAIT.
LEMMA TimerStep ==
    ASSUME IInv, NEW e \in Ends, Timer(e)
    PROVE  IInv'
<1>1. /\ sock[e] \in Sockets /\ connect[e] \in {"none", "waiting"}
      /\ disconnect[e] \in {"none", "waiting", "woken"}
      /\ Coherent(sock[e], connect[e], disconnect[e])
  BY EndIsCoherent
<1>2. /\ entry' \in [Ends -> Entries] /\ clock' \in Clocks
      /\ connect = [connect EXCEPT ![e] = connect[e]]
      /\ disconnect = [disconnect EXCEPT ![e] = disconnect[e]]
  BY DEF Timer, IInv, TypeInv
<1>3. CASE TimerRuns(e)
  <2> DEFINE n == sock[e].timer - 1
             r == [sock[e] EXCEPT !.timer = n]
  <2>1. n \in Nat /\ n > 0 /\ sock[e].timer > 0  BY <1>1, <1>3 DEF TimerRuns, Sockets
  <2>2. sock' = [sock EXCEPT ![e] = r]  BY <1>3 DEF TimerRuns, IInv, TypeInv
  <2> HIDE DEF n
  <2>3. r \in Sockets /\ r.state = sock[e].state /\ r.timer = n  BY <1>1, <2>1 DEF Sockets
  <2> HIDE DEF r
  <2>4. Coherent(r, connect[e], disconnect[e])  BY <1>1, <2>1, <2>3 DEF Coherent
  <2>5. connect' = connect /\ disconnect' = disconnect /\ net' \subseteq Segments
    BY <1>3 DEF TimerRuns, IInv, TypeInv
  <2> QED  BY <1>1, <1>2, <2>2, <2>3, <2>4, <2>5, EndStep
<1>4. CASE TimerGivesUp(e)
  <2>1. net' \subseteq Segments  BY <1>4 DEF TimerGivesUp, IInv, TypeInv
  <2> QED  BY <1>2, <1>4, <2>1, ConnectionResetStep DEF TimerGivesUp
<1>5. CASE TimerResends(e)
  <2> DEFINE n == sock[e].retries + 1
             r == [sock[e] EXCEPT !.retries = n]
  <2>1. n \in Nat  BY <1>1 DEF Sockets
  <2>2. sock' = [sock EXCEPT ![e] = r]  BY <1>5 DEF TimerResends, IInv, TypeInv
  <2> HIDE DEF n
  <2>3. r \in Sockets /\ r.state = sock[e].state /\ r.timer = sock[e].timer  BY <1>1, <2>1 DEF Sockets
  <2> HIDE DEF r
  <2>4. Coherent(r, connect[e], disconnect[e])  BY <1>1, <2>3 DEF Coherent
  <2>5. net' \subseteq Segments
    BY <1>1, <1>5, SendNet, SocketSegments DEF TimerResends, IInv, TypeInv
  <2>6. connect' = connect /\ disconnect' = disconnect  BY <1>5 DEF TimerResends
  <2> QED  BY <1>1, <1>2, <2>2, <2>3, <2>4, <2>5, <2>6, EndStep
<1>6. CASE TimedWaitEnds(e)
  <2> DEFINE r == Cleaned(sock[e])
  <2>1. r \in Sockets /\ r.state \in {"LISTEN", "CLOSED"} /\ r.timer = 0  BY <1>1, CleanedIs
  <2>2. sock' = [sock EXCEPT ![e] = r]  BY <1>6 DEF TimedWaitEnds
  <2> HIDE DEF r
  <2>3. Coherent(r, connect[e], disconnect[e])
    BY <1>1, <1>6, <2>1 DEF Coherent, TimedWaitEnds, Opening, SendsFin
  <2>4. connect' = connect /\ disconnect' = disconnect /\ net' \subseteq Segments
    BY <1>6 DEF TimedWaitEnds, IInv, TypeInv
  <2> QED  BY <1>1, <1>2, <2>1, <2>2, <2>3, <2>4, EndStep
<1> QED  BY <1>3, <1>4, <1>5, <1>6 DEF Timer

\* The SYN cache's timer concerns no socket.
LEMMA EntryTimerStep ==
    ASSUME IInv, NEW e \in Ends, EntryTimer(e)
    PROVE  IInv'
<1>1. entry[e] \in Entries  BY DEF IInv, TypeInv
<1>2. net' \subseteq Segments
  BY <1>1, SendNet, SynAckType DEF EntryTimer, IInv, TypeInv
<1>3. entry' \in [Ends -> Entries]  BY DEF EntryTimer, IInv, TypeInv, NoEntry, Entries
<1>4. clock' \in Clocks  BY DEF EntryTimer, IInv, TypeInv
<1> QED  BY <1>2, <1>3, <1>4, NoEndStep DEF EntryTimer

\* nx_tcp_socket_state_syn_sent: the timer stops when the state is left.
LEMMA SynSentStep ==
    ASSUME IInv, NEW e \in Ends, NEW m \in Segments, sock[e].state = "SYN_SENT", SynSent(e, m),
           entry' \in [Ends -> Entries], clock' \in Clocks
    PROVE  IInv'
<1> DEFINE y == m.seq + 1
           r(s) == [sock[e] EXCEPT !.state = s, !.rx = y, !.timer = 0]
<1>1. /\ sock[e] \in Sockets /\ connect[e] \in {"none", "waiting"} /\ disconnect[e] \in {"none", "waiting", "woken"}
      /\ Coherent(sock[e], connect[e], disconnect[e]) /\ y \in Int
  BY EndIsCoherent DEF Segments
<1>2. net \subseteq Segments /\ sock \in [Ends -> Sockets]  BY DEF IInv, TypeInv
<1>3. /\ connect = [connect EXCEPT ![e] = connect[e]]
      /\ disconnect = [disconnect EXCEPT ![e] = disconnect[e]]
  BY DEF IInv, TypeInv
<1>4. ASSUME NEW s \in {"ESTABLISHED", "SYN_RECEIVED"}
      PROVE  r(s) \in Sockets /\ r(s).state = s /\ r(s).timer = 0
  <2>1. s \in States  BY DEF States, Opening, Synchronised
  <2> HIDE DEF y
  <2> QED  BY <1>1, <2>1 DEF Sockets
<1>5. CASE m.type = "RST_ACK" /\ m.ack = sock[e].tx /\ ConnectionReset(e) /\ net' = net
  BY <1>2, <1>5, ConnectionResetStep
<1>6. CASE IsReset(m) /\ UNCHANGED <<sock, connect, disconnect, net>>
  BY <1>2, <1>6, NoEndStep
<1>7. CASE /\ sock' = [sock EXCEPT ![e].state = "ESTABLISHED", ![e].rx = m.seq + 1, ![e].timer = 0]
           /\ ConnectEnds(e)
           /\ Send({Ack(e, sock'[e])})
           /\ UNCHANGED disconnect
  <2> DEFINE u == r("ESTABLISHED")
  <2>1. sock' = [sock EXCEPT ![e] = u] /\ sock'[e] = u  BY <1>2, <1>7
  <2>2. u \in Sockets /\ u.state = "ESTABLISHED" /\ u.timer = 0  BY <1>4
  <2> HIDE DEF u
  <2>3. Coherent(u, "none", disconnect[e])
    BY <1>1, <2>2 DEF Coherent, Opening, SendsFin
  <2>4. net' \subseteq Segments  BY <1>2, <1>7, <2>1, <2>2, SendNet, SocketSegments
  <2>5. connect' = [connect EXCEPT ![e] = "none"] /\ disconnect' = [disconnect EXCEPT ![e] = disconnect[e]]
    BY <1>3, <1>7 DEF ConnectEnds
  <2> QED  BY <1>1, <2>1, <2>2, <2>3, <2>4, <2>5, EndStep
<1>8. CASE /\ sock' = [sock EXCEPT ![e].state = "SYN_RECEIVED", ![e].rx = m.seq + 1, ![e].timer = 0]
           /\ Send({Syn(e, sock'[e])})
           /\ UNCHANGED <<connect, disconnect>>
  <2> DEFINE u == r("SYN_RECEIVED")
  <2>1. sock' = [sock EXCEPT ![e] = u] /\ sock'[e] = u  BY <1>2, <1>8
  <2>2. u \in Sockets /\ u.state = "SYN_RECEIVED" /\ u.timer = 0  BY <1>4
  <2> HIDE DEF u
  <2>3. Coherent(u, connect[e], disconnect[e])
    BY <1>1, <2>2 DEF Coherent, Opening, SendsFin
  <2>4. net' \subseteq Segments  BY <1>2, <1>8, <2>1, <2>2, SendNet, SocketSegments
  <2>5. connect' = [connect EXCEPT ![e] = connect[e]] /\ disconnect' = [disconnect EXCEPT ![e] = disconnect[e]]
    BY <1>3, <1>8
  <2> QED  BY <1>1, <2>1, <2>2, <2>3, <2>4, <2>5, EndStep
<1>9. CASE /\ IF m.ack # sock[e].tx THEN Send({Rst(e, m)}) ELSE net' = net
           /\ UNCHANGED <<sock, connect, disconnect>>
  <2>1. net' \subseteq Segments  BY <1>2, <1>9, SendNet, RstType
  <2> QED  BY <1>9, <2>1, NoEndStep
<1> QED  BY <1>5, <1>6, <1>7, <1>8, <1>9 DEF SynSent

\* nx_tcp_socket_state_syn_received: the connect is resumed as the state is left.
LEMMA SynReceivedStep ==
    ASSUME IInv, NEW e \in Ends, NEW m \in Segments, sock[e].state = "SYN_RECEIVED", SynReceived(e, m),
           entry' \in [Ends -> Entries], clock' \in Clocks
    PROVE  IInv'
<1> DEFINE f == IF m.type = "FIN" THEN m.seq ELSE sock[e].fin
           r == [sock[e] EXCEPT !.state = "ESTABLISHED", !.fin = f]
<1>1. /\ sock[e] \in Sockets /\ disconnect[e] \in {"none", "waiting", "woken"}
      /\ Coherent(sock[e], connect[e], disconnect[e]) /\ f \in Int
  BY EndIsCoherent DEF Segments, Sockets
<1>2. /\ net \subseteq Segments /\ sock \in [Ends -> Sockets]
      /\ disconnect' = [disconnect EXCEPT ![e] = disconnect[e]]
  BY DEF IInv, TypeInv, SynReceived
<1>3. CASE m.ack = sock[e].tx
  <2>1. sock' = [sock EXCEPT ![e] = r] /\ connect' = [connect EXCEPT ![e] = "none"] /\ net' = net
    BY <1>2, <1>3 DEF SynReceived, ConnectEnds
  <2> HIDE DEF f
  <2>2. r \in Sockets /\ r.state = "ESTABLISHED" /\ r.timer = sock[e].timer
    BY <1>1 DEF Sockets, States, Synchronised
  <2> HIDE DEF r
  <2>3. Coherent(r, "none", disconnect[e])
    BY <1>1, <2>2 DEF Coherent, Opening, SendsFin
  <2> QED  BY <1>1, <1>2, <2>1, <2>2, <2>3, EndStep
<1>4. CASE m.ack # sock[e].tx
  <2>1. net' \subseteq Segments  BY <1>2, <1>4, SendNet, RstType DEF SynReceived
  <2> QED  BY <1>4, <2>1, NoEndStep DEF SynReceived
<1> QED  BY <1>3, <1>4

\* The checks before the state's handler change neither the state nor the timer.
LEMMA CheckedIs ==
    ASSUME NEW r \in Sockets, NEW m \in Segments
    PROVE  LET u == TakesFin(Acked(r, m), m)
           IN  u \in Sockets /\ u.state = r.state /\ u.timer = r.timer
<1> DEFINE a == r.finAcked \/ (m.ack = r.tx /\ r.state \notin {"ESTABLISHED", "CLOSE_WAIT"})
           v == Acked(r, m)
<1>1. a \in BOOLEAN  OBVIOUS
<1>2. v = [r EXCEPT !.finAcked = a]  BY DEF Acked
<1> HIDE DEF a
<1>3. v \in Sockets /\ v.state = r.state /\ v.timer = r.timer  BY <1>1, <1>2 DEF Sockets
<1> HIDE DEF v
<1>4. m.seq \in Int  BY DEF Segments
<1>5. TakesFin(v, m) \in Sockets /\ TakesFin(v, m).state = v.state /\ TakesFin(v, m).timer = v.timer
  BY <1>3, <1>4 DEF TakesFin, Sockets
<1> QED  BY <1>3, <1>5 DEF v

\* The peer's FIN in order: TIMED_WAIT starts its timer, CLOSE_WAIT has none.
LEMMA AfterFinIs ==
    ASSUME NEW r \in Sockets, r.state \in {"ESTABLISHED", "FIN_WAIT_1", "FIN_WAIT_2"},
           r.timer > 0 <=> r.state = "FIN_WAIT_1"
    PROVE  /\ AfterFin(r) \in Sockets
           /\ AfterFin(r).state \in {"CLOSE_WAIT", "CLOSING", "TIMED_WAIT"}
           /\ AfterFin(r).timer > 0 <=> AfterFin(r).state \in {"CLOSING", "TIMED_WAIT"}
           /\ AfterFin(r).state = "CLOSE_WAIT" <=> r.state = "ESTABLISHED"
<1> DEFINE y == r.rx + 1
<1>1. y \in Int /\ Msl2 \in Nat /\ Msl2 > 0 /\ {"CLOSE_WAIT", "CLOSING", "TIMED_WAIT"} \subseteq States
  BY ConnectionAssumption DEF ConnectionAssumption, Sockets, States, Synchronised
<1>2. CASE r.state = "ESTABLISHED"
  <2>1. AfterFin(r) = [r EXCEPT !.state = "CLOSE_WAIT", !.rx = y]  BY <1>2 DEF AfterFin
  <2> HIDE DEF y
  <2> QED  BY <1>1, <1>2, <2>1 DEF Sockets
<1>3. CASE r.state = "FIN_WAIT_1" /\ ~r.finAcked
  <2>1. AfterFin(r) = [r EXCEPT !.state = "CLOSING", !.rx = y]  BY <1>3 DEF AfterFin
  <2> HIDE DEF y
  <2> QED  BY <1>1, <1>3, <2>1 DEF Sockets
<1>4. CASE r.state # "ESTABLISHED" /\ ~(r.state = "FIN_WAIT_1" /\ ~r.finAcked)
  <2>1. AfterFin(r) = [r EXCEPT !.state = "TIMED_WAIT", !.rx = y, !.timer = Msl2]  BY <1>4 DEF AfterFin
  <2> HIDE DEF y
  <2> QED  BY <1>1, <1>4, <2>1 DEF Sockets
<1> QED  BY <1>2, <1>3, <1>4

\* The handlers of the synchronised states: whoever enters TIMED_WAIT, or leaves
\* LAST_ACK, resumes the thread in disconnect.
LEMMA StateHandlerStep ==
    ASSUME IInv, NEW e \in Ends, NEW m \in Segments, sock[e].state \in Synchronised, StateHandler(e, m),
           connect' = connect, entry' \in [Ends -> Entries], clock' \in Clocks
    PROVE  IInv'
<1> DEFINE r == TakesFin(Acked(sock[e], m), m)
           d == disconnect[e]
           w == IF d = "waiting" THEN "woken" ELSE d
           inOrder == m.ack = r.tx /\ m.seq = r.rx
<1>1. /\ sock[e] \in Sockets /\ connect[e] \in {"none", "waiting"} /\ d \in {"none", "waiting", "woken"}
      /\ Coherent(sock[e], connect[e], d)
  BY EndIsCoherent
<1>2. r \in Sockets /\ r.state = sock[e].state /\ r.timer = sock[e].timer  BY <1>1, CheckedIs
<1>3. connect' = [connect EXCEPT ![e] = "none"]
  <2>1. connect[e] = "none"  BY <1>1 DEF Coherent, Opening, Synchronised
  <2> QED  BY <2>1 DEF IInv, TypeInv
<1>4. /\ net \subseteq Segments /\ sock \in [Ends -> Sockets]
      /\ disconnect = [disconnect EXCEPT ![e] = d]
      /\ Woken(disconnect, e) = [disconnect EXCEPT ![e] = w]
  BY WokenIs DEF IInv, TypeInv
<1>5. /\ w \in {"none", "woken"}
      /\ d = "waiting" => r.state \in SendsFin \cup {"FIN_WAIT_2"}
      /\ r.state \in SendsFin \cup {"SYN_SENT", "TIMED_WAIT"} <=> r.timer > 0
  BY <1>1, <1>2 DEF Coherent
<1>6. Msl2 \in Nat /\ Msl2 > 0  BY ConnectionAssumption DEF ConnectionAssumption
<1> HIDE DEF r, d, w
<1>7. CASE /\ r.state \in {"ESTABLISHED", "FIN_WAIT_1", "FIN_WAIT_2"} /\ r.fin = r.rx
           /\ sock' = [sock EXCEPT ![e] = AfterFin(r)]
           /\ disconnect' = IF sock'[e].state = "TIMED_WAIT" THEN Woken(disconnect, e) ELSE disconnect
           /\ Send({Ack(e, sock'[e])})
  <2> DEFINE u == AfterFin(r)
             x == IF u.state = "TIMED_WAIT" THEN w ELSE d
  <2>1. r.timer > 0 <=> r.state = "FIN_WAIT_1"  BY <1>5, <1>7 DEF SendsFin
  <2>2. /\ u \in Sockets /\ u.state \in {"CLOSE_WAIT", "CLOSING", "TIMED_WAIT"}
        /\ u.timer > 0 <=> u.state \in {"CLOSING", "TIMED_WAIT"}
        /\ u.state = "CLOSE_WAIT" <=> r.state = "ESTABLISHED"
    BY <1>2, <1>7, <2>1, AfterFinIs
  <2>3. sock' = [sock EXCEPT ![e] = u] /\ sock'[e] = u  BY <1>4, <1>7
  <2> HIDE DEF u
  <2>4. disconnect' = [disconnect EXCEPT ![e] = x]  BY <1>4, <1>7, <2>3
  <2>5. x \in {"none", "waiting", "woken"}  BY <1>1, <1>5
  <2>6. Coherent(u, "none", x)  BY <1>5, <1>7, <2>2 DEF Coherent, Opening, SendsFin
  <2>7. net' \subseteq Segments  BY <1>4, <1>7, <2>2, <2>3, SendNet, SocketSegments
  <2> HIDE DEF x
  <2> QED  BY <1>3, <2>2, <2>3, <2>4, <2>5, <2>6, <2>7, EndStep
<1>8. CASE /\ r.state = "FIN_WAIT_1" /\ r.finAcked /\ r.fin = 0
           /\ sock' = [sock EXCEPT ![e] = [r EXCEPT !.state = "FIN_WAIT_2", !.timer = 0]]
           /\ UNCHANGED <<disconnect, net>>
  <2> DEFINE u == [r EXCEPT !.state = "FIN_WAIT_2", !.timer = 0]
  <2>1. u \in Sockets /\ u.state = "FIN_WAIT_2" /\ u.timer = 0
    BY <1>2 DEF Sockets, States, Synchronised
  <2>2. sock' = [sock EXCEPT ![e] = u]  BY <1>8
  <2> HIDE DEF u
  <2>3. Coherent(u, "none", d)  BY <2>1 DEF Coherent, Opening, SendsFin
  <2>4. disconnect' = [disconnect EXCEPT ![e] = d] /\ net' \subseteq Segments  BY <1>4, <1>8
  <2> QED  BY <1>1, <1>3, <2>1, <2>2, <2>3, <2>4, EndStep
<1>9. CASE /\ r.state = "CLOSING" /\ inOrder
           /\ sock' = [sock EXCEPT ![e] = [r EXCEPT !.state = "TIMED_WAIT", !.timer = Msl2]]
           /\ disconnect' = Woken(disconnect, e)
           /\ net' = net
  <2> DEFINE u == [r EXCEPT !.state = "TIMED_WAIT", !.timer = Msl2]
  <2>1. u \in Sockets /\ u.state = "TIMED_WAIT" /\ u.timer = Msl2
    BY <1>2, <1>6 DEF Sockets, States, Synchronised
  <2>2. sock' = [sock EXCEPT ![e] = u]  BY <1>9
  <2> HIDE DEF u
  <2>3. Coherent(u, "none", w)  BY <1>5, <1>6, <2>1 DEF Coherent, Opening, SendsFin
  <2>4. disconnect' = [disconnect EXCEPT ![e] = w] /\ net' \subseteq Segments  BY <1>4, <1>9
  <2> QED  BY <1>3, <1>5, <2>1, <2>2, <2>3, <2>4, EndStep
<1>10. CASE /\ r.state = "LAST_ACK" /\ inOrder
            /\ sock' = [sock EXCEPT ![e] = Cleaned(r)]
            /\ disconnect' = Woken(disconnect, e)
            /\ net' = net
  <2> DEFINE u == Cleaned(r)
  <2>1. u \in Sockets /\ u.state \in {"LISTEN", "CLOSED"} /\ u.timer = 0  BY <1>2, CleanedIs
  <2>2. sock' = [sock EXCEPT ![e] = u]  BY <1>10
  <2> HIDE DEF u
  <2>3. Coherent(u, "none", w)  BY <1>5, <2>1 DEF Coherent, Opening, SendsFin
  <2>4. disconnect' = [disconnect EXCEPT ![e] = w] /\ net' \subseteq Segments  BY <1>4, <1>10
  <2> QED  BY <1>3, <1>5, <2>1, <2>2, <2>3, <2>4, EndStep
<1>11. CASE /\ r.state = "TIMED_WAIT" /\ m.type = "FIN"
            /\ sock' = [sock EXCEPT ![e] = [r EXCEPT !.timer = Msl2]]
            /\ Send({Ack(e, r)})
            /\ UNCHANGED disconnect
  <2> DEFINE u == [r EXCEPT !.timer = Msl2]
  <2>1. u \in Sockets /\ u.state = "TIMED_WAIT" /\ u.timer = Msl2
    BY <1>2, <1>6, <1>11 DEF Sockets
  <2>2. sock' = [sock EXCEPT ![e] = u]  BY <1>11
  <2> HIDE DEF u
  <2>3. Coherent(u, "none", d)  BY <1>5, <1>6, <1>11, <2>1 DEF Coherent, Opening, SendsFin
  <2>4. disconnect' = [disconnect EXCEPT ![e] = d]  BY <1>4, <1>11
  <2>5. net' \subseteq Segments  BY <1>2, <1>4, <1>11, SendNet, SocketSegments
  <2> QED  BY <1>1, <1>3, <2>1, <2>2, <2>3, <2>4, <2>5, EndStep
<1>12. CASE sock' = [sock EXCEPT ![e] = r] /\ UNCHANGED <<disconnect, net>>
  <2>1. Coherent(r, "none", d)  BY <1>5 DEF Coherent
  <2>2. disconnect' = [disconnect EXCEPT ![e] = d] /\ net' \subseteq Segments  BY <1>4, <1>12
  <2> QED  BY <1>1, <1>2, <1>3, <1>12, <2>1, <2>2, EndStep
<1> QED  BY <1>7, <1>8, <1>9, <1>10, <1>11, <1>12 DEF StateHandler, r

\* A segment outside of the window, and a challenge, change no socket.
LEMMA AnswerStep ==
    ASSUME IInv, NEW e \in Ends, Send({Ack(e, sock[e])}) \/ net' = net,
           UNCHANGED <<sock, connect, disconnect>>, entry' \in [Ends -> Entries], clock' \in Clocks
    PROVE  IInv'
<1>1. sock[e] \in Sockets /\ net \subseteq Segments  BY DEF IInv, TypeInv
<1>2. net' \subseteq Segments  BY <1>1, SendNet, SocketSegments
<1> QED  BY <1>2, NoEndStep

\* A segment for a socket that has a peer: nx_tcp_socket_packet_process.
LEMMA SocketInputStep ==
    ASSUME IInv, NEW e \in Ends, NEW m \in net, SocketInput(e, m)
    PROVE  IInv'
<1>1. m \in Segments /\ entry' \in [Ends -> Entries] /\ clock' \in Clocks /\ net \subseteq Segments
  BY DEF IInv, TypeInv, SocketInput
<1>2. CASE UNCHANGED <<sock, connect, disconnect, net>>
  BY <1>1, <1>2, NoEndStep
<1>3. CASE sock[e].state = "SYN_SENT" /\ SynSent(e, m)
  BY <1>1, <1>3, SynSentStep
<1>4. CASE Outside(e, m)
  BY <1>1, <1>4, AnswerStep DEF Outside
<1>5. CASE sock[e].state \in Synchronised \cup {"SYN_RECEIVED"} /\ Inside(e, m)
  <2>1. CASE ConnectionReset(e) /\ net' = net  BY <1>1, <2>1, ConnectionResetStep
  <2>2. CASE Challenge(e)  BY <1>1, <2>2, AnswerStep DEF Challenge
  <2>3. CASE sock[e].state = "SYN_RECEIVED" /\ SynReceived(e, m)  BY <1>1, <2>3, SynReceivedStep
  <2>4. CASE Send({Ack(e, sock[e])}) /\ UNCHANGED <<sock, disconnect>> /\ UNCHANGED connect
    BY <1>1, <2>4, AnswerStep
  <2>5. CASE sock[e].state # "SYN_RECEIVED" /\ StateHandler(e, m) /\ UNCHANGED connect
    BY <1>1, <1>5, <2>5, StateHandlerStep
  <2> QED  BY <1>2, <1>5, <2>1, <2>2, <2>3, <2>4, <2>5 DEF Inside
<1> QED  BY <1>2, <1>3, <1>4, <1>5 DEF SocketInput

\* A segment that the SYN cache takes connects a socket nobody waits on.
LEMMA PassiveStep ==
    ASSUME IInv, NEW e \in Ends, NEW m \in net, Passive(e, m)
    PROVE  IInv'
<1>1. /\ m \in Segments /\ m.seq \in Int /\ m.ack \in Int /\ clock' \in Clocks /\ net \subseteq Segments
      /\ entry[e] \in Entries /\ connect' = connect /\ disconnect' = disconnect
      /\ connect \in [Ends -> {"none", "waiting"}] /\ disconnect \in [Ends -> {"none", "waiting", "woken"}]
  BY DEF IInv, TypeInv, Passive, Segments
<1>2. entry' \in [Ends -> Entries]
  <2>1. Recorded(entry[e], m) \in Entries  BY <1>1, RecordedType DEF IInv, TypeInv, clock, Clocks
  <2>2. NoEntry \in Entries /\ entry \in [Ends -> Entries]  BY DEF NoEntry, Entries, IInv, TypeInv
  <2> QED  BY <2>1, <2>2 DEF Passive
<1>3. net' \subseteq Segments
  <2>1. {Rst(e, m), SynAck(e, entry'[e]), Segment(e, "ACK", entry[e].iss + 1, entry[e].irs + 1)} \subseteq Segments
    <3>1. entry[e].iss + 1 \in Int /\ entry[e].irs + 1 \in Int  BY <1>1 DEF Entries
    <3>2. entry'[e] \in Entries  BY <1>2
    <3> QED  BY <1>1, <3>1, <3>2, RstType, SynAckType, SegmentType
  <2> QED  BY <1>1, <2>1, SendNet DEF Passive, Unacceptable
<1>4. CASE sock' = sock  BY <1>1, <1>2, <1>3, <1>4, NoEndStep
<1>5. CASE sock' = [sock EXCEPT ![e] = [Fresh EXCEPT !.state = "ESTABLISHED", !.server = TRUE, !.peer = TRUE,
                                                     !.tx = m.ack, !.rx = m.seq]]
  <2> DEFINE x == m.ack
             y == m.seq
             r == [Fresh EXCEPT !.state = "ESTABLISHED", !.server = TRUE, !.peer = TRUE, !.tx = x, !.rx = y]
  <2>1. sock' = [sock EXCEPT ![e] = r] /\ x \in Int /\ y \in Int  BY <1>1, <1>5
  <2> HIDE DEF x, y
  <2>2. r \in Sockets /\ r.state = "ESTABLISHED" /\ r.timer = Fresh.timer
    BY <2>1, FreshType DEF Sockets, States, Synchronised
  <2> HIDE DEF r
  <2>3. Coherent(sock[e], connect[e], disconnect[e]) /\ sock[e].state = "LISTEN"
    BY EndIsCoherent DEF Passive
  <2>4. Coherent(r, connect[e], disconnect[e])
    BY <2>2, <2>3 DEF Coherent, Opening, SendsFin, Fresh
  <2>5. connect' = [connect EXCEPT ![e] = connect[e]] /\ disconnect' = [disconnect EXCEPT ![e] = disconnect[e]]
    BY <1>1
  <2> QED  BY <1>1, <1>2, <1>3, <2>1, <2>2, <2>4, <2>5, EndStep, ZenonT(40)
<1> QED  BY <1>4, <1>5 DEF Passive

\* A segment that nobody takes is answered with a reset.
LEMMA NoConnectionStep ==
    ASSUME IInv, NEW e \in Ends, NEW m \in net, NoConnection(e, m)
    PROVE  IInv'
<1>1. m \in Segments /\ net \subseteq Segments /\ entry' \in [Ends -> Entries] /\ clock' \in Clocks
  BY DEF IInv, TypeInv, NoConnection
<1>2. net' \subseteq Segments  BY <1>1, SendNet, RstType DEF NoConnection
<1> QED  BY <1>1, <1>2, NoEndStep DEF NoConnection

-----------------------------------------------------------------------------
(* Theorems *)

\* Two sockets as they are created.
LEMMA InitInvariant == Init => IInv
<1> SUFFICES ASSUME Init PROVE IInv  OBVIOUS
<1>1. TypeInv  BY FreshType DEF Init, TypeInv, NoEntry, Entries, clock, Clocks
<1>2. WaitHasCause  BY DEF Init, WaitHasCause, Fresh, SendsFin
<1>3. OneCall  BY DEF Init, OneCall
<1> QED  BY <1>1, <1>2, <1>3 DEF IInv

\* Every step of a call, of the timer or of an arriving segment keeps the invariant.
LEMMA NextInvariant == IInv /\ [Next]_vars => IInv'
<1> SUFFICES ASSUME IInv, [Next]_vars PROVE IInv'  OBVIOUS
<1>1. CASE UNCHANGED vars  BY <1>1, NoEndStep DEF vars, IInv, TypeInv
<1>2. CASE Next
  <2>1. CASE CounterSteps
    <3>1. clock' \in Clocks  BY <2>1 DEF CounterSteps, IInv, TypeInv, clock, Clocks
    <3> QED  BY <2>1, <3>1, NoEndStep DEF CounterSteps, IInv, TypeInv
  <2>2. CASE ~CounterSteps
    <3>1. PICK e \in Ends :
          \/ Connect(e) \/ ConnectTimeout(e) \/ Listen(e) \/ Unlisten(e)
          \/ DisconnectOpening(e) \/ DisconnectNow(e) \/ Disconnect(e)
          \/ DisconnectTimeout(e) \/ DisconnectReturns(e)
          \/ Timer(e) \/ EntryTimer(e)
          \/ \E m \in net : Receive(e, m)
      BY <1>2, <2>2 DEF Next
    <3>2. CASE \E m \in net : Receive(e, m)
      BY <3>2, SocketInputStep, PassiveStep, NoConnectionStep DEF Receive
    <3> QED  BY <3>1, <3>2, ConnectStep, ConnectTimeoutStep, ListenStep, UnlistenStep,
                DisconnectOpeningStep, DisconnectNowStep, DisconnectStep, DisconnectTimeoutStep,
                DisconnectReturnsStep, TimerStep, EntryTimerStep
  <2> QED  BY <2>1, <2>2
<1> QED  BY <1>1, <1>2

\* In every run the sockets and segments have their types, a thread waits only
\* for what is under way, and the calls of one socket exclude each other.
THEOREM Invariant == Spec => []IInv
BY InitInvariant, NextInvariant, PTL DEF Spec

\* A thread waits in nxd_tcp_client_socket_connect or nx_tcp_socket_disconnect
\* only while the socket is in the course of what it waits for, and a state that
\* must not last has a running timer: for every retry limit, window and network.
THEOREM NoWaitWithoutCause == Spec => []WaitHasCause
<1>1. IInv => WaitHasCause  BY DEF IInv
<1> QED  BY Invariant, <1>1, PTL

-----------------------------------------------------------------------------
(* Initial numbers.  An active open takes the number of the time s of its     *)
(* connect, the SYN cache makes one out of s, the time of the SYN it answers, *)
(* and of the period p it has then; connect starts a period.                  *)

Ids == {i \in [s : 1 .. MaxTime, p : 0 .. MaxTime, cached : BOOLEAN] :
          IF i.cached THEN i.s <= i.p ELSE i.s = i.p}

Number(i) == IF i.cached THEN Iss(Gap * i.s, i.p) ELSE Gap * i.s

\* The initial number that a number of its connection was counted from: SYN and
\* FIN make it two larger at most.
Initial(n) == {i \in Ids : Number(i) <= n /\ n <= Number(i) + 2}

\* What a socket counted of its own SYN and FIN, and of its peer's
SentFin == {"FIN_WAIT_1", "FIN_WAIT_2", "CLOSING", "TIMED_WAIT", "LAST_ACK"}
GotFin == {"CLOSE_WAIT", "CLOSING", "TIMED_WAIT", "LAST_ACK"}
Sent(r) == IF r.state \in SentFin THEN 2 ELSE 1
Got(r) == IF r.state \in GotFin THEN 2 ELSE 1

\* The states in which the socket knows its peer's number
Knowing == {"SYN_RECEIVED"} \cup Synchronised

\* The numbers of a socket r and of an entry n, and of a segment m, are counted
\* from initial numbers.  Only a server's socket listens.
SocketNumbers(r) ==
    /\ r.state = "LISTEN" => r.server
    /\ r.state \in Opening \cup Synchronised =>
         \E i \in Ids : r.tx = Number(i) + Sent(r) /\ (r.state = "SYN_SENT" => ~i.cached)
    /\ r.state \in Knowing => \E j \in Ids : r.rx = Number(j) + Got(r)
EntryNumbers(r, n) ==
    n # NoEntry => /\ r.state = "LISTEN"
                   /\ \E k \in Ids : k.cached /\ n = [irs |-> Gap * k.s, iss |-> Number(k)]
SegmentNumbers(m, p) ==
    /\ m.type = "SYN" => \E j \in Ids : ~j.cached /\ j.p <= p /\ m.seq = Number(j)
    /\ m.type = "SYN_ACK" => \E j \in Ids : m.seq = Number(j)
    /\ HasAck(m) => Initial(m.seq) # {}

Numbers ==
    /\ \A e \in Ends : SocketNumbers(sock[e]) /\ EntryNumbers(sock[e], entry[e])
    /\ \A m \in net : SegmentNumbers(m, period)
    /\ period <= time /\ time <= MaxTime

-----------------------------------------------------------------------------
(* Connections.  A pair of initial numbers <<i, j>> is a claim of an end: its *)
(* number is i and its peer's is j.                                          *)

\* The end's number, and its peer's, when it has one: of the socket r, or of
\* the entry n.
OwnOf(r, n) == IF r.state \in Opening \cup Synchronised THEN Initial(r.tx)
               ELSE IF n # NoEntry THEN Initial(n.iss) ELSE {}
PeerOf(r, n) == IF r.state \in Knowing THEN Initial(r.rx)
                ELSE IF r.state # "SYN_SENT" /\ n # NoEntry THEN Initial(n.irs) ELSE {}

Own == [e \in Ends |-> OwnOf(sock[e], entry[e])]
Peer == [e \in Ends |-> PeerOf(sock[e], entry[e])]

\* What e claimed, as far as anybody remembers: in a segment of the network, in
\* the socket or the entry, or to a peer that is synchronised.
SaidBy(e) == {q \in Ids \X Ids : \E m \in net : /\ m.to = Other(e) /\ HasAck(m)
                                                /\ q[1] \in Initial(m.seq) /\ q[2] \in Initial(m.ack)}
Heard(r, own, peer) == IF r.state \in Synchronised THEN peer \X own ELSE {}
Claims == [e \in Ends |-> SaidBy(e) \cup (Own[e] \X Peer[e])
                            \cup Heard(sock[Other(e)], Own[Other(e)], Peer[Other(e)])]

(* What holds of the ends' numbers O, their peers' P and the claims R in the  *)
(* period p.                                                                 *)

\* No number is from a period to come.
Born(O, P, R, p) ==
    \A e \in Ends : /\ \A i \in O[e] \cup P[e] : i.p <= p
                    /\ \A q \in R[e] : q[1].p <= p /\ q[2].p <= p

\* A claim about the number that the end has now is what it holds.
Current(O, P, R) == \A e \in Ends : \A q \in R[e] : q[1] \in O[e] => q[2] \in P[e]

\* A number of the SYN cache belongs to the SYN it was made for.
Matched(R) ==
    \A e \in Ends : \A q \in R[e] : /\ q[1].cached => ~q[2].cached /\ q[1].s = q[2].s
                                    /\ q[2].cached => ~q[1].cached /\ q[1].s = q[2].s

\* An end that opened itself has the number of a later period than any of its SYN
\* cache that was claimed, by it or by the other end.
OpenedLast(O, R) ==
    \A e \in Ends : \A i \in O[e] : ~i.cached =>
        /\ \A q \in R[e] : q[1].cached => q[1].p < i.p
        /\ \A q \in R[Other(e)] : q[2].cached => q[2].p < i.p

\* A claim about another number than the end has now is of a peer that is not
\* of a later period than this number.
OthersEarlier(O, R) ==
    \A e \in Ends : \A i \in O[e] : \A q \in R[e] :
        q[1] # i => q[2].p <= i.p /\ (~i.cached => q[2].p < i.p)

\* Not both ends' SYN caches answered in one period.
OneServer(R) ==
    \A e \in Ends : \A q \in R[e], c \in R[Other(e)] : ~(q[2].cached /\ c[2].cached /\ q[2].p = c[2].p)

\* Of two claims, each about the other end's present number, one is about the
\* end's own present number too.
NotCrossed(O, R) ==
    \A e \in Ends : \A q \in R[e], c \in R[Other(e)] :
        q[2] \in O[Other(e)] /\ c[2] \in O[e] => q[1] \in O[e] \/ c[1] \in O[Other(e)]

Agreement(O, P, R, p) ==
    /\ Born(O, P, R, p) /\ Current(O, P, R) /\ Matched(R) /\ OpenedLast(O, R)
    /\ OthersEarlier(O, R) /\ OneServer(R) /\ NotCrossed(O, R)

Agrees == Agreement(Own, Peer, Claims, period)

\* The inductive invariant of SameConnection
CInv == IInv /\ Numbers /\ Agrees

-----------------------------------------------------------------------------
(* Initial numbers are far apart *)

\* Multiples of a number are that number apart.
LEMMA MultiplesApart ==
    ASSUME NEW a \in Nat, NEW b \in Nat, NEW c \in Nat, a < b
    PROVE  c * a + c <= c * b
<1> DEFINE d == b - a - 1
<1>1. d \in Nat /\ b = a + 1 + d  OBVIOUS
<1> HIDE DEF d
<1>2. c * b = c * a + c + c * d  BY <1>1
<1>3. c * d \in Nat  BY <1>1
<1>4. c * a \in Nat  OBVIOUS
<1> QED  BY <1>2, <1>3, <1>4

\* Which multiple of Gap a number is
Rank(i) == IF i.cached THEN i.s + MaxTime * (i.p + 1) ELSE i.s

\* The bounds are numbers.
LEMMA Bounds == MaxTime \in Nat /\ Window \in Nat /\ Window > 0 /\ Gap \in Nat /\ Gap = Window + 4
BY ConnectionAssumption DEF ConnectionAssumption, Gap

\* A number is a multiple of Gap.
LEMMA NumberIs ==
    ASSUME NEW i \in Ids
    PROVE  /\ i.s \in 1 .. MaxTime /\ i.p \in 0 .. MaxTime /\ i.cached \in BOOLEAN
           /\ Rank(i) \in Nat /\ Number(i) = Gap * Rank(i) /\ Number(i) \in Nat
<1>1. i.s \in 1 .. MaxTime /\ i.p \in 0 .. MaxTime /\ i.cached \in BOOLEAN  BY DEF Ids
<1> DEFINE M == MaxTime
           s == i.s
           q == i.p + 1
           G == Gap
<1>2. s \in Nat /\ q \in Nat /\ M \in Nat /\ G \in Nat  BY <1>1, Bounds
<1>3. Rank(i) = IF i.cached THEN s + M * q ELSE s  BY DEF Rank
<1>4. Number(i) = IF i.cached THEN G * s + G * M * q ELSE G * s  BY DEF Number, Iss
<1> HIDE DEF M, s, q, G
<1>5. M * q \in Nat /\ G * s \in Nat /\ G * M * q \in Nat  BY <1>2
<1>6. G * (s + M * q) = G * s + G * M * q  BY <1>2
<1>7. Rank(i) \in Nat  BY <1>2, <1>3, <1>5
<1>8. Number(i) = G * Rank(i) /\ Number(i) \in Nat  BY <1>3, <1>4, <1>5, <1>6
<1> QED  BY <1>1, <1>7, <1>8 DEF G

\* Two of them are different multiples.
LEMMA RanksDiffer ==
    ASSUME NEW i \in Ids, NEW j \in Ids, i # j
    PROVE  Rank(i) # Rank(j)
<1>1. /\ i.s \in 1 .. MaxTime /\ i.p \in 0 .. MaxTime /\ i.cached \in BOOLEAN
      /\ j.s \in 1 .. MaxTime /\ j.p \in 0 .. MaxTime /\ j.cached \in BOOLEAN
  BY NumberIs
<1>2. i.s # j.s \/ i.p # j.p \/ i.cached # j.cached  BY DEF Ids
<1>3. ~i.cached => i.s = i.p  BY DEF Ids
<1>4. ~j.cached => j.s = j.p  BY DEF Ids
<1>5. CASE ~i.cached /\ ~j.cached
  <2>1. i.s # j.s  BY <1>1, <1>2, <1>3, <1>4, <1>5
  <2> QED  BY <1>5, <2>1 DEF Rank
<1>6. ASSUME NEW p \in Nat, NEW q \in Nat, p < q
      PROVE  MaxTime * (p + 1) + MaxTime <= MaxTime * (q + 1) /\ MaxTime * (p + 1) \in Nat
  BY <1>6, Bounds, MultiplesApart
<1>7. ASSUME NEW p \in Nat PROVE MaxTime <= MaxTime * (p + 1) /\ MaxTime * (p + 1) \in Nat
  <2>1. MaxTime * 0 = 0  BY Bounds
  <2>2. MaxTime * 0 + MaxTime <= MaxTime * (p + 1)  BY Bounds, MultiplesApart
  <2> QED  BY <2>1, <2>2, Bounds
<1> DEFINE x == MaxTime * (i.p + 1)
           y == MaxTime * (j.p + 1)
<1>8. /\ i.p \in Nat /\ j.p \in Nat /\ i.s \in Nat /\ j.s \in Nat /\ i.s > 0 /\ j.s > 0
      /\ i.s <= MaxTime /\ j.s <= MaxTime
  BY <1>1, Bounds
<1>9. /\ x \in Nat /\ y \in Nat /\ MaxTime <= x /\ MaxTime <= y
  BY <1>7, <1>8
<1>10. (i.p < j.p => x + MaxTime <= y) /\ (j.p < i.p => y + MaxTime <= x)
  BY <1>6, <1>8
<1>11. Rank(i) = (IF i.cached THEN i.s + x ELSE i.s) /\ Rank(j) = IF j.cached THEN j.s + y ELSE j.s
  BY DEF Rank
<1> HIDE DEF x, y
<1>12. CASE i.cached /\ j.cached
  <2>1. Rank(i) = i.s + x /\ Rank(j) = j.s + y  BY <1>11, <1>12
  <2>2. CASE i.p = j.p
    <3>1. x = y  BY <2>2 DEF x, y
    <3>2. i.s # j.s  BY <1>2, <1>12, <2>2
    <3> QED  BY <1>8, <1>9, <2>1, <3>1, <3>2
  <2>3. CASE i.p < j.p  BY <1>8, <1>9, <1>10, <2>1, <2>3, Bounds
  <2>4. CASE j.p < i.p  BY <1>8, <1>9, <1>10, <2>1, <2>4, Bounds
  <2> QED  BY <1>8, <2>2, <2>3, <2>4
<1>13. CASE i.cached /\ ~j.cached  BY <1>8, <1>9, <1>11, <1>13, Bounds
<1>14. CASE ~i.cached /\ j.cached  BY <1>8, <1>9, <1>11, <1>14, Bounds
<1> QED  BY <1>5, <1>12, <1>13, <1>14

\* A number is of one connection.
LEMMA NumbersApart ==
    ASSUME NEW i \in Ids, NEW j \in Ids, i # j
    PROVE  Number(i) + Gap <= Number(j) \/ Number(j) + Gap <= Number(i)
<1>1. /\ Rank(i) \in Nat /\ Rank(j) \in Nat /\ Number(i) = Gap * Rank(i) /\ Number(j) = Gap * Rank(j)
      /\ Rank(i) # Rank(j)
  BY NumberIs, RanksDiffer
<1>2. CASE Rank(i) < Rank(j)  BY <1>1, <1>2, Bounds, MultiplesApart
<1>3. CASE Rank(j) < Rank(i)  BY <1>1, <1>3, Bounds, MultiplesApart
<1> QED  BY <1>1, <1>2, <1>3

\* What is counted from a number is counted from no other.
LEMMA InitialIs ==
    ASSUME NEW i \in Ids, NEW n \in Int, Number(i) <= n, n <= Number(i) + 2
    PROVE  Initial(n) = {i}
<1>1. i \in Initial(n)  BY DEF Initial
<1>2. ASSUME NEW j \in Initial(n), j # i PROVE FALSE
  <2>1. j \in Ids /\ Number(j) <= n /\ n <= Number(j) + 2  BY DEF Initial
  <2>2. Number(i) + Gap <= Number(j) \/ Number(j) + Gap <= Number(i)  BY <1>2, <2>1, NumbersApart
  <2>3. Number(i) \in Nat /\ Number(j) \in Nat  BY <2>1, NumberIs
  <2> QED  BY <2>1, <2>2, <2>3, Bounds
<1> QED  BY <1>1, <1>2

\* ... at most one number, of an end or of a peer.
LEMMA OneInitial ==
    ASSUME NEW n \in Int, NEW i \in Initial(n), NEW j \in Initial(n)
    PROVE  i = j /\ i \in Ids
<1>1. i \in Ids /\ Number(i) <= n /\ n <= Number(i) + 2  BY DEF Initial
<1> QED  BY <1>1, InitialIs

-----------------------------------------------------------------------------
(* What the ends do with numbers and claims, and that they agree after it     *)

\* Ends have one number at most, and one peer.
Single(O) == \A e \in Ends : \A i \in O[e], j \in O[e] : i = j
Shape(O, P, R) ==
    /\ O \in [Ends -> SUBSET Ids] /\ P \in [Ends -> SUBSET Ids] /\ R \in [Ends -> SUBSET (Ids \X Ids)]
    /\ Single(O) /\ Single(P)

\* Claims are forgotten, and an end may close.
Forgets(O, P, R, O2, P2, R2) ==
    \A e \in Ends : /\ R2[e] \subseteq R[e]
                    /\ (O2[e] = {} /\ P2[e] = {}) \/ (O2[e] = O[e] /\ P2[e] = P[e])

\* The end a, whose number is i and who claimed nothing of it, learns its peer j:
\* from a SYN, or from a claim that j made.
Learns(a, i, j, O, P, R, O2, P2, R2) ==
    /\ O[a] = {i} /\ ~i.cached /\ P[a] = {} /\ O2 = O /\ P2 = [P EXCEPT ![a] = {j}]
    /\ ~j.cached \/ <<j, i>> \in R[Other(a)]
    /\ R2[a] \subseteq R[a] \cup {<<i, j>>} /\ R2[Other(a)] \subseteq R[Other(a)]

\* The end a opens itself with the number i.
Opens(a, i, O, P, R, O2, P2, R2) ==
    /\ ~i.cached
    /\ O2 = [O EXCEPT ![a] = {i}] /\ P2 = [P EXCEPT ![a] = {}]
    /\ \A e \in Ends : R2[e] \subseteq R[e]

\* The SYN cache of the end a makes the number i for the SYN j.
Answered(a, i, j, O, P, R, O2, P2, R2) ==
    /\ i.cached /\ ~j.cached /\ j.s = i.s
    /\ O2 = [O EXCEPT ![a] = {i}] /\ P2 = [P EXCEPT ![a] = {j}]
    /\ R2[a] \subseteq R[a] \cup {<<i, j>>} /\ R2[Other(a)] \subseteq R[Other(a)]

\* The other end of the other end is the end.
LEMMA OtherOther == ASSUME NEW e \in Ends, NEW x \in Ends PROVE Other(Other(e)) = e /\ (x = e \/ x = Other(e))
<1> DEFINE o == Other(e)
<1>1. o \in Ends /\ o # e  BY OtherEnd
<1>2. \A y \in Ends : y = e \/ y = o
  <2> SUFFICES ASSUME NEW y \in Ends, y # e, y # o PROVE FALSE  OBVIOUS
  <2> HIDE DEF o
  <2>1. IsFiniteSet(Ends) /\ Cardinality(Ends) = 2  BY ConnectionAssumption DEF ConnectionAssumption
  <2>2. IsFiniteSet(Ends \ {e}) /\ Cardinality(Ends \ {e}) = 1  BY <2>1, FS_RemoveElement
  <2>3. IsFiniteSet((Ends \ {e}) \ {o}) /\ Cardinality((Ends \ {e}) \ {o}) = 0
    BY <1>1, <2>2, FS_RemoveElement
  <2>4. (Ends \ {e}) \ {o} = {}  BY <2>3, FS_EmptySet
  <2> QED  BY <2>4
<1>3. Other(o) \in Ends /\ Other(o) # o  BY <1>1, OtherEnd
<1> QED  BY <1>2, <1>3

\* Agreement outlives what is forgotten, and time.
LEMMA ForgettingAgrees ==
    ASSUME NEW O, NEW P, NEW R, NEW O2, NEW P2, NEW R2, NEW p \in Nat, NEW p2 \in Nat, p <= p2,
           Shape(O, P, R), Agreement(O, P, R, p), Forgets(O, P, R, O2, P2, R2)
    PROVE  Agreement(O2, P2, R2, p2)
<1> USE OtherEnd
<1>1. \A e \in Ends : /\ R2[e] \subseteq R[e] /\ R[e] \subseteq Ids \X Ids
                      /\ O2[e] \subseteq O[e] /\ P2[e] \subseteq P[e] /\ O[e] \cup P[e] \subseteq Ids
                      /\ O2[e] # {} => O2[e] = O[e] /\ P2[e] = P[e]
  BY DEF Forgets, Shape
<1>2. Born(O2, P2, R2, p2)
  <2>1. \A i \in Ids : i.p \in Nat  BY NumberIs
  <2>2. \A x \in Nat : x <= p => x <= p2  OBVIOUS
  <2>3. ASSUME NEW e \in Ends, NEW i \in O2[e] \cup P2[e] PROVE i.p <= p2
    <3>1. i \in O[e] \cup P[e] /\ i \in Ids  BY <1>1
    <3>2. i.p <= p  BY <3>1 DEF Agreement, Born
    <3> QED  BY <2>1, <2>2, <3>1, <3>2
  <2>4. ASSUME NEW e \in Ends, NEW q \in R2[e] PROVE q[1].p <= p2 /\ q[2].p <= p2
    <3>1. q \in R[e] /\ q[1] \in Ids /\ q[2] \in Ids  BY <1>1
    <3>2. q[1].p <= p /\ q[2].p <= p  BY <3>1 DEF Agreement, Born
    <3> QED  BY <2>1, <2>2, <3>1, <3>2
  <2> QED  BY <2>3, <2>4 DEF Born
<1>3. Current(O2, P2, R2)
  <2> SUFFICES ASSUME NEW e \in Ends, NEW q \in R2[e], q[1] \in O2[e] PROVE q[2] \in P2[e]  BY DEF Current
  <2>1. q \in R[e] /\ O2[e] = O[e] /\ P2[e] = P[e]  BY <1>1
  <2> QED  BY <2>1 DEF Agreement, Current
<1>4. Matched(R2)  BY <1>1 DEF Agreement, Matched
<1>5. OpenedLast(O2, R2)
  <2> SUFFICES ASSUME NEW e \in Ends, NEW i \in O2[e], ~i.cached
               PROVE  /\ \A q \in R2[e] : q[1].cached => q[1].p < i.p
                      /\ \A q \in R2[Other(e)] : q[2].cached => q[2].p < i.p
    BY DEF OpenedLast
  <2>1. i \in O[e] /\ R2[e] \subseteq R[e] /\ R2[Other(e)] \subseteq R[Other(e)]  BY <1>1
  <2> QED  BY <2>1 DEF Agreement, OpenedLast
<1>6. OthersEarlier(O2, R2)
  <2> SUFFICES ASSUME NEW e \in Ends, NEW i \in O2[e], NEW q \in R2[e], q[1] # i
               PROVE  q[2].p <= i.p /\ (~i.cached => q[2].p < i.p)
    BY DEF OthersEarlier
  <2>1. i \in O[e] /\ q \in R[e]  BY <1>1
  <2> QED  BY <2>1 DEF Agreement, OthersEarlier
<1>7. OneServer(R2)  
  <2> SUFFICES ASSUME NEW e \in Ends, NEW q \in R2[e], NEW c \in R2[Other(e)]
               PROVE  ~(q[2].cached /\ c[2].cached /\ q[2].p = c[2].p)
    BY DEF OneServer
  <2>1. q \in R[e] /\ c \in R[Other(e)]  BY <1>1
  <2> QED  BY <2>1 DEF Agreement, OneServer
<1>8. NotCrossed(O2, R2)
  <2> SUFFICES ASSUME NEW e \in Ends, NEW q \in R2[e], NEW c \in R2[Other(e)],
                      q[2] \in O2[Other(e)], c[2] \in O2[e]
               PROVE  q[1] \in O2[e] \/ c[1] \in O2[Other(e)]
    BY DEF NotCrossed
  <2>1. q \in R[e] /\ c \in R[Other(e)] /\ O2[e] = O[e] /\ O2[Other(e)] = O[Other(e)]  BY <1>1
  <2> QED  BY <2>1 DEF Agreement, NotCrossed
<1> QED  BY <1>2, <1>3, <1>4, <1>5, <1>6, <1>7, <1>8 DEF Agreement

\* ... what an end that opened itself learns from the other,
LEMMA LearningAgrees ==
    ASSUME NEW O, NEW P, NEW R, NEW O2, NEW P2, NEW R2, NEW p \in Nat,
           NEW a \in Ends, NEW i \in Ids, NEW j \in Ids, j.p <= p,
           Shape(O, P, R), Agreement(O, P, R, p), Learns(a, i, j, O, P, R, O2, P2, R2)
    PROVE  Agreement(O2, P2, R2, p)
<1> DEFINE b == Other(a)
           n == <<i, j>>
<1>1. a \in Ends /\ b \in Ends /\ a # b /\ Other(b) = a /\ Other(a) = b /\ \A e \in Ends : e = a \/ e = b
  BY OtherEnd, OtherOther
<1>2. /\ O2 = O /\ O[a] = {i} /\ ~i.cached /\ P2[a] = {j} /\ P2[b] = P[b] /\ P[a] = {}
      /\ R2[a] \subseteq R[a] \cup {n} /\ R2[b] \subseteq R[b]
      /\ ~j.cached \/ <<j, i>> \in R[b]
      /\ n[1] = i /\ n[2] = j
  BY <1>1 DEF Learns, Shape
<1>3. /\ Born(O, P, R, p) /\ Current(O, P, R) /\ Matched(R) /\ OpenedLast(O, R)
      /\ OthersEarlier(O, R) /\ OneServer(R) /\ NotCrossed(O, R)
  BY DEF Agreement
<1>4. j.cached => i.s = j.s /\ \A k \in O[b] : ~k.cached => j.p < k.p
  <2> SUFFICES ASSUME j.cached PROVE i.s = j.s /\ \A k \in O[b] : ~k.cached => j.p < k.p  OBVIOUS
  <2> DEFINE q == <<j, i>>
  <2>1. q \in R[b] /\ q[1] = j /\ q[2] = i  BY <1>2
  <2> HIDE DEF q
  <2>2. i.s = j.s  BY <1>1, <1>3, <2>1 DEF Matched
  <2>3. \A k \in O[b] : ~k.cached => j.p < k.p  BY <1>1, <1>3, <2>1 DEF OpenedLast
  <2> QED  BY <2>2, <2>3
<1>5. i.s = i.p /\ i.s \in Nat /\ j.p \in Nat /\ (j.cached => j.s <= j.p)
  BY <1>2, NumberIs, Bounds DEF Ids
<1> HIDE DEF b, n
<1>6. Born(O2, P2, R2, p)
  <2>1. i.p <= p /\ \A k \in P[b] : k.p <= p  BY <1>1, <1>2, <1>3 DEF Born
  <2>2. \A e \in Ends : \A k \in O2[e] \cup P2[e] : k.p <= p  BY <1>1, <1>2, <1>3, <2>1 DEF Born
  <2>3. \A e \in Ends : \A q \in R2[e] : q[1].p <= p /\ q[2].p <= p  BY <1>1, <1>2, <1>3, <2>1 DEF Born
  <2> QED  BY <2>2, <2>3 DEF Born
<1>7. Current(O2, P2, R2)
  <2>1. \A q \in R2[a] : q[1] \in O2[a] => q[2] \in P2[a]  BY <1>1, <1>2, <1>3 DEF Current
  <2>2. \A q \in R2[b] : q[1] \in O2[b] => q[2] \in P2[b]  BY <1>1, <1>2, <1>3 DEF Current
  <2> QED  BY <1>1, <2>1, <2>2 DEF Current
<1>8. Matched(R2)
  <2>1. \A q \in R2[a] : /\ q[1].cached => ~q[2].cached /\ q[1].s = q[2].s
                         /\ q[2].cached => ~q[1].cached /\ q[1].s = q[2].s
    BY <1>1, <1>2, <1>3, <1>4 DEF Matched
  <2>2. \A q \in R2[b] : /\ q[1].cached => ~q[2].cached /\ q[1].s = q[2].s
                         /\ q[2].cached => ~q[1].cached /\ q[1].s = q[2].s
    BY <1>1, <1>2, <1>3 DEF Matched
  <2> QED  BY <1>1, <2>1, <2>2 DEF Matched
<1>9. OpenedLast(O2, R2)
  <2>1. ASSUME NEW k \in O2[a], ~k.cached
        PROVE  /\ \A q \in R2[a] : q[1].cached => q[1].p < k.p
               /\ \A q \in R2[b] : q[2].cached => q[2].p < k.p
    BY <1>1, <1>2, <1>3, <2>1 DEF OpenedLast
  <2>2. ASSUME NEW k \in O2[b], ~k.cached
        PROVE  /\ \A q \in R2[b] : q[1].cached => q[1].p < k.p
               /\ \A q \in R2[a] : q[2].cached => q[2].p < k.p
    BY <1>1, <1>2, <1>3, <1>4, <2>2 DEF OpenedLast
  <2> QED  BY <1>1, <2>1, <2>2 DEF OpenedLast
<1>10. OthersEarlier(O2, R2)
  <2>1. ASSUME NEW k \in O2[a], NEW q \in R2[a], q[1] # k
        PROVE  q[2].p <= k.p /\ (~k.cached => q[2].p < k.p)
    <3>1. k = i  BY <1>2
    <3>2. q \in R[a]  BY <1>2, <2>1, <3>1
    <3> QED  BY <1>1, <1>2, <1>3, <2>1, <3>2 DEF OthersEarlier
  <2>2. ASSUME NEW k \in O2[b], NEW q \in R2[b], q[1] # k
        PROVE  q[2].p <= k.p /\ (~k.cached => q[2].p < k.p)
    BY <1>1, <1>2, <1>3, <2>2 DEF OthersEarlier
  <2> QED  BY <1>1, <2>1, <2>2 DEF OthersEarlier
<1>11. OneServer(R2)
  <2>1. ASSUME NEW q \in R2[a], NEW c \in R2[b], q[2].cached, c[2].cached, q[2].p = c[2].p
        PROVE  FALSE
    <3>1. c \in R[b]  BY <1>2
    <3>2. CASE q \in R[a]  BY <1>1, <1>3, <2>1, <3>1, <3>2 DEF OneServer
    <3>3. CASE q = n
      <4>1. c[2].p < i.p  BY <1>1, <1>2, <1>3, <2>1, <3>1 DEF OpenedLast
      <4>2. i.p <= j.p  BY <1>2, <1>4, <1>5, <2>1, <3>3
      <4> QED  BY <1>2, <1>5, <2>1, <3>3, <4>1, <4>2
    <3> QED  BY <1>2, <3>2, <3>3
  <2> QED  BY <1>1, <2>1 DEF OneServer
<1>12. NotCrossed(O2, R2)
  <2>1. ASSUME NEW q \in R2[a], NEW c \in R2[b], q[2] \in O2[b], c[2] \in O2[a]
        PROVE  q[1] \in O2[a] \/ c[1] \in O2[b]
    <3>1. CASE q \in R[a]  BY <1>1, <1>2, <1>3, <2>1, <3>1 DEF NotCrossed
    <3>2. CASE q = n  BY <1>2, <3>2
    <3> QED  BY <1>2, <3>1, <3>2
  <2> QED  BY <1>1, <2>1 DEF NotCrossed
<1> QED  BY <1>6, <1>7, <1>8, <1>9, <1>10, <1>11, <1>12 DEF Agreement

\* ... an end that opens itself in a new period,
LEMMA OpeningAgrees ==
    ASSUME NEW O, NEW P, NEW R, NEW O2, NEW P2, NEW R2, NEW p \in Nat,
           NEW a \in Ends, NEW i \in Ids, p < i.p,
           Shape(O, P, R), Agreement(O, P, R, p), Opens(a, i, O, P, R, O2, P2, R2)
    PROVE  Agreement(O2, P2, R2, i.p)
<1> DEFINE b == Other(a)
<1>1. a \in Ends /\ b \in Ends /\ a # b /\ Other(b) = a /\ Other(a) = b /\ \A e \in Ends : e = a \/ e = b
  BY OtherEnd, OtherOther
<1>2. /\ O2[a] = {i} /\ ~i.cached /\ P2[a] = {} /\ P2[b] = P[b] /\ O2[b] = O[b]
      /\ R2[a] \subseteq R[a] /\ R2[b] \subseteq R[b]
  BY <1>1 DEF Opens, Shape
<1>3. /\ Born(O, P, R, p) /\ Current(O, P, R) /\ Matched(R) /\ OpenedLast(O, R)
      /\ OthersEarlier(O, R) /\ OneServer(R) /\ NotCrossed(O, R)
  BY DEF Agreement
<1> HIDE DEF b
<1>4. \A e \in Ends : \A q \in R[e] : q[1].p < i.p /\ q[2].p < i.p /\ q[1] # i /\ q[2] # i
  <2> SUFFICES ASSUME NEW e \in Ends, NEW q \in R[e]
               PROVE  q[1].p < i.p /\ q[2].p < i.p /\ q[1] # i /\ q[2] # i
    OBVIOUS
  <2>1. q[1] \in Ids /\ q[2] \in Ids  BY DEF Shape
  <2>2. q[1].p <= p /\ q[2].p <= p  BY <1>3 DEF Born
  <2>3. q[1].p \in Nat /\ q[2].p \in Nat /\ i.p \in Nat  BY <2>1, NumberIs
  <2> QED  BY <2>2, <2>3
<1>5. \A e \in Ends : \A k \in O[e] \cup P[e] : k.p <= i.p
  <2> SUFFICES ASSUME NEW e \in Ends, NEW k \in O[e] \cup P[e] PROVE k.p <= i.p  OBVIOUS
  <2>1. k \in Ids  BY DEF Shape
  <2>2. k.p <= p  BY <1>3 DEF Born
  <2>3. k.p \in Nat /\ i.p \in Nat  BY <2>1, NumberIs
  <2> QED  BY <2>2, <2>3
<1>6. \A e \in Ends : R2[e] \subseteq R[e]  BY DEF Opens
<1>7. Born(O2, P2, R2, i.p)
  <2>1. \A e \in Ends : \A k \in O2[e] \cup P2[e] : k.p <= i.p
    <3>1. i.p <= i.p  BY NumberIs
    <3> QED  BY <1>1, <1>2, <1>5, <3>1
  <2>2. \A e \in Ends : \A q \in R2[e] : q[1].p <= i.p /\ q[2].p <= i.p
    <3> SUFFICES ASSUME NEW e \in Ends, NEW q \in R[e] PROVE q[1].p <= i.p /\ q[2].p <= i.p  BY <1>6
    <3>1. q[1] \in Ids /\ q[2] \in Ids  BY DEF Shape
    <3>2. q[1].p \in Nat /\ q[2].p \in Nat /\ i.p \in Nat  BY <3>1, NumberIs
    <3> QED  BY <1>4, <3>2
  <2> QED  BY <2>1, <2>2 DEF Born
<1>8. Current(O2, P2, R2)
  <2>1. \A q \in R2[a] : q[1] \in O2[a] => q[2] \in P2[a]  BY <1>1, <1>2, <1>4
  <2>2. \A q \in R2[b] : q[1] \in O2[b] => q[2] \in P2[b]  BY <1>1, <1>2, <1>3 DEF Current
  <2> QED  BY <1>1, <2>1, <2>2 DEF Current
<1>9. Matched(R2)  BY <1>3, <1>6 DEF Matched
<1>10. OpenedLast(O2, R2)
  <2>1. ASSUME NEW k \in O2[a], ~k.cached
        PROVE  /\ \A q \in R2[a] : q[1].cached => q[1].p < k.p
               /\ \A q \in R2[b] : q[2].cached => q[2].p < k.p
    BY <1>1, <1>2, <1>4, <2>1
  <2>2. ASSUME NEW k \in O2[b], ~k.cached
        PROVE  /\ \A q \in R2[b] : q[1].cached => q[1].p < k.p
               /\ \A q \in R2[a] : q[2].cached => q[2].p < k.p
    BY <1>1, <1>2, <1>3, <2>2 DEF OpenedLast
  <2> QED  BY <1>1, <2>1, <2>2 DEF OpenedLast
<1>11. OthersEarlier(O2, R2)
  <2>1. ASSUME NEW k \in O2[a], NEW q \in R2[a], q[1] # k
        PROVE  q[2].p <= k.p /\ (~k.cached => q[2].p < k.p)
    <3>1. k = i /\ q \in R[a]  BY <1>2
    <3>2. q[2].p < i.p /\ q[2] \in Ids  BY <1>1, <1>4, <3>1 DEF Shape
    <3>3. q[2].p \in Nat /\ i.p \in Nat  BY <3>2, NumberIs
    <3> QED  BY <3>1, <3>2, <3>3
  <2>2. ASSUME NEW k \in O2[b], NEW q \in R2[b], q[1] # k
        PROVE  q[2].p <= k.p /\ (~k.cached => q[2].p < k.p)
    BY <1>1, <1>2, <1>3, <2>2 DEF OthersEarlier
  <2> QED  BY <1>1, <2>1, <2>2 DEF OthersEarlier
<1>12. OneServer(R2)
  <2> SUFFICES ASSUME NEW e \in Ends, NEW q \in R2[e], NEW c \in R2[Other(e)]
               PROVE  ~(q[2].cached /\ c[2].cached /\ q[2].p = c[2].p)
    BY DEF OneServer
  <2>1. q \in R[e] /\ c \in R[Other(e)]  BY <1>6, OtherEnd
  <2> QED  BY <1>3, <2>1 DEF OneServer
<1>13. NotCrossed(O2, R2)
  <2>1. ASSUME NEW q \in R2[a], NEW c \in R2[b], q[2] \in O2[b], c[2] \in O2[a]
        PROVE  q[1] \in O2[a] \/ c[1] \in O2[b]
    BY <1>1, <1>2, <1>4, <2>1
  <2> QED  BY <1>1, <2>1 DEF NotCrossed
<1> QED  BY <1>7, <1>8, <1>9, <1>10, <1>11, <1>12, <1>13 DEF Agreement

\* ... and a SYN cache that makes a number in the present period.
LEMMA AnsweringAgrees ==
    ASSUME NEW O, NEW P, NEW R, NEW O2, NEW P2, NEW R2, NEW p \in Nat,
           NEW a \in Ends, NEW i \in Ids, NEW j \in Ids, i.p = p, j.p <= p,
           Shape(O, P, R), Agreement(O, P, R, p), Answered(a, i, j, O, P, R, O2, P2, R2)
    PROVE  Agreement(O2, P2, R2, p)
<1> DEFINE b == Other(a)
           n == <<i, j>>
<1>1. a \in Ends /\ b \in Ends /\ a # b /\ Other(b) = a /\ Other(a) = b /\ \A e \in Ends : e = a \/ e = b
  BY OtherEnd, OtherOther
<1>2. /\ O2[a] = {i} /\ O2[b] = O[b] /\ i.cached /\ ~j.cached /\ j.s = i.s
      /\ P2[a] = {j} /\ P2[b] = P[b]
      /\ R2[a] \subseteq R[a] \cup {n} /\ R2[b] \subseteq R[b]
      /\ n[1] = i /\ n[2] = j
  BY <1>1 DEF Answered, Shape
<1>3. /\ Born(O, P, R, p) /\ Current(O, P, R) /\ Matched(R) /\ OpenedLast(O, R)
      /\ OthersEarlier(O, R) /\ OneServer(R) /\ NotCrossed(O, R)
  BY DEF Agreement
<1>4. i.p \in Nat /\ j.p \in Nat  BY NumberIs
<1> HIDE DEF b, n
<1>5. Born(O2, P2, R2, p)
  <2>1. \A e \in Ends : \A k \in O2[e] \cup P2[e] : k.p <= p
    <3>1. p <= p  OBVIOUS
    <3> QED  BY <1>1, <1>2, <1>3, <3>1 DEF Born
  <2>2. \A e \in Ends : \A q \in R2[e] : q[1].p <= p /\ q[2].p <= p
    <3>1. p <= p  OBVIOUS
    <3> QED  BY <1>1, <1>2, <1>3, <3>1 DEF Born
  <2> QED  BY <2>1, <2>2 DEF Born
<1>6. Current(O2, P2, R2)
  <2>1. ASSUME NEW q \in R2[a], q[1] \in O2[a] PROVE q[2] \in P2[a]
    <3>1. CASE q = n  BY <1>2, <3>1
    <3>2. CASE q \in R[a]
      <4>1. q[1] = i /\ q[2] \in Ids  BY <1>1, <1>2, <2>1, <3>2 DEF Shape
      <4>2. ~q[2].cached /\ q[2].s = j.s  BY <1>1, <1>2, <1>3, <3>2, <4>1 DEF Matched
      <4>3. q[2] = j  BY <1>2, <4>1, <4>2 DEF Ids
      <4> QED  BY <1>2, <4>3
    <3> QED  BY <1>2, <3>1, <3>2
  <2>2. \A q \in R2[b] : q[1] \in O2[b] => q[2] \in P2[b]  BY <1>1, <1>2, <1>3 DEF Current
  <2> QED  BY <1>1, <2>1, <2>2 DEF Current
<1>7. Matched(R2)
  <2>1. \A q \in R2[a] : /\ q[1].cached => ~q[2].cached /\ q[1].s = q[2].s
                         /\ q[2].cached => ~q[1].cached /\ q[1].s = q[2].s
    BY <1>1, <1>2, <1>3 DEF Matched
  <2>2. \A q \in R2[b] : /\ q[1].cached => ~q[2].cached /\ q[1].s = q[2].s
                         /\ q[2].cached => ~q[1].cached /\ q[1].s = q[2].s
    BY <1>1, <1>2, <1>3 DEF Matched
  <2> QED  BY <1>1, <2>1, <2>2 DEF Matched
<1>8. OpenedLast(O2, R2)
  <2>1. \A k \in O2[a] : k.cached  BY <1>2
  <2>2. ASSUME NEW k \in O2[b], ~k.cached
        PROVE  /\ \A q \in R2[b] : q[1].cached => q[1].p < k.p
               /\ \A q \in R2[a] : q[2].cached => q[2].p < k.p
    BY <1>1, <1>2, <1>3, <2>2 DEF OpenedLast
  <2> QED  BY <1>1, <2>1, <2>2 DEF OpenedLast
<1>9. OthersEarlier(O2, R2)
  <2>1. ASSUME NEW k \in O2[a], NEW q \in R2[a], q[1] # k
        PROVE  q[2].p <= k.p /\ (~k.cached => q[2].p < k.p)
    <3>1. k = i /\ q \in R[a]  BY <1>2, <2>1
    <3> QED  BY <1>1, <1>2, <1>3, <3>1 DEF Born
  <2>2. ASSUME NEW k \in O2[b], NEW q \in R2[b], q[1] # k
        PROVE  q[2].p <= k.p /\ (~k.cached => q[2].p < k.p)
    BY <1>1, <1>2, <1>3, <2>2 DEF OthersEarlier
  <2> QED  BY <1>1, <2>1, <2>2 DEF OthersEarlier
<1>10. OneServer(R2)
  <2>1. ASSUME NEW q \in R2[a], NEW c \in R2[b], q[2].cached, c[2].cached, q[2].p = c[2].p
        PROVE  FALSE
    <3>1. c \in R[b] /\ q \in R[a]  BY <1>2, <2>1
    <3> QED  BY <1>1, <1>3, <2>1, <3>1 DEF OneServer
  <2> QED  BY <1>1, <2>1 DEF OneServer
<1>11. NotCrossed(O2, R2)
  <2>1. ASSUME NEW q \in R2[a], NEW c \in R2[b], q[2] \in O2[b], c[2] \in O2[a]
        PROVE  q[1] \in O2[a] \/ c[1] \in O2[b]
    <3>1. CASE q = n  BY <1>2, <3>1
    <3>2. CASE q \in R[a] /\ c[1] \notin O2[b]
      <4>1. c \in R[b] /\ c[2] = i /\ q[2] \in O[b] /\ q[2] # c[1] /\ q[2] \in Ids  
        BY <1>1, <1>2, <2>1, <3>2 DEF Shape
      <4>2. p <= q[2].p /\ (~q[2].cached => p < q[2].p)
        BY <1>1, <1>2, <1>3, <4>1 DEF OthersEarlier
      <4>3. q[2].p <= p /\ q[2].p \in Nat  BY <1>1, <1>3, <4>1, NumberIs DEF Born
      <4>4. q[2].cached /\ q[2].p = c[2].p  BY <4>1, <4>2, <4>3
      <4> QED  BY <1>1, <1>2, <1>3, <3>2, <4>1, <4>4 DEF OneServer
    <3> QED  BY <1>2, <3>1, <3>2
  <2> QED  BY <1>1, <2>1 DEF NotCrossed
<1> QED  BY <1>5, <1>6, <1>7, <1>8, <1>9, <1>10, <1>11 DEF Agreement

\* Two ends that each claim what the other holds hold the same.
LEMMA AgreedConnection ==
    ASSUME NEW O, NEW P, NEW R, NEW p, Shape(O, P, R), Agreement(O, P, R, p), NEW a \in Ends,
           NEW i \in O[a], NEW j \in P[a], NEW k \in O[Other(a)], NEW l \in P[Other(a)],
           <<i, j>> \in R[a], <<l, k>> \in R[a], <<k, l>> \in R[Other(a)], <<j, i>> \in R[Other(a)]
    PROVE  i = l /\ j = k
<1> DEFINE b == Other(a)
           q == <<l, k>>
           c == <<j, i>>
<1>1. b \in Ends /\ Other(b) = a  BY OtherEnd, OtherOther
<1>2. /\ q \in R[a] /\ c \in R[b] /\ q[1] = l /\ q[2] = k /\ c[1] = j /\ c[2] = i
  OBVIOUS
<1>3. Single(O) /\ Single(P) /\ Current(O, P, R) /\ NotCrossed(O, R)  BY DEF Shape, Agreement
<1> HIDE DEF b, q, c
<1>4. l \in O[a] \/ j \in O[b]  BY <1>1, <1>2, <1>3 DEF NotCrossed, b
<1>5. CASE l \in O[a]
  <2>1. i = l  BY <1>3, <1>5 DEF Single
  <2>2. k \in P[a]  BY <1>1, <1>2, <1>3, <1>5 DEF Current
  <2> QED  BY <1>3, <2>1, <2>2 DEF Single
<1>6. CASE j \in O[b]
  <2>1. j = k  BY <1>1, <1>3, <1>6 DEF Single, b
  <2>2. i \in P[b]  BY <1>1, <1>2, <1>3, <1>6 DEF Current
  <2> QED  BY <1>1, <1>3, <2>1, <2>2 DEF Single, b
<1> QED  BY <1>4, <1>5, <1>6

-----------------------------------------------------------------------------
(* What the ends hold in a state *)

\* The types, from the invariant of WaitHasCause.
LEMMA Types ==
    ASSUME IInv
    PROVE  /\ \A e \in Ends : /\ sock[e] \in Sockets /\ sock[e].tx \in Int /\ sock[e].rx \in Int
                              /\ sock[e].state \in States
                              /\ entry[e] \in Entries /\ entry[e].irs \in Int /\ entry[e].iss \in Int
           /\ net \subseteq Segments /\ \A m \in net : m.seq \in Int /\ m.ack \in Int
           /\ period \in Nat /\ time \in Nat
BY DEF IInv, TypeInv, Sockets, Entries, Segments, clock, Clocks

\* An initial number is the number itself, and what is counted from it.
LEMMA InitialOf ==
    ASSUME NEW i \in Ids
    PROVE  Initial(Number(i)) = {i} /\ Initial(Number(i) + 1) = {i} /\ Initial(Number(i) + 2) = {i}
<1>1. Number(i) \in Nat  BY NumberIs
<1> DEFINE a == Number(i)
<1>2. /\ a \in Int /\ a + 1 \in Int /\ a + 2 \in Int /\ a <= a /\ a <= a + 1 /\ a <= a + 2
      /\ a + 1 <= a + 2 /\ a + 2 <= a + 2
  BY <1>1
<1> QED  BY <1>2, InitialIs

\* Ends have one number and one peer.
LEMMA ShapeHolds == ASSUME IInv PROVE Shape(Own, Peer, Claims)
<1>1. \A e \in Ends : Own[e] = OwnOf(sock[e], entry[e]) /\ Peer[e] = PeerOf(sock[e], entry[e])
  BY DEF Own, Peer
<1>2. ASSUME NEW n \in Int PROVE Initial(n) \subseteq Ids /\ \A i \in Initial(n), j \in Initial(n) : i = j
  BY OneInitial
<1>3. \A e \in Ends : Own[e] \subseteq Ids /\ \A i \in Own[e], j \in Own[e] : i = j
  BY <1>1, <1>2, Types DEF OwnOf
<1>4. \A e \in Ends : Peer[e] \subseteq Ids /\ \A i \in Peer[e], j \in Peer[e] : i = j
  BY <1>1, <1>2, Types DEF PeerOf
<1>5. Own \in [Ends -> SUBSET Ids] /\ Peer \in [Ends -> SUBSET Ids]
  <2>1. Own = [e \in Ends |-> Own[e]] /\ Peer = [e \in Ends |-> Peer[e]]  BY DEF Own, Peer
  <2> QED  BY <1>3, <1>4, <2>1
<1>6. Claims \in [Ends -> SUBSET (Ids \X Ids)]
  <2>1. \A e \in Ends : SaidBy(e) \subseteq Ids \X Ids  BY DEF SaidBy
  <2>2. \A e \in Ends : Own[e] \X Peer[e] \subseteq Ids \X Ids /\ Peer[e] \X Own[e] \subseteq Ids \X Ids
    BY <1>3, <1>4
  <2>3. \A e \in Ends : Heard(sock[Other(e)], Own[Other(e)], Peer[Other(e)]) \subseteq Ids \X Ids
    BY <2>2, OtherEnd DEF Heard
  <2> QED  BY <2>1, <2>2, <2>3 DEF Claims
<1> QED  BY <1>3, <1>4, <1>5, <1>6 DEF Shape, Single

\* What an end claims.
LEMMA ClaimsOf ==
    ASSUME NEW e \in Ends
    PROVE  /\ Claims[e] = SaidBy(e) \cup (Own[e] \X Peer[e])
                            \cup Heard(sock[Other(e)], Own[Other(e)], Peer[Other(e)])
           /\ Claims[Other(e)] = SaidBy(Other(e)) \cup (Own[Other(e)] \X Peer[Other(e)])
                                   \cup Heard(sock[e], Own[e], Peer[e])
BY OtherEnd, OtherOther DEF Claims

-----------------------------------------------------------------------------
(* Steps of one end *)

OnlyEnd(e) == \A x \in Ends : x # e => sock'[x] = sock[x] /\ entry'[x] = entry[x]

\* A segment that e may send: with numbers of its connection, before or after the step.
Spoken(e, m) ==
    /\ m.to = Other(e) /\ SegmentNumbers(m, period')
    /\ HasAck(m) => \/ Initial(m.seq) \subseteq Own[e] /\ Initial(m.ack) \subseteq Peer[e]
                    \/ Initial(m.seq) \subseteq Own'[e] /\ Initial(m.ack) \subseteq Peer'[e]
Speaks(e) == \A m \in net' : m \in net \/ Spoken(e, m)

\* What such a step changes of the numbers and claims
LEMMA ClaimsStep ==
    ASSUME IInv, IInv', NEW e \in Ends, OnlyEnd(e), Speaks(e)
    PROVE  /\ Own' = [Own EXCEPT ![e] = Own'[e]] /\ Peer' = [Peer EXCEPT ![e] = Peer'[e]]
           /\ Claims'[e] \subseteq Claims[e] \cup (Own'[e] \X Peer'[e])
           /\ Claims'[Other(e)] \subseteq Claims[Other(e)] \cup Heard(sock'[e], Own'[e], Peer'[e])
<1> DEFINE o == Other(e)
<1>1. o \in Ends /\ o # e /\ Other(o) = e /\ Other(e) = o /\ \A x \in Ends : x = e \/ x = o  BY OtherEnd, OtherOther
<1> HIDE DEF o
<1>2. sock'[o] = sock[o] /\ Own'[o] = Own[o] /\ Peer'[o] = Peer[o]
  BY <1>1 DEF OnlyEnd, Own, Peer
<1>3. Own' = [Own EXCEPT ![e] = Own'[e]] /\ Peer' = [Peer EXCEPT ![e] = Peer'[e]]
  <2>1. /\ Own = [x \in Ends |-> Own[x]] /\ Own' = [x \in Ends |-> Own'[x]]
        /\ Peer = [x \in Ends |-> Peer[x]] /\ Peer' = [x \in Ends |-> Peer'[x]]
    BY DEF Own, Peer
  <2> QED  BY <1>1, <1>2, <2>1
<1>4. SaidBy(e)' \subseteq SaidBy(e) \cup (Own[e] \X Peer[e]) \cup (Own'[e] \X Peer'[e])
  <2> SUFFICES ASSUME NEW q \in SaidBy(e)'
               PROVE  q \in SaidBy(e) \cup (Own[e] \X Peer[e]) \cup (Own'[e] \X Peer'[e])
    OBVIOUS
  <2>1. PICK m \in net' : /\ m.to = Other(e) /\ HasAck(m)
                          /\ q[1] \in Initial(m.seq) /\ q[2] \in Initial(m.ack)
    BY DEF SaidBy
  <2>2. q \in Ids \X Ids  BY DEF SaidBy
  <2>3. CASE m \in net  BY <2>1, <2>2, <2>3 DEF SaidBy
  <2>4. CASE Spoken(e, m)  BY <2>1, <2>2, <2>4 DEF Spoken
  <2> QED  BY <2>3, <2>4 DEF Speaks
<1>5. SaidBy(o)' \subseteq SaidBy(o)
  <2> SUFFICES ASSUME NEW q \in SaidBy(o)' PROVE q \in SaidBy(o)  OBVIOUS
  <2>1. PICK m \in net' : /\ m.to = Other(o) /\ HasAck(m)
                          /\ q[1] \in Initial(m.seq) /\ q[2] \in Initial(m.ack)
    BY DEF SaidBy
  <2>2. m \in net  BY <1>1, <2>1 DEF Speaks, Spoken, o
  <2> QED  BY <2>1, <2>2 DEF SaidBy
<1>6. /\ Claims[e] = SaidBy(e) \cup (Own[e] \X Peer[e]) \cup Heard(sock[o], Own[o], Peer[o])
      /\ Claims[o] = SaidBy(o) \cup (Own[o] \X Peer[o]) \cup Heard(sock[e], Own[e], Peer[e])
  BY ClaimsOf DEF o
<1>7. /\ Claims'[e] = SaidBy(e)' \cup (Own'[e] \X Peer'[e]) \cup Heard(sock'[o], Own'[o], Peer'[o])
      /\ Claims'[o] = SaidBy(o)' \cup (Own'[o] \X Peer'[o]) \cup Heard(sock'[e], Own'[e], Peer'[e])
  BY <1>1 DEF Claims
<1>8. Claims'[e] \subseteq Claims[e] \cup (Own'[e] \X Peer'[e])  BY <1>2, <1>4, <1>6, <1>7
<1>9. Claims'[o] \subseteq Claims[o] \cup Heard(sock'[e], Own'[e], Peer'[e])  BY <1>2, <1>5, <1>6, <1>7
<1> QED  BY <1>3, <1>8, <1>9 DEF o

\* The numbers stay counted from initial numbers.
LEMMA NumbersStep ==
    ASSUME IInv, IInv', Numbers, NEW e \in Ends, OnlyEnd(e), Speaks(e),
           SocketNumbers(sock'[e]), EntryNumbers(sock'[e], entry'[e]),
           period <= period', period' <= time', time' <= MaxTime
    PROVE  Numbers'
<1>1. \A x \in Ends : SocketNumbers(sock'[x]) /\ EntryNumbers(sock'[x], entry'[x])
  BY DEF Numbers, OnlyEnd
<1>2. ASSUME NEW m \in net' PROVE SegmentNumbers(m, period')
  <2>1. CASE Spoken(e, m)  BY <2>1 DEF Spoken
  <2>2. CASE m \in net
    <3>1. SegmentNumbers(m, period)  BY <2>2 DEF Numbers
    <3>2. ASSUME NEW j \in Ids, j.p <= period PROVE j.p <= period'
      <4>1. j.p \in Nat /\ period \in Nat /\ period' \in Nat  BY NumberIs, Types DEF IInv, TypeInv, clock, Clocks
      <4> QED  BY <3>2, <4>1
    <3> QED  BY <3>1, <3>2 DEF SegmentNumbers
  <2> QED  BY <2>1, <2>2 DEF Speaks
<1> QED  BY <1>1, <1>2 DEF Numbers

\* A step in which the end keeps its number and peer, and whose claims the other
\* end shares once it is synchronised, is good.
LEMMA KeepsStep ==
    ASSUME CInv, IInv', NEW e \in Ends, OnlyEnd(e), Speaks(e), UNCHANGED clock,
           SocketNumbers(sock'[e]), EntryNumbers(sock'[e], entry'[e]),
           Own'[e] = Own[e], Peer'[e] = Peer[e],
           sock'[e].state \in Synchronised => Peer[e] \X Own[e] \subseteq Claims[Other(e)]
    PROVE  CInv'
<1>1. IInv /\ Numbers /\ Agreement(Own, Peer, Claims, period) /\ period' = period /\ time' = time
  BY DEF CInv, Agrees, clock
<1>2. period \in Nat /\ time \in Nat /\ period <= time /\ time <= MaxTime  BY <1>1, Types DEF Numbers
<1>3. Numbers'
  <2>1. period <= period' /\ period' <= time' /\ time' <= MaxTime  BY <1>1, <1>2
  <2> QED  BY <1>1, <2>1, NumbersStep
<1>4. /\ Claims'[e] \subseteq Claims[e] \cup (Own'[e] \X Peer'[e])
      /\ Claims'[Other(e)] \subseteq Claims[Other(e)] \cup Heard(sock'[e], Own'[e], Peer'[e])
      /\ Own' = [Own EXCEPT ![e] = Own'[e]] /\ Peer' = [Peer EXCEPT ![e] = Peer'[e]]
  BY <1>1, ClaimsStep
<1>5. Claims'[e] \subseteq Claims[e] /\ Claims'[Other(e)] \subseteq Claims[Other(e)]
  BY <1>4, ClaimsOf DEF Heard
<1>6. Own' = Own /\ Peer' = Peer  BY <1>4 DEF Own, Peer
<1>7. Forgets(Own, Peer, Claims, Own', Peer', Claims')
  <2>1. \A x \in Ends : x = e \/ x = Other(e)  BY OtherOther
  <2> QED  BY <1>5, <1>6, <2>1 DEF Forgets
<1>8. Agreement(Own', Peer', Claims', period)
  <2>1. period <= period  BY <1>2
  <2>2. Shape(Own, Peer, Claims)  BY <1>1, ShapeHolds
  <2> DEFINE O2 == Own'
             P2 == Peer'
             R2 == Claims'
  <2>3. Forgets(Own, Peer, Claims, O2, P2, R2)  BY <1>7
  <2> HIDE DEF O2, P2, R2
  <2>4. Agreement(O2, P2, R2, period)  BY <1>1, <1>2, <2>1, <2>2, <2>3, ForgettingAgrees
  <2> QED  BY <2>4 DEF O2, P2, R2
<1> QED  BY <1>1, <1>3, <1>8 DEF CInv, Agrees

\* A step that leaves the end with no connection is good.
LEMMA ClosesStep ==
    ASSUME CInv, IInv', NEW e \in Ends, OnlyEnd(e), Speaks(e), UNCHANGED clock,
           sock'[e].state \in {"CLOSED", "LISTEN"}, sock'[e].state = "LISTEN" => sock'[e].server,
           entry'[e] = NoEntry
    PROVE  CInv'
<1>1. IInv /\ Numbers /\ Agreement(Own, Peer, Claims, period) /\ period' = period /\ time' = time
  BY DEF CInv, Agrees, clock
<1>2. period \in Nat /\ time \in Nat /\ period <= time /\ time <= MaxTime  BY <1>1, Types DEF Numbers
<1>3. SocketNumbers(sock'[e]) /\ EntryNumbers(sock'[e], entry'[e])
  BY DEF SocketNumbers, EntryNumbers, Opening, Synchronised, Knowing
<1>4. Numbers'
  <2>1. period <= period' /\ period' <= time' /\ time' <= MaxTime  BY <1>1, <1>2
  <2> QED  BY <1>1, <1>3, <2>1, NumbersStep
<1>5. Own'[e] = {} /\ Peer'[e] = {}
  BY DEF Own, Peer, OwnOf, PeerOf, Opening, Synchronised, Knowing
<1>6. /\ Claims'[e] \subseteq Claims[e] \cup (Own'[e] \X Peer'[e])
      /\ Claims'[Other(e)] \subseteq Claims[Other(e)] \cup Heard(sock'[e], Own'[e], Peer'[e])
      /\ Own' = [Own EXCEPT ![e] = Own'[e]] /\ Peer' = [Peer EXCEPT ![e] = Peer'[e]]
  BY <1>1, ClaimsStep
<1>7. Claims'[e] \subseteq Claims[e] /\ Claims'[Other(e)] \subseteq Claims[Other(e)]
  BY <1>5, <1>6 DEF Heard
<1>8. Forgets(Own, Peer, Claims, Own', Peer', Claims')
  <2>1. \A x \in Ends : x = e \/ x = Other(e)  BY OtherOther
  <2>2. Own'[Other(e)] = Own[Other(e)] /\ Peer'[Other(e)] = Peer[Other(e)]
    BY <1>6, OtherEnd DEF Own, Peer
  <2> QED  BY <1>5, <1>7, <2>1, <2>2 DEF Forgets
<1>9. Agreement(Own', Peer', Claims', period)
  <2>1. period <= period  BY <1>2
  <2>2. Shape(Own, Peer, Claims)  BY <1>1, ShapeHolds
  <2> DEFINE O2 == Own'
             P2 == Peer'
             R2 == Claims'
  <2>3. Forgets(Own, Peer, Claims, O2, P2, R2)  BY <1>8
  <2> HIDE DEF O2, P2, R2
  <2>4. Agreement(O2, P2, R2, period)  BY <1>1, <1>2, <2>1, <2>2, <2>3, ForgettingAgrees
  <2> QED  BY <2>4 DEF O2, P2, R2
<1> QED  BY <1>1, <1>4, <1>9 DEF CInv, Agrees

\* An end in SYN_SENT learns its peer's number.
LEMMA LearnsStep ==
    ASSUME CInv, IInv', NEW e \in Ends, OnlyEnd(e), Speaks(e), UNCHANGED clock,
           SocketNumbers(sock'[e]), EntryNumbers(sock'[e], entry'[e]),
           sock[e].state = "SYN_SENT", NEW i \in Ids, NEW j \in Ids, ~i.cached, j.p <= period,
           Own[e] = {i}, Own'[e] = {i}, Peer'[e] = {j},
           ~j.cached \/ <<j, i>> \in Claims[Other(e)],
           sock'[e].state \in Synchronised => <<j, i>> \in Claims[Other(e)]
    PROVE  CInv'
<1>1. IInv /\ Numbers /\ Agreement(Own, Peer, Claims, period) /\ period' = period /\ time' = time
  BY DEF CInv, Agrees, clock
<1>2. period \in Nat /\ time \in Nat /\ period <= time /\ time <= MaxTime  BY <1>1, Types DEF Numbers
<1>3. Numbers'
  <2>1. period <= period' /\ period' <= time' /\ time' <= MaxTime  BY <1>1, <1>2
  <2> QED  BY <1>1, <2>1, NumbersStep
<1>4. /\ Claims'[e] \subseteq Claims[e] \cup (Own'[e] \X Peer'[e])
      /\ Claims'[Other(e)] \subseteq Claims[Other(e)] \cup Heard(sock'[e], Own'[e], Peer'[e])
      /\ Own' = [Own EXCEPT ![e] = Own'[e]] /\ Peer' = [Peer EXCEPT ![e] = Peer'[e]]
  BY <1>1, ClaimsStep
<1>5. Claims'[e] \subseteq Claims[e] \cup {<<i, j>>}  BY <1>4
<1>6. Claims'[Other(e)] \subseteq Claims[Other(e)]
  <2>1. Heard(sock'[e], Own'[e], Peer'[e]) \subseteq Claims[Other(e)]  BY DEF Heard
  <2> QED  BY <1>4, <2>1
<1>7. Own' = Own /\ Peer' = [Peer EXCEPT ![e] = {j}]  BY <1>4 DEF Own
<1>8. Peer[e] = {}
  <2>1. entry[e] = NoEntry  BY <1>1 DEF Numbers, EntryNumbers
  <2> QED  BY <2>1 DEF Peer, PeerOf, Knowing, Synchronised
<1>9. Learns(e, i, j, Own, Peer, Claims, Own', Peer', Claims')
  BY <1>5, <1>6, <1>7, <1>8 DEF Learns
<1>10. Agreement(Own', Peer', Claims', period)
  <2>1. Shape(Own, Peer, Claims)  BY <1>1, ShapeHolds
  <2> DEFINE O2 == Own'
             P2 == Peer'
             R2 == Claims'
  <2>2. Learns(e, i, j, Own, Peer, Claims, O2, P2, R2)  BY <1>9
  <2> HIDE DEF O2, P2, R2
  <2>3. Agreement(O2, P2, R2, period)  BY <1>1, <1>2, <2>1, <2>2, LearningAgrees
  <2> QED  BY <2>3 DEF O2, P2, R2
<1> QED  BY <1>1, <1>3, <1>10 DEF CInv, Agrees

\* The SYN cache makes an entry, whose number is i, for the SYN j.
LEMMA AnsweredStep ==
    ASSUME CInv, IInv', NEW e \in Ends, OnlyEnd(e), Speaks(e), UNCHANGED clock,
           SocketNumbers(sock'[e]), EntryNumbers(sock'[e], entry'[e]),
           NEW i \in Ids, NEW j \in Ids, i.cached, ~j.cached, j.s = i.s, i.p = period, j.p <= period,
           Own'[e] = {i}, Peer'[e] = {j}, sock'[e].state \notin Synchronised
    PROVE  CInv'
<1>1. IInv /\ Numbers /\ Agreement(Own, Peer, Claims, period) /\ period' = period /\ time' = time
  BY DEF CInv, Agrees, clock
<1>2. period \in Nat /\ time \in Nat /\ period <= time /\ time <= MaxTime  BY <1>1, Types DEF Numbers
<1>3. Numbers'
  <2>1. period <= period' /\ period' <= time' /\ time' <= MaxTime  BY <1>1, <1>2
  <2> QED  BY <1>1, <2>1, NumbersStep
<1>4. /\ Claims'[e] \subseteq Claims[e] \cup (Own'[e] \X Peer'[e])
      /\ Claims'[Other(e)] \subseteq Claims[Other(e)] \cup Heard(sock'[e], Own'[e], Peer'[e])
      /\ Own' = [Own EXCEPT ![e] = Own'[e]] /\ Peer' = [Peer EXCEPT ![e] = Peer'[e]]
  BY <1>1, ClaimsStep
<1>5. Claims'[e] \subseteq Claims[e] \cup {<<i, j>>}  BY <1>4
<1>6. Claims'[Other(e)] \subseteq Claims[Other(e)]  BY <1>4 DEF Heard
<1>7. Answered(e, i, j, Own, Peer, Claims, Own', Peer', Claims')
  BY <1>4, <1>5, <1>6 DEF Answered
<1>8. Agreement(Own', Peer', Claims', period)
  <2>1. Shape(Own, Peer, Claims)  BY <1>1, ShapeHolds
  <2> DEFINE O2 == Own'
             P2 == Peer'
             R2 == Claims'
  <2>2. Answered(e, i, j, Own, Peer, Claims, O2, P2, R2)  BY <1>7
  <2> HIDE DEF O2, P2, R2
  <2>3. Agreement(O2, P2, R2, period)  BY <1>1, <1>2, <2>1, <2>2, AnsweringAgrees
  <2> QED  BY <2>3 DEF O2, P2, R2
<1> QED  BY <1>1, <1>3, <1>8 DEF CInv, Agrees

\* A connect makes a number of a new period.
LEMMA OpensStep ==
    ASSUME CInv, IInv', NEW e \in Ends, OnlyEnd(e), Speaks(e),
           SocketNumbers(sock'[e]), EntryNumbers(sock'[e], entry'[e]),
           NEW i \in Ids, ~i.cached, period < i.p, period' = i.p, time' = i.p, i.p <= MaxTime,
           Own'[e] = {i}, Peer'[e] = {}
    PROVE  CInv'
<1>1. IInv /\ Numbers /\ Agreement(Own, Peer, Claims, period)
  BY DEF CInv, Agrees
<1>2. period \in Nat /\ i.p \in Nat  BY <1>1, Types, NumberIs
<1>3. Numbers'
  <2>1. period <= period' /\ period' <= time' /\ time' <= MaxTime  BY <1>1, <1>2
  <2> QED  BY <1>1, <2>1, NumbersStep
<1>4. /\ Claims'[e] \subseteq Claims[e] \cup (Own'[e] \X Peer'[e])
      /\ Claims'[Other(e)] \subseteq Claims[Other(e)] \cup Heard(sock'[e], Own'[e], Peer'[e])
      /\ Own' = [Own EXCEPT ![e] = Own'[e]] /\ Peer' = [Peer EXCEPT ![e] = Peer'[e]]
  BY <1>1, ClaimsStep
<1>5. Claims'[e] \subseteq Claims[e] /\ Claims'[Other(e)] \subseteq Claims[Other(e)]
  BY <1>4 DEF Heard
<1>6. Opens(e, i, Own, Peer, Claims, Own', Peer', Claims')
  <2>1. \A x \in Ends : x = e \/ x = Other(e)  BY OtherOther
  <2> QED  BY <1>4, <1>5, <2>1 DEF Opens
<1>7. Agreement(Own', Peer', Claims', i.p)
  <2>1. Shape(Own, Peer, Claims)  BY <1>1, ShapeHolds
  <2> DEFINE O2 == Own'
             P2 == Peer'
             R2 == Claims'
  <2>2. Opens(e, i, Own, Peer, Claims, O2, P2, R2)  BY <1>6
  <2> HIDE DEF O2, P2, R2
  <2>3. Agreement(O2, P2, R2, i.p)  BY <1>1, <1>2, <2>1, <2>2, OpeningAgrees
  <2> QED  BY <2>3 DEF O2, P2, R2
<1> QED  BY <1>1, <1>3, <1>7 DEF CInv, Agrees

\* Time passes.
LEMMA CounterStepsGood ==
    ASSUME CInv, IInv', CounterSteps
    PROVE  CInv'
<1>1. /\ IInv /\ Numbers /\ Agreement(Own, Peer, Claims, period)
      /\ period' = time + 1 /\ time' = time + 1 /\ time < MaxTime
      /\ sock' = sock /\ entry' = entry /\ net' = net
  BY DEF CInv, Agrees, CounterSteps
<1>2. period \in Nat /\ time \in Nat /\ period <= time /\ period' \in Nat
  BY <1>1, Types DEF Numbers
<1>3. PICK e \in Ends : TRUE
  <2>1. Ends # {}
    <3>1. Cardinality(Ends) = 2  BY ConnectionAssumption DEF ConnectionAssumption
    <3> QED  BY <3>1, FS_EmptySet
  <2> QED  BY <2>1
<1>4. OnlyEnd(e) /\ Speaks(e)  BY <1>1 DEF OnlyEnd, Speaks
<1>5. Numbers'
  <2>1. SocketNumbers(sock'[e]) /\ EntryNumbers(sock'[e], entry'[e])  BY <1>1 DEF Numbers
  <2>2. period <= period' /\ period' <= time' /\ time' <= MaxTime  BY <1>1, <1>2, Bounds
  <2> QED  BY <1>1, <1>4, <2>1, <2>2, NumbersStep
<1>6. Own' = Own /\ Peer' = Peer /\ Claims' = Claims
  BY <1>1 DEF Own, Peer, Claims, SaidBy
<1>7. Agreement(Own, Peer, Claims, period')
  <2>1. Shape(Own, Peer, Claims)  BY <1>1, ShapeHolds
  <2>2. Forgets(Own, Peer, Claims, Own, Peer, Claims)  BY DEF Forgets
  <2> DEFINE q == period'
  <2>3. q \in Nat /\ period <= q  BY <1>1, <1>2
  <2> HIDE DEF q
  <2>4. Agreement(Own, Peer, Claims, q)  BY <1>1, <1>2, <2>1, <2>2, <2>3, ForgettingAgrees
  <2> QED  BY <2>4 DEF q
<1> QED  BY <1>5, <1>6, <1>7 DEF CInv, Agrees

-----------------------------------------------------------------------------
(* What the segments carry *)

\* The segment m of the end e carries a number counted from own, and acknowledges
\* one counted from peer.
Carries(e, m, own, peer, p) ==
    /\ m.to = Other(e) /\ SegmentNumbers(m, p) /\ HasAck(m)
    /\ Initial(m.seq) = own /\ Initial(m.ack) = peer

\* The end speaks when it sends such a segment, with its numbers before the step
\* or after it, or a reset, or nothing.
LEMMA SpeaksNow ==
    ASSUME NEW e \in Ends, NEW m, Carries(e, m, Own[e], Peer[e], period'), Send({m})
    PROVE  Speaks(e)
BY SendNet DEF Speaks, Spoken, Carries

\* The same after the step.
LEMMA SpeaksAfter ==
    ASSUME NEW e \in Ends, NEW m, Carries(e, m, Own'[e], Peer'[e], period'), Send({m})
    PROVE  Speaks(e)
BY SendNet DEF Speaks, Spoken, Carries

\* A reset carries no numbers to rely on.
LEMMA SpeaksReset ==
    ASSUME NEW e \in Ends, NEW type \in {"RST", "RST_ACK"}, NEW seq, NEW ack, Send({Segment(e, type, seq, ack)})
    PROVE  Speaks(e)
<1> DEFINE m == Segment(e, type, seq, ack)
<1>1. m.to = Other(e) /\ m.type = type  BY DEF Segment
<1> HIDE DEF m
<1>2. Spoken(e, m)  BY <1>1 DEF Spoken, SegmentNumbers, HasAck
<1>3. net' \subseteq net \cup {m}  BY SendNet DEF m
<1> QED  BY <1>2, <1>3 DEF Speaks

\* The answer to a segment that nobody expects is a reset.
LEMMA SpeaksRst ==
    ASSUME NEW e \in Ends, NEW m, Send({Rst(e, m)})
    PROVE  Speaks(e)
BY SpeaksReset DEF Rst

\* Nothing is sent.
LEMMA SpeaksNothing == ASSUME NEW e \in Ends, net' = net PROVE Speaks(e)
BY DEF Speaks

\* The numbers of a connection's socket.
LEMMA ConnectionNumbers ==
    ASSUME NEW r \in Sockets, SocketNumbers(r), r.state \in Knowing
    PROVE  \E i \in Ids, j \in Ids :
             /\ r.tx = Number(i) + Sent(r) /\ r.rx = Number(j) + Got(r)
             /\ Initial(r.tx) = {i} /\ Initial(r.rx) = {j}
             /\ Initial(r.tx - 1) = {i}
             /\ Sent(r) = 1 => Initial(r.tx + 1) = {i}
             /\ Got(r) = 1 => Initial(r.rx + 1) = {j}
<1>1. PICK i \in Ids : r.tx = Number(i) + Sent(r)  BY DEF SocketNumbers, Knowing, Opening
<1>2. PICK j \in Ids : r.rx = Number(j) + Got(r)  BY DEF SocketNumbers
<1>3. Number(i) \in Nat /\ Number(j) \in Nat /\ Sent(r) \in {1, 2} /\ Got(r) \in {1, 2}
  BY NumberIs DEF Sent, Got
<1>4. /\ Initial(Number(i)) = {i} /\ Initial(Number(i) + 1) = {i} /\ Initial(Number(i) + 2) = {i}
      /\ Initial(Number(j) + 1) = {j} /\ Initial(Number(j) + 2) = {j}
  BY InitialOf
<1>5. \/ r.tx = Number(i) + 1 /\ r.tx - 1 = Number(i) /\ r.tx + 1 = Number(i) + 2 /\ Sent(r) = 1
      \/ r.tx = Number(i) + 2 /\ r.tx - 1 = Number(i) + 1 /\ Sent(r) = 2
  BY <1>1, <1>3
<1>6. \/ r.rx = Number(j) + 1 /\ r.rx + 1 = Number(j) + 2 /\ Got(r) = 1
      \/ r.rx = Number(j) + 2 /\ Got(r) = 2
  BY <1>2, <1>3
<1>8. Initial(r.tx) = {i} /\ Initial(r.tx - 1) = {i} /\ (Sent(r) = 1 => Initial(r.tx + 1) = {i})
  BY <1>4, <1>5
<1>9. Initial(r.rx) = {j} /\ (Got(r) = 1 => Initial(r.rx + 1) = {j})
  BY <1>4, <1>6
<1> QED  BY <1>1, <1>2, <1>8, <1>9

\* Its acknowledgement and its SYN-ACK carry them, and its FIN in the states in
\* which it is sent.
LEMMA SocketSays ==
    ASSUME NEW e \in Ends, NEW r \in Sockets, SocketNumbers(r), r.state \in Knowing, NEW p
    PROVE  /\ Carries(e, Ack(e, r), Initial(r.tx), Initial(r.rx), p)
           /\ r.state \in SentFin => Carries(e, Fin(e, r), Initial(r.tx), Initial(r.rx), p)
           /\ r.state = "SYN_RECEIVED" => Carries(e, Syn(e, r), Initial(r.tx), Initial(r.rx), p)
<1>1. PICK i \in Ids, j \in Ids :
             /\ r.tx = Number(i) + Sent(r) /\ r.rx = Number(j) + Got(r)
             /\ Initial(r.tx) = {i} /\ Initial(r.rx) = {j}
             /\ Initial(r.tx - 1) = {i}
  BY ConnectionNumbers
<1>2. Carries(e, Ack(e, r), Initial(r.tx), Initial(r.rx), p)
  <2> DEFINE m == Ack(e, r)
  <2>1. m.to = Other(e) /\ m.type = "ACK" /\ m.seq = r.tx /\ m.ack = r.rx  BY DEF Ack, Segment
  <2> HIDE DEF m
  <2>2. Initial(m.seq) = Initial(r.tx) /\ Initial(m.ack) = Initial(r.rx) /\ Initial(m.seq) # {}
    BY <1>1, <2>1
  <2>3. SegmentNumbers(m, p) /\ HasAck(m)  BY <2>1, <2>2 DEF SegmentNumbers, HasAck
  <2> QED  BY <2>1, <2>2, <2>3 DEF Carries, m
<1>3. ASSUME r.state \in SentFin PROVE Carries(e, Fin(e, r), Initial(r.tx), Initial(r.rx), p)
  <2> DEFINE m == Fin(e, r)
  <2>1. m.to = Other(e) /\ m.type = "FIN" /\ m.seq = r.tx - 1 /\ m.ack = r.rx  BY DEF Fin, Segment
  <2> HIDE DEF m
  <2>2. Initial(m.seq) = Initial(r.tx) /\ Initial(m.ack) = Initial(r.rx) /\ Initial(m.seq) # {}
    BY <1>1, <2>1
  <2>3. SegmentNumbers(m, p) /\ HasAck(m)  BY <2>1, <2>2 DEF SegmentNumbers, HasAck
  <2> QED  BY <2>1, <2>2, <2>3 DEF Carries, m
<1>4. ASSUME r.state = "SYN_RECEIVED" PROVE Carries(e, Syn(e, r), Initial(r.tx), Initial(r.rx), p)
  <2> DEFINE m == Syn(e, r)
  <2>1. m.to = Other(e) /\ m.type = "SYN_ACK" /\ m.seq = r.tx - 1 /\ m.ack = r.rx  BY <1>4 DEF Syn, Segment
  <2> HIDE DEF m
  <2>2. m.seq = Number(i)
    <3>1. r.tx = Number(i) + 1 /\ Number(i) \in Nat  BY <1>1, <1>4, NumberIs DEF Sent, SentFin
    <3> QED  BY <2>1, <3>1
  <2>3. Initial(m.seq) = Initial(r.tx) /\ Initial(m.ack) = Initial(r.rx) /\ Initial(m.seq) # {}
    BY <1>1, <2>1
  <2>4. SegmentNumbers(m, p) /\ HasAck(m)  BY <2>1, <2>2, <2>3 DEF SegmentNumbers, HasAck
  <2> QED  BY <2>1, <2>3, <2>4 DEF Carries, m
<1> QED  BY <1>2, <1>3, <1>4

\* The numbers of an entry: the SYN's, which an active open made, and its own.
LEMMA EntryNumbersAre ==
    ASSUME NEW r, NEW n \in Entries, EntryNumbers(r, n), n # NoEntry
    PROVE  \E k \in Ids, j \in Ids :
             /\ k.cached /\ ~j.cached /\ j.s = k.s /\ n.iss = Number(k) /\ n.irs = Number(j)
             /\ Initial(n.iss) = {k} /\ Initial(n.iss + 1) = {k}
             /\ Initial(n.irs) = {j} /\ Initial(n.irs + 1) = {j}
<1>1. PICK k \in Ids : k.cached /\ n = [irs |-> Gap * k.s, iss |-> Number(k)]  BY DEF EntryNumbers
<1> DEFINE j == [s |-> k.s, p |-> k.s, cached |-> FALSE]
<1>2. k.s \in 1 .. MaxTime  BY NumberIs
<1>3. j \in Ids /\ j.s = k.s /\ ~j.cached
  <2>1. k.s \in 0 .. MaxTime  BY <1>2, Bounds
  <2> QED  BY <1>2, <2>1 DEF Ids
<1>4. Number(j) = Gap * k.s  BY DEF Number
<1> HIDE DEF j
<1>5. n.iss = Number(k) /\ n.irs = Number(j)  BY <1>1, <1>4
<1>6. /\ Initial(n.iss) = {k} /\ Initial(n.iss + 1) = {k}
      /\ Initial(n.irs) = {j} /\ Initial(n.irs + 1) = {j}
  BY <1>3, <1>5, InitialOf
<1> QED  BY <1>1, <1>3, <1>5, <1>6

\* The SYN cache's segments carry them.
LEMMA EntrySays ==
    ASSUME NEW e \in Ends, NEW r, NEW n \in Entries, EntryNumbers(r, n), n # NoEntry, NEW p
    PROVE  /\ Carries(e, SynAck(e, n), Initial(n.iss), Initial(n.irs), p)
           /\ Carries(e, Segment(e, "ACK", n.iss + 1, n.irs + 1), Initial(n.iss), Initial(n.irs), p)
<1>1. PICK k \in Ids, j \in Ids :
             /\ n.iss = Number(k)
             /\ Initial(n.iss) = {k} /\ Initial(n.iss + 1) = {k}
             /\ Initial(n.irs) = {j} /\ Initial(n.irs + 1) = {j}
  BY EntryNumbersAre
<1>2. Carries(e, SynAck(e, n), Initial(n.iss), Initial(n.irs), p)
  <2> DEFINE m == SynAck(e, n)
  <2>1. m.to = Other(e) /\ m.type = "SYN_ACK" /\ m.seq = n.iss /\ m.ack = n.irs + 1  BY DEF SynAck, Segment
  <2> HIDE DEF m
  <2>2. Initial(m.seq) = Initial(n.iss) /\ Initial(m.ack) = Initial(n.irs) /\ Initial(m.seq) # {}
    BY <1>1, <2>1
  <2>3. SegmentNumbers(m, p) /\ HasAck(m)  BY <1>1, <2>1, <2>2 DEF SegmentNumbers, HasAck
  <2> QED  BY <2>1, <2>2, <2>3 DEF Carries, m
<1>3. Carries(e, Segment(e, "ACK", n.iss + 1, n.irs + 1), Initial(n.iss), Initial(n.irs), p)
  <2> DEFINE m == Segment(e, "ACK", n.iss + 1, n.irs + 1)
  <2>1. m.to = Other(e) /\ m.type = "ACK" /\ m.seq = n.iss + 1 /\ m.ack = n.irs + 1  BY DEF Segment
  <2> HIDE DEF m
  <2>2. Initial(m.seq) = Initial(n.iss) /\ Initial(m.ack) = Initial(n.irs) /\ Initial(m.seq) # {}
    BY <1>1, <2>1
  <2>3. SegmentNumbers(m, p) /\ HasAck(m)  BY <1>1, <2>1, <2>2 DEF SegmentNumbers, HasAck
  <2> QED  BY <2>1, <2>2, <2>3 DEF Carries, m
<1> QED  BY <1>2, <1>3

\* From r to u a socket counts the FIN it sends, or gets, if any.
CountsOn(r, u) ==
    /\ \/ u.tx = r.tx /\ Sent(u) = Sent(r)
       \/ u.tx = r.tx + 1 /\ Sent(r) = 1 /\ Sent(u) = 2
    /\ \/ u.rx = r.rx /\ Got(u) = Got(r)
       \/ u.rx = r.rx + 1 /\ Got(r) = 1 /\ Got(u) = 2

\* A socket that counts so keeps its initial numbers.
LEMMA NextNumbers ==
    ASSUME NEW r \in Sockets, SocketNumbers(r), r.state \in Knowing, NEW u, u.state \in Knowing,
           CountsOn(r, u)
    PROVE  SocketNumbers(u) /\ Initial(u.tx) = Initial(r.tx) /\ Initial(u.rx) = Initial(r.rx)
<1>1. PICK i \in Ids, j \in Ids :
             /\ r.tx = Number(i) + Sent(r) /\ r.rx = Number(j) + Got(r)
             /\ Initial(r.tx) = {i} /\ Initial(r.rx) = {j}
             /\ Sent(r) = 1 => Initial(r.tx + 1) = {i}
             /\ Got(r) = 1 => Initial(r.rx + 1) = {j}
  BY ConnectionNumbers
<1>2. Number(i) \in Nat /\ Number(j) \in Nat  BY NumberIs
<1>3. u.tx = Number(i) + Sent(u) /\ Initial(u.tx) = {i}  BY <1>1, <1>2 DEF CountsOn
<1>4. u.rx = Number(j) + Got(u) /\ Initial(u.rx) = {j}  BY <1>1, <1>2 DEF CountsOn
<1>5. u.state # "LISTEN" /\ u.state # "SYN_SENT"  BY DEF Knowing, Synchronised
<1> QED  BY <1>1, <1>3, <1>4, <1>5 DEF SocketNumbers

-----------------------------------------------------------------------------
(* Steps that keep a connection *)

\* The numbers of a connection are the socket's, else the entry's.
LEMMA OfKnowing ==
    ASSUME NEW r, NEW n, r.state \in Knowing
    PROVE  OwnOf(r, n) = Initial(r.tx) /\ PeerOf(r, n) = Initial(r.rx)
BY DEF OwnOf, PeerOf, Knowing, Opening

\* ... else the entry's.
LEMMA OfEntry ==
    ASSUME NEW r, NEW n, r.state \in {"CLOSED", "LISTEN"}, n # NoEntry
    PROVE  OwnOf(r, n) = Initial(n.iss) /\ PeerOf(r, n) = Initial(n.irs)
BY DEF OwnOf, PeerOf, Knowing, Opening, Synchronised

\* The same of an end, before and after a step.
LEMMA OwnIs ==
    ASSUME NEW e \in Ends
    PROVE  /\ Own[e] = OwnOf(sock[e], entry[e]) /\ Peer[e] = PeerOf(sock[e], entry[e])
           /\ Own'[e] = OwnOf(sock'[e], entry'[e]) /\ Peer'[e] = PeerOf(sock'[e], entry'[e])
BY DEF Own, Peer

\* A connection has no entry.
LEMMA NumbersOf ==
    ASSUME CInv, NEW e \in Ends
    PROVE  /\ sock[e] \in Sockets /\ entry[e] \in Entries /\ period \in Nat
           /\ SocketNumbers(sock[e]) /\ EntryNumbers(sock[e], entry[e])
           /\ sock[e].state # "LISTEN" => entry[e] = NoEntry
           /\ sock[e].state \in Synchronised => Peer[e] \X Own[e] \subseteq Claims[Other(e)]
BY Types, ClaimsOf DEF CInv, Numbers, EntryNumbers, Heard

\* A step of no socket and no entry in which the end says what it may is good.
LEMMA UnchangedStep ==
    ASSUME CInv, IInv', NEW e \in Ends, sock' = sock, entry' = entry, Speaks(e), UNCHANGED clock
    PROVE  CInv'
<1>1. OnlyEnd(e)  BY DEF OnlyEnd
<1>2. Own'[e] = Own[e] /\ Peer'[e] = Peer[e]  BY OwnIs
<1>3. SocketNumbers(sock'[e]) /\ EntryNumbers(sock'[e], entry'[e])  BY NumbersOf
<1>4. sock'[e].state \in Synchronised => Peer[e] \X Own[e] \subseteq Claims[Other(e)]  BY NumbersOf
<1> QED  BY <1>1, <1>2, <1>3, <1>4, KeepsStep

\* A step within a connection is good.
LEMMA StaysStep ==
    ASSUME CInv, IInv', NEW e \in Ends, OnlyEnd(e), Speaks(e), UNCHANGED clock, entry'[e] = entry[e],
           sock[e].state \in Knowing, sock'[e].state \in Knowing, SocketNumbers(sock'[e]),
           Initial(sock'[e].tx) = Initial(sock[e].tx), Initial(sock'[e].rx) = Initial(sock[e].rx),
           sock'[e].state \in Synchronised => Peer[e] \X Own[e] \subseteq Claims[Other(e)]
    PROVE  CInv'
<1>1. entry[e] = NoEntry  BY NumbersOf DEF Knowing, Synchronised
<1>2. EntryNumbers(sock'[e], entry'[e])  BY <1>1 DEF EntryNumbers
<1>3. Own'[e] = Own[e] /\ Peer'[e] = Peer[e]  BY OwnIs, OfKnowing
<1> QED  BY <1>2, <1>3, KeepsStep

\* ... of one socket, with its numbers,
LEMMA SocketStays ==
    ASSUME CInv, IInv', NEW e \in Ends, NEW u, sock' = [sock EXCEPT ![e] = u], entry' = entry,
           Speaks(e), UNCHANGED clock, sock[e].state \in Synchronised, u.state \in Synchronised,
           CountsOn(sock[e], u)
    PROVE  CInv'
<1>1. sock'[e] = u /\ OnlyEnd(e)
  BY DEF CInv, IInv, TypeInv, OnlyEnd
<1>2. sock[e].state \in Knowing /\ u.state \in Knowing  BY DEF Knowing
<1>3. SocketNumbers(u) /\ Initial(u.tx) = Initial(sock[e].tx) /\ Initial(u.rx) = Initial(sock[e].rx)
  <2>1. sock[e] \in Sockets /\ SocketNumbers(sock[e])  BY NumbersOf
  <2> DEFINE r == sock[e]
  <2> HIDE DEF r
  <2> QED  BY <1>2, <2>1, NextNumbers DEF r
<1>4. Peer[e] \X Own[e] \subseteq Claims[Other(e)]  BY NumbersOf
<1> QED  BY <1>1, <1>2, <1>3, <1>4, StaysStep

\* ... which it acknowledges,
LEMMA AckSpeaks ==
    ASSUME CInv, NEW e \in Ends, sock[e].state \in Knowing, Send({Ack(e, sock[e])}) \/ net' = net
    PROVE  Speaks(e)
<1>1. Carries(e, Ack(e, sock[e]), Initial(sock[e].tx), Initial(sock[e].rx), period')
  BY NumbersOf, SocketSays
<1>2. Carries(e, Ack(e, sock[e]), Own[e], Peer[e], period')  BY <1>1, OwnIs, OfKnowing
<1> QED  BY <1>2, SpeaksNow, SpeaksNothing

\* ... or with its new socket.
LEMMA AckSpeaksAfter ==
    ASSUME NEW e \in Ends, NEW u \in Sockets, sock'[e] = u, SocketNumbers(u), u.state \in Knowing,
           \/ Send({Ack(e, u)})
           \/ u.state \in SentFin /\ Send({Fin(e, u)})
           \/ u.state = "SYN_RECEIVED" /\ Send({Syn(e, u)})
    PROVE  Speaks(e)
<1>1. Own'[e] = Initial(u.tx) /\ Peer'[e] = Initial(u.rx)  BY OwnIs, OfKnowing
<1>2. /\ Carries(e, Ack(e, u), Own'[e], Peer'[e], period')
      /\ u.state \in SentFin => Carries(e, Fin(e, u), Own'[e], Peer'[e], period')
      /\ u.state = "SYN_RECEIVED" => Carries(e, Syn(e, u), Own'[e], Peer'[e], period')
  BY <1>1, SocketSays
<1> QED  BY <1>2, SpeaksAfter

-----------------------------------------------------------------------------
(* The actions *)

\* nxd_tcp_client_socket_connect: a new number in a new period.
LEMMA ConnectGood ==
    ASSUME QuickReopen = FALSE, CInv, IInv', NEW e \in Ends, Connect(e)
    PROVE  CInv'
<1> DEFINE i == [s |-> time', p |-> time', cached |-> FALSE]
           m == Syn(e, sock'[e])
<1>1. /\ time \in Nat /\ period \in Nat /\ period <= time /\ time' = time + 1 /\ period' = time'
      /\ time' \in Nat /\ time' \in 1 .. MaxTime /\ time' \in 0 .. MaxTime /\ period < time'
  BY Types, Bounds DEF CInv, Numbers, Connect
<1>2. i \in Ids /\ i.p = time' /\ ~i.cached  BY <1>1 DEF Ids
<1>3. Number(i) = Gap * time'  BY DEF Number
<1>4. entry'[e] = NoEntry
  <2>1. sock[e].state # "LISTEN" /\ entry' = entry  BY DEF Connect
  <2> QED  BY <2>1, NumbersOf
<1>5. sock'[e].state = "SYN_SENT" /\ sock'[e].tx = Gap * time' + 1 /\ OnlyEnd(e)
  BY DEF Connect, Fresh, CInv, IInv, TypeInv, OnlyEnd
<1> HIDE DEF i
<1>6. Number(i) \in Nat /\ Initial(Number(i) + 1) = {i}  BY <1>2, NumberIs, InitialOf
<1>7. Own'[e] = {i} /\ Peer'[e] = {}
  BY <1>3, <1>4, <1>5, <1>6, OwnIs DEF OwnOf, PeerOf, Opening, Knowing, Synchronised
<1>8. SocketNumbers(sock'[e]) /\ EntryNumbers(sock'[e], entry'[e])
  <2>1. sock'[e].tx = Number(i) + Sent(sock'[e])  BY <1>3, <1>5 DEF Sent, SentFin
  <2> QED  BY <1>2, <1>4, <1>5, <2>1 DEF SocketNumbers, EntryNumbers, Knowing, Synchronised
<1>9. Speaks(e)
  <2>1. m.to = Other(e) /\ m.type = "SYN" /\ m.seq = sock'[e].tx - 1  BY <1>5 DEF Syn, Segment
  <2>2. Send({m})  BY DEF Connect
  <2> HIDE DEF m
  <2>3. m.seq = Number(i)  BY <1>3, <1>5, <1>6, <2>1
  <2>4. i.p <= period'  BY <1>1, <1>2
  <2>5. Spoken(e, m)  BY <1>2, <2>1, <2>3, <2>4 DEF Spoken, SegmentNumbers, HasAck
  <2>6. net' \subseteq net \cup {m}  BY <2>2, SendNet
  <2> QED  BY <2>5, <2>6 DEF Speaks
<1>10. period < i.p /\ period' = i.p /\ time' = i.p /\ i.p <= MaxTime  BY <1>1, <1>2
<1> QED  BY <1>2, <1>5, <1>7, <1>8, <1>9, <1>10, OpensStep

\* A step in which one socket closes, and its end has no entry.
LEMMA SocketCloses ==
    ASSUME CInv, IInv', NEW e \in Ends, NEW u, sock' = [sock EXCEPT ![e] = u], entry' = entry,
           Speaks(e), UNCHANGED clock, entry[e] = NoEntry,
           u.state \in {"CLOSED", "LISTEN"}, u.state = "LISTEN" => u.server
    PROVE  CInv'
<1>1. sock'[e] = u /\ OnlyEnd(e)  BY DEF CInv, IInv, TypeInv, OnlyEnd
<1> QED  BY <1>1, ClosesStep

\* nx_tcp_socket_block_cleanup leaves a server's socket listening and a client's closed.
LEMMA CleanedRests ==
    ASSUME NEW r \in Sockets
    PROVE  Cleaned(r).state \in {"CLOSED", "LISTEN"} /\ (Cleaned(r).state = "LISTEN" => Cleaned(r).server)
BY DEF Cleaned, Sockets

\* nx_tcp_socket_connection_reset of a connection.
LEMMA ConnectionResetGood ==
    ASSUME CInv, IInv', NEW e \in Ends, ConnectionReset(e), net' = net, entry' = entry, UNCHANGED clock,
           sock[e].state # "LISTEN"
    PROVE  CInv'
<1> DEFINE u == Unconnected(e, Cleaned(sock[e]))
<1>1. sock' = [sock EXCEPT ![e] = u]  BY DEF ConnectionReset
<1>2. u.state \in {"CLOSED", "LISTEN"} /\ (u.state = "LISTEN" => u.server)
  <2> DEFINE v == Cleaned(sock[e])
  <2>1. v.state \in {"CLOSED", "LISTEN"} /\ (v.state = "LISTEN" => v.server) /\ v \in Sockets
    BY NumbersOf, CleanedRests, CleanedIs
  <2> HIDE DEF v
  <2> QED  BY <2>1 DEF Unconnected, Sockets, v
<1> HIDE DEF u
<1> QED  BY <1>1, <1>2, NumbersOf, SpeaksNothing, SocketCloses

\* nx_tcp_connect_cleanup: only a socket that opens is waited for.
LEMMA ConnectTimeoutGood ==
    ASSUME CInv, IInv', NEW e \in Ends, ConnectTimeout(e)
    PROVE  CInv'
<1> DEFINE u == [sock[e] EXCEPT !.state = "CLOSED", !.timer = 0]
<1>1. sock[e].state \in Opening /\ sock[e] \in Sockets
  BY EndIsCoherent DEF CInv, ConnectTimeout, Coherent
<1>2. sock' = [sock EXCEPT ![e] = u]  BY DEF ConnectTimeout, Unconnected
<1>3. u.state = "CLOSED"  BY <1>1 DEF Sockets
<1> HIDE DEF u
<1>4. entry[e] = NoEntry  BY <1>1, NumbersOf DEF Opening
<1>5. entry' = entry /\ UNCHANGED clock /\ net' = net  BY DEF ConnectTimeout
<1> QED  BY <1>2, <1>3, <1>4, <1>5, SpeaksNothing, SocketCloses

\* nx_tcp_socket_disconnect of an opening socket: the FIN has the number after the SYN's.
LEMMA DisconnectOpeningGood ==
    ASSUME CInv, IInv', NEW e \in Ends, DisconnectOpening(e)
    PROVE  CInv'
<1> DEFINE r == sock[e]
           rt == IF r.state = "SYN_RECEIVED" THEN 0 ELSE r.retries
           x == IF r.state = "SYN_RECEIVED" THEN r.tx + 1 ELSE r.tx
           u == [r EXCEPT !.state = "CLOSED", !.timer = 0, !.retries = rt, !.tx = x]
           m == Fin(e, u)
<1>1. /\ r.state \in Opening /\ r \in Sockets /\ SocketNumbers(r) /\ r.tx \in Int
      /\ entry' = entry /\ UNCHANGED clock
  BY NumbersOf DEF DisconnectOpening, Sockets
<1>2. sock' = [sock EXCEPT ![e] = u] /\ sock'[e] = u
  BY DEF DisconnectOpening, CInv, IInv, TypeInv
<1>3. u.state = "CLOSED" /\ u.tx = x /\ u.rx = r.rx
  <2> HIDE DEF r, x, rt
  <2> QED  BY <1>1 DEF Sockets
<1>4. entry[e] = NoEntry  BY <1>1, NumbersOf DEF Opening
<1>5. CASE r.state = "SYN_RECEIVED"
  <2>1. m.to = Other(e) /\ m.type = "FIN" /\ m.seq = u.tx - 1 /\ m.ack = u.rx  BY DEF Fin, Segment
  <2>2. m.seq = r.tx /\ m.ack = r.rx  BY <1>1, <1>3, <1>5, <2>1
  <2>3. Send({m})  BY <1>2, <1>5 DEF DisconnectOpening
  <2> HIDE DEF m, u
  <2>4. r.state \in Knowing  BY <1>5 DEF Knowing
  <2>5. \E i \in Ids : Initial(r.tx) = {i}  BY <1>1, <2>4, ConnectionNumbers
  <2>6. Carries(e, m, Own[e], Peer[e], period')
    BY <2>1, <2>2, <2>4, <2>5, OwnIs, OfKnowing DEF Carries, SegmentNumbers, HasAck
  <2>7. Speaks(e)  BY <2>3, <2>6, SpeaksNow
  <2> QED  BY <1>1, <1>2, <1>3, <1>4, <2>7, SocketCloses
<1>6. CASE r.state # "SYN_RECEIVED"
  <2>1. net' = net  BY <1>6 DEF DisconnectOpening
  <2> HIDE DEF u
  <2> QED  BY <1>1, <1>2, <1>3, <1>4, <2>1, SpeaksNothing, SocketCloses
<1> QED  BY <1>5, <1>6

\* ... of an established one with NX_NO_WAIT.
LEMMA DisconnectNowGood ==
    ASSUME CInv, IInv', NEW e \in Ends, DisconnectNow(e)
    PROVE  CInv'
<1> DEFINE u == Cleaned(sock[e])
<1>1. u.state \in {"CLOSED", "LISTEN"} /\ (u.state = "LISTEN" => u.server)
  BY NumbersOf, CleanedRests
<1>2. /\ sock' = [sock EXCEPT ![e] = u] /\ entry' = entry /\ UNCHANGED clock
      /\ Send({Segment(e, "RST", sock[e].tx, 0)}) /\ sock[e].state # "LISTEN"
  BY DEF DisconnectNow
<1> HIDE DEF u
<1>3. Speaks(e)  BY <1>2, SpeaksReset
<1> QED  BY <1>1, <1>2, <1>3, NumbersOf, SocketCloses

\* ... and with a wait: the FIN counts.
LEMMA DisconnectGood ==
    ASSUME CInv, IInv', NEW e \in Ends, Disconnect(e)
    PROVE  CInv'
<1> DEFINE s == IF sock[e].state = "CLOSE_WAIT" THEN "LAST_ACK" ELSE "FIN_WAIT_1"
           x == sock[e].tx + 1
           u == [sock[e] EXCEPT !.state = s, !.timer = 1, !.retries = 0, !.tx = x]
<1>1. /\ sock[e] \in Sockets /\ sock[e].state \in {"ESTABLISHED", "CLOSE_WAIT"} /\ SocketNumbers(sock[e])
      /\ entry' = entry /\ UNCHANGED clock
  BY NumbersOf DEF Disconnect
<1>2. sock' = [sock EXCEPT ![e] = u] /\ sock'[e] = u /\ u \in Sockets
  BY DEF Disconnect, CInv, IInv, TypeInv
<1>3. u.state = s /\ u.tx = x /\ u.rx = sock[e].rx  BY <1>1 DEF Sockets
<1>4. Send({Fin(e, u)})  BY <1>2 DEF Disconnect
<1> HIDE DEF u
<1>5. /\ u.state \in SentFin /\ u.state \in Synchronised /\ sock[e].state \in Synchronised
      /\ CountsOn(sock[e], u)
  BY <1>1, <1>3 DEF CountsOn, SentFin, GotFin, Synchronised, Sent, Got
<1>6. SocketNumbers(u)
  <2> DEFINE r == sock[e]
  <2>1. r \in Sockets /\ SocketNumbers(r) /\ r.state \in Knowing /\ u.state \in Knowing
    BY <1>1, <1>5 DEF Knowing
  <2>2. CountsOn(r, u)  BY <1>5
  <2> HIDE DEF r
  <2> QED  BY <2>1, <2>2, NextNumbers
<1>7. Speaks(e)  BY <1>2, <1>4, <1>5, <1>6, AckSpeaksAfter DEF Knowing
<1> QED  BY <1>1, <1>2, <1>5, <1>7, SocketStays

\* nx_tcp_disconnect_cleanup concerns the thread only.
LEMMA DisconnectTimeoutGood ==
    ASSUME CInv, IInv', NEW e \in Ends, DisconnectTimeout(e)
    PROVE  CInv'
<1>1. sock' = sock /\ entry' = entry /\ net' = net /\ UNCHANGED clock  BY DEF DisconnectTimeout
<1> QED  BY <1>1, SpeaksNothing, UnchangedStep

\* A socket without a connection that listens from now on keeps its entry.
LEMMA ListensStep ==
    ASSUME CInv, IInv', NEW e \in Ends, NEW u, sock' = [sock EXCEPT ![e] = u], entry' = entry,
           Speaks(e), UNCHANGED clock, sock[e].state \in {"CLOSED", "LISTEN"},
           u.state = "LISTEN", u.server
    PROVE  CInv'
<1>1. CASE entry[e] = NoEntry  BY <1>1, SocketCloses
<1>2. CASE entry[e] # NoEntry
  <2>1. sock'[e] = u /\ OnlyEnd(e) /\ entry'[e] = entry[e]  BY DEF CInv, IInv, TypeInv, OnlyEnd
  <2>2. EntryNumbers(sock[e], entry[e])  BY NumbersOf
  <2>3. EntryNumbers(u, entry[e])  BY <1>2, <2>2 DEF EntryNumbers
  <2>4. SocketNumbers(u) /\ u.state \notin Synchronised
    BY DEF SocketNumbers, Opening, Synchronised, Knowing
  <2>5. Own'[e] = Own[e] /\ Peer'[e] = Peer[e]  BY <1>2, <2>1, OwnIs, OfEntry
  <2> QED  BY <2>1, <2>3, <2>4, <2>5, KeepsStep
<1> QED  BY <1>1, <1>2

\* The resumed thread in disconnect closes a socket that is not in TIMED_WAIT.
LEMMA DisconnectReturnsGood ==
    ASSUME CInv, IInv', NEW e \in Ends, DisconnectReturns(e)
    PROVE  CInv'
<1> DEFINE u == Cleaned(sock[e])
<1>1. /\ sock' = [sock EXCEPT ![e] = IF sock[e].state # "TIMED_WAIT" THEN u ELSE sock[e]]
      /\ entry' = entry /\ net' = net /\ UNCHANGED clock
  BY DEF DisconnectReturns
<1>2. sock[e] \in Sockets /\ SocketNumbers(sock[e]) /\ sock \in [Ends -> Sockets]
  BY NumbersOf DEF CInv, IInv, TypeInv
<1>3. u.state \in {"CLOSED", "LISTEN"} /\ (u.state = "LISTEN" => u.server)
  BY <1>2, CleanedRests
<1>4. CASE sock[e].state = "TIMED_WAIT"
  <2>1. sock' = sock  BY <1>1, <1>2, <1>4
  <2> QED  BY <1>1, <2>1, SpeaksNothing, UnchangedStep
<1>5. CASE sock[e].state # "TIMED_WAIT" /\ sock[e].state # "LISTEN"
  <2>1. sock' = [sock EXCEPT ![e] = u]  BY <1>1, <1>5
  <2> HIDE DEF u
  <2> QED  BY <1>1, <1>3, <1>5, <2>1, NumbersOf, SpeaksNothing, SocketCloses
<1>6. CASE sock[e].state = "LISTEN"
  <2>1. sock' = [sock EXCEPT ![e] = u]  BY <1>1, <1>6
  <2>2. sock[e].server  BY <1>2, <1>6 DEF SocketNumbers
  <2>3. u.state = "LISTEN" /\ u.server
    <3>1. u.state = "LISTEN"  BY <1>2, <2>2 DEF Cleaned, Sockets
    <3> QED  BY <1>3, <3>1
  <2> HIDE DEF u
  <2> QED  BY <1>1, <1>6, <2>1, <2>3, SpeaksNothing, ListensStep
<1> QED  BY <1>4, <1>5, <1>6

\* The SYN cache answers from its entry.
LEMMA EntrySpeaks ==
    ASSUME CInv, NEW e \in Ends, entry[e] # NoEntry,
           \/ Send({SynAck(e, entry[e])})
           \/ Send({Segment(e, "ACK", entry[e].iss + 1, entry[e].irs + 1)})
    PROVE  Speaks(e)
<1>1. EntryNumbers(sock[e], entry[e]) /\ entry[e] \in Entries  BY NumbersOf
<1>2. Own[e] = Initial(entry[e].iss) /\ Peer[e] = Initial(entry[e].irs)
  <2>1. sock[e].state = "LISTEN"  BY <1>1 DEF EntryNumbers
  <2> QED  BY <2>1, OwnIs, OfEntry
<1> DEFINE n == entry[e]
<1>3. n \in Entries /\ n # NoEntry /\ EntryNumbers(sock[e], n)  BY <1>1
<1> HIDE DEF n
<1>4. /\ Carries(e, SynAck(e, n), Initial(n.iss), Initial(n.irs), period')
      /\ Carries(e, Segment(e, "ACK", n.iss + 1, n.irs + 1), Initial(n.iss), Initial(n.irs), period')
  BY <1>3, EntrySays
<1>5. /\ Carries(e, SynAck(e, n), Own[e], Peer[e], period')
      /\ Carries(e, Segment(e, "ACK", n.iss + 1, n.irs + 1), Own[e], Peer[e], period')
  BY <1>2, <1>4 DEF n
<1> QED  BY <1>5, SpeaksNow DEF n

\* nx_tcp_server_socket_relisten answers a deferred SYN.
LEMMA ListenGood ==
    ASSUME CInv, IInv', NEW e \in Ends, Listen(e)
    PROVE  CInv'
<1> DEFINE u == [Fresh EXCEPT !.state = "LISTEN", !.server = TRUE, !.parked = TRUE]
<1>1. /\ sock' = [sock EXCEPT ![e] = u] /\ entry' = entry /\ UNCHANGED clock
      /\ sock[e].state \in {"CLOSED", "LISTEN"}
  BY DEF Listen
<1>2. u.state = "LISTEN" /\ u.server  BY DEF Fresh
<1> HIDE DEF u
<1>3. Speaks(e)
  <2>1. CASE entry[e] # NoEntry
    <3>1. Send({SynAck(e, entry[e])})  BY <2>1 DEF Listen
    <3> QED  BY <2>1, <3>1, EntrySpeaks
  <2>2. CASE entry[e] = NoEntry
    <3>1. net' = net  BY <2>2 DEF Listen
    <3> QED  BY <3>1, SpeaksNothing
  <2> QED  BY <2>1, <2>2
<1> QED  BY <1>1, <1>2, <1>3, ListensStep

\* nx_tcp_server_socket_unlisten drops the entry.
LEMMA UnlistenGood ==
    ASSUME CInv, IInv', NEW e \in Ends, Unlisten(e)
    PROVE  CInv'
<1>1. /\ sock' = [sock EXCEPT ![e] = Fresh] /\ entry' = [entry EXCEPT ![e] = NoEntry]
      /\ UNCHANGED clock /\ net' = net
  BY DEF Unlisten
<1>2. sock'[e].state = "CLOSED" /\ entry'[e] = NoEntry /\ OnlyEnd(e)
  BY <1>1 DEF Fresh, CInv, IInv, TypeInv, OnlyEnd
<1> QED  BY <1>1, <1>2, SpeaksNothing, ClosesStep

\* The SYN cache's timer sends the SYN-ACK again or drops the entry.
LEMMA EntryTimerGood ==
    ASSUME CInv, IInv', NEW e \in Ends, EntryTimer(e)
    PROVE  CInv'
<1>1. entry[e] # NoEntry /\ sock' = sock /\ UNCHANGED clock  BY DEF EntryTimer
<1>2. CASE Send({SynAck(e, entry[e])}) /\ entry' = entry
  <2>1. Speaks(e)  BY <1>1, <1>2, EntrySpeaks
  <2> QED  BY <1>1, <1>2, <2>1, UnchangedStep
<1>3. CASE entry' = [entry EXCEPT ![e] = NoEntry] /\ net' = net
  <2>1. entry'[e] = NoEntry /\ OnlyEnd(e)  BY <1>1, <1>3 DEF CInv, IInv, TypeInv, OnlyEnd
  <2>2. SocketNumbers(sock[e]) /\ EntryNumbers(sock[e], entry[e])  BY NumbersOf
  <2>3. sock[e].state = "LISTEN" /\ sock[e].server  BY <1>1, <2>2 DEF SocketNumbers, EntryNumbers
  <2> QED  BY <1>1, <1>3, <2>1, <2>3, SpeaksNothing, ClosesStep
<1> QED  BY <1>2, <1>3 DEF EntryTimer

\* nx_tcp_fast_periodic_processing sends what was sent, or resets or ends a
\* connection.
LEMMA TimerGood ==
    ASSUME CInv, IInv', NEW e \in Ends, Timer(e)
    PROVE  CInv'
<1>1. /\ sock[e] \in Sockets /\ SocketNumbers(sock[e]) /\ entry' = entry /\ UNCHANGED clock
      /\ sock \in [Ends -> Sockets]
  BY NumbersOf DEF Timer, CInv, IInv, TypeInv
<1>2. sock[e].timer > 0 => sock[e].state \notin {"CLOSED", "LISTEN"} /\ entry[e] = NoEntry
  <2>1. Coherent(sock[e], connect[e], disconnect[e])  BY EndIsCoherent DEF CInv
  <2> QED  BY <2>1, NumbersOf DEF Coherent, SendsFin
<1>3. ASSUME NEW u, sock' = [sock EXCEPT ![e] = u], u.state = sock[e].state, u.tx = sock[e].tx, u.rx = sock[e].rx,
             u.server = sock[e].server, Speaks(e)
      PROVE  CInv'
  <2>1. OwnOf(u, entry[e]) = OwnOf(sock[e], entry[e]) /\ PeerOf(u, entry[e]) = PeerOf(sock[e], entry[e])
    BY <1>3 DEF OwnOf, PeerOf
  <2>2. sock'[e] = u /\ OnlyEnd(e) /\ entry'[e] = entry[e]  BY <1>1, <1>3 DEF OnlyEnd
  <2>3. Own'[e] = Own[e] /\ Peer'[e] = Peer[e]  BY <2>1, <2>2, OwnIs
  <2>4. SocketNumbers(u) /\ EntryNumbers(u, entry[e])
    <3>1. EntryNumbers(sock[e], entry[e])  BY NumbersOf
    <3>2. Sent(u) = Sent(sock[e]) /\ Got(u) = Got(sock[e])  BY <1>3 DEF Sent, Got
    <3> QED  BY <1>1, <1>3, <3>1, <3>2 DEF SocketNumbers, EntryNumbers
  <2>5. u.state \in Synchronised => Peer[e] \X Own[e] \subseteq Claims[Other(e)]  BY <1>3, NumbersOf
  <2> QED  BY <1>1, <1>3, <2>2, <2>3, <2>4, <2>5, KeepsStep
<1>4. CASE TimerRuns(e)
  <2> DEFINE n == sock[e].timer - 1
             u == [sock[e] EXCEPT !.timer = n]
  <2>1. sock' = [sock EXCEPT ![e] = u] /\ net' = net  BY <1>1, <1>4 DEF TimerRuns
  <2>2. u.state = sock[e].state /\ u.tx = sock[e].tx /\ u.rx = sock[e].rx /\ u.server = sock[e].server
    BY <1>1 DEF Sockets
  <2> HIDE DEF u
  <2> QED  BY <1>3, <2>1, <2>2, SpeaksNothing
<1>5. CASE TimerGivesUp(e)
  <2>1. sock[e].timer > 0 /\ ConnectionReset(e) /\ net' = net  BY <1>5 DEF TimerGivesUp
  <2> QED  BY <1>1, <1>2, <2>1, ConnectionResetGood
<1>6. CASE TimerResends(e)
  <2> DEFINE n == sock[e].retries + 1
             u == [sock[e] EXCEPT !.retries = n]
             r == sock[e]
  <2>1. sock' = [sock EXCEPT ![e] = u]  BY <1>1, <1>6 DEF TimerResends
  <2>2. u.state = sock[e].state /\ u.tx = sock[e].tx /\ u.rx = sock[e].rx /\ u.server = sock[e].server
    BY <1>1 DEF Sockets
  <2> HIDE DEF u
  <2>3. Speaks(e)
    <3>1. CASE r.state = "SYN_SENT"
      <4> DEFINE m == Syn(e, r)
      <4>1. m.to = Other(e) /\ m.type = "SYN" /\ m.seq = r.tx - 1  BY <3>1 DEF Syn, Segment
      <4>2. Send({m})  BY <1>6, <3>1 DEF TimerResends, Opening
      <4> HIDE DEF m
      <4>3. PICK i \in Ids : r.tx = Number(i) + 1 /\ ~i.cached
        BY <1>1, <3>1 DEF SocketNumbers, Opening, Sent, SentFin
      <4>4. Number(i) \in Nat /\ Initial(Number(i) + 1) = {i}  BY NumberIs, InitialOf
      <4>5. m.seq = Number(i)  BY <4>1, <4>3, <4>4
      <4>6. i \in Own[e]  BY <3>1, <4>3, <4>4, OwnIs DEF OwnOf, Opening
      <4>7. i.p <= period  BY <4>6 DEF CInv, Agrees, Agreement, Born
      <4>8. period' = period  BY <1>1 DEF clock
      <4>9. Spoken(e, m)  BY <4>1, <4>3, <4>5, <4>7, <4>8 DEF Spoken, SegmentNumbers, HasAck
      <4>10. net' \subseteq net \cup {m}  BY <4>2, SendNet
      <4> QED  BY <4>9, <4>10 DEF Speaks
    <3>2. CASE r.state = "SYN_RECEIVED"
      <4>1. Send({Syn(e, sock[e])})  BY <1>6, <3>2 DEF TimerResends, Opening
      <4>2. Carries(e, Syn(e, sock[e]), Initial(sock[e].tx), Initial(sock[e].rx), period')
        BY <1>1, <3>2, SocketSays DEF Knowing
      <4>3. Carries(e, Syn(e, sock[e]), Own[e], Peer[e], period')  BY <3>2, <4>2, OwnIs, OfKnowing DEF Knowing
      <4> QED  BY <4>1, <4>3, SpeaksNow
    <3>3. CASE r.state \in SendsFin
      <4>1. Send({Fin(e, sock[e])})  BY <1>6, <3>3 DEF TimerResends, Opening, SendsFin
      <4>2. r.state \in SentFin /\ r.state \in Knowing  BY <3>3 DEF SendsFin, SentFin, Knowing, Synchronised
      <4>3. Carries(e, Fin(e, sock[e]), Initial(sock[e].tx), Initial(sock[e].rx), period')
        BY <1>1, <4>2, SocketSays
      <4>4. Carries(e, Fin(e, sock[e]), Own[e], Peer[e], period')  BY <4>2, <4>3, OwnIs, OfKnowing
      <4> QED  BY <4>1, <4>4, SpeaksNow
    <3> QED  BY <1>6, <3>1, <3>2, <3>3 DEF TimerResends, Opening
  <2> QED  BY <1>3, <2>1, <2>2, <2>3
<1>7. CASE TimedWaitEnds(e)
  <2> DEFINE u == Cleaned(sock[e])
  <2>1. sock' = [sock EXCEPT ![e] = u] /\ net' = net /\ sock[e].timer > 0  BY <1>7 DEF TimedWaitEnds
  <2>2. u.state \in {"CLOSED", "LISTEN"} /\ (u.state = "LISTEN" => u.server)  BY <1>1, CleanedRests
  <2> HIDE DEF u
  <2> QED  BY <1>1, <1>2, <2>1, <2>2, SpeaksNothing, SocketCloses
<1> QED  BY <1>4, <1>5, <1>6, <1>7 DEF Timer

\* A segment that e gets is a claim of the other end.
LEMMA ClaimOf ==
    ASSUME NEW e \in Ends, NEW m \in net, m.to = e, HasAck(m),
           NEW j \in Initial(m.seq), NEW i \in Initial(m.ack)
    PROVE  <<j, i>> \in Claims[Other(e)]
<1> DEFINE q == <<j, i>>
<1>1. q[1] = j /\ q[2] = i /\ q \in Ids \X Ids  BY DEF Initial
<1>2. m.to = Other(Other(e))  BY OtherOther
<1> HIDE DEF q
<1>3. q \in SaidBy(Other(e))  BY <1>1, <1>2 DEF SaidBy
<1> QED  BY <1>3, ClaimsOf DEF q

\* In SYN_SENT a segment brings the peer's number.
LEMMA SynSentLearns ==
    ASSUME CInv, IInv', NEW e \in Ends, NEW u \in Sockets, sock' = [sock EXCEPT ![e] = u], entry' = entry,
           UNCHANGED clock, sock[e].state = "SYN_SENT", u.state \in {"ESTABLISHED", "SYN_RECEIVED"},
           u.tx = sock[e].tx, NEW j \in Ids, u.rx = Number(j) + 1, j.p <= period,
           NEW i \in Ids, ~i.cached, sock[e].tx = Number(i) + 1,
           ~j.cached \/ <<j, i>> \in Claims[Other(e)],
           u.state = "ESTABLISHED" => <<j, i>> \in Claims[Other(e)],
           \/ Send({Ack(e, u)})
           \/ u.state = "SYN_RECEIVED" /\ Send({Syn(e, u)})
    PROVE  CInv'
<1>1. sock'[e] = u /\ OnlyEnd(e) /\ entry'[e] = entry[e]
  BY DEF CInv, IInv, TypeInv, OnlyEnd
<1>2. entry[e] = NoEntry  BY NumbersOf
<1>3. u.state \in Knowing /\ Sent(u) = 1 /\ Got(u) = 1 /\ u.state # "LISTEN" /\ u.state # "SYN_SENT"
  BY DEF Knowing, Synchronised, Sent, Got, SentFin, GotFin
<1>4. SocketNumbers(u) /\ EntryNumbers(u, entry[e])  BY <1>2, <1>3 DEF SocketNumbers, EntryNumbers
<1>5. Speaks(e)  BY <1>1, <1>3, <1>4, AckSpeaksAfter
<1>6. Initial(Number(i) + 1) = {i} /\ Initial(Number(j) + 1) = {j}  BY InitialOf
<1>7. Own[e] = {i}  BY <1>6, OwnIs DEF OwnOf, Opening
<1>8. Own'[e] = {i} /\ Peer'[e] = {j}
  <2>1. OwnOf(u, entry'[e]) = Initial(u.tx) /\ PeerOf(u, entry'[e]) = Initial(u.rx)  BY <1>3, OfKnowing
  <2> QED  BY <1>1, <1>6, <2>1, OwnIs
<1>9. sock'[e].state \in Synchronised => <<j, i>> \in Claims[Other(e)]
  BY <1>1 DEF Synchronised
<1> QED  BY <1>1, <1>4, <1>5, <1>7, <1>8, <1>9, LearnsStep

\* nx_tcp_socket_state_syn_sent: a SYN-ACK with our number comes from the number it
\* claims, a SYN from an active open.
LEMMA SynSentGood ==
    ASSUME CInv, IInv', NEW e \in Ends, NEW m \in net, m.to = e, sock[e].state = "SYN_SENT", SynSent(e, m),
           entry' = entry, UNCHANGED clock
    PROVE  CInv'
<1> DEFINE y == m.seq + 1
           r(s) == [sock[e] EXCEPT !.state = s, !.rx = y, !.timer = 0]
<1>1. /\ sock[e] \in Sockets /\ SocketNumbers(sock[e]) /\ sock \in [Ends -> Sockets] /\ period \in Nat
      /\ m \in Segments /\ y \in Int /\ m.seq \in Int
  BY NumbersOf, Types DEF CInv, IInv, TypeInv
<1>2. PICK i \in Ids : sock[e].tx = Number(i) + 1 /\ ~i.cached
  BY <1>1 DEF SocketNumbers, Opening, Sent, SentFin
<1>3. SegmentNumbers(m, period)  BY DEF CInv, Numbers
<1>4. Initial(Number(i) + 1) = {i}  BY InitialOf
<1>5. ASSUME NEW s \in {"ESTABLISHED", "SYN_RECEIVED"}
      PROVE  r(s) \in Sockets /\ r(s).state = s /\ r(s).tx = sock[e].tx /\ r(s).rx = y
  <2>1. s \in States  BY DEF States, Opening, Synchronised
  <2> HIDE DEF y
  <2> QED  BY <1>1, <2>1 DEF Sockets
<1>6. CASE m.type = "RST_ACK" /\ m.ack = sock[e].tx /\ ConnectionReset(e) /\ net' = net
  BY <1>6, ConnectionResetGood
<1>7. CASE UNCHANGED <<sock, connect, disconnect, net>>
  BY <1>7, SpeaksNothing, UnchangedStep
<1>8. CASE /\ Answers(sock[e], m)
           /\ sock' = [sock EXCEPT ![e].state = "ESTABLISHED", ![e].rx = m.seq + 1, ![e].timer = 0]
           /\ Send({Ack(e, sock'[e])})
  <2> DEFINE u == r("ESTABLISHED")
  <2>1. sock' = [sock EXCEPT ![e] = u] /\ sock'[e] = u  BY <1>1, <1>8
  <2>2. u \in Sockets /\ u.state = "ESTABLISHED" /\ u.tx = sock[e].tx /\ u.rx = y  BY <1>5
  <2> HIDE DEF u
  <2>3. m.type = "SYN_ACK" /\ m.ack = sock[e].tx /\ HasAck(m)  BY <1>8 DEF Answers, HasAck
  <2>4. PICK j \in Ids : m.seq = Number(j)  BY <1>3, <2>3 DEF SegmentNumbers
  <2>5. j \in Initial(m.seq) /\ i \in Initial(m.ack)  BY <1>2, <1>4, <2>3, <2>4, InitialOf
  <2>6. <<j, i>> \in Claims[Other(e)]  BY <2>3, <2>5, ClaimOf
  <2>7. j.p <= period
    <3> DEFINE q == <<j, i>>
    <3>1. q \in Claims[Other(e)] /\ q[1] = j  BY <2>6
    <3> HIDE DEF q
    <3> QED  BY <3>1, OtherEnd DEF CInv, Agrees, Agreement, Born
  <2>8. u.rx = Number(j) + 1 /\ Send({Ack(e, u)})  BY <1>8, <2>1, <2>2, <2>4
  <2> QED  BY <1>2, <2>1, <2>2, <2>6, <2>7, <2>8, SynSentLearns
<1>9. CASE /\ m.type = "SYN"
           /\ sock' = [sock EXCEPT ![e].state = "SYN_RECEIVED", ![e].rx = m.seq + 1, ![e].timer = 0]
           /\ Send({Syn(e, sock'[e])})
  <2> DEFINE u == r("SYN_RECEIVED")
  <2>1. sock' = [sock EXCEPT ![e] = u] /\ sock'[e] = u  BY <1>1, <1>9
  <2>2. u \in Sockets /\ u.state = "SYN_RECEIVED" /\ u.tx = sock[e].tx /\ u.rx = y  BY <1>5
  <2> HIDE DEF u
  <2>3. PICK j \in Ids : ~j.cached /\ j.p <= period /\ m.seq = Number(j)
    BY <1>3, <1>9 DEF SegmentNumbers
  <2>4. u.rx = Number(j) + 1 /\ Send({Syn(e, u)})  BY <1>9, <2>1, <2>2, <2>3
  <2> QED  BY <1>2, <2>1, <2>2, <2>3, <2>4, SynSentLearns
<1>10. CASE /\ IF m.ack # sock[e].tx THEN Send({Rst(e, m)}) ELSE net' = net
            /\ UNCHANGED <<sock, connect, disconnect>>
  <2>1. Speaks(e)  BY <1>10, SpeaksRst, SpeaksNothing
  <2> QED  BY <1>10, <2>1, UnchangedStep
<1> QED  BY <1>6, <1>7, <1>8, <1>9, <1>10 DEF SynSent

\* nx_tcp_socket_state_syn_received: what is in the window and acknowledges our SYN
\* comes from the peer's connection.
LEMMA SynReceivedGood ==
    ASSUME CInv, IInv', NEW e \in Ends, NEW m \in net, m.to = e, sock[e].state = "SYN_RECEIVED",
           m.type \in {"ACK", "FIN"}, InWindow(sock[e], m), SynReceived(e, m),
           entry' = entry, UNCHANGED clock
    PROVE  CInv'
<1>1. /\ sock[e] \in Sockets /\ SocketNumbers(sock[e]) /\ sock \in [Ends -> Sockets] /\ period \in Nat
      /\ m.seq \in Int /\ m.ack \in Int /\ HasAck(m) /\ SegmentNumbers(m, period)
  BY NumbersOf, Types DEF CInv, IInv, TypeInv, HasAck, Numbers
<1>2. CASE m.ack = sock[e].tx
  <2> DEFINE f == IF m.type = "FIN" THEN m.seq ELSE sock[e].fin
             u == [sock[e] EXCEPT !.state = "ESTABLISHED", !.fin = f]
             r == sock[e]
  <2>1. sock' = [sock EXCEPT ![e] = u] /\ net' = net  BY <1>1, <1>2 DEF SynReceived
  <2>2. sock'[e] = u /\ OnlyEnd(e)  BY <1>1, <2>1 DEF OnlyEnd
  <2> HIDE DEF f
  <2>3. u.state = "ESTABLISHED" /\ u.tx = r.tx /\ u.rx = r.rx  BY <1>1 DEF Sockets
  <2> HIDE DEF u, r
  <2>4. /\ r.state \in Knowing /\ u.state \in Knowing /\ r \in Sockets /\ SocketNumbers(r)
        /\ CountsOn(r, u) /\ Got(r) = 1
    BY <1>1, <2>3 DEF r, Knowing, Synchronised, CountsOn, Sent, Got, SentFin, GotFin
  <2>5. SocketNumbers(u) /\ Initial(u.tx) = Initial(r.tx) /\ Initial(u.rx) = Initial(r.rx)
    BY <2>4, NextNumbers
  <2>6. PICK i \in Ids, j \in Ids : /\ r.rx = Number(j) + 1 /\ Initial(r.tx) = {i} /\ Initial(r.rx) = {j}
    BY <2>4, ConnectionNumbers
  <2>7. PICK k \in Initial(m.seq) : TRUE  BY <1>1 DEF SegmentNumbers
  <2>8. k = j
    <3>1. k \in Ids /\ Number(k) <= m.seq /\ m.seq <= Number(k) + 2  BY DEF Initial
    <3>2. Number(j) + 1 <= m.seq /\ m.seq < Number(j) + 1 + Window  BY <2>6 DEF InWindow, r
    <3>3. Number(j) \in Nat /\ Number(k) \in Nat  BY <3>1, NumberIs
    <3>4. k # j => Number(k) + Gap <= Number(j) \/ Number(j) + Gap <= Number(k)  BY <3>1, NumbersApart
    <3> QED  BY <1>1, <3>1, <3>2, <3>3, <3>4, Bounds
  <2>9. i \in Initial(m.ack)  BY <1>2, <2>6 DEF r
  <2>10. <<j, i>> \in Claims[Other(e)]  BY <1>1, <2>8, <2>9, ClaimOf
  <2>11. Own[e] = {i} /\ Peer[e] = {j}  BY <2>4, <2>6, OwnIs, OfKnowing DEF r
  <2>12. Peer[e] \X Own[e] \subseteq Claims[Other(e)]  BY <2>10, <2>11
  <2>13. Speaks(e)  BY <2>1, SpeaksNothing
  <2> QED  BY <2>2, <2>4, <2>5, <2>12, <2>13, StaysStep DEF r
<1>3. CASE m.ack # sock[e].tx
  <2>1. Send({Rst(e, m)}) /\ sock' = sock  BY <1>3 DEF SynReceived
  <2>2. Speaks(e)  BY <2>1, SpeaksRst
  <2> QED  BY <2>1, <2>2, UnchangedStep
<1> QED  BY <1>2, <1>3

\* The checks before the state's handler change no number.
LEMMA CheckedNumbers ==
    ASSUME NEW r \in Sockets, NEW m
    PROVE  LET u == TakesFin(Acked(r, m), m)
           IN  u.tx = r.tx /\ u.rx = r.rx /\ u.state = r.state
<1> DEFINE a == r.finAcked \/ (m.ack = r.tx /\ r.state \notin {"ESTABLISHED", "CLOSE_WAIT"})
           v == Acked(r, m)
<1>1. a \in BOOLEAN  OBVIOUS
<1>2. v = [r EXCEPT !.finAcked = a]  BY DEF Acked
<1> HIDE DEF a
<1>3. v \in Sockets /\ v.tx = r.tx /\ v.rx = r.rx /\ v.state = r.state  BY <1>1, <1>2 DEF Sockets
<1> HIDE DEF v
<1> DEFINE f == m.seq
<1>4. TakesFin(v, m) = v \/ TakesFin(v, m) = [v EXCEPT !.fin = f]  BY DEF TakesFin
<1> HIDE DEF f
<1>5. TakesFin(v, m).tx = v.tx /\ TakesFin(v, m).rx = v.rx /\ TakesFin(v, m).state = v.state
  BY <1>3, <1>4 DEF Sockets
<1> QED  BY <1>3, <1>5 DEF v

\* The peer's FIN is counted in rx.
LEMMA AfterFinCounts ==
    ASSUME NEW r \in Sockets, r.state \in {"ESTABLISHED", "FIN_WAIT_1", "FIN_WAIT_2"}
    PROVE  CountsOn(r, AfterFin(r)) /\ AfterFin(r).state \in Synchronised
<1> DEFINE y == r.rx + 1
           u == AfterFin(r)
<1>1. CASE r.state = "ESTABLISHED"
  <2>1. u = [r EXCEPT !.state = "CLOSE_WAIT", !.rx = y]  BY <1>1 DEF AfterFin
  <2> HIDE DEF y
  <2>2. u.state = "CLOSE_WAIT" /\ u.tx = r.tx /\ u.rx = y  BY <2>1 DEF Sockets
  <2> HIDE DEF u
  <2> QED  BY <1>1, <2>2 DEF CountsOn, Sent, Got, SentFin, GotFin, Synchronised, u, y
<1>2. CASE r.state = "FIN_WAIT_1" /\ ~r.finAcked
  <2>1. u = [r EXCEPT !.state = "CLOSING", !.rx = y]  BY <1>2 DEF AfterFin
  <2> HIDE DEF y
  <2>2. u.state = "CLOSING" /\ u.tx = r.tx /\ u.rx = y  BY <2>1 DEF Sockets
  <2> HIDE DEF u
  <2> QED  BY <1>2, <2>2 DEF CountsOn, Sent, Got, SentFin, GotFin, Synchronised, u, y
<1>3. CASE r.state # "ESTABLISHED" /\ ~(r.state = "FIN_WAIT_1" /\ ~r.finAcked)
  <2>1. u = [r EXCEPT !.state = "TIMED_WAIT", !.rx = y, !.timer = Msl2]  BY <1>3 DEF AfterFin
  <2> HIDE DEF y
  <2>2. u.state = "TIMED_WAIT" /\ u.tx = r.tx /\ u.rx = y  BY <2>1 DEF Sockets
  <2> HIDE DEF u
  <2> QED  BY <1>3, <2>2 DEF CountsOn, Sent, Got, SentFin, GotFin, Synchronised, u, y
<1> QED  BY <1>1, <1>2, <1>3

\* The handlers of the synchronised states stay in the connection or close it.
LEMMA StateHandlerGood ==
    ASSUME CInv, IInv', NEW e \in Ends, NEW m \in net, sock[e].state \in Synchronised, StateHandler(e, m),
           entry' = entry, UNCHANGED clock
    PROVE  CInv'
<1> DEFINE r == TakesFin(Acked(sock[e], m), m)
           x == sock[e]
<1>1. /\ x \in Sockets /\ SocketNumbers(x) /\ sock \in [Ends -> Sockets] /\ m \in Segments
      /\ x.state \in Synchronised /\ x.state \in Knowing /\ entry[e] = NoEntry
  BY NumbersOf, Types DEF CInv, IInv, TypeInv, Knowing, Synchronised
<1>2. r \in Sockets /\ r.state = x.state /\ r.tx = x.tx /\ r.rx = x.rx
  BY <1>1, CheckedIs, CheckedNumbers
<1> HIDE DEF r
<1>3. ASSUME NEW u, u.state \in Synchronised, CountsOn(r, u), sock' = [sock EXCEPT ![e] = u], Speaks(e)
      PROVE  CInv'
  <2>1. CountsOn(x, u)  BY <1>2, <1>3 DEF CountsOn, Sent, Got
  <2> QED  BY <1>1, <1>3, <2>1, SocketStays
<1>4. Send({Ack(e, r)}) => Speaks(e)
  <2>1. Ack(e, r) = Ack(e, sock[e])  BY <1>2 DEF Ack
  <2> QED  BY <1>1, <2>1, AckSpeaks
<1>5. CASE /\ r.state \in {"ESTABLISHED", "FIN_WAIT_1", "FIN_WAIT_2"} /\ r.fin = r.rx
           /\ sock' = [sock EXCEPT ![e] = AfterFin(r)]
           /\ Send({Ack(e, sock'[e])})
  <2> DEFINE u == AfterFin(r)
  <2>1. CountsOn(r, u) /\ u.state \in Synchronised  BY <1>2, <1>5, AfterFinCounts
  <2>2. sock' = [sock EXCEPT ![e] = u] /\ sock'[e] = u /\ u \in Sockets
    BY <1>1, <1>5 DEF IInv, TypeInv
  <2>3. Send({Ack(e, u)})  BY <1>5, <2>2
  <2> HIDE DEF u
  <2>4. CountsOn(x, u) /\ u.state \in Knowing  BY <1>2, <2>1 DEF CountsOn, Sent, Got, Knowing
  <2> HIDE DEF x
  <2>5. SocketNumbers(u)  BY <1>1, <2>4, NextNumbers
  <2>6. Speaks(e)  BY <2>2, <2>3, <2>4, <2>5, AckSpeaksAfter
  <2> QED  BY <1>3, <2>1, <2>2, <2>6
<1>6. CASE /\ r.state = "FIN_WAIT_1"
           /\ sock' = [sock EXCEPT ![e] = [r EXCEPT !.state = "FIN_WAIT_2", !.timer = 0]]
           /\ net' = net
  <2> DEFINE u == [r EXCEPT !.state = "FIN_WAIT_2", !.timer = 0]
  <2>1. sock' = [sock EXCEPT ![e] = u]  BY <1>6
  <2>2. u.state = "FIN_WAIT_2" /\ u.tx = r.tx /\ u.rx = r.rx  BY <1>2 DEF Sockets
  <2> HIDE DEF u
  <2>3. CountsOn(r, u) /\ u.state \in Synchronised
    BY <1>6, <2>2 DEF CountsOn, Sent, Got, SentFin, GotFin, Synchronised
  <2>4. Speaks(e)  BY <1>6, SpeaksNothing
  <2> QED  BY <1>3, <2>1, <2>3, <2>4
<1>7. CASE /\ r.state \in {"CLOSING", "TIMED_WAIT"}
           /\ sock' = [sock EXCEPT ![e] = [r EXCEPT !.state = "TIMED_WAIT", !.timer = Msl2]]
           /\ net' = net \/ Send({Ack(e, r)})
  <2> DEFINE u == [r EXCEPT !.state = "TIMED_WAIT", !.timer = Msl2]
  <2>1. sock' = [sock EXCEPT ![e] = u]  BY <1>7
  <2>2. u.state = "TIMED_WAIT" /\ u.tx = r.tx /\ u.rx = r.rx  BY <1>2 DEF Sockets
  <2> HIDE DEF u
  <2>3. CountsOn(r, u) /\ u.state \in Synchronised
    BY <1>7, <2>2 DEF CountsOn, Sent, Got, SentFin, GotFin, Synchronised
  <2>4. Speaks(e)  BY <1>4, <1>7, SpeaksNothing
  <2> QED  BY <1>3, <2>1, <2>3, <2>4
<1>8. CASE /\ sock' = [sock EXCEPT ![e] = Cleaned(r)]
           /\ net' = net
  <2> DEFINE u == Cleaned(r)
  <2>1. u.state \in {"CLOSED", "LISTEN"} /\ (u.state = "LISTEN" => u.server)  BY <1>2, CleanedRests
  <2>2. sock' = [sock EXCEPT ![e] = u] /\ Speaks(e)  BY <1>8, SpeaksNothing
  <2> HIDE DEF u
  <2> QED  BY <1>1, <2>1, <2>2, SocketCloses
<1>9. CASE sock' = [sock EXCEPT ![e] = r] /\ net' = net
  <2>1. CountsOn(r, r) /\ r.state \in Synchronised  BY <1>1, <1>2 DEF CountsOn
  <2>2. Speaks(e)  BY <1>9, SpeaksNothing
  <2> QED  BY <1>3, <1>9, <2>1, <2>2
<1>10. CASE /\ r.state = "TIMED_WAIT" /\ m.type = "FIN"
            /\ sock' = [sock EXCEPT ![e] = [r EXCEPT !.timer = Msl2]]
            /\ Send({Ack(e, r)})
  <2> DEFINE u == [r EXCEPT !.timer = Msl2]
  <2>1. sock' = [sock EXCEPT ![e] = u]  BY <1>10
  <2>2. u.state = r.state /\ u.tx = r.tx /\ u.rx = r.rx  BY <1>2 DEF Sockets
  <2> HIDE DEF u
  <2>3. CountsOn(r, u) /\ u.state \in Synchronised
    BY <1>1, <1>2, <2>2 DEF CountsOn, Sent, Got
  <2>4. Speaks(e)  BY <1>4, <1>10
  <2> QED  BY <1>3, <2>1, <2>3, <2>4
<1> QED  BY <1>5, <1>6, <1>7, <1>8, <1>9, <1>10 DEF StateHandler, r

\* nx_tcp_socket_packet_process.
LEMMA SocketInputGood ==
    ASSUME CInv, IInv', NEW e \in Ends, NEW m \in net, m.to = e, SocketInput(e, m)
    PROVE  CInv'
<1>1. entry' = entry /\ UNCHANGED clock  BY DEF SocketInput
<1>2. CASE UNCHANGED <<sock, connect, disconnect, net>>
  BY <1>1, <1>2, SpeaksNothing, UnchangedStep
<1>3. CASE sock[e].state = "SYN_SENT" /\ SynSent(e, m)
  BY <1>1, <1>3, SynSentGood
<1>4. ASSUME sock[e].state \in Knowing, sock' = sock, Send({Ack(e, sock[e])}) \/ net' = net PROVE CInv'
  BY <1>1, <1>4, AckSpeaks, UnchangedStep
<1>5. CASE sock[e].state \in Synchronised \cup {"SYN_RECEIVED"} /\ Outside(e, m)
  BY <1>4, <1>5 DEF Outside, Knowing
<1>6. CASE sock[e].state \in Synchronised \cup {"SYN_RECEIVED"} /\ Inside(e, m)
  <2>1. CASE ConnectionReset(e) /\ net' = net
    <3>1. sock[e].state # "LISTEN"  BY <1>6 DEF Synchronised
    <3> QED  BY <1>1, <2>1, <3>1, ConnectionResetGood
  <2>2. CASE Challenge(e)  BY <1>4, <1>6, <2>2 DEF Challenge, Knowing
  <2>3. CASE m.type \in {"ACK", "FIN"} /\ sock[e].state = "SYN_RECEIVED" /\ SynReceived(e, m)
    BY <1>1, <1>6, <2>3, SynReceivedGood DEF Inside
  <2>4. CASE Send({Ack(e, sock[e])}) /\ UNCHANGED <<sock, disconnect>>
    BY <1>4, <1>6, <2>4 DEF Knowing
  <2>5. CASE sock[e].state # "SYN_RECEIVED" /\ StateHandler(e, m)
    BY <1>1, <1>6, <2>5, StateHandlerGood
  <2> QED  BY <1>2, <1>6, <2>1, <2>2, <2>3, <2>4, <2>5 DEF Inside
<1> QED  BY <1>2, <1>3, <1>5, <1>6 DEF SocketInput

\* nx_tcp_no_connection_reset.
LEMMA NoConnectionGood ==
    ASSUME CInv, IInv', NEW e \in Ends, NEW m \in net, NoConnection(e, m)
    PROVE  CInv'
<1>1. sock' = sock /\ entry' = entry /\ UNCHANGED clock  BY DEF NoConnection
<1>2. Speaks(e)  BY SpeaksRst, SpeaksNothing DEF NoConnection
<1> QED  BY <1>1, <1>2, UnchangedStep

\* _nx_tcp_syncache_syn_received: a SYN is answered with the number of its entry,
\* which is kept, or made of it.
LEMMA PassiveSynGood ==
    ASSUME CInv, IInv', NEW e \in Ends, NEW m \in net, sock[e].state = "LISTEN", m.type = "SYN",
           sock' = sock, entry' = [entry EXCEPT ![e] = Recorded(entry[e], m)],
           Send({SynAck(e, entry'[e])}) \/ net' = net, UNCHANGED clock
    PROVE  CInv'
<1>1. /\ entry \in [Ends -> Entries] /\ entry[e] \in Entries /\ m.seq \in Int /\ period \in Nat
      /\ SegmentNumbers(m, period) /\ SocketNumbers(sock[e]) /\ period' = period
      /\ period <= time /\ time <= MaxTime /\ time \in Nat
  BY NumbersOf, Types DEF CInv, IInv, TypeInv, Numbers, clock
<1>2. PICK j \in Ids : ~j.cached /\ j.p <= period /\ m.seq = Number(j)
  BY <1>1 DEF SegmentNumbers
<1>3. j.s \in 1 .. MaxTime /\ j.s = j.p /\ Number(j) = Gap * j.s  BY <1>2 DEF Ids, Number
<1>4. m.seq > 0
  <2>1. j.s \in Nat /\ j.s > 0 /\ Gap \in Nat /\ Gap > 0  BY <1>3, Bounds
  <2> QED  BY <1>2, <1>3, <2>1, MultiplesApart
<1>5. CASE m.seq = entry[e].irs
  <2>1. entry[e] # NoEntry  BY <1>4, <1>5 DEF NoEntry
  <2>2. entry' = entry  BY <1>1, <1>5 DEF Recorded
  <2>3. Speaks(e)  BY <2>1, <2>2, EntrySpeaks, SpeaksNothing
  <2> QED  BY <2>2, <2>3, UnchangedStep
<1>6. CASE m.seq # entry[e].irs
  <2> DEFINE k == [s |-> j.s, p |-> period, cached |-> TRUE]
             n == [irs |-> m.seq, iss |-> Iss(m.seq, period)]
  <2>1. k \in Ids /\ k.cached /\ k.s = j.s /\ k.p = period
    <3>1. period \in 0 .. MaxTime /\ j.s <= period  BY <1>1, <1>2, <1>3, Bounds
    <3> QED  BY <1>3, <3>1 DEF Ids
  <2>2. n = [irs |-> Gap * k.s, iss |-> Number(k)] /\ n.irs = m.seq /\ n.iss = Number(k)
    BY <1>2, <1>3 DEF Number
  <2>3. entry'[e] = n /\ OnlyEnd(e)  BY <1>1, <1>6 DEF Recorded, OnlyEnd
  <2> HIDE DEF k, n
  <2>4. n # NoEntry /\ n \in Entries
    <3>1. n # NoEntry  BY <1>4, <2>2 DEF NoEntry
    <3> QED  BY <2>3, <3>1 DEF IInv, TypeInv
  <2>5. EntryNumbers(sock[e], n)  BY <2>1, <2>2 DEF EntryNumbers
  <2>6. Initial(n.iss) = {k} /\ Initial(n.irs) = {j}  BY <1>2, <2>1, <2>2, InitialOf
  <2>7. Own'[e] = {k} /\ Peer'[e] = {j}
    <3>1. OwnOf(sock[e], n) = Initial(n.iss) /\ PeerOf(sock[e], n) = Initial(n.irs)
      BY <2>4, OfEntry
    <3> QED  BY <2>3, <2>6, <3>1, OwnIs
  <2>8. Speaks(e)
    <3>1. Carries(e, SynAck(e, n), Initial(n.iss), Initial(n.irs), period')
      BY <2>4, <2>5, EntrySays
    <3>2. Carries(e, SynAck(e, n), Own'[e], Peer'[e], period')  BY <2>6, <2>7, <3>1
    <3>3. Send({SynAck(e, n)}) \/ net' = net  BY <2>3
    <3> QED  BY <3>2, <3>3, SpeaksAfter, SpeaksNothing
  <2>9. SocketNumbers(sock'[e]) /\ EntryNumbers(sock'[e], entry'[e]) /\ sock'[e].state \notin Synchronised
    BY <1>1, <2>3, <2>5 DEF Synchronised
  <2> QED  BY <1>2, <2>1, <2>3, <2>7, <2>8, <2>9, AnsweredStep
<1> QED  BY <1>5, <1>6

\* _nx_tcp_syncache_acceptable: the acknowledgement that completes the entry is a
\* claim of the peer that the entry has.
LEMMA PassiveCompletesGood ==
    ASSUME CInv, IInv', NEW e \in Ends, NEW m \in net, m.to = e, HasAck(m), sock[e].state = "LISTEN",
           entry[e] # NoEntry, Completes(entry[e], m), UNCHANGED clock, net' = net,
           sock' = [sock EXCEPT ![e] = [Fresh EXCEPT !.state = "ESTABLISHED", !.server = TRUE, !.peer = TRUE,
                                                     !.tx = m.ack, !.rx = m.seq]],
           entry' = [entry EXCEPT ![e] = NoEntry]
    PROVE  CInv'
<1> DEFINE x == m.ack
           y == m.seq
           u == [Fresh EXCEPT !.state = "ESTABLISHED", !.server = TRUE, !.peer = TRUE, !.tx = x, !.rx = y]
<1>1. sock'[e] = u /\ entry'[e] = NoEntry /\ OnlyEnd(e)
  BY DEF CInv, IInv, TypeInv, OnlyEnd
<1> HIDE DEF x, y
<1>2. u.state = "ESTABLISHED" /\ u.tx = x /\ u.rx = y  BY DEF Fresh
<1> HIDE DEF u
<1>3. EntryNumbers(sock[e], entry[e]) /\ entry[e] \in Entries  BY NumbersOf
<1>4. PICK k \in Ids, j \in Ids :
             /\ entry[e].iss = Number(k) /\ entry[e].irs = Number(j)
             /\ Initial(entry[e].iss) = {k} /\ Initial(entry[e].iss + 1) = {k}
             /\ Initial(entry[e].irs) = {j} /\ Initial(entry[e].irs + 1) = {j}
  BY <1>3, EntryNumbersAre
<1>5. x = Number(k) + 1 /\ y = Number(j) + 1 /\ Initial(x) = {k} /\ Initial(y) = {j}
  BY <1>4 DEF Completes, x, y
<1>6. u.state \in Knowing /\ u.state \in Synchronised /\ Sent(u) = 1 /\ Got(u) = 1
      /\ u.state # "LISTEN" /\ u.state # "SYN_SENT"
  BY <1>2 DEF Knowing, Synchronised, Sent, Got, SentFin, GotFin
<1>7. SocketNumbers(u)  BY <1>2, <1>5, <1>6 DEF SocketNumbers
<1>8. Own[e] = {k} /\ Peer[e] = {j}
  <2>1. OwnOf(sock[e], entry[e]) = Initial(entry[e].iss) /\ PeerOf(sock[e], entry[e]) = Initial(entry[e].irs)
    BY OfEntry
  <2> QED  BY <1>4, <2>1, OwnIs
<1>9. Own'[e] = {k} /\ Peer'[e] = {j}
  <2>1. OwnOf(u, entry'[e]) = Initial(u.tx) /\ PeerOf(u, entry'[e]) = Initial(u.rx)  BY <1>6, OfKnowing
  <2> QED  BY <1>1, <1>2, <1>5, <2>1, OwnIs
<1>10. <<j, k>> \in Claims[Other(e)]
  <2>1. j \in Initial(m.seq) /\ k \in Initial(m.ack)  BY <1>5 DEF x, y
  <2> QED  BY <2>1, ClaimOf
<1>11. Peer[e] \X Own[e] \subseteq Claims[Other(e)]  BY <1>8, <1>10
<1>12. EntryNumbers(sock'[e], entry'[e])  BY <1>1 DEF EntryNumbers
<1> QED  BY <1>1, <1>7, <1>8, <1>9, <1>11, <1>12, SpeaksNothing, KeepsStep

\* The SYN cache.
LEMMA PassiveGood ==
    ASSUME CInv, IInv', NEW e \in Ends, NEW m \in net, m.to = e, Passive(e, m)
    PROVE  CInv'
<1>1. sock[e].state = "LISTEN" /\ UNCHANGED clock  BY DEF Passive
<1>2. ASSUME sock' = sock, entry' = entry, Speaks(e) PROVE CInv'
  BY <1>1, <1>2, UnchangedStep
<1>3. CASE m.type = "SYN"
  <2>1. /\ entry' = [entry EXCEPT ![e] = Recorded(entry[e], m)] /\ sock' = sock
        /\ Send({SynAck(e, entry'[e])}) \/ net' = net
    BY <1>3 DEF Passive, IsReset
  <2> QED  BY <1>1, <1>3, <2>1, PassiveSynGood
<1>4. CASE m.type \in {"ACK", "FIN"} /\ entry[e] = NoEntry
  <2>1. Send({Rst(e, m)}) /\ sock' = sock /\ entry' = entry  BY <1>4 DEF Passive, IsReset
  <2> QED  BY <1>2, <2>1, SpeaksRst
<1>5. CASE m.type \in {"ACK", "FIN"} /\ entry[e] # NoEntry
  <2>1. HasAck(m)  BY <1>5 DEF HasAck
  <2>2. CASE UNCHANGED <<sock, entry, net>>  BY <1>2, <2>2, SpeaksNothing
  <2>3. CASE /\ Completes(entry[e], m)
             /\ sock' = [sock EXCEPT ![e] = [Fresh EXCEPT !.state = "ESTABLISHED", !.server = TRUE,
                                                          !.peer = TRUE, !.tx = m.ack, !.rx = m.seq]]
             /\ entry' = [entry EXCEPT ![e] = NoEntry]
             /\ net' = net
    BY <1>1, <1>5, <2>1, <2>3, PassiveCompletesGood
  <2>4. CASE Unacceptable(e, m) /\ UNCHANGED <<sock, entry>>
    <3>1. \/ Send({Segment(e, "ACK", entry[e].iss + 1, entry[e].irs + 1)})
          \/ Send({Rst(e, m)})
          \/ net' = net
      BY <2>4 DEF Unacceptable
    <3> QED  BY <1>2, <1>5, <2>4, <3>1, EntrySpeaks, SpeaksRst, SpeaksNothing
  <2> QED  BY <1>5, <2>2, <2>3, <2>4 DEF Passive, IsReset
<1>6. CASE IsReset(m)
  <2>1. /\ entry' = IF m.seq = entry[e].irs + 1 THEN [entry EXCEPT ![e] = NoEntry] ELSE entry
        /\ sock' = sock /\ net' = net
    BY <1>6 DEF Passive, IsReset
  <2>2. CASE entry' = entry  BY <1>2, <2>1, <2>2, SpeaksNothing
  <2>3. CASE entry' = [entry EXCEPT ![e] = NoEntry]
    <3>1. entry'[e] = NoEntry /\ OnlyEnd(e)  BY <2>1, <2>3 DEF CInv, IInv, TypeInv, OnlyEnd
    <3>2. sock[e].server  BY <1>1, NumbersOf DEF SocketNumbers
    <3> QED  BY <1>1, <2>1, <3>1, <3>2, SpeaksNothing, ClosesStep
  <2> QED  BY <2>1, <2>2, <2>3
<1> QED  BY <1>3, <1>4, <1>5, <1>6 DEF Passive

-----------------------------------------------------------------------------
(* The theorem *)

\* Nobody has a number yet.
LEMMA InitConnection == Init => CInv
<1> SUFFICES ASSUME Init PROVE CInv  OBVIOUS
<1>1. \A e \in Ends : sock[e] = Fresh /\ entry[e] = NoEntry  BY DEF Init
<1>2. period = 0 /\ time = 0 /\ net = {} /\ MaxTime \in Nat  BY Bounds DEF Init
<1>3. Fresh.state = "CLOSED"  BY DEF Fresh
<1>4. Numbers
  BY <1>1, <1>2, <1>3 DEF Numbers, SocketNumbers, EntryNumbers, Opening, Synchronised, Knowing
<1>5. \A e \in Ends : Own[e] = {} /\ Peer[e] = {}
  BY <1>1, <1>3 DEF Own, Peer, OwnOf, PeerOf, Opening, Synchronised, Knowing
<1>6. \A e \in Ends : Claims[e] = {}
  <2>1. \A e \in Ends : SaidBy(e) = {}  BY <1>2 DEF SaidBy
  <2>2. \A e \in Ends : Heard(sock[Other(e)], Own[Other(e)], Peer[Other(e)]) = {}
    BY <1>5, OtherEnd DEF Heard
  <2> QED  BY <1>5, <2>1, <2>2 DEF Claims
<1>7. Agrees
  BY <1>5, <1>6 DEF Agrees, Agreement, Born, Current, Matched, OpenedLast, OthersEarlier, OneServer, NotCrossed
<1> QED  BY <1>4, <1>7, InitInvariant DEF CInv

\* Every step is one of those above.
LEMMA NextConnection == QuickReopen = FALSE /\ CInv /\ [Next]_vars => CInv'
<1> SUFFICES ASSUME QuickReopen = FALSE, CInv, [Next]_vars PROVE CInv'  OBVIOUS
<1>1. IInv'  BY NextInvariant DEF CInv
<1>2. CASE UNCHANGED vars
  <2>1. PICK e \in Ends : TRUE  BY ConnectionAssumption, FS_EmptySet DEF ConnectionAssumption
  <2>2. sock' = sock /\ entry' = entry /\ UNCHANGED clock /\ net' = net  BY <1>2 DEF vars
  <2> QED  BY <1>1, <2>1, <2>2, SpeaksNothing, UnchangedStep
<1>3. CASE CounterSteps  BY <1>1, <1>3, CounterStepsGood
<1>4. CASE \E e \in Ends :
          \/ Connect(e) \/ ConnectTimeout(e) \/ Listen(e) \/ Unlisten(e)
          \/ DisconnectOpening(e) \/ DisconnectNow(e) \/ Disconnect(e)
          \/ DisconnectTimeout(e) \/ DisconnectReturns(e)
          \/ Timer(e) \/ EntryTimer(e)
          \/ \E m \in net : Receive(e, m)
  <2>1. CASE \E e \in Ends, m \in net : Receive(e, m)
    BY <1>1, <2>1, SocketInputGood, PassiveGood, NoConnectionGood DEF Receive
  <2>2. CASE \E e \in Ends : Connect(e) \/ ConnectTimeout(e) \/ Listen(e) \/ Unlisten(e)
    BY <1>1, <2>2, ConnectGood, ConnectTimeoutGood, ListenGood, UnlistenGood
  <2>3. CASE \E e \in Ends : \/ DisconnectOpening(e) \/ DisconnectNow(e) \/ Disconnect(e)
                             \/ DisconnectTimeout(e) \/ DisconnectReturns(e)
    BY <1>1, <2>3, DisconnectOpeningGood, DisconnectNowGood, DisconnectGood, DisconnectTimeoutGood,
       DisconnectReturnsGood
  <2>4. CASE \E e \in Ends : Timer(e) \/ EntryTimer(e)
    BY <1>1, <2>4, TimerGood, EntryTimerGood
  <2> QED  BY <1>4, <2>1, <2>2, <2>3, <2>4
<1> QED  BY <1>2, <1>3, <1>4 DEF Next

\* Two ends that claim each other's numbers expect what the other sends.
LEMMA ConnectionIsSame == CInv => SameConnection
<1> SUFFICES ASSUME CInv, NEW a \in Ends,
                    sock[a].state \in Synchronised, sock[Other(a)].state \in Synchronised
             PROVE  /\ sock[a].tx <= sock[Other(a)].rx + 1 /\ sock[Other(a)].rx <= sock[a].tx + 1
                    /\ sock[a].state = "ESTABLISHED" /\ sock[Other(a)].state = "ESTABLISHED"
                         => sock[Other(a)].rx = sock[a].tx
  BY DEF SameConnection
<1> DEFINE b == Other(a)
           r == sock[a]
           o == sock[b]
<1>1. b \in Ends /\ Other(a) = b /\ Other(b) = a  BY OtherEnd, OtherOther
<1> HIDE DEF b
<1>2. /\ r \in Sockets /\ SocketNumbers(r) /\ Peer[a] \X Own[a] \subseteq Claims[b]
      /\ o \in Sockets /\ SocketNumbers(o) /\ Peer[b] \X Own[b] \subseteq Claims[a]
  BY <1>1, NumbersOf
<1>3. r.state \in Knowing /\ o.state \in Knowing  BY <1>1 DEF Knowing
<1>4. Own[a] \X Peer[a] \subseteq Claims[a] /\ Own[b] \X Peer[b] \subseteq Claims[b]
  BY <1>1, ClaimsOf
<1>5. /\ Own[a] = Initial(r.tx) /\ Peer[a] = Initial(r.rx)
      /\ Own[b] = Initial(o.tx) /\ Peer[b] = Initial(o.rx)
  BY <1>1, <1>3, OwnIs, OfKnowing
<1> HIDE DEF r, o
<1>6. PICK i \in Ids, j \in Ids : /\ r.tx = Number(i) + Sent(r)
                                  /\ Initial(r.tx) = {i} /\ Initial(r.rx) = {j}
  BY <1>2, <1>3, ConnectionNumbers
<1>7. PICK k \in Ids, l \in Ids : /\ o.rx = Number(l) + Got(o)
                                  /\ Initial(o.tx) = {k} /\ Initial(o.rx) = {l}
  BY <1>2, <1>3, ConnectionNumbers
<1>8. i = l
  <2>1. i \in Own[a] /\ j \in Peer[a] /\ k \in Own[b] /\ l \in Peer[b]  BY <1>5, <1>6, <1>7
  <2>2. <<i, j>> \in Claims[a] /\ <<l, k>> \in Claims[a] /\ <<k, l>> \in Claims[b] /\ <<j, i>> \in Claims[b]
    BY <1>2, <1>4, <2>1
  <2>3. Shape(Own, Peer, Claims) /\ Agreement(Own, Peer, Claims, period)
    BY ShapeHolds DEF CInv, Agrees
  <2> QED  BY <1>1, <2>1, <2>2, <2>3, AgreedConnection
<1>9. Number(i) \in Nat /\ Sent(r) \in {1, 2} /\ Got(o) \in {1, 2}
  BY NumberIs DEF Sent, Got
<1>10. r.tx <= o.rx + 1 /\ o.rx <= r.tx + 1  BY <1>6, <1>7, <1>8, <1>9
<1>11. r.state = "ESTABLISHED" /\ o.state = "ESTABLISHED" => o.rx = r.tx
  BY <1>6, <1>7, <1>8 DEF Sent, Got, SentFin, GotFin
<1> QED  BY <1>1, <1>10, <1>11 DEF r, o

\* Two ends that are synchronised are in the same connection, whatever segments
\* of other connections of the same ports the network still holds, when connect
\* is not called twice within one step of the SYN cache's counter: for every
\* number of connections, retry limit, window and network.
THEOREM SameConnectionHolds == QuickReopen = FALSE => (Spec => []SameConnection)
<1> SUFFICES ASSUME QuickReopen = FALSE PROVE Spec => []SameConnection  OBVIOUS
<1>1. CInv /\ [Next]_vars => CInv'  BY NextConnection
<1> QED  BY <1>1, InitConnection, ConnectionIsSame, PTL DEF Spec
=============================================================================
