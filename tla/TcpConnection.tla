---------------------------- MODULE TcpConnection ----------------------------
(***************************************************************************)
(* The life of connections between two NetX Duo sockets: active opens        *)
(* (simultaneous ones too), passive opens, the closing handshake in all its  *)
(* states, resets, retransmission timers, and the threads that wait in       *)
(* connect and disconnect, over a network that loses, repeats and reorders.  *)
(* Segments of an earlier connection of the same pair of ports arrive in a   *)
(* later one.                                                                *)
(*                                                                           *)
(* Handlers hold the IP mutex and are one step each; a thread that waited in *)
(* disconnect runs on in a step of its own.  While it does, no other call is *)
(* made on its socket (TcpServer's SocketIsShared shows what happens else).  *)
(*                                                                           *)
(* Abstracted: no data is sent (TcpSender and TcpReceiver have it), so the   *)
(* receive window is open; SYN and FIN count one.  Two initial numbers, of   *)
(* calls of connect or of the SYN cache, are Gap apart, more than a window;  *)
(* they do not wrap around.  A passive open is the one entry that            *)
(* TcpServer's cache would have for this peer, and accept is called when the *)
(* socket is parked.  A segment that finds no packet to be sent in is a      *)
(* segment the network loses.                                                *)
(***************************************************************************)
EXTENDS Naturals, FiniteSets, FiniteSetsExt

CONSTANTS
    Ends,           \* the two sockets
    MaxRetries,     \* nx_tcp_socket_timeout_max_retries, and that of a SYN
    Msl2,           \* _nx_tcp_2MSL_timer_rate in ticks
    Window,         \* nx_tcp_socket_rx_window_current
    QuickReopen,    \* connect may be called again within one step of the counter
                    \* that the SYN cache's numbers are made with
    MaxTime,        \* bound: calls of connect and steps of that counter
    MaxNet          \* bound: segments the network holds

ASSUME ConnectionAssumption ==
    /\ IsFiniteSet(Ends) /\ Cardinality(Ends) = 2
    /\ QuickReopen \in BOOLEAN
    /\ {MaxRetries, MaxTime} \subseteq Nat
    /\ {Msl2, Window, MaxNet} \subseteq Nat \ {0}

VARIABLES
    sock,       \* the sockets
    entry,      \* the SYN cache's entry for the peer: the two initial numbers, or
                \* NoEntry.  It is deferred while no socket is parked.
    connect,    \* the thread in nxd_tcp_client_socket_connect
    disconnect, \* the thread in nx_tcp_socket_disconnect
    time,       \* calls of connect, each with an initial number of its own, and
                \* steps of the counter
    period,     \* _nx_tcp_syncache_counter: when it stepped last
    net         \* segments in the network

clock == <<time, period>>
vars == <<sock, entry, connect, disconnect, clock, net>>

Opening == {"SYN_SENT", "SYN_RECEIVED"}
Synchronised == {"ESTABLISHED", "CLOSE_WAIT", "FIN_WAIT_1", "FIN_WAIT_2", "CLOSING", "TIMED_WAIT", "LAST_ACK"}
SendsFin == {"FIN_WAIT_1", "CLOSING", "LAST_ACK"}

Gap == Window + 4
NoEntry == [irs |-> 0, iss |-> 0]

Other(e) == CHOOSE o \in Ends : o # e

Fresh == [state |-> "CLOSED", server |-> FALSE, parked |-> FALSE, peer |-> FALSE, tx |-> 0, rx |-> 0,
          fin |-> 0, finAcked |-> FALSE, timer |-> 0, retries |-> 0]

Init ==
    /\ sock = [e \in Ends |-> Fresh]
    /\ entry = [e \in Ends |-> NoEntry]
    /\ connect = [e \in Ends |-> "none"]
    /\ disconnect = [e \in Ends |-> "none"]
    /\ time = 0 /\ period = 0
    /\ net = {}

-----------------------------------------------------------------------------
(* Segments.  One stays in the network, and may arrive again, until others   *)
(* push it out.                                                              *)

Send(new) ==
    LET all == net \cup new
    IN  IF Cardinality(all) <= MaxNet THEN net' = all
        ELSE \E n \in kSubset(MaxNet, all) : new \subseteq n /\ net' = n

Segment(e, type, seq, ack) == [to |-> Other(e), type |-> type, seq |-> seq, ack |-> ack]

HasAck(m) == m.type \in {"SYN_ACK", "ACK", "FIN"}
IsReset(m) == m.type \in {"RST", "RST_ACK"}

\* nx_tcp_packet_send_ack, _fin and _syn with the socket's numbers.  The FIN and
\* the SYN have the number before tx; a SYN acknowledges in SYN_RECEIVED.
Ack(e, r) == Segment(e, "ACK", r.tx, r.rx)
Fin(e, r) == Segment(e, "FIN", r.tx - 1, r.rx)
Syn(e, r) == IF r.state = "SYN_RECEIVED" THEN Segment(e, "SYN_ACK", r.tx - 1, r.rx)
                                         ELSE Segment(e, "SYN", r.tx - 1, 0)

\* Mutant: the counter is left out of the hash.
Iss_AnyPeriod(irs, p) == irs + Gap * MaxTime

\* nx_tcp_syncache_cookie_build.  The number is a hash of the peer's and of the
\* counter: within a period the same SYN gets the same number.
Iss(irs, p) == irs + Gap * MaxTime * (p + 1)

\* nx_tcp_syncache_send_synack
SynAck(e, n) == Segment(e, "SYN_ACK", n.iss, n.irs + 1)

\* nx_tcp_packet_send_rst in answer to m: with the number m acknowledges, or,
\* when it does not, acknowledging m.
Rst(e, m) == IF HasAck(m) THEN Segment(e, "RST", m.ack, 0) ELSE Segment(e, "RST_ACK", 0, m.seq + 1)

-----------------------------------------------------------------------------
(* What the handlers share *)

\* nx_tcp_socket_block_cleanup.  The numbers and the FIN's flags stay, but only
\* connect reads them, to make its next number; they are zero here.
Cleaned(r) == [r EXCEPT !.state = IF r.server THEN "LISTEN" ELSE "CLOSED", !.peer = FALSE, !.timer = 0,
                        !.tx = 0, !.rx = 0, !.fin = 0, !.finAcked = FALSE]

\* nx_tcp_connect_cleanup of a thread that waits in connect, for a client
Unconnected(e, r) == IF connect[e] = "waiting" THEN [r EXCEPT !.state = "CLOSED", !.timer = 0] ELSE r

Woken(call, e) == IF call[e] = "waiting" THEN [call EXCEPT ![e] = "woken"] ELSE call

\* A thread in connect only returns when it is resumed.
ConnectEnds(e) == connect' = [connect EXCEPT ![e] = "none"]

\* Mutant: the thread that waits in disconnect is not resumed.
ConnectionReset_LeavesDisconnect(e) ==
    /\ sock' = [sock EXCEPT ![e] = Unconnected(e, Cleaned(@))]
    /\ ConnectEnds(e)
    /\ UNCHANGED disconnect

\* nx_tcp_socket_connection_reset
ConnectionReset(e) ==
    /\ sock' = [sock EXCEPT ![e] = Unconnected(e, Cleaned(@))]
    /\ ConnectEnds(e)
    /\ disconnect' = Woken(disconnect, e)

-----------------------------------------------------------------------------
(* Calls *)

Free(e) == disconnect[e] = "none" /\ connect[e] = "none"

\* nxd_tcp_client_socket_connect, with and without waiting.  A socket in
\* TIMED_WAIT may be used again.
Connect(e) ==
    /\ Free(e) /\ ~sock[e].server
    /\ sock[e].state \in {"CLOSED", "TIMED_WAIT"}
    /\ time < MaxTime /\ time' = time + 1
    /\ period' = IF QuickReopen THEN period ELSE time'
    /\ sock' = [sock EXCEPT ![e] = [Fresh EXCEPT !.state = "SYN_SENT", !.peer = TRUE,
                                                 !.tx = Gap * time' + 1, !.timer = 1]]
    /\ \E wait \in {"waiting", "none"} : connect' = [connect EXCEPT ![e] = wait]
    /\ Send({Syn(e, sock'[e])})
    /\ UNCHANGED <<entry, disconnect>>

\* nx_tcp_connect_cleanup: the wait in connect times out.  The socket is closed
\* but keeps its peer.
ConnectTimeout(e) ==
    /\ connect[e] = "waiting"
    /\ sock' = [sock EXCEPT ![e] = Unconnected(e, @)]
    /\ ConnectEnds(e)
    /\ UNCHANGED <<entry, disconnect, clock, net>>

\* nx_tcp_socket_disconnect before the connection is established
DisconnectOpening(e) ==
    /\ disconnect[e] = "none" /\ sock[e].state \in Opening
    /\ sock' = [sock EXCEPT ![e].state = "CLOSED", ![e].timer = 0,
                            ![e].retries = IF sock[e].state = "SYN_RECEIVED" THEN 0 ELSE @,
                            ![e].tx = IF sock[e].state = "SYN_RECEIVED" THEN @ + 1 ELSE @]
    /\ IF sock[e].state = "SYN_RECEIVED" THEN Send({Fin(e, sock'[e])}) ELSE net' = net
    /\ ConnectEnds(e)
    /\ UNCHANGED <<entry, disconnect, clock>>

\* ... with NX_NO_WAIT: a reset
DisconnectNow(e) ==
    /\ Free(e) /\ sock[e].state \in {"ESTABLISHED", "CLOSE_WAIT"}
    /\ Send({Segment(e, "RST", sock[e].tx, 0)})
    /\ sock' = [sock EXCEPT ![e] = Cleaned(@)]
    /\ UNCHANGED <<entry, connect, disconnect, clock>>

\* ... and with a wait: a FIN, and the thread is suspended
Disconnect(e) ==
    /\ Free(e) /\ sock[e].state \in {"ESTABLISHED", "CLOSE_WAIT"}
    /\ sock' = [sock EXCEPT ![e].state = IF @ = "CLOSE_WAIT" THEN "LAST_ACK" ELSE "FIN_WAIT_1",
                            ![e].timer = 1, ![e].retries = 0, ![e].tx = @ + 1]
    /\ Send({Fin(e, sock'[e])})
    /\ disconnect' = [disconnect EXCEPT ![e] = "waiting"]
    /\ UNCHANGED <<entry, connect, clock>>

\* nx_tcp_disconnect_cleanup: the wait times out
DisconnectTimeout(e) ==
    /\ disconnect[e] = "waiting"
    /\ disconnect' = Woken(disconnect, e)
    /\ UNCHANGED <<sock, entry, connect, clock, net>>

\* The resumed thread cleans up what is not in TIMED_WAIT.
DisconnectReturns(e) ==
    /\ disconnect[e] = "woken"
    /\ disconnect' = [disconnect EXCEPT ![e] = "none"]
    /\ sock' = [sock EXCEPT ![e] = IF @.state # "TIMED_WAIT" THEN Cleaned(@) ELSE @]
    /\ UNCHANGED <<entry, connect, clock, net>>

\* Time passes (_nx_tcp_syncache_counter).
CounterSteps ==
    /\ time < MaxTime /\ time' = time + 1 /\ period' = time'
    /\ UNCHANGED <<sock, entry, connect, disconnect, net>>

\* nx_tcp_server_socket_listen and accept, or, after a connection, unaccept,
\* relisten and accept: a deferred SYN is answered.
Listen(e) ==
    /\ Free(e)
    /\ \/ sock[e].state = "CLOSED"
       \/ sock[e].state = "LISTEN" /\ ~sock[e].parked
    /\ sock' = [sock EXCEPT ![e] = [Fresh EXCEPT !.state = "LISTEN", !.server = TRUE, !.parked = TRUE]]
    /\ IF entry[e] # NoEntry THEN Send({SynAck(e, entry[e])}) ELSE net' = net
    /\ UNCHANGED <<entry, connect, disconnect, clock>>

\* nx_tcp_server_socket_unaccept and unlisten: the socket may open itself
Unlisten(e) ==
    /\ Free(e) /\ sock[e].state = "LISTEN"
    /\ sock' = [sock EXCEPT ![e] = Fresh]
    /\ entry' = [entry EXCEPT ![e] = NoEntry]
    /\ UNCHANGED <<connect, disconnect, clock, net>>

-----------------------------------------------------------------------------
(* The timer: nx_tcp_fast_periodic_processing *)

TimerRuns(e) ==
    /\ sock[e].timer > 1
    /\ sock' = [sock EXCEPT ![e].timer = @ - 1]
    /\ UNCHANGED <<connect, disconnect, net>>

TimerGivesUp(e) ==
    /\ sock[e].timer = 1 /\ sock[e].retries >= MaxRetries
    /\ ConnectionReset(e)
    /\ net' = net

\* Mutant: the retries are not counted.
TimerResends_NotCounted(e) ==
    /\ sock[e].timer = 1 /\ sock[e].retries < MaxRetries
    /\ sock[e].state \in Opening \cup SendsFin
    /\ Send({IF sock[e].state \in Opening THEN Syn(e, sock[e]) ELSE Fin(e, sock[e])})
    /\ UNCHANGED <<sock, connect, disconnect>>

TimerResends(e) ==
    /\ sock[e].timer = 1 /\ sock[e].retries < MaxRetries
    /\ sock[e].state \in Opening \cup SendsFin
    /\ sock' = [sock EXCEPT ![e].retries = @ + 1]
    /\ Send({IF sock[e].state \in Opening THEN Syn(e, sock[e]) ELSE Fin(e, sock[e])})
    /\ UNCHANGED <<connect, disconnect>>

TimedWaitEnds(e) ==
    /\ sock[e].timer = 1 /\ sock[e].retries < MaxRetries
    /\ sock[e].state = "TIMED_WAIT"
    /\ sock' = [sock EXCEPT ![e] = Cleaned(@)]
    /\ UNCHANGED <<connect, disconnect, net>>

Timer(e) ==
    /\ TimerRuns(e) \/ TimerGivesUp(e) \/ TimerResends(e) \/ TimedWaitEnds(e)
    /\ UNCHANGED <<entry, clock>>

-----------------------------------------------------------------------------
(* Segments that arrive *)

\* It is our SYN that m acknowledges.
Answers(r, m) == m.type = "SYN_ACK" /\ m.ack = r.tx

\* nx_tcp_socket_state_syn_sent.  A SYN alone is a simultaneous open: the timer
\* is stopped although the SYN is not acknowledged yet.
SynSent(e, m) ==
    LET r == sock[e]
    IN  \/ /\ m.type = "RST_ACK" /\ m.ack = r.tx
           /\ ConnectionReset(e)
           /\ net' = net
        \/ /\ IsReset(m) /\ ~(m.type = "RST_ACK" /\ m.ack = r.tx)
           /\ UNCHANGED <<sock, connect, disconnect, net>>
        \/ /\ Answers(r, m)
           /\ sock' = [sock EXCEPT ![e].state = "ESTABLISHED", ![e].rx = m.seq + 1, ![e].timer = 0]
           /\ ConnectEnds(e)
           /\ Send({Ack(e, sock'[e])})
           /\ UNCHANGED disconnect
        \/ /\ m.type = "SYN"
           /\ sock' = [sock EXCEPT ![e].state = "SYN_RECEIVED", ![e].rx = m.seq + 1, ![e].timer = 0]
           /\ Send({Syn(e, sock'[e])})
           /\ UNCHANGED <<connect, disconnect>>
        \/ /\ HasAck(m) /\ ~Answers(r, m)
           /\ IF m.ack # r.tx THEN Send({Rst(e, m)}) ELSE net' = net
           /\ UNCHANGED <<sock, connect, disconnect>>

\* nx_tcp_socket_state_syn_received.  The data check that follows takes a FIN,
\* which nobody acts on before the next segment.
SynReceived(e, m) ==
    /\ IF m.ack = sock[e].tx
         THEN /\ sock' = [sock EXCEPT ![e].state = "ESTABLISHED",
                                      ![e].fin = IF m.type = "FIN" THEN m.seq ELSE @]
              /\ ConnectEnds(e)
              /\ net' = net
         ELSE /\ Send({Rst(e, m)})
              /\ UNCHANGED <<sock, connect>>
    /\ UNCHANGED disconnect

\* The socket after nx_tcp_socket_state_ack_check and the FIN's part of
\* nx_tcp_socket_state_data_check
Acked(r, m) == [r EXCEPT !.finAcked = @ \/ (m.ack = r.tx /\ r.state \notin {"ESTABLISHED", "CLOSE_WAIT"})]
TakesFin(r, m) ==
    IF m.type = "FIN" /\ r.state \in {"ESTABLISHED", "FIN_WAIT_1", "FIN_WAIT_2"}
      THEN [r EXCEPT !.fin = m.seq] ELSE r

\* The peer's FIN is in order: nx_tcp_socket_state_established, _fin_wait1, _fin_wait2.
AfterFin(r) ==
    CASE r.state = "ESTABLISHED" -> [r EXCEPT !.state = "CLOSE_WAIT", !.rx = @ + 1]
      [] r.state = "FIN_WAIT_1" /\ ~r.finAcked -> [r EXCEPT !.state = "CLOSING", !.rx = @ + 1]
      [] OTHER -> [r EXCEPT !.state = "TIMED_WAIT", !.rx = @ + 1, !.timer = Msl2]

\* The state handlers of a connection that is synchronised, after the checks.
\* fin is 0 until the peer's FIN is received.
StateHandler(e, m) ==
    LET r == TakesFin(Acked(sock[e], m), m)
        inOrder == m.ack = r.tx /\ m.seq = r.rx
    IN  \/ /\ r.state \in {"ESTABLISHED", "FIN_WAIT_1", "FIN_WAIT_2"} /\ r.fin = r.rx
           /\ sock' = [sock EXCEPT ![e] = AfterFin(r)]
           /\ disconnect' = IF sock'[e].state = "TIMED_WAIT" THEN Woken(disconnect, e) ELSE disconnect
           /\ Send({Ack(e, sock'[e])})
        \/ /\ r.state = "FIN_WAIT_1" /\ r.finAcked /\ r.fin = 0
           /\ sock' = [sock EXCEPT ![e] = [r EXCEPT !.state = "FIN_WAIT_2", !.timer = 0]]
           /\ UNCHANGED <<disconnect, net>>
        \/ /\ r.state = "CLOSING" /\ inOrder
           /\ sock' = [sock EXCEPT ![e] = [r EXCEPT !.state = "TIMED_WAIT", !.timer = Msl2]]
           /\ disconnect' = Woken(disconnect, e)
           /\ net' = net
        \/ /\ r.state = "LAST_ACK" /\ inOrder
           /\ sock' = [sock EXCEPT ![e] = Cleaned(r)]
           /\ disconnect' = Woken(disconnect, e)
           /\ net' = net
        \/ /\ r.state = "TIMED_WAIT" /\ m.type = "FIN"
           /\ sock' = [sock EXCEPT ![e] = [r EXCEPT !.timer = Msl2]]
           /\ Send({Ack(e, r)})
           /\ UNCHANGED disconnect
        \/ /\ \/ r.state \in {"ESTABLISHED", "FIN_WAIT_2"} /\ r.fin # r.rx
              \/ r.state = "FIN_WAIT_1" /\ r.fin # r.rx /\ ~(r.finAcked /\ r.fin = 0)
              \/ r.state \in {"CLOSING", "LAST_ACK"} /\ ~inOrder
              \/ r.state = "TIMED_WAIT" /\ m.type # "FIN"
              \/ r.state = "CLOSE_WAIT"
           /\ sock' = [sock EXCEPT ![e] = r]
           /\ UNCHANGED <<disconnect, net>>

InWindow(r, m) == r.rx <= m.seq /\ m.seq < r.rx + Window

\* nx_tcp_socket_packet_process from SYN_RECEIVED on, in its order: outside of
\* the window, reset, SYN, an acknowledgement of what was not sent, the state's
\* handler.  A challenge is answered while its budget lasts.
Outside(e, m) ==
    /\ ~InWindow(sock[e], m)
    /\ IF ~IsReset(m) /\ m.seq + 1 >= sock[e].rx THEN Send({Ack(e, sock[e])}) ELSE net' = net
    /\ UNCHANGED <<sock, connect, disconnect>>

Challenge(e) ==
    /\ Send({Ack(e, sock[e])}) \/ net' = net
    /\ UNCHANGED <<sock, connect, disconnect>>

Inside(e, m) ==
    /\ InWindow(sock[e], m)
    /\ \/ /\ IsReset(m) /\ sock[e].state = "TIMED_WAIT"
          /\ UNCHANGED <<sock, connect, disconnect, net>>
       \/ /\ IsReset(m) /\ sock[e].state # "TIMED_WAIT"
          /\ IF m.seq = sock[e].rx THEN ConnectionReset(e) /\ net' = net ELSE Challenge(e)
       \/ m.type \in {"SYN", "SYN_ACK"} /\ Challenge(e)
       \/ m.type \in {"ACK", "FIN"} /\ sock[e].state = "SYN_RECEIVED" /\ SynReceived(e, m)
       \/ /\ m.type \in {"ACK", "FIN"} /\ sock[e].state # "SYN_RECEIVED"
          /\ IF m.ack > sock[e].tx THEN Send({Ack(e, sock[e])}) /\ UNCHANGED <<sock, disconnect>>
                                   ELSE StateHandler(e, m)
          /\ UNCHANGED connect

\* A socket that has a peer gets the peer's segments (nx_tcp_packet_process); in
\* CLOSED it drops them.
SocketInput(e, m) ==
    /\ sock[e].peer
    /\ \/ /\ sock[e].state = "CLOSED"
          /\ UNCHANGED <<sock, connect, disconnect, net>>
       \/ sock[e].state = "SYN_SENT" /\ SynSent(e, m)
       \/ sock[e].state \in Synchronised \cup {"SYN_RECEIVED"} /\ (Outside(e, m) \/ Inside(e, m))
    /\ UNCHANGED <<entry, clock>>

\* nx_tcp_syncache_acceptable, for an entry
Completes(n, m) == m.seq = n.irs + 1 /\ m.ack = n.iss + 1

\* nx_tcp_syncache_unacceptable
Unacceptable(e, m) ==
    LET n == entry[e]
    IN  \/ /\ ~(n.irs < m.seq /\ m.seq <= n.irs + Window)
           /\ Send({Segment(e, "ACK", n.iss + 1, n.irs + 1)})
        \/ /\ n.irs < m.seq /\ m.seq <= n.irs + Window
           /\ IF m.ack # n.iss + 1 THEN Send({Rst(e, m)}) ELSE net' = net

\* A SYN that repeats the one recorded changes nothing; another one replaces it.
Recorded(n, m) == IF m.seq = n.irs THEN n ELSE [irs |-> m.seq, iss |-> Iss(m.seq, period)]

\* The SYN cache takes a segment for a listening port.  A SYN makes, replaces or
\* repeats the entry, answered when a socket is parked; an acknowledgement with
\* the entry's numbers connects the socket (a FIN that comes with it is lost), a
\* reset ends the entry.
Passive(e, m) ==
    /\ sock[e].state = "LISTEN" /\ ~sock[e].peer /\ m.type # "SYN_ACK"
    /\ \/ /\ m.type = "SYN"
          /\ entry' = [entry EXCEPT ![e] = Recorded(@, m)]
          /\ IF sock[e].parked THEN Send({SynAck(e, entry'[e])}) ELSE net' = net
          /\ sock' = sock
       \/ /\ m.type \in {"ACK", "FIN"} /\ entry[e] = NoEntry
          /\ Send({Rst(e, m)})
          /\ UNCHANGED <<sock, entry>>
       \/ /\ m.type \in {"ACK", "FIN"} /\ entry[e] # NoEntry /\ ~sock[e].parked
          /\ UNCHANGED <<sock, entry, net>>
       \/ /\ m.type \in {"ACK", "FIN"} /\ entry[e] # NoEntry /\ sock[e].parked
          /\ Completes(entry[e], m)
          /\ sock' = [sock EXCEPT ![e] = [Fresh EXCEPT !.state = "ESTABLISHED", !.server = TRUE, !.peer = TRUE,
                                                       !.tx = m.ack, !.rx = m.seq]]
          /\ entry' = [entry EXCEPT ![e] = NoEntry]
          /\ net' = net
       \/ /\ m.type \in {"ACK", "FIN"} /\ entry[e] # NoEntry /\ sock[e].parked
          /\ ~Completes(entry[e], m) /\ Unacceptable(e, m)
          /\ UNCHANGED <<sock, entry>>
       \/ /\ IsReset(m)
          /\ entry' = IF m.seq = entry[e].irs + 1 THEN [entry EXCEPT ![e] = NoEntry] ELSE entry
          /\ UNCHANGED <<sock, net>>
    /\ UNCHANGED <<connect, disconnect, clock>>

\* nx_tcp_syncache_periodic: the SYN-ACK is sent again, or the entry expires.
EntryTimer(e) ==
    /\ entry[e] # NoEntry
    /\ \/ sock[e].parked /\ Send({SynAck(e, entry[e])}) /\ entry' = entry
       \/ entry' = [entry EXCEPT ![e] = NoEntry] /\ net' = net
    /\ UNCHANGED <<sock, connect, disconnect, clock>>

\* nx_tcp_no_connection_reset: nobody takes the segment.
NoConnection(e, m) ==
    /\ ~sock[e].peer
    /\ sock[e].state = "CLOSED" \/ m.type = "SYN_ACK"
    /\ IF IsReset(m) THEN net' = net ELSE Send({Rst(e, m)})
    /\ UNCHANGED <<sock, entry, connect, disconnect, clock>>

Receive(e, m) ==
    /\ m.to = e
    /\ SocketInput(e, m) \/ Passive(e, m) \/ NoConnection(e, m)

-----------------------------------------------------------------------------
Next ==
    \/ CounterSteps
    \/ \E e \in Ends :
        \/ Connect(e) \/ ConnectTimeout(e) \/ Listen(e) \/ Unlisten(e)
        \/ DisconnectOpening(e) \/ DisconnectNow(e) \/ Disconnect(e)
        \/ DisconnectTimeout(e) \/ DisconnectReturns(e)
        \/ Timer(e) \/ EntryTimer(e)
        \/ \E m \in net : Receive(e, m)

\* The IP thread serves its timer event again and again.
Spec == Init /\ [][Next]_vars /\ \A e \in Ends : WF_vars(Timer(e))

-----------------------------------------------------------------------------
(* Properties *)

\* Two ends that are both synchronised are in the same connection, whatever was
\* left in the network by another one: established, each expects what the other
\* sends next.  A FIN that is sent, or was taken from a server that has closed
\* since and was opened by the same SYN again, makes the difference of one.
SameConnection ==
    \A e \in Ends :
        LET r == sock[e]
            o == sock[Other(e)]
        IN  r.state \in Synchronised /\ o.state \in Synchronised
              => /\ r.tx <= o.rx + 1 /\ o.rx <= r.tx + 1
                 /\ r.state = "ESTABLISHED" /\ o.state = "ESTABLISHED" => o.rx = r.tx

\* A thread waits in connect or disconnect only while the socket is in the
\* course of what it waits for, and the states that must not last have a timer.
WaitHasCause ==
    \A e \in Ends :
        /\ connect[e] = "waiting" => sock[e].state \in Opening
        /\ disconnect[e] = "waiting" => sock[e].state \in SendsFin \cup {"FIN_WAIT_2"}
        /\ sock[e].state \in SendsFin \cup {"SYN_SENT", "TIMED_WAIT"} <=> sock[e].timer > 0

\* An end that opens or closes gets out of it, however its segments are lost.
\* FIN_WAIT_2 lasts as long as the peer or the caller wants; SYN_RECEIVED,
\* reached by a simultaneous open, has no timer.
Unsettled(e) == sock[e].state \in SendsFin \cup {"SYN_SENT", "TIMED_WAIT"}
Settles == \A e \in Ends : Unsettled(e) ~> ~Unsettled(e)

=============================================================================
