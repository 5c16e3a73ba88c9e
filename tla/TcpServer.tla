------------------------------ MODULE TcpServer ------------------------------
(***************************************************************************)
(* Passive opens on one port: the listen request with the one socket parked *)
(* on it, the SYN cache of nx_tcp_syncache.c behind it, and the calls listen, *)
(* accept, disconnect, unaccept, relisten and unlisten of the server's       *)
(* threads, with clients behind a network that loses, repeats and reorders.  *)
(*                                                                           *)
(* Every handler runs under the IP mutex and is one step; a thread that      *)
(* suspended in accept or disconnect runs on in a step of its own, some time *)
(* after it was resumed.                                                     *)
(*                                                                           *)
(* Abstracted: a connection is a client and its initial sequence number irs; *)
(* our own initial number is a function of them and of the way the SYN was   *)
(* answered, from a cached entry or by a cookie, so it is that way's name.   *)
(* Time is not counted: a timer may fire whenever it runs.  The closing      *)
(* handshake is one step (TcpSender has its details), data is left out but   *)
(* for a FIN, which stands for any segment that follows the handshake.       *)
(***************************************************************************)
EXTENDS Naturals, FiniteSets, SequencesExt

CONSTANTS
    Sockets,        \* NX_TCP_SOCKETs the server uses in turn
    Clients,        \* remote addresses and ports
    None,           \* no socket, no client
    Backlog,        \* nx_tcp_listen_queue_maximum
    CacheSize,      \* NX_TCP_SYNCACHE_SIZE
    SocketIsShared, \* several threads make calls on one socket at a time
    MaxIrs,         \* bound: connection attempts of the clients together
    MaxOthers,      \* bound: entries other ports use at a time
    MaxNet          \* bound: segments the network holds

ASSUME ServerAssumption ==
    /\ IsFiniteSet(Sockets) /\ IsFiniteSet(Clients)
    /\ None \notin Sockets \cup Clients
    /\ {Backlog, MaxOthers} \subseteq Nat /\ {CacheSize, MaxIrs, MaxNet} \subseteq Nat \ {0}
    /\ SocketIsShared \in BOOLEAN

VARIABLES
    sock,       \* the sockets: nx_tcp_socket_state, _client_type, _bound_next, _connect_ip ...
    listen,     \* the listen request: active or not, nx_tcp_listen_socket_ptr
    half,       \* nx_tcp_syncache_age_head .. tail: handshakes not finished
    queued,     \* nx_tcp_syncache_accept_head .. tail: finished, no socket yet
    others,     \* entries of the cache that other ports use
    accept,     \* the thread in nx_tcp_server_socket_accept of each socket
    disconnect, \* the thread in nx_tcp_socket_disconnect of each socket
    client,     \* the clients
    net         \* segments in the network, both ways

vars == <<sock, listen, half, queued, others, accept, disconnect, client, net>>
cacheVars == <<half, queued, others>>
threadVars == <<accept, disconnect>>

Numbers == {"cached", "cookie", "none"}
Opening == {"LISTEN", "SYN_RECEIVED"}
Synchronised == {"ESTABLISHED", "CLOSE_WAIT", "FIN_WAIT", "LAST_ACK", "TIMED_WAIT"}

Segments == [to : {"server"}, type : {"SYN", "ACK", "FIN", "RST"}, peer : Clients,
             irs : 1..MaxIrs, iss : Numbers]
            \cup
            [to : {"client"}, type : {"SYN_ACK", "ACK", "RST"}, peer : Clients,
             irs : 1..MaxIrs, iss : Numbers]

TypeOK ==
    /\ sock \in [Sockets -> [state : {"CLOSED"} \cup Opening \cup Synchronised,
                             server : BOOLEAN, bound : BOOLEAN,
                             peer : Clients \cup {None}, irs : 0..MaxIrs, iss : Numbers,
                             held : Seq({"FIN", "RST"})]]
    /\ listen \in [on : BOOLEAN, slot : Sockets \cup {None}]
    /\ half \in Seq([peer : Clients, irs : 1..MaxIrs,
                     state : {"DEFERRED", "SYN_RECEIVED"}])
    /\ queued \in Seq([peer : Clients, irs : 1..MaxIrs, iss : Numbers])
    /\ others \in 0..MaxOthers /\ others + Len(half) + Len(queued) <= CacheSize
    /\ accept \in [Sockets -> {"none", "waiting", "failed"}]
    /\ disconnect \in [Sockets -> {"none", "waiting", "woken"}]
    /\ client \in [Clients -> [state : {"closed", "syn_sent", "established"},
                               irs : 0..MaxIrs, iss : Numbers]]
    /\ net \subseteq Segments

Fresh == [state |-> "CLOSED", server |-> FALSE, bound |-> FALSE, peer |-> None, irs |-> 0,
          iss |-> "none", held |-> <<>>]

Init ==
    /\ sock = [s \in Sockets |-> Fresh]
    /\ listen = [on |-> FALSE, slot |-> None]
    /\ half = <<>> /\ queued = <<>> /\ others = 0
    /\ accept = [s \in Sockets |-> "none"]
    /\ disconnect = [s \in Sockets |-> "none"]
    /\ client = [c \in Clients |-> [state |-> "closed", irs |-> 0, iss |-> "none"]]
    /\ net = {}

-----------------------------------------------------------------------------
(* The network *)

\* A segment stays, and may arrive again, or never, which is to lose it.  The
\* network holds MaxNet: what is pushed out is lost.
Put(new) ==
    LET all == net \cup new
    IN  IF Cardinality(all) <= MaxNet THEN {all}
        ELSE {n \in kSubset(MaxNet, all) : new \subseteq n \/ Cardinality(new) > MaxNet}

ToServer(type, c, irs, iss) == [to |-> "server", type |-> type, peer |-> c, irs |-> irs, iss |-> iss]
ToClient(type, c, irs, iss) == [to |-> "client", type |-> type, peer |-> c, irs |-> irs, iss |-> iss]

Reset(e) == ToClient("RST", e.peer, e.irs, "none")

-----------------------------------------------------------------------------
(* The SYN cache *)

\* _nx_tcp_syncache_socket_ready of the socket parked on the listen request
Ready == /\ listen.slot # None
         /\ sock[listen.slot].state \in Opening
         /\ ~sock[listen.slot].bound

\* Mutant: one entry too many.
Room_OffByOne(list) == others + Len(list) + Len(queued) <= CacheSize

\* The cache has a free entry, with list the handshakes not finished.
Room(list) == others + Len(list) + Len(queued) < CacheSize

With(list, st) == {i \in DOMAIN list : list[i].state = st}
Oldest(list, st) == CHOOSE i \in With(list, st) : \A j \in With(list, st) : i <= j
Of(list, c) == {i \in DOMAIN list : list[i].peer = c}

\* _nx_tcp_syncache_answer of the i-th entry, and the SYN-ACK it sends
Answered(list, i) == [list EXCEPT ![i].state = "SYN_RECEIVED"]
SynAck(e) == ToClient("SYN_ACK", e.peer, e.irs, "cached")

\* Mutant: an answered entry that goes away answers nobody else.
AnswerDeferred_Never(list, ready) == half' = list /\ net' = net

\* _nx_tcp_syncache_answer_deferred: the oldest deferred entry of list, when
\* a socket waits and nothing is queued or answered already
AnswerDeferred(list, ready) ==
    IF ready /\ queued' = <<>> /\ With(list, "SYN_RECEIVED") = {} /\ With(list, "DEFERRED") # {}
      THEN LET i == Oldest(list, "DEFERRED")
           IN  half' = Answered(list, i) /\ net' \in Put({SynAck(list[i])})
      ELSE half' = list /\ net' = net

\* _nx_tcp_syncache_hand_over of a finished handshake to socket s.  With accept
\* called the socket is connected and the thread in accept resumed; without,
\* it waits for accept in the listen state, bound and with its peer.
HandOver(s, e) ==
    LET called == sock[s].state = "SYN_RECEIVED"
    IN  /\ sock' = [sock EXCEPT ![s] =
                      [state |-> IF called THEN "ESTABLISHED" ELSE "LISTEN", server |-> TRUE,
                       bound |-> TRUE, peer |-> e.peer, irs |-> e.irs, iss |-> e.iss, held |-> <<>>]]
        /\ listen' = IF listen.slot = s THEN [listen EXCEPT !.slot = None] ELSE listen
        /\ accept' = IF called /\ accept[s] = "waiting" THEN [accept EXCEPT ![s] = "none"] ELSE accept

\* _nx_tcp_syncache_awaiting_accept
AwaitingAccept(s) == /\ sock[s].state = "LISTEN" /\ sock[s].server /\ sock[s].bound
                     /\ sock[s].peer # None

\* _nx_tcp_syncache_syn_received, past an entry of the client that is not for
\* this SYN: list is what is left.  With no socket ready the SYN waits, and
\* drives out the oldest one that waits when the backlog is full; with no
\* entry free it is answered by a cookie and forgotten.
NewSyn(c, irs, list) ==
    LET entry == [peer |-> c, irs |-> irs, state |-> "DEFERRED"]
        full == /\ ~Ready /\ Room(list)
                /\ Cardinality(With(list, "DEFERRED")) + Len(queued) >= Backlog
        kept == IF full /\ With(list, "DEFERRED") # {}
                  THEN RemoveAt(list, Oldest(list, "DEFERRED")) ELSE list
    IN  IF full /\ With(list, "DEFERRED") = {}
          THEN half' = list /\ net' = net
        ELSE IF ~Room(list)
          THEN half' = list /\ net' \in Put({ToClient("SYN_ACK", c, irs, "cookie")})
        ELSE IF Ready
          THEN /\ half' = Append(kept, [entry EXCEPT !.state = "SYN_RECEIVED"])
               /\ net' \in Put({SynAck(entry)})
          ELSE half' = Append(kept, entry) /\ net' = net

\* _nx_tcp_syncache_syn_received: a SYN that is repeated is answered as before,
\* or now if it waited for a socket; another connection of the client's takes
\* the place of the old one.
SynReceived(m) ==
    /\ UNCHANGED <<queued, others, sock, listen, threadVars, client>>
    /\ \/ /\ Of(queued, m.peer) # {}
          /\ UNCHANGED <<half, net>>
       \/ /\ Of(queued, m.peer) = {} /\ Of(half, m.peer) = {}
          /\ NewSyn(m.peer, m.irs, half)
       \/ \E i \in Of(half, m.peer) :
            IF half[i].irs # m.irs THEN NewSyn(m.peer, m.irs, RemoveAt(half, i))
            ELSE IF half[i].state = "DEFERRED" /\ ~Ready THEN UNCHANGED <<half, net>>
            ELSE /\ half' = IF half[i].state = "DEFERRED" THEN Answered(half, i) ELSE half
                 /\ net' \in Put({SynAck(half[i])})

\* A finished handshake goes to the socket that waits, to the accept queue, or
\* is reset.
Finish(e) ==
    \/ /\ Ready
       /\ HandOver(listen.slot, e)
       /\ UNCHANGED <<queued, net>>
    \/ /\ ~Ready
       /\ IF ~Room(half') \/ Len(queued) >= Backlog
            THEN queued' = queued /\ net' \in Put({Reset(e)})
            ELSE queued' = Append(queued, e) /\ net' = net
       /\ UNCHANGED <<sock, listen, accept>>

\* Mutant: an acknowledgement of any number of ours finishes the handshake.
Matches_AnyIss(e, m) == e.state = "SYN_RECEIVED" /\ e.irs = m.irs

\* The numbers of an acknowledgement are those of the entry.
Matches(e, m) == e.state = "SYN_RECEIVED" /\ e.irs = m.irs /\ m.iss = "cached"

\* _nx_tcp_syncache_ack_received.  Without an entry the acknowledgement must
\* carry a cookie that is not too old, else _nx_tcp_no_connection_reset.
AckReceived(m) ==
    /\ UNCHANGED <<others, disconnect, client>>
    /\ \/ /\ Of(queued, m.peer) # {}
          /\ UNCHANGED <<half, queued, sock, listen, accept, net>>
       \/ \E i \in Of(half, m.peer) :
            IF Matches(half[i], m)
              THEN /\ half' = RemoveAt(half, i)
                   /\ Finish([peer |-> m.peer, irs |-> m.irs, iss |-> "cached"])
              ELSE /\ IF half[i].state = "DEFERRED" THEN net' = net
                      ELSE \/ net' \in Put({Reset(m)})
                           \/ half[i].irs # m.irs /\ net' \in Put({ToClient("ACK", m.peer, half[i].irs, "cached")})
                   /\ UNCHANGED <<half, queued, sock, listen, accept>>
       \/ /\ Of(queued, m.peer) = {} /\ Of(half, m.peer) = {}
          /\ half' = half
          /\ \/ m.iss = "cookie" /\ Finish([peer |-> m.peer, irs |-> m.irs, iss |-> "cookie"])
             \/ net' \in Put({Reset(m)}) /\ UNCHANGED <<queued, sock, listen, accept>>

\* _nx_tcp_syncache_reset_received
ResetReceived(m) ==
    /\ UNCHANGED <<others, sock, listen, threadVars, client>>
    /\ \/ \E i \in Of(half, m.peer) :
            /\ half[i].irs = m.irs
            /\ queued' = queued
            /\ IF half[i].state = "SYN_RECEIVED" THEN AnswerDeferred(RemoveAt(half, i), Ready)
                                                 ELSE half' = RemoveAt(half, i) /\ net' = net
       \/ \E i \in Of(queued, m.peer) :
            /\ queued[i].irs = m.irs
            /\ queued' = RemoveAt(queued, i)
            /\ UNCHANGED <<half, net>>

\* _nx_tcp_syncache_periodic, for one entry: the SYN-ACK is sent again (not more
\* often than NX_TCP_SYNCACHE_RETRIES, but its time may be up sooner) ...
EntryResends(i) ==
    /\ half[i].state = "SYN_RECEIVED"
    /\ net' \in Put({SynAck(half[i])})
    /\ UNCHANGED <<half, queued, others, sock, listen, threadVars, client>>

\* ... or its time is up, and the next that waits is answered ...
EntryExpires(i) ==
    /\ queued' = queued
    /\ IF half[i].state = "SYN_RECEIVED" THEN AnswerDeferred(RemoveAt(half, i), Ready)
                                         ELSE half' = RemoveAt(half, i) /\ net' = net
    /\ UNCHANGED <<others, sock, listen, threadVars, client>>

\* ... and so it is in the accept queue, where the client is reset.
QueuedExpires(i) ==
    /\ queued' = RemoveAt(queued, i)
    /\ net' \in Put({Reset(queued[i])})
    /\ UNCHANGED <<half, others, sock, listen, threadVars, client>>

\* The cache is one for all ports: others take and give back entries.
OtherPorts ==
    /\ others' \in {others - 1, others + 1} \cap 0..MaxOthers
    /\ others' + Len(half) + Len(queued) <= CacheSize
    /\ UNCHANGED <<half, queued, sock, listen, threadVars, client, net>>

-----------------------------------------------------------------------------
(* A segment for a socket that has its peer *)

\* _nx_tcp_socket_block_cleanup of a record: the socket stays bound.  Its old
\* numbers are not used without a peer.
Cleaned(r) == [Fresh EXCEPT !.state = IF r.server THEN "LISTEN" ELSE "CLOSED",
                            !.server = r.server, !.bound = r.bound]

\* _nx_tcp_connect_cleanup of the thread suspended in accept of s
WakeAccept(s) == accept' = IF accept[s] = "waiting" THEN [accept EXCEPT ![s] = "failed"] ELSE accept

\* _nx_tcp_disconnect_cleanup, or the end of the closing handshake
WakeDisconnect(s) ==
    disconnect' = IF disconnect[s] = "waiting" THEN [disconnect EXCEPT ![s] = "woken"] ELSE disconnect

\* _nx_tcp_socket_connection_reset
ConnectionReset(s) ==
    /\ sock' = [sock EXCEPT ![s] = Cleaned(@)]
    /\ WakeAccept(s)
    /\ WakeDisconnect(s)

\* _nx_tcp_syncache_hold: what comes before accept is kept, not acknowledged.
Hold(s, m) ==
    LET r == sock[s]
        valid == /\ {"FIN", "RST"} \cap {r.held[i] : i \in DOMAIN r.held} = {}
                 /\ m.irs = r.irs
                 /\ m.type = "RST" \/ (m.type = "FIN" /\ m.iss = r.iss)
    IN  /\ sock' = IF valid THEN [sock EXCEPT ![s].held = Append(@, m.type)] ELSE sock
        /\ UNCHANGED <<accept, disconnect, net>>

\* _nx_tcp_socket_packet_process of a connected socket.  A RST or a SYN that is
\* out of place is answered by an acknowledgement, within a budget.
SocketInput(s, m) ==
    LET r == sock[s]
        mine == m.irs = r.irs /\ r.state # "TIMED_WAIT"
    IN  \/ /\ m.type = "RST" /\ mine
           /\ ConnectionReset(s)
           /\ net' = net
        \/ /\ m.type = "FIN" /\ mine /\ m.iss = r.iss /\ r.state = "ESTABLISHED"
           /\ sock' = [sock EXCEPT ![s].state = "CLOSE_WAIT"]
           /\ UNCHANGED <<accept, disconnect, net>>
        \/ /\ m.type = "SYN" \/ (m.type = "RST" /\ m.irs # r.irs)
           /\ net' \in Put({ToClient("ACK", r.peer, r.irs, r.iss)})
           /\ UNCHANGED <<sock, accept, disconnect>>

\* Mutant: only a connected socket is looked for.
Home_Connected(m) ==
    {s \in Sockets : sock[s].bound /\ sock[s].peer = m.peer /\ sock[s].state # "LISTEN"}

\* _nx_tcp_packet_process
Home(m) == {s \in Sockets : sock[s].bound /\ sock[s].peer = m.peer}

ServerReceives(m) ==
    /\ m.to = "server"
    /\ \/ \E s \in Home(m) : /\ IF AwaitingAccept(s) THEN Hold(s, m) ELSE SocketInput(s, m)
                             /\ UNCHANGED <<listen, cacheVars, client>>
       \/ /\ Home(m) = {} /\ listen.on
          /\ \/ m.type = "SYN" /\ SynReceived(m)
             \/ m.type \in {"ACK", "FIN"} /\ AckReceived(m)
             \/ m.type = "RST" /\ ResetReceived(m)
       \/ /\ Home(m) = {} /\ ~listen.on /\ m.type # "RST"
          /\ net' \in Put({Reset(m)})
          /\ UNCHANGED <<sock, listen, cacheVars, threadVars, client>>

-----------------------------------------------------------------------------
(* The calls *)

\* A call on a socket another thread is inside a call of.
May(s) == SocketIsShared \/ (accept[s] = "none" /\ disconnect[s] = "none")

\* nx_tcp_server_socket_listen
Listen(s) ==
    /\ May(s)
    /\ ~listen.on
    /\ sock[s].state = "CLOSED" /\ ~sock[s].bound
    /\ listen' = [on |-> TRUE, slot |-> s]
    /\ sock' = [sock EXCEPT ![s].state = "LISTEN", ![s].server = TRUE]
    /\ UNCHANGED <<cacheVars, threadVars, client, net>>

\* What accept finds of a connection that came before it: connected, closed by
\* the peer already, or reset already.
Accepted(r) ==
    LET now == [r EXCEPT !.state = "ESTABLISHED", !.held = <<>>]
    IN  IF r.held = <<>> THEN now
        ELSE IF Head(r.held) = "FIN" THEN [now EXCEPT !.state = "CLOSE_WAIT"] ELSE Cleaned(now)

\* nx_tcp_server_socket_accept of a connection that waits for it
AcceptNow(s) ==
    /\ May(s)
    /\ AwaitingAccept(s)
    /\ sock' = [sock EXCEPT ![s] = Accepted(@)]
    /\ UNCHANGED <<listen, cacheVars, threadVars, client, net>>

\* nx_tcp_server_socket_accept ahead of one, with a wait option or without.
\* (On a socket still bound after a connection the caller must unaccept first.)
Accept(s) ==
    /\ May(s) /\ accept[s] = "none"
    /\ sock[s].state \in Opening /\ ~sock[s].bound
    /\ sock' = [sock EXCEPT ![s].state = "SYN_RECEIVED"]
    /\ \E a \in {"none", "waiting"} : accept' = [accept EXCEPT ![s] = a]
    /\ UNCHANGED <<listen, cacheVars, disconnect, client, net>>

\* Its wait times out: nx_tcp_connect_cleanup ...
AcceptTimeout(s) ==
    /\ accept[s] = "waiting"
    /\ accept' = [accept EXCEPT ![s] = "failed"]
    /\ sock' = [sock EXCEPT ![s].state = IF sock[s].server THEN "LISTEN" ELSE "CLOSED"]
    /\ UNCHANGED <<listen, cacheVars, disconnect, client, net>>

\* ... and the thread runs on, without the IP mutex.
AcceptFails(s) ==
    /\ accept[s] = "failed"
    /\ accept' = [accept EXCEPT ![s] = "none"]
    /\ sock' = [sock EXCEPT ![s].state = "LISTEN"]
    /\ UNCHANGED <<listen, cacheVars, disconnect, client, net>>

\* nx_tcp_socket_disconnect, of a socket that is not connected yet ...
DisconnectOpening(s) ==
    /\ May(s)
    /\ sock[s].state = "SYN_RECEIVED"
    /\ sock' = [sock EXCEPT ![s].state = "LISTEN"]
    /\ WakeAccept(s)
    /\ UNCHANGED <<listen, cacheVars, disconnect, client, net>>

\* ... of one that is, without a wait option ...
DisconnectNow(s) ==
    /\ May(s)
    /\ sock[s].state \in {"ESTABLISHED", "CLOSE_WAIT"}
    /\ net' \in Put({Reset(sock[s])})
    /\ sock' = [sock EXCEPT ![s] = Cleaned(@)]
    /\ WakeAccept(s)
    /\ UNCHANGED <<listen, cacheVars, disconnect, client>>

\* ... and with one, up to the suspension.
Disconnect(s) ==
    /\ May(s) /\ disconnect[s] = "none"
    /\ sock[s].state \in {"ESTABLISHED", "CLOSE_WAIT"}
    /\ sock' = [sock EXCEPT ![s].state = IF @ = "ESTABLISHED" THEN "FIN_WAIT" ELSE "LAST_ACK"]
    /\ disconnect' = [disconnect EXCEPT ![s] = "waiting"]
    /\ UNCHANGED <<listen, cacheVars, accept, client, net>>

\* The closing handshake ends: nx_tcp_socket_state_fin_wait1, _fin_wait2,
\* _closing or _last_ack.
Closes(s) ==
    /\ \/ sock[s].state = "FIN_WAIT" /\ sock' = [sock EXCEPT ![s].state = "TIMED_WAIT"]
       \/ sock[s].state = "LAST_ACK" /\ sock' = [sock EXCEPT ![s] = Cleaned(@)]
    /\ WakeDisconnect(s)
    /\ UNCHANGED <<listen, cacheVars, accept, client, net>>

\* The timer of nx_tcp_fast_periodic_processing ends TIMED_WAIT, or gives the
\* closing handshake up.
ClosingExpires(s) ==
    /\ \/ sock[s].state \in {"FIN_WAIT", "LAST_ACK"} /\ ConnectionReset(s)
       \/ /\ sock[s].state = "TIMED_WAIT"
          /\ sock' = [sock EXCEPT ![s] = Cleaned(@)]
          /\ UNCHANGED threadVars
    /\ UNCHANGED <<listen, cacheVars, client, net>>

\* The wait of disconnect times out: nx_tcp_disconnect_cleanup ...
DisconnectTimeout(s) ==
    /\ disconnect[s] = "waiting"
    /\ disconnect' = [disconnect EXCEPT ![s] = "woken"]
    /\ UNCHANGED <<sock, listen, cacheVars, accept, client, net>>

\* ... and the thread has the IP mutex again.
DisconnectReturns(s) ==
    /\ disconnect[s] = "woken"
    /\ disconnect' = [disconnect EXCEPT ![s] = "none"]
    /\ sock' = IF sock[s].state = "TIMED_WAIT" THEN sock ELSE [sock EXCEPT ![s] = Cleaned(@)]
    /\ WakeAccept(s)
    /\ UNCHANGED <<listen, cacheVars, client, net>>

\* nx_tcp_server_socket_unaccept
Unaccept(s) ==
    /\ May(s)
    /\ \/ sock[s].state \in Synchronised \ {"ESTABLISHED"}
       \/ sock[s].state = "LISTEN"
       \/ sock[s].state = "CLOSED" /\ sock[s].bound
    /\ sock' = [sock EXCEPT ![s] = Fresh]
    /\ listen' = IF ~sock[s].bound /\ listen.slot = s THEN [listen EXCEPT !.slot = None] ELSE listen
    /\ WakeDisconnect(s)
    /\ UNCHANGED <<cacheVars, accept, client, net>>

\* nx_tcp_server_socket_relisten: the first connection of the accept queue is
\* handed over, or the socket parked and the next deferred SYN answered.
Relisten(s) ==
    /\ May(s)
    /\ sock[s].state = "CLOSED" /\ ~sock[s].bound
    /\ listen.on /\ listen.slot = None
    /\ \/ /\ queued # <<>>
          /\ HandOver(s, Head(queued))
          /\ queued' = Tail(queued)
          /\ UNCHANGED <<half, net>>
       \/ /\ queued = <<>>
          /\ listen' = [listen EXCEPT !.slot = s]
          /\ sock' = [sock EXCEPT ![s].state = "LISTEN", ![s].server = TRUE]
          /\ UNCHANGED <<queued, accept>>
          /\ AnswerDeferred(half, TRUE)
    /\ UNCHANGED <<others, disconnect, client>>

\* Mutant: the state of the parked socket is not looked at.
Unlisten_AnyState ==
    /\ listen.on
    /\ SocketIsShared \/ \A s \in Sockets : listen.slot = s => accept[s] # "failed"
    /\ half' = <<>> /\ queued' = <<>>
    /\ net' \in Put({Reset(queued[i]) : i \in DOMAIN queued})
    /\ listen' = [on |-> FALSE, slot |-> None]
    /\ sock' = IF listen.slot = None THEN sock
               ELSE [sock EXCEPT ![listen.slot].state = "CLOSED"]
    /\ UNCHANGED <<others, threadVars, client>>

\* nx_tcp_server_socket_unlisten: the cache is flushed first, whatever the
\* socket's state then says.
Unlisten ==
    /\ listen.on
    /\ SocketIsShared \/ \A s \in Sockets : listen.slot = s => accept[s] # "failed"
    /\ half' = <<>> /\ queued' = <<>>
    /\ net' \in Put({Reset(queued[i]) : i \in DOMAIN queued})
    /\ IF listen.slot # None /\ sock[listen.slot].state # "LISTEN"
         THEN UNCHANGED <<sock, listen>>
         ELSE /\ listen' = [on |-> FALSE, slot |-> None]
              /\ sock' = IF listen.slot = None THEN sock
                         ELSE [sock EXCEPT ![listen.slot].state = "CLOSED"]
    /\ UNCHANGED <<others, threadVars, client>>

-----------------------------------------------------------------------------
(* The clients *)

ServerVars == <<sock, listen, cacheVars, threadVars>>

\* The bound on the attempts of all clients together.
AttemptsLeft == MapThenSumSet(LAMBDA d : client[d].irs, Clients) < MaxIrs

ClientConnects(c) ==
    /\ client[c].state = "closed"
    /\ client[c].irs < MaxIrs /\ AttemptsLeft
    /\ client' = [client EXCEPT ![c] = [state |-> "syn_sent", irs |-> @.irs + 1, iss |-> "none"]]
    /\ net' \in Put({ToServer("SYN", c, client'[c].irs, "none")})
    /\ UNCHANGED ServerVars

ClientResends(c) ==
    /\ \/ /\ client[c].state = "syn_sent"
          /\ net' \in Put({ToServer("SYN", c, client[c].irs, "none")})
       \/ /\ client[c].state = "established"
          /\ net' \in Put({ToServer("FIN", c, client[c].irs, client[c].iss)})
    /\ UNCHANGED <<ServerVars, client>>

\* It resets the connection, or only forgets it.
ClientEnds(c) ==
    /\ client[c].state # "closed"
    /\ client' = [client EXCEPT ![c].state = "closed", ![c].iss = "none"]
    /\ \/ net' = net
       \/ net' \in Put({ToServer("RST", c, client[c].irs, "none")})
    /\ UNCHANGED ServerVars

ClientReceives(m) ==
    LET c == m.peer
        r == client[c]
        mine == r.state # "closed" /\ m.irs = r.irs
        now == IF r.state = "syn_sent" THEN [r EXCEPT !.state = "established", !.iss = m.iss] ELSE r
    IN  /\ m.to = "client"
        /\ \/ /\ m.type = "SYN_ACK" /\ mine
              /\ client' = [client EXCEPT ![c] = now]
              /\ net' \in Put({ToServer("ACK", c, m.irs, now.iss)})
           \/ /\ m.type = "RST" /\ mine
              /\ client' = [client EXCEPT ![c].state = "closed", ![c].iss = "none"]
              /\ net' = net
           \/ /\ m.type \in {"SYN_ACK", "ACK"} /\ ~mine
              /\ net' \in Put({ToServer("RST", c, m.irs, "none")})
              /\ client' = client
        /\ UNCHANGED ServerVars

-----------------------------------------------------------------------------
Call(s) ==
    \/ Listen(s) \/ AcceptNow(s) \/ Accept(s) \/ DisconnectOpening(s) \/ DisconnectNow(s)
    \/ Disconnect(s) \/ Unaccept(s) \/ Relisten(s)

Resumed(s) == AcceptFails(s) \/ DisconnectReturns(s)

SocketTimer(s) == AcceptTimeout(s) \/ DisconnectTimeout(s) \/ ClosingExpires(s)

CacheTimer ==
    \/ \E i \in DOMAIN half : EntryResends(i) \/ EntryExpires(i)
    \/ \E i \in DOMAIN queued : QueuedExpires(i)

Next ==
    \/ \E s \in Sockets : Call(s) \/ Resumed(s) \/ SocketTimer(s) \/ Closes(s)
    \/ Unlisten
    \/ CacheTimer
    \/ OtherPorts
    \/ \E m \in net : ServerReceives(m) \/ ClientReceives(m)
    \/ \E c \in Clients : ClientConnects(c) \/ ClientResends(c) \/ ClientEnds(c)

Spec == Init /\ [][Next]_vars

-----------------------------------------------------------------------------
(* Properties *)

\* A client's connection is in one place: one entry of the cache, one of the
\* accept queue, or one socket, whatever SYNs, cookies and acknowledgements are
\* repeated or late.
OneHome ==
    \A c \in Clients : Cardinality(Of(half, c)) + Cardinality(Of(queued, c))
                         + Cardinality({s \in Sockets : sock[s].bound /\ sock[s].peer = c}) <= 1

\* Both ends of a connection agree on its numbers: a socket that has its client
\* connected expects what the client sends and sends what the client expects.
Agreement ==
    \A s \in Sockets :
        LET c == sock[s].peer
        IN  sock[s].bound /\ c # None /\ client[c].state # "closed" /\ client[c].irs = sock[s].irs
              => client[c].state = "established" /\ client[c].iss = sock[s].iss

\* A SYN is not left waiting while a socket waits for one: when nothing is
\* answered and nothing queued, the parked socket has no deferred entry behind it.
NoIdleDeferred ==
    Ready /\ queued = <<>> /\ With(half, "SYN_RECEIVED") = {} => With(half, "DEFERRED") = {}

\* A thread suspended in accept is on the socket that the next handshake gets.
AcceptIsServed ==
    \A s \in Sockets : accept[s] = "waiting" => listen.slot = s /\ sock[s].state = "SYN_RECEIVED"

=============================================================================
