--------------------------- MODULE TcpServerProofs ---------------------------
(***************************************************************************)
(* Proofs about TcpServer for any number of sockets, clients, entries of    *)
(* the cache and segments, and any backlog.                                 *)
(*                                                                          *)
(* Two inductive invariants.  Base needs nothing of the callers: where a    *)
(* client's connection is (HomesApart) and that nothing on the server or in *)
(* the network has numbers the client has not used (NumbersKnown).  Served  *)
(* needs that one thread at a time makes calls on a socket, as the          *)
(* applications of NetX do: the parked socket is the one that is open and   *)
(* has no connection (SocketsServed), and nothing is queued behind it        *)
(* (CacheServed).                                                           *)
(***************************************************************************)
EXTENDS TcpServer, Lists, FiniteSetTheorems

Peers(list) == {list[i].peer : i \in DOMAIN list}

\* No two entries of a list are of one client.
Distinct(list) == \A i, j \in DOMAIN list : list[i].peer = list[j].peer => i = j

Connected(s) == sock[s].bound /\ sock[s].peer # None

\* What OneHome says without counting.
HomesApart ==
    /\ Distinct(half) /\ Distinct(queued)
    /\ Peers(half) \cap Peers(queued) = {}
    /\ \A s \in Sockets : Connected(s) => sock[s].peer \notin Peers(half) \cup Peers(queued)
    /\ \A s, t \in Sockets : Connected(s) /\ Connected(t) /\ sock[s].peer = sock[t].peer => s = t

\* The numbers e are those of the connection its client has, if it is the client's
\* current one, and else of an earlier one.
Current(e) ==
    /\ e.irs <= client[e.peer].irs
    /\ client[e.peer].state # "closed" /\ client[e.peer].irs = e.irs
         => client[e.peer].state = "established" /\ client[e.peer].iss = e.iss

Known(list) == \A i \in DOMAIN list : list[i].irs <= client[list[i].peer].irs

NetKnown ==
    \A m \in net : /\ m.irs <= client[m.peer].irs
                   /\ m.to = "server" /\ m.type \in {"ACK", "FIN"} => Current(m)

NumbersKnown ==
    /\ Known(half)
    /\ \A i \in DOMAIN queued : Current(queued[i])
    /\ \A s \in Sockets : Connected(s) => Current(sock[s])
    /\ NetKnown

\* A socket past the handshake has its client and the client's number.
PeerIsSet ==
    /\ \A s \in Sockets : sock[s].state \in Synchronised => Connected(s)
    /\ \A s \in Sockets : Connected(s) => sock[s].irs # 0

ClientIsNumbered == \A c \in Clients : client[c].state # "closed" => client[c].irs # 0

Base == TypeOK /\ HomesApart /\ NumbersKnown /\ PeerIsSet /\ ClientIsNumbered

\* A socket's record r, the threads a and d inside its calls and the listen
\* request's slot agree: the parked socket is the one that is open and free, a
\* thread in accept is on it or has timed out, and one in disconnect is alone.
Fits(s, r, a, d, slot) ==
    /\ slot = s <=> (r.state \in Opening /\ ~r.bound)
    /\ slot = s => r.server
    /\ a = "failed" => r.state = "LISTEN" /\ r.server
    /\ r.state = "SYN_RECEIVED" => ~r.bound
    /\ d # "none" => r.bound /\ a = "none"
    /\ a = "waiting" => slot = s /\ r.state = "SYN_RECEIVED"

SocketsServed == \A s \in Sockets : Fits(s, sock[s], accept[s], disconnect[s], listen.slot)

\* Nothing is queued while a socket is parked, a parked socket has no SYN waiting
\* behind it unless another is answered, and the cache is empty without a request.
CacheServed ==
    /\ listen.slot # None => listen.on /\ queued = <<>>
    /\ listen.slot # None /\ With(half, "SYN_RECEIVED") = {} => With(half, "DEFERRED") = {}
    /\ ~listen.on => half = <<>> /\ queued = <<>>

Served == SocketsServed /\ CacheServed

Records == [state : {"CLOSED"} \cup Opening \cup Synchronised, server : BOOLEAN, bound : BOOLEAN,
            peer : Clients \cup {None}, irs : 0..MaxIrs, iss : Numbers, held : Seq({"FIN", "RST"})]
HalfEntries == [peer : Clients, irs : 1..MaxIrs, state : {"DEFERRED", "SYN_RECEIVED"}]
QueueEntries == [peer : Clients, irs : 1..MaxIrs, iss : Numbers]

-----------------------------------------------------------------------------
(* The lists of the cache *)

\* An entry that is taken out of a list takes its client out.
LEMMA RemoveEntry ==
    ASSUME NEW S, NEW list \in Seq(S), NEW i \in DOMAIN list
    PROVE  LET r == RemoveAt(list, i)
           IN  /\ r \in Seq(S) /\ Len(r) = Len(list) - 1
               /\ \A j \in DOMAIN r : \E k \in DOMAIN list : k # i /\ r[j] = list[k]
               /\ \A k \in DOMAIN list : k # i => \E j \in DOMAIN r : r[j] = list[k]
               /\ Distinct(list) => Distinct(r) /\ Peers(r) = Peers(list) \ {list[i].peer}
<1> DEFINE r == RemoveAt(list, i)
           was(j) == IF j < i THEN j ELSE j + 1
<1>1. r \in Seq(S) /\ Len(r) = Len(list) - 1  BY RemoveAtProperties
<1>2. /\ \A j \in DOMAIN r : was(j) \in DOMAIN list /\ was(j) # i /\ r[j] = list[was(j)]
      /\ \A j, k \in DOMAIN r : was(j) = was(k) => j = k
      /\ \A k \in DOMAIN list : k # i => \E j \in DOMAIN r : was(j) = k
  BY RemoveAtPlaces
<1> HIDE DEF r, was
<1>3. /\ \A j \in DOMAIN r : \E k \in DOMAIN list : k # i /\ r[j] = list[k]
      /\ \A k \in DOMAIN list : k # i => \E j \in DOMAIN r : r[j] = list[k]
  BY <1>2
<1>4. ASSUME Distinct(list) PROVE Distinct(r) /\ Peers(r) = Peers(list) \ {list[i].peer}
  <2>1. Distinct(r)  BY <1>2, <1>4 DEF Distinct
  <2>2. Peers(r) = Peers(list) \ {list[i].peer}  BY <1>3, <1>4 DEF Distinct, Peers
  <2> QED  BY <2>1, <2>2
<1> QED  BY <1>1, <1>3, <1>4 DEF r

\* An entry that is appended brings its client in.
LEMMA AppendEntry ==
    ASSUME NEW S, NEW list \in Seq(S), NEW e \in S
    PROVE  LET a == Append(list, e)
           IN  /\ a \in Seq(S) /\ Len(a) = Len(list) + 1
               /\ \A j \in DOMAIN a : a[j] = e \/ \E k \in DOMAIN list : a[j] = list[k]
               /\ \E j \in DOMAIN a : a[j] = e
               /\ Peers(a) = Peers(list) \cup {e.peer}
               /\ Distinct(list) /\ e.peer \notin Peers(list) => Distinct(a)
<1> DEFINE a == Append(list, e)
<1>1. /\ a \in Seq(S) /\ Len(a) = Len(list) + 1
      /\ \A i \in 1..Len(list) : a[i] = list[i]
      /\ a[Len(list) + 1] = e
  BY AppendProperties
<1>2. /\ Len(list) \in Nat /\ DOMAIN list = 1..Len(list) /\ DOMAIN a = 1..(Len(list) + 1)
  BY <1>1, LenProperties
<1> HIDE DEF a
<1>3. /\ \A j \in DOMAIN a : (j = Len(list) + 1 /\ a[j] = e) \/ (j \in DOMAIN list /\ a[j] = list[j])
      /\ DOMAIN list \subseteq DOMAIN a /\ Len(list) + 1 \in DOMAIN a
  BY <1>1, <1>2
<1>4. \A j \in DOMAIN a : a[j] = e \/ \E k \in DOMAIN list : a[j] = list[k]  BY <1>3
<1>5. \E j \in DOMAIN a : a[j] = e  BY <1>1, <1>3
<1>6. Peers(a) = Peers(list) \cup {e.peer}
  <2>1. \A j \in DOMAIN list : j \in DOMAIN a /\ a[j] = list[j]  BY <1>1, <1>2, <1>3
  <2> QED  BY <1>4, <1>5, <2>1 DEF Peers
<1>7. ASSUME Distinct(list), e.peer \notin Peers(list) PROVE Distinct(a)
  BY <1>3, <1>7 DEF Distinct, Peers
<1> QED  BY <1>1, <1>4, <1>5, <1>6, <1>7 DEF a

\* Relisten takes the first entry.
LEMMA TailEntry ==
    ASSUME NEW S, NEW list \in Seq(S), list # <<>>
    PROVE  LET t == Tail(list)
           IN  /\ t \in Seq(S) /\ Len(t) = Len(list) - 1
               /\ \A j \in DOMAIN t : \E k \in DOMAIN list : t[j] = list[k]
               /\ 1 \in DOMAIN list /\ Head(list) = list[1]
               /\ Distinct(list) => Distinct(t) /\ Peers(t) = Peers(list) \ {Head(list).peer}
<1> DEFINE t == Tail(list)
<1>1. /\ t \in Seq(S) /\ Len(t) = Len(list) - 1 /\ Len(list) \in Nat
      /\ \A i \in 1..Len(t) : t[i] = list[i + 1]
      /\ DOMAIN t = 1..Len(t) /\ DOMAIN list = 1..Len(list)
  BY HeadTailProperties, LenProperties
<1>2. 1 \in DOMAIN list /\ Head(list) = list[1]
  <2>1. Len(list) # 0  BY EmptySeq
  <2> QED  BY <1>1, <2>1
<1> HIDE DEF t
<1>3. /\ \A j \in DOMAIN t : j + 1 \in DOMAIN list /\ j + 1 # 1 /\ t[j] = list[j + 1]
      /\ \A k \in DOMAIN list : k # 1 => k - 1 \in DOMAIN t /\ t[k - 1] = list[k]
  BY <1>1
<1>4. ASSUME Distinct(list) PROVE Distinct(t) /\ Peers(t) = Peers(list) \ {list[1].peer}
  <2>1. Distinct(t)
    <3> SUFFICES ASSUME NEW i \in DOMAIN t, NEW j \in DOMAIN t, t[i].peer = t[j].peer PROVE i = j
      BY DEF Distinct
    <3>1. i + 1 = j + 1  BY <1>3, <1>4 DEF Distinct
    <3> QED  BY <1>1, <3>1
  <2>2. Peers(t) = Peers(list) \ {list[1].peer}  BY <1>2, <1>3, <1>4 DEF Distinct, Peers
  <2> QED  BY <2>1, <2>2
<1> QED  BY <1>1, <1>2, <1>3, <1>4 DEF t

\* An answer changes nothing but the state of its entry.
LEMMA AnsweredEntry ==
    ASSUME NEW list \in Seq(HalfEntries), NEW i \in DOMAIN list
    PROVE  LET a == Answered(list, i)
           IN  /\ a \in Seq(HalfEntries) /\ Len(a) = Len(list) /\ DOMAIN a = DOMAIN list
               /\ \A j \in DOMAIN a : a[j].peer = list[j].peer /\ a[j].irs = list[j].irs
               /\ a[i].state = "SYN_RECEIVED"
               /\ Distinct(list) => Distinct(a)
               /\ Peers(a) = Peers(list)
<1> DEFINE a == Answered(list, i)
           e == [list[i] EXCEPT !.state = "SYN_RECEIVED"]
<1>1. i \in 1..Len(list) /\ DOMAIN list = 1..Len(list) /\ list[i] \in HalfEntries
  BY LenProperties, ElementOfSeq
<1>2. e \in HalfEntries /\ e.peer = list[i].peer /\ e.irs = list[i].irs /\ e.state = "SYN_RECEIVED"
  BY <1>1 DEF HalfEntries
<1>3. a = [list EXCEPT ![i] = e]  BY DEF Answered
<1> HIDE DEF e
<1>4. /\ a \in Seq(HalfEntries) /\ Len(a) = Len(list)
      /\ \A j \in 1..Len(list) : a[j] = IF j = i THEN e ELSE list[j]
  BY <1>1, <1>2, <1>3, ExceptSeq
<1> HIDE DEF a
<1>5. DOMAIN a = DOMAIN list  BY <1>1, <1>4, LenProperties
<1>6. \A j \in DOMAIN a : a[j].peer = list[j].peer /\ a[j].irs = list[j].irs
  BY <1>1, <1>2, <1>4, <1>5
<1>7. a[i].state = "SYN_RECEIVED"  BY <1>1, <1>2, <1>4
<1>8. Distinct(list) => Distinct(a)  BY <1>5, <1>6 DEF Distinct
<1>9. Peers(a) = Peers(list)  BY <1>5, <1>6 DEF Peers
<1> QED  BY <1>4, <1>5, <1>6, <1>7, <1>8, <1>9 DEF a

-----------------------------------------------------------------------------
(* The network *)

\* What is put into the network comes in, and nothing else does.
LEMMA PutNet == ASSUME NEW new, NEW n \in Put(new) PROVE n \subseteq net \cup new
BY DEF Put, kSubset

\* The segments the server sends carry numbers the client has used.
FromServer(m) == m \in Segments /\ m.to = "client" /\ m.irs <= client[m.peer].irs

\* A segment to a client with a number the client has used.
LEMMA ToClientIs ==
    ASSUME NEW type \in {"SYN_ACK", "ACK", "RST"}, NEW c \in Clients, NEW irs \in 1..MaxIrs,
           NEW iss \in Numbers, irs <= client[c].irs
    PROVE  FromServer(ToClient(type, c, irs, iss))
BY DEF FromServer, ToClient, Segments

\* _nx_tcp_no_connection_reset answers with the number it was sent.
LEMMA ResetIs ==
    ASSUME NEW e, e.peer \in Clients, e.irs \in 1..MaxIrs, e.irs <= client[e.peer].irs
    PROVE  FromServer(Reset(e))
BY ToClientIs DEF Reset, Numbers

\* _nx_tcp_syncache_answer answers with the number of its entry.
LEMMA SynAckIs ==
    ASSUME NEW e, e.peer \in Clients, e.irs \in 1..MaxIrs, e.irs <= client[e.peer].irs
    PROVE  FromServer(SynAck(e))
BY ToClientIs DEF SynAck, Numbers

\* What the server sends keeps the network's numbers known: several segments,
LEMMA ServerSends ==
    ASSUME Base, client' = client, NEW new, net' \subseteq net \cup new, \A m \in new : FromServer(m)
    PROVE  net' \subseteq Segments /\ NetKnown'
<1>1. net' \subseteq Segments  BY DEF Base, TypeOK, FromServer
<1>2. NetKnown'
  <2> SUFFICES ASSUME NEW m \in net'
               PROVE  /\ m.irs <= client[m.peer].irs
                      /\ m.to = "server" /\ m.type \in {"ACK", "FIN"} => Current(m)
    BY DEF NetKnown, Current
  <2> QED  BY DEF Base, NumbersKnown, NetKnown, FromServer
<1> QED  BY <1>1, <1>2

\* ... one of them,
LEMMA ServerPuts ==
    ASSUME Base, client' = client, NEW x, FromServer(x), net' \in Put({x})
    PROVE  net' \subseteq Segments /\ NetKnown'
<1> DEFINE new == {x}
<1>1. net' \subseteq net \cup new  BY PutNet
<1>2. \A m \in new : FromServer(m)  OBVIOUS
<1> HIDE DEF new
<1> QED  BY <1>1, <1>2, ServerSends

\* ... or nothing.
LEMMA SendsNothing ==
    ASSUME Base, client' = client, net' = net
    PROVE  net' \subseteq Segments /\ NetKnown'
BY DEF Base, TypeOK, NumbersKnown, NetKnown, Current

-----------------------------------------------------------------------------
(* The handshakes not finished *)

\* A list that is left of the handshakes not finished.
Left(list) ==
    /\ list \in Seq(HalfEntries) /\ Distinct(list) /\ Known(list)
    /\ Peers(list) \subseteq Peers(half)
    /\ Len(list) <= Len(half)

\* All of them are left.
LEMMA HalfIsLeft == ASSUME Base PROVE Left(half)
BY LenProperties DEF Base, TypeOK, HalfEntries, HomesApart, NumbersKnown, Left

\* What is known of an entry.
LEMMA EntryIs ==
    ASSUME NEW list, Left(list), NEW i \in DOMAIN list
    PROVE  /\ list[i] \in HalfEntries /\ list[i].peer \in Clients /\ list[i].irs \in 1..MaxIrs
           /\ list[i].irs <= client[list[i].peer].irs /\ list[i].peer \in Peers(list)
<1>1. list[i] \in HalfEntries  BY LenProperties, ElementOfSeq DEF Left
<1> QED  BY <1>1 DEF Left, HalfEntries, Known, Peers

\* An entry taken out of the age list,
LEMMA RemovedIsLeft ==
    ASSUME NEW list, Left(list), NEW i \in DOMAIN list
    PROVE  LET r == RemoveAt(list, i)
           IN  Left(r) /\ Len(r) = Len(list) - 1 /\ Peers(r) = Peers(list) \ {list[i].peer}
<1> DEFINE r == RemoveAt(list, i)
<1>1. list \in Seq(HalfEntries) /\ Distinct(list)  BY DEF Left
<1>2. /\ r \in Seq(HalfEntries) /\ Len(r) = Len(list) - 1
      /\ \A j \in DOMAIN r : \E k \in DOMAIN list : k # i /\ r[j] = list[k]
      /\ Distinct(r) /\ Peers(r) = Peers(list) \ {list[i].peer}
  BY <1>1, RemoveEntry
<1> HIDE DEF r
<1>3. Known(r)  BY <1>2 DEF Left, Known
<1>4. Len(list) \in Nat /\ Len(half) \in Int /\ Len(list) <= Len(half) => Len(r) <= Len(half)  BY <1>2
<1>5. Len(r) <= Len(half)
  <2>1. Len(list) \in Nat  BY <1>1, LenProperties
  <2> QED  BY <1>2, <2>1, SMT DEF Left
<1> QED  BY <1>2, <1>3, <1>5 DEF Left, r

\* ... or answered, leaves such a list.
LEMMA AnsweredIsLeft ==
    ASSUME NEW list, Left(list), NEW i \in DOMAIN list
    PROVE  Left(Answered(list, i))
<1> DEFINE a == Answered(list, i)
<1>1. list \in Seq(HalfEntries) /\ Distinct(list)  BY DEF Left
<1>2. /\ a \in Seq(HalfEntries) /\ Len(a) = Len(list) /\ DOMAIN a = DOMAIN list
      /\ \A j \in DOMAIN a : a[j].peer = list[j].peer /\ a[j].irs = list[j].irs
      /\ Distinct(a) /\ Peers(a) = Peers(list)
  BY <1>1, AnsweredEntry
<1> HIDE DEF a
<1> QED  BY <1>2 DEF Left, Known, a

\* The entries of all ports fit into the cache.
LEMMA LengthsAre ==
    ASSUME Base
    PROVE  /\ Len(half) \in Nat /\ Len(queued) \in Nat /\ others \in Nat /\ CacheSize \in Nat
           /\ others + Len(half) + Len(queued) <= CacheSize
           /\ half \in Seq(HalfEntries) /\ queued \in Seq(QueueEntries)
<1>1. half \in Seq(HalfEntries) /\ queued \in Seq(QueueEntries)
  BY DEF Base, TypeOK, HalfEntries, QueueEntries
<1>2. others \in Nat /\ CacheSize \in Nat /\ others + Len(half) + Len(queued) <= CacheSize
  BY ServerAssumption DEF ServerAssumption, Base, TypeOK
<1> QED  BY <1>1, <1>2, LenProperties

-----------------------------------------------------------------------------
(* Three kinds of server steps *)

\* A step of the handshakes not finished.  A client that gets an entry has no
\* other home.
LEMMA HalfStep ==
    ASSUME Base, UNCHANGED <<queued, others, sock, listen, threadVars, client>>,
           half' \in Seq(HalfEntries), others + Len(half') + Len(queued) <= CacheSize,
           Distinct(half'), Known(half)',
           \A c \in Peers(half') \ Peers(half) :
              c \notin Peers(queued) /\ \A s \in Sockets : Connected(s) => sock[s].peer # c,
           net' \subseteq Segments, NetKnown'
    PROVE  Base'
<1>1. TypeOK'  BY DEF Base, TypeOK, HalfEntries, threadVars
<1>2. HomesApart'
  <2>1. Distinct(half') /\ Distinct(queued')  BY DEF Base, HomesApart
  <2>2. Peers(half') \cap Peers(queued') = {}  BY DEF Base, HomesApart
  <2>3. \A s \in Sockets : Connected(s)' => sock'[s].peer \notin Peers(half') \cup Peers(queued')
    BY DEF Base, HomesApart, Connected
  <2>4. \A s, t \in Sockets : Connected(s)' /\ Connected(t)' /\ sock'[s].peer = sock'[t].peer => s = t
    BY DEF Base, HomesApart, Connected
  <2> QED  BY <2>1, <2>2, <2>3, <2>4 DEF HomesApart, Peers, Distinct
<1>3. NumbersKnown'
  BY DEF Base, NumbersKnown, Current, Connected
<1>4. PeerIsSet'  BY DEF Base, PeerIsSet, Connected
<1>5. ClientIsNumbered'  BY DEF Base, ClientIsNumbered
<1> QED  BY <1>1, <1>2, <1>3, <1>4, <1>5 DEF Base

\* A step of one socket that gets no new connection, and perhaps of the list.
LEMMA SocketLeftStep ==
    ASSUME Base, NEW s \in Sockets, NEW r \in Records, sock' = [sock EXCEPT ![s] = r],
           UNCHANGED <<queued, others, client>>, Left(half'),
           listen' \in [on : BOOLEAN, slot : Sockets \cup {None}],
           accept' \in [Sockets -> {"none", "waiting", "failed"}],
           disconnect' \in [Sockets -> {"none", "waiting", "woken"}],
           net' \subseteq Segments, NetKnown',
           r.bound /\ r.peer # None => /\ sock[s].bound /\ r.peer = sock[s].peer
                                       /\ r.irs = sock[s].irs /\ r.iss = sock[s].iss,
           r.state \in Synchronised => r.bound /\ r.peer # None
    PROVE  Base'
<1>0. sock \in [Sockets -> Records]  BY DEF Base, TypeOK, Records
<1>1. TypeOK'
  <2>1. sock' \in [Sockets -> Records]  BY <1>0
  <2>2. half' \in Seq(HalfEntries) /\ others + Len(half') + Len(queued) <= CacheSize
    <3>1. half' \in Seq(HalfEntries) /\ Len(half') <= Len(half) /\ Len(half') \in Nat
      BY LenProperties DEF Left
    <3> QED  BY <3>1, LengthsAre
  <2> QED  BY <2>1, <2>2 DEF Base, TypeOK, Records, HalfEntries
<1>2. \A t \in Sockets : Connected(t)' => /\ Connected(t) /\ sock'[t].peer = sock[t].peer
                                          /\ sock'[t].irs = sock[t].irs /\ sock'[t].iss = sock[t].iss
  BY <1>0 DEF Connected
<1>3. HomesApart'
  <2>1. Distinct(half') /\ Peers(half') \subseteq Peers(half)  BY DEF Left
  <2>2. /\ Distinct(half)' = Distinct(half') /\ Distinct(queued)' = Distinct(queued)
        /\ Peers(half)' = Peers(half') /\ Peers(queued)' = Peers(queued)
    BY DEF Distinct, Peers
  <2>3. \A t \in Sockets : Connected(t)' => sock'[t].peer \notin Peers(half) \cup Peers(queued)
    BY <1>2 DEF Base, HomesApart
  <2>4. \A t, u \in Sockets : Connected(t)' /\ Connected(u)' /\ sock'[t].peer = sock'[u].peer => t = u
    BY <1>2 DEF Base, HomesApart
  <2> QED  BY <2>1, <2>2, <2>3, <2>4 DEF Base, HomesApart
<1>4. NumbersKnown'
  <2>1. \A t \in Sockets : Connected(t)' => Current(sock[t])'
    BY <1>2 DEF Base, NumbersKnown, Current
  <2>2. Known(half)'  BY DEF Left, Known
  <2> QED  BY <2>1, <2>2 DEF Base, NumbersKnown, Current
<1>5. PeerIsSet'
  <2>1. \A t \in Sockets : Connected(t)' => sock'[t].irs # 0
    BY <1>2 DEF Base, PeerIsSet
  <2>2. \A t \in Sockets : sock'[t].state \in Synchronised => Connected(t)'
    BY <1>0 DEF Base, PeerIsSet, Connected
  <2> QED  BY <2>1, <2>2 DEF PeerIsSet
<1>6. ClientIsNumbered'  BY DEF Base, ClientIsNumbered
<1> QED  BY <1>1, <1>3, <1>4, <1>5, <1>6 DEF Base

\* ... or of the socket alone.
LEMMA SocketStep ==
    ASSUME Base, NEW s \in Sockets, NEW r \in Records, sock' = [sock EXCEPT ![s] = r],
           UNCHANGED <<cacheVars, client>>,
           listen' \in [on : BOOLEAN, slot : Sockets \cup {None}],
           accept' \in [Sockets -> {"none", "waiting", "failed"}],
           disconnect' \in [Sockets -> {"none", "waiting", "woken"}],
           net' \subseteq Segments, NetKnown',
           r.bound /\ r.peer # None => /\ sock[s].bound /\ r.peer = sock[s].peer
                                       /\ r.irs = sock[s].irs /\ r.iss = sock[s].iss,
           r.state \in Synchronised => r.bound /\ r.peer # None
    PROVE  Base'
<1>1. half' = half /\ UNCHANGED <<queued, others, client>>  BY DEF cacheVars
<1>2. Left(half')  BY <1>1, HalfIsLeft
<1> QED  BY <1>1, <1>2, SocketLeftStep

\* The hand-over of a finished handshake e to socket s.
LEMMA HandOverStep ==
    ASSUME Base, NEW s \in Sockets, NEW e \in QueueEntries, HandOver(s, e),
           UNCHANGED <<others, disconnect, client, net>>,
           Current(e), \A t \in Sockets : Connected(t) => sock[t].peer # e.peer,
           half' \in Seq(HalfEntries), Distinct(half'), Known(half)',
           queued' \in Seq(QueueEntries), Distinct(queued'), \A i \in DOMAIN queued' : Current(queued'[i]),
           others + Len(half') + Len(queued') <= CacheSize,
           Peers(half') \subseteq Peers(half) \ {e.peer},
           Peers(queued') \subseteq Peers(queued) \ {e.peer}
    PROVE  Base'
<1> DEFINE r == [state |-> IF sock[s].state = "SYN_RECEIVED" THEN "ESTABLISHED" ELSE "LISTEN", server |-> TRUE,
                 bound |-> TRUE, peer |-> e.peer, irs |-> e.irs, iss |-> e.iss, held |-> <<>>]
<1>0. sock \in [Sockets -> Records] /\ sock' = [sock EXCEPT ![s] = r]
  BY DEF Base, TypeOK, Records, HandOver
<1>1. /\ e.peer \in Clients /\ e.irs \in 1..MaxIrs /\ e.iss \in Numbers /\ e.peer # None
      /\ e.irs \in 0..MaxIrs /\ e.irs # 0
  BY ServerAssumption DEF QueueEntries, ServerAssumption
<1>2. r \in Records
  <2>1. <<>> \in Seq({"FIN", "RST"})  BY EmptySeq
  <2> QED  BY <1>1, <2>1 DEF Records, Opening, Synchronised
<1>3. r.bound /\ r.peer = e.peer /\ r.irs = e.irs /\ r.iss = e.iss  OBVIOUS
<1> HIDE DEF r
<1>4. \A t \in Sockets : t # s => sock'[t] = sock[t]  BY <1>0
<1>5. sock'[s] = r  BY <1>0
<1>6. TypeOK'
  <2>1. sock' \in [Sockets -> Records]  BY <1>0, <1>2
  <2>2. listen' \in [on : BOOLEAN, slot : Sockets \cup {None}]  BY DEF HandOver, Base, TypeOK
  <2>3. accept' \in [Sockets -> {"none", "waiting", "failed"}]  BY DEF HandOver, Base, TypeOK
  <2> QED  BY <2>1, <2>2, <2>3 DEF Base, TypeOK, Records, HalfEntries, QueueEntries
<1>7. HomesApart'
  <2>1. Peers(half') \cap Peers(queued') = {}  BY DEF Base, HomesApart
  <2>2. ASSUME NEW t \in Sockets, Connected(t)'
        PROVE  sock'[t].peer \notin Peers(half') \cup Peers(queued')
    <3>1. CASE t = s  BY <1>3, <1>5, <3>1
    <3>2. CASE t # s  BY <1>4, <2>2, <3>2 DEF Base, HomesApart, Connected
    <3> QED  BY <3>1, <3>2
  <2>3. ASSUME NEW t \in Sockets, NEW u \in Sockets, Connected(t)', Connected(u)', sock'[t].peer = sock'[u].peer
        PROVE  t = u
    <3>1. CASE t # s /\ u # s  BY <1>4, <2>3, <3>1 DEF Base, HomesApart, Connected
    <3>2. CASE t = s /\ u # s  BY <1>3, <1>4, <1>5, <2>3, <3>2 DEF Connected
    <3>3. CASE t # s /\ u = s  BY <1>3, <1>4, <1>5, <2>3, <3>3 DEF Connected
    <3> QED  BY <3>1, <3>2, <3>3
  <2>4. /\ Peers(half)' = Peers(half') /\ Peers(queued)' = Peers(queued')
        /\ Distinct(half)' = Distinct(half') /\ Distinct(queued)' = Distinct(queued')
    BY DEF Peers, Distinct
  <2> QED  BY <2>1, <2>2, <2>3, <2>4 DEF HomesApart
<1>8. NumbersKnown'
  <2>1. ASSUME NEW t \in Sockets, Connected(t)' PROVE Current(sock[t])'
    <3>1. CASE t = s  BY <1>3, <1>5, <3>1 DEF Current
    <3>2. CASE t # s  BY <1>4, <2>1, <3>2 DEF Base, NumbersKnown, Connected, Current
    <3> QED  BY <3>1, <3>2
  <2>2. NetKnown'  BY SendsNothing
  <2>3. \A i \in DOMAIN queued' : Current(queued[i])'  BY DEF Current
  <2> QED  BY <2>1, <2>2, <2>3 DEF NumbersKnown
<1>9. PeerIsSet'
  <2>1. ASSUME NEW t \in Sockets
        PROVE  /\ sock'[t].state \in Synchronised => Connected(t)'
               /\ Connected(t)' => sock'[t].irs # 0
    <3>1. CASE t = s  BY <1>1, <1>3, <1>5, <3>1 DEF Connected
    <3>2. CASE t # s  BY <1>4, <3>2 DEF Base, PeerIsSet, Connected
    <3> QED  BY <3>1, <3>2
  <2> QED  BY <2>1 DEF PeerIsSet
<1>10. ClientIsNumbered'  BY DEF Base, ClientIsNumbered
<1> QED  BY <1>6, <1>7, <1>8, <1>9, <1>10 DEF Base

-----------------------------------------------------------------------------
(* Base: the SYN cache *)

\* What is known of a segment in the network.
LEMMA SegmentIs ==
    ASSUME Base, NEW m \in net
    PROVE  /\ m.peer \in Clients /\ m.irs \in 1..MaxIrs /\ m.iss \in Numbers
           /\ m.irs <= client[m.peer].irs
           /\ m.to = "server" /\ m.type \in {"ACK", "FIN"} => Current(m)
<1>1. m \in Segments /\ NetKnown  BY DEF Base, TypeOK, NumbersKnown
<1>2. m.peer \in Clients /\ m.irs \in 1..MaxIrs /\ m.iss \in Numbers  BY <1>1 DEF Segments
<1> QED  BY <1>1, <1>2 DEF NetKnown

\* The entries of one client.
LEMMA OfIs ==
    ASSUME NEW list, NEW c
    PROVE  /\ Of(list, c) = {} <=> c \notin Peers(list)
           /\ \A i \in Of(list, c) : i \in DOMAIN list /\ list[i].peer = c
BY DEF Of, Peers

\* The oldest entry that waits is one that waits.
LEMMA OldestIs ==
    ASSUME NEW S, NEW list \in Seq(S), NEW st, With(list, st) # {}
    PROVE  Oldest(list, st) \in DOMAIN list /\ list[Oldest(list, st)].state = st
<1>1. With(list, st) \subseteq Nat  BY LenProperties DEF With
<1>2. \E i \in With(list, st) : \A j \in With(list, st) : i <= j  BY <1>1, FirstExists
<1>3. Oldest(list, st) \in With(list, st)  BY <1>2 DEF Oldest
<1> QED  BY <1>3 DEF With

\* A step to what is left of the list, with answers.
LEMMA LeftStep ==
    ASSUME Base, UNCHANGED <<queued, others, sock, listen, threadVars, client>>,
           Left(half'), net' \subseteq Segments, NetKnown'
    PROVE  Base'
<1>1. half' \in Seq(HalfEntries) /\ Distinct(half') /\ Peers(half') \subseteq Peers(half)
  BY DEF Left
<1>2. Known(half)'  BY DEF Left, Known
<1>3. others + Len(half') + Len(queued) <= CacheSize
  <2>1. Len(half') \in Nat /\ Len(half) \in Nat /\ Len(queued) \in Nat
    BY <1>1, LenProperties DEF Base, TypeOK
  <2>2. others \in Nat /\ CacheSize \in Nat
    BY ServerAssumption DEF Base, TypeOK, ServerAssumption
  <2>3. Len(half') <= Len(half) /\ others + Len(half) + Len(queued) <= CacheSize
    BY DEF Left, Base, TypeOK
  <2> QED  BY <2>1, <2>2, <2>3
<1> QED  BY <1>1, <1>2, <1>3, HalfStep

\* ... one entry answered.
LEMMA AnswerIs ==
    ASSUME Base, client' = client, NEW list, Left(list), NEW i \in DOMAIN list,
           half' = Answered(list, i) \/ half' = list, net' \in Put({SynAck(list[i])})
    PROVE  Left(half') /\ net' \subseteq Segments /\ NetKnown'
<1>1. Left(half')  BY AnsweredIsLeft
<1>2. FromServer(SynAck(list[i]))  BY EntryIs, SynAckIs
<1>3. net' \subseteq Segments /\ NetKnown'  BY <1>2, ServerPuts
<1> QED  BY <1>1, <1>3

\* ... as a step of its own.
LEMMA AnswerStep ==
    ASSUME Base, UNCHANGED <<queued, others, sock, listen, threadVars, client>>,
           NEW list, Left(list), NEW i \in DOMAIN list,
           half' = Answered(list, i) \/ half' = list, net' \in Put({SynAck(list[i])})
    PROVE  Base'
BY AnswerIs, LeftStep

\* _nx_tcp_syncache_answer_deferred
LEMMA AnswerDeferredIs ==
    ASSUME Base, client' = client, NEW list, Left(list), NEW ready, AnswerDeferred(list, ready)
    PROVE  Left(half') /\ net' \subseteq Segments /\ NetKnown'
<1>1. CASE half' = list /\ net' = net  BY <1>1, SendsNothing
<1>2. CASE ~(half' = list /\ net' = net)
  <2> DEFINE i == Oldest(list, "DEFERRED")
  <2>1. With(list, "DEFERRED") # {} /\ half' = Answered(list, i) /\ net' \in Put({SynAck(list[i])})
    BY <1>2 DEF AnswerDeferred
  <2>2. i \in DOMAIN list  BY <2>1, OldestIs DEF Left
  <2> QED  BY <2>1, <2>2, AnswerIs
<1> QED  BY <1>1, <1>2

\* ... as a step of its own.
LEMMA AnswerDeferredStep ==
    ASSUME Base, UNCHANGED <<queued, others, sock, listen, threadVars, client>>,
           NEW list, Left(list), NEW ready, AnswerDeferred(list, ready)
    PROVE  Base'
BY AnswerDeferredIs, LeftStep

\* A SYN of a client that has no other home, _nx_tcp_syncache_syn_received
LEMMA NewSynStep ==
    ASSUME Base, UNCHANGED <<queued, others, sock, listen, threadVars, client>>,
           NEW list, Left(list), NEW c \in Clients, NEW irs \in 1..MaxIrs, irs <= client[c].irs,
           c \notin Peers(list) \cup Peers(queued), \A s \in Sockets : Connected(s) => sock[s].peer # c,
           NewSyn(c, irs, list)
    PROVE  Base'
<1> DEFINE entry == [peer |-> c, irs |-> irs, state |-> "DEFERRED"]
           now == [entry EXCEPT !.state = "SYN_RECEIVED"]
           kept == RemoveAt(list, Oldest(list, "DEFERRED"))
<1>1. /\ entry \in HalfEntries /\ now \in HalfEntries
      /\ entry.peer = c /\ now.peer = c /\ entry.irs = irs /\ now.irs = irs
  BY DEF HalfEntries
<1>2. FromServer(SynAck(entry))  BY <1>1, SynAckIs
<1> HIDE DEF entry, now
<1>3. CASE half' = list /\ net' = net  BY <1>3, SendsNothing, LeftStep
<1>4. CASE half' = list /\ net' \in Put({ToClient("SYN_ACK", c, irs, "cookie")})
  <2>1. FromServer(ToClient("SYN_ACK", c, irs, "cookie"))  BY ToClientIs DEF Numbers
  <2>2. net' \subseteq net \cup {ToClient("SYN_ACK", c, irs, "cookie")}  BY <1>4, PutNet
  <2>3. net' \subseteq Segments /\ NetKnown'  BY <2>1, <2>2, ServerSends
  <2> QED  BY <1>4, <2>3, LeftStep
<1>5. ASSUME NEW e \in {entry, now}, NEW l, Left(l), Peers(l) \subseteq Peers(list), Len(l) <= Len(list),
             half' = Append(l, e), Room(list), net' = net \/ net' \in Put({SynAck(entry)})
      PROVE  Base'
  <2>1. e \in HalfEntries /\ e.peer = c /\ e.irs = irs  BY <1>1
  <2>2. l \in Seq(HalfEntries) /\ Distinct(l) /\ e.peer \notin Peers(l)  BY <1>5, <2>1 DEF Left
  <2>3. /\ half' \in Seq(HalfEntries) /\ Len(half') = Len(l) + 1 /\ Distinct(half')
        /\ \A j \in DOMAIN half' : half'[j] = e \/ \E k \in DOMAIN l : half'[j] = l[k]
        /\ Peers(half') = Peers(l) \cup {c}
    BY <1>5, <2>1, <2>2, AppendEntry
  <2>4. Known(half)'  BY <1>5, <2>1, <2>3 DEF Left, Known
  <2>5. others + Len(half') + Len(queued) <= CacheSize
    <3>1. Len(l) \in Nat /\ Len(list) \in Nat /\ Len(queued) \in Nat /\ Len(l) <= Len(list)
      BY <1>5, <2>2, LenProperties DEF Base, TypeOK, Left
    <3>2. others \in Nat /\ CacheSize \in Nat
      BY ServerAssumption DEF Base, TypeOK, ServerAssumption
    <3>3. others + Len(list) + Len(queued) < CacheSize  BY <1>5 DEF Room
    <3> QED  BY <2>3, <3>1, <3>2, <3>3
  <2>6. net' \subseteq net \cup {SynAck(entry)}  BY <1>5, PutNet
  <2>7. net' \subseteq Segments /\ NetKnown'  BY <1>2, <2>6, ServerSends
  <2>8. Peers(half') \subseteq Peers(half) \cup {c}  BY <1>5, <2>3 DEF Left
  <2> QED  BY <2>3, <2>4, <2>5, <2>7, <2>8, HalfStep
<1>6. CASE /\ Room(list) /\ (net' = net \/ net' \in Put({SynAck(entry)}))
           /\ \E e \in {entry, now} : \/ half' = Append(list, e)
                                      \/ With(list, "DEFERRED") # {} /\ half' = Append(kept, e)
  <2>1. PICK e \in {entry, now} : \/ half' = Append(list, e)
                                  \/ With(list, "DEFERRED") # {} /\ half' = Append(kept, e)
    BY <1>6
  <2>2. CASE half' = Append(list, e)
    <3>1. Len(list) <= Len(list)  BY LenProperties DEF Left
    <3> QED  BY <1>5, <1>6, <2>2, <3>1
  <2>3. CASE With(list, "DEFERRED") # {} /\ half' = Append(kept, e)
    <3>1. Oldest(list, "DEFERRED") \in DOMAIN list  BY <2>3, OldestIs DEF Left
    <3>2. Left(kept) /\ Len(kept) = Len(list) - 1 /\ Peers(kept) \subseteq Peers(list)
      BY <3>1, RemovedIsLeft
    <3>3. Len(kept) <= Len(list)
      <4>1. Len(list) \in Nat  BY LenProperties DEF Left
      <4> QED  BY <3>2, <4>1
    <3> HIDE DEF kept
    <3> QED  BY <1>5, <1>6, <2>3, <3>2, <3>3
  <2> QED  BY <2>1, <2>2, <2>3
<1> QED  BY <1>3, <1>4, <1>6 DEF NewSyn, entry, now

\* The clients with no socket: nobody's home takes the segment.
LEMMA NoHome ==
    ASSUME NEW m, Home(m) = {}
    PROVE  \A s \in Sockets : Connected(s) => sock[s].peer # m.peer
BY DEF Home, Connected

\* _nx_tcp_syncache_syn_received: new, repeated, or in the place of an old one.
LEMMA SynReceivedStep ==
    ASSUME Base, NEW m \in net, Home(m) = {}, SynReceived(m)
    PROVE  Base'
<1>1. m.peer \in Clients /\ m.irs \in 1..MaxIrs /\ m.irs <= client[m.peer].irs  BY SegmentIs
<1>2. UNCHANGED <<queued, others, sock, listen, threadVars, client>>  BY DEF SynReceived
<1>3. Left(half)  BY HalfIsLeft
<1>4. CASE UNCHANGED <<half, net>>
  BY <1>2, <1>3, <1>4, SendsNothing, LeftStep
<1>5. CASE Of(queued, m.peer) = {} /\ Of(half, m.peer) = {} /\ NewSyn(m.peer, m.irs, half)
  <2>1. m.peer \notin Peers(half) \cup Peers(queued)  BY <1>5, OfIs
  <2> QED  BY <1>1, <1>2, <1>3, <1>5, <2>1, NoHome, NewSynStep
<1>6. CASE \E i \in Of(half, m.peer) : NewSyn(m.peer, m.irs, RemoveAt(half, i))
  <2>1. PICK i \in Of(half, m.peer) : NewSyn(m.peer, m.irs, RemoveAt(half, i))  BY <1>6
  <2>2. i \in DOMAIN half /\ half[i].peer = m.peer  BY OfIs
  <2>3. Left(RemoveAt(half, i)) /\ Peers(RemoveAt(half, i)) = Peers(half) \ {m.peer}
    BY <1>3, <2>2, RemovedIsLeft
  <2>4. m.peer \in Peers(half)  BY <2>2 DEF Peers
  <2>5. m.peer \notin Peers(RemoveAt(half, i)) \cup Peers(queued)
    BY <2>3, <2>4 DEF Base, HomesApart
  <2> QED  BY <1>1, <1>2, <2>1, <2>3, <2>5, NoHome, NewSynStep
<1>7. CASE \E i \in Of(half, m.peer) : /\ half' = IF half[i].state = "DEFERRED" THEN Answered(half, i) ELSE half
                                       /\ net' \in Put({SynAck(half[i])})
  <2>1. PICK i \in Of(half, m.peer) : /\ half' = Answered(half, i) \/ half' = half
                                      /\ net' \in Put({SynAck(half[i])})
    BY <1>7
  <2>2. i \in DOMAIN half  BY OfIs
  <2> QED  BY <1>2, <1>3, <2>1, <2>2, AnswerStep
<1> QED  BY <1>4, <1>5, <1>6, <1>7 DEF SynReceived

\* A step of the accept queue: entries leave, or one of a client with no other
\* home comes.
LEMMA QueueStep ==
    ASSUME Base, UNCHANGED <<others, sock, listen, threadVars, client>>,
           Left(half'), queued' \in Seq(QueueEntries), Distinct(queued'),
           \A i \in DOMAIN queued' : Current(queued'[i]),
           others + Len(half') + Len(queued') <= CacheSize,
           Peers(half') \cap Peers(queued') = {},
           \A s \in Sockets : Connected(s) => sock[s].peer \notin Peers(queued'),
           net' \subseteq Segments, NetKnown'
    PROVE  Base'
<1>1. TypeOK'
  <2>1. half' \in Seq(HalfEntries)  BY DEF Left
  <2> QED  BY <2>1 DEF Base, TypeOK, HalfEntries, QueueEntries, threadVars
<1>2. HomesApart'
  <2>1. Distinct(half') /\ Peers(half') \subseteq Peers(half)  BY DEF Left
  <2>2. \A s \in Sockets : Connected(s)' <=> Connected(s)  BY DEF Connected
  <2>3. /\ Distinct(half)' = Distinct(half') /\ Distinct(queued)' = Distinct(queued')
        /\ Peers(half)' = Peers(half') /\ Peers(queued)' = Peers(queued')
    BY DEF Distinct, Peers
  <2> QED  BY <2>1, <2>2, <2>3 DEF Base, HomesApart
<1>3. NumbersKnown'
  BY DEF Base, NumbersKnown, Current, Connected, Left, Known
<1>4. PeerIsSet'  BY DEF Base, PeerIsSet, Connected
<1>5. ClientIsNumbered'  BY DEF Base, ClientIsNumbered
<1> QED  BY <1>1, <1>2, <1>3, <1>4, <1>5 DEF Base

\* A finished handshake e, its entry gone from the list.
LEMMA FinishStep ==
    ASSUME Base, UNCHANGED <<others, disconnect, client>>, Left(half'),
           NEW e \in QueueEntries, Current(e), Finish(e),
           e.peer \notin Peers(half') \cup Peers(queued),
           \A s \in Sockets : Connected(s) => sock[s].peer # e.peer
    PROVE  Base'
<1>1. /\ Len(half) \in Nat /\ Len(queued) \in Nat /\ others \in Nat /\ CacheSize \in Nat
      /\ others + Len(half) + Len(queued) <= CacheSize
      /\ queued \in Seq(QueueEntries)
  BY LengthsAre
<1>2. half' \in Seq(HalfEntries) /\ Distinct(half') /\ Len(half') <= Len(half) /\ Len(half') \in Nat
  BY LenProperties DEF Left
<1>3. Distinct(queued) /\ \A i \in DOMAIN queued : Current(queued[i])
  BY DEF Base, HomesApart, NumbersKnown
<1>4. e.peer \in Clients /\ e.irs \in 1..MaxIrs /\ e.irs <= client[e.peer].irs
  BY DEF QueueEntries, Current
<1>5. Peers(half') \cap Peers(queued) = {} /\ \A s \in Sockets : Connected(s) => sock[s].peer \notin Peers(queued)
  BY DEF Base, HomesApart, Left
<1>6. CASE Ready /\ HandOver(listen.slot, e) /\ UNCHANGED <<queued, net>>
  <2>1. listen.slot \in Sockets  BY <1>6 DEF Ready, Base, TypeOK
  <2>2. Known(half)'  BY DEF Left, Known
  <2>3. others + Len(half') + Len(queued') <= CacheSize  BY <1>1, <1>2, <1>6
  <2>4. queued' = queued /\ net' = net /\ HandOver(listen.slot, e)  BY <1>6
  <2>5. Peers(half') \subseteq Peers(half) \ {e.peer}  BY DEF Left
  <2>6. Peers(queued') \subseteq Peers(queued) \ {e.peer}  BY <2>4
  <2>7. /\ queued' \in Seq(QueueEntries) /\ Distinct(queued')
        /\ \A i \in DOMAIN queued' : Current(queued'[i])
    BY <1>1, <1>3, <2>4
  <2> QED  BY <1>2, <2>1, <2>2, <2>3, <2>4, <2>5, <2>6, <2>7, HandOverStep
<1>7. CASE queued' = queued /\ net' \in Put({Reset(e)}) /\ UNCHANGED <<sock, listen, accept>>
  <2>1. FromServer(Reset(e))  BY <1>4, ResetIs
  <2>2. net' \subseteq net \cup {Reset(e)}  BY <1>7, PutNet
  <2>3. net' \subseteq Segments /\ NetKnown'  BY <2>1, <2>2, ServerSends
  <2>4. others + Len(half') + Len(queued') <= CacheSize  BY <1>1, <1>2, <1>7
  <2>5. UNCHANGED <<queued, others, sock, listen, threadVars, client>>  BY <1>7 DEF threadVars
  <2> QED  BY <2>3, <2>5, LeftStep
<1>8. CASE Room(half') /\ queued' = Append(queued, e) /\ net' = net /\ UNCHANGED <<sock, listen, accept>>
  <2>1. /\ queued' \in Seq(QueueEntries) /\ Len(queued') = Len(queued) + 1 /\ Distinct(queued')
        /\ \A j \in DOMAIN queued' : queued'[j] = e \/ \E k \in DOMAIN queued : queued'[j] = queued[k]
        /\ Peers(queued') = Peers(queued) \cup {e.peer}
    BY <1>1, <1>3, <1>8, AppendEntry
  <2>2. \A i \in DOMAIN queued' : Current(queued'[i])  BY <1>3, <2>1
  <2>3. others + Len(half') + Len(queued') <= CacheSize
    BY <1>1, <1>2, <1>8, <2>1 DEF Room
  <2>4. Peers(half') \cap Peers(queued') = {}  BY <1>5, <2>1
  <2>5. \A s \in Sockets : Connected(s) => sock[s].peer \notin Peers(queued')  BY <1>5, <2>1
  <2>6. net' \subseteq Segments /\ NetKnown'  BY <1>8, SendsNothing
  <2>7. UNCHANGED <<others, sock, listen, threadVars, client>>  BY <1>8 DEF threadVars
  <2> QED  BY <2>1, <2>2, <2>3, <2>4, <2>5, <2>6, <2>7, QueueStep
<1> QED  BY <1>6, <1>7, <1>8 DEF Finish

\* _nx_tcp_syncache_ack_received: of an entry, of a cookie, or of nothing.
LEMMA AckReceivedStep ==
    ASSUME Base, NEW m \in net, m.to = "server", m.type \in {"ACK", "FIN"}, Home(m) = {}, AckReceived(m)
    PROVE  Base'
<1>1. /\ m.peer \in Clients /\ m.irs \in 1..MaxIrs /\ m.iss \in Numbers /\ m.irs <= client[m.peer].irs
      /\ Current(m)
  BY SegmentIs
<1>2. UNCHANGED <<others, disconnect, client>> /\ client' = client  BY DEF AckReceived
<1>3. Left(half)  BY HalfIsLeft
<1> DEFINE e == [peer |-> m.peer, irs |-> m.irs, iss |-> m.iss]
<1>4. e \in QueueEntries /\ Current(e) /\ e.peer = m.peer  BY <1>1 DEF QueueEntries, Current
<1> HIDE DEF e
<1>5. CASE UNCHANGED <<half, queued, sock, listen, accept, net>>
  <2>1. UNCHANGED <<queued, others, sock, listen, threadVars, client>>  BY <1>2, <1>5 DEF threadVars
  <2>2. net' \subseteq Segments /\ NetKnown' /\ Left(half')  BY <1>2, <1>3, <1>5, SendsNothing
  <2> QED  BY <2>1, <2>2, LeftStep
<1>6. ASSUME NEW i \in Of(half, m.peer), Matches(half[i], m), half' = RemoveAt(half, i),
             Finish([peer |-> m.peer, irs |-> m.irs, iss |-> "cached"])
      PROVE  Base'
  <2>1. i \in DOMAIN half /\ half[i].peer = m.peer  BY OfIs
  <2>2. Left(half') /\ Peers(half') = Peers(half) \ {m.peer}
    BY <1>3, <1>6, <2>1, RemovedIsLeft
  <2>3. m.peer \in Peers(half)  BY <2>1 DEF Peers
  <2>4. e.peer \notin Peers(half') \cup Peers(queued)  BY <1>4, <2>2, <2>3 DEF Base, HomesApart
  <2>5. Finish(e)  BY <1>6 DEF Matches, e
  <2> QED  BY <1>2, <1>4, <2>2, <2>4, <2>5, NoHome, FinishStep
<1>7. ASSUME NEW i \in Of(half, m.peer),
             \/ net' = net \/ net' \in Put({Reset(m)})
             \/ net' \in Put({ToClient("ACK", m.peer, half[i].irs, "cached")}),
             UNCHANGED <<half, queued, sock, listen, accept>>
      PROVE  Base'
  <2>1. i \in DOMAIN half /\ half[i].peer = m.peer  BY OfIs
  <2>2. half[i].irs \in 1..MaxIrs /\ half[i].irs <= client[m.peer].irs  BY <1>3, <2>1, EntryIs
  <2>3. FromServer(Reset(m)) /\ FromServer(ToClient("ACK", m.peer, half[i].irs, "cached"))
    BY <1>1, <2>2, ResetIs, ToClientIs DEF Numbers
  <2>4. net' \subseteq net \cup {Reset(m), ToClient("ACK", m.peer, half[i].irs, "cached")}
    BY <1>7, PutNet
  <2>5. net' \subseteq Segments /\ NetKnown'
    <3> DEFINE new == {Reset(m), ToClient("ACK", m.peer, half[i].irs, "cached")}
    <3>1. \A x \in new : FromServer(x)  BY <2>3
    <3>2. net' \subseteq net \cup new  BY <2>4
    <3> HIDE DEF new
    <3> QED  BY <1>2, <3>1, <3>2, ServerSends
  <2>6. UNCHANGED <<queued, others, sock, listen, threadVars, client>> /\ Left(half')
    BY <1>2, <1>3, <1>7 DEF threadVars
  <2> QED  BY <2>5, <2>6, LeftStep
<1>8. ASSUME Of(queued, m.peer) = {}, Of(half, m.peer) = {}, half' = half,
             m.iss = "cookie", Finish([peer |-> m.peer, irs |-> m.irs, iss |-> "cookie"])
      PROVE  Base'
  <2>1. e.peer \notin Peers(half') \cup Peers(queued)  BY <1>4, <1>8, OfIs
  <2>2. Finish(e)  BY <1>8 DEF e
  <2> QED  BY <1>2, <1>3, <1>4, <1>8, <2>1, <2>2, NoHome, FinishStep
<1>9. ASSUME half' = half, net' \in Put({Reset(m)}), UNCHANGED <<queued, sock, listen, accept>>
      PROVE  Base'
  <2>1. FromServer(Reset(m))  BY <1>1, ResetIs
  <2>2. net' \subseteq net \cup {Reset(m)}  BY <1>9, PutNet
  <2>3. net' \subseteq Segments /\ NetKnown'
    <3> DEFINE new == {Reset(m)}
    <3>1. \A x \in new : FromServer(x)  BY <2>1
    <3>2. net' \subseteq net \cup new  BY <2>2
    <3> HIDE DEF new
    <3> QED  BY <1>2, <3>1, <3>2, ServerSends
  <2>4. UNCHANGED <<queued, others, sock, listen, threadVars, client>> /\ Left(half')
    BY <1>2, <1>3, <1>9 DEF threadVars
  <2> QED  BY <2>3, <2>4, LeftStep
<1>10. CASE \E i \in Of(half, m.peer) :
              IF Matches(half[i], m)
                THEN /\ half' = RemoveAt(half, i)
                     /\ Finish([peer |-> m.peer, irs |-> m.irs, iss |-> "cached"])
                ELSE /\ IF half[i].state = "DEFERRED" THEN net' = net
                        ELSE \/ net' \in Put({Reset(m)})
                             \/ half[i].irs # m.irs /\ net' \in Put({ToClient("ACK", m.peer, half[i].irs, "cached")})
                     /\ UNCHANGED <<half, queued, sock, listen, accept>>
  BY <1>6, <1>7, <1>10
<1>11. CASE /\ Of(queued, m.peer) = {} /\ Of(half, m.peer) = {}
            /\ half' = half
            /\ \/ m.iss = "cookie" /\ Finish([peer |-> m.peer, irs |-> m.irs, iss |-> "cookie"])
               \/ net' \in Put({Reset(m)}) /\ UNCHANGED <<queued, sock, listen, accept>>
  BY <1>8, <1>9, <1>11
<1> QED  BY <1>5, <1>10, <1>11 DEF AckReceived

\* An entry leaves the accept queue.
LEMMA UnqueueStep ==
    ASSUME Base, UNCHANGED <<half, others, sock, listen, threadVars, client>>,
           NEW i \in DOMAIN queued, queued' = RemoveAt(queued, i), net' \subseteq Segments, NetKnown'
    PROVE  Base'
<1>1. /\ Len(half) \in Nat /\ Len(queued) \in Nat /\ others \in Nat /\ CacheSize \in Nat
      /\ others + Len(half) + Len(queued) <= CacheSize
      /\ queued \in Seq(QueueEntries)
  BY LengthsAre
<1>2. Distinct(queued) /\ \A j \in DOMAIN queued : Current(queued[j])
  BY DEF Base, HomesApart, NumbersKnown
<1>3. /\ queued' \in Seq(QueueEntries) /\ Len(queued') = Len(queued) - 1
      /\ \A j \in DOMAIN queued' : \E k \in DOMAIN queued : k # i /\ queued'[j] = queued[k]
      /\ Distinct(queued') /\ Peers(queued') \subseteq Peers(queued)
  BY <1>1, <1>2, RemoveEntry
<1>4. \A j \in DOMAIN queued' : Current(queued'[j])  BY <1>2, <1>3
<1>5. others + Len(half') + Len(queued') <= CacheSize  BY <1>1, <1>3
<1>6. Peers(half') \cap Peers(queued') = {}  BY <1>3 DEF Base, HomesApart
<1>7. \A s \in Sockets : Connected(s) => sock[s].peer \notin Peers(queued')  BY <1>3 DEF Base, HomesApart
<1>8. Left(half')  BY HalfIsLeft
<1> QED  BY <1>3, <1>4, <1>5, <1>6, <1>7, <1>8, QueueStep

\* What is known of an entry of the accept queue.
LEMMA QueuedIs ==
    ASSUME Base, NEW i \in DOMAIN queued
    PROVE  /\ queued[i] \in QueueEntries /\ queued[i].peer \in Clients /\ queued[i].irs \in 1..MaxIrs
           /\ queued[i].irs <= client[queued[i].peer].irs /\ Current(queued[i])
<1>1. queued[i] \in QueueEntries  BY LengthsAre, LenProperties, ElementOfSeq
<1>2. Current(queued[i])  BY DEF Base, NumbersKnown
<1> QED  BY <1>1, <1>2 DEF QueueEntries, Current

\* An entry leaves the age list, and the next that waits is answered.
LEMMA EntryEndsStep ==
    ASSUME Base, UNCHANGED <<queued, others, sock, listen, threadVars, client>>, NEW i \in DOMAIN half,
           \/ AnswerDeferred(RemoveAt(half, i), Ready)
           \/ half' = RemoveAt(half, i) /\ net' = net
    PROVE  Base'
<1>1. Left(RemoveAt(half, i))  BY HalfIsLeft, RemovedIsLeft
<1>2. CASE AnswerDeferred(RemoveAt(half, i), Ready)  BY <1>1, <1>2, AnswerDeferredStep
<1>3. CASE half' = RemoveAt(half, i) /\ net' = net  BY <1>1, <1>3, SendsNothing, LeftStep
<1> QED  BY <1>2, <1>3

\* _nx_tcp_syncache_reset_received
LEMMA ResetReceivedStep ==
    ASSUME Base, NEW m \in net, ResetReceived(m)
    PROVE  Base'
<1>1. UNCHANGED <<others, sock, listen, threadVars, client>>  BY DEF ResetReceived
<1>2. CASE \E i \in Of(half, m.peer) :
             /\ queued' = queued
             /\ \/ AnswerDeferred(RemoveAt(half, i), Ready)
                \/ half' = RemoveAt(half, i) /\ net' = net
  BY <1>1, <1>2, OfIs, EntryEndsStep
<1>3. CASE \E i \in Of(queued, m.peer) : queued' = RemoveAt(queued, i) /\ UNCHANGED <<half, net>>
  BY <1>1, <1>3, OfIs, SendsNothing, UnqueueStep
<1> QED  BY <1>2, <1>3 DEF ResetReceived

\* _nx_tcp_syncache_periodic sends a SYN-ACK again,
LEMMA EntryResendsStep ==
    ASSUME Base, NEW i \in DOMAIN half, EntryResends(i)
    PROVE  Base'
BY HalfIsLeft, AnswerStep DEF EntryResends

\* ... gives an entry up,
LEMMA EntryExpiresStep ==
    ASSUME Base, NEW i \in DOMAIN half, EntryExpires(i)
    PROVE  Base'
BY EntryEndsStep DEF EntryExpires

\* ... and gives one of the accept queue up.
LEMMA QueuedExpiresStep ==
    ASSUME Base, NEW i \in DOMAIN queued, QueuedExpires(i)
    PROVE  Base'
<1>1. FromServer(Reset(queued[i]))  BY QueuedIs, ResetIs
<1>2. net' \subseteq Segments /\ NetKnown'  BY <1>1, ServerPuts DEF QueuedExpires
<1> QED  BY <1>2, UnqueueStep DEF QueuedExpires

\* Other ports take and give back entries of the cache.
LEMMA OtherPortsStep ==
    ASSUME Base, OtherPorts
    PROVE  Base'
<1>1. UNCHANGED <<half, queued, sock, listen, threadVars, client, net>>  BY DEF OtherPorts
<1>2. TypeOK'
  <2>1. others' \in 0..MaxOthers /\ others' + Len(half) + Len(queued) <= CacheSize  BY DEF OtherPorts
  <2> QED  BY <1>1, <2>1 DEF Base, TypeOK, threadVars
<1>3. HomesApart'  BY <1>1 DEF Base, HomesApart, Distinct, Peers, Connected
<1>4. NumbersKnown'  BY <1>1 DEF Base, NumbersKnown, NetKnown, Known, Current, Connected
<1>5. PeerIsSet'  BY <1>1 DEF Base, PeerIsSet, Connected
<1>6. ClientIsNumbered'  BY <1>1 DEF Base, ClientIsNumbered
<1> QED  BY <1>2, <1>3, <1>4, <1>5, <1>6 DEF Base

-----------------------------------------------------------------------------
(* Base: the sockets *)

\* What is known of a socket.
LEMMA RecordIs ==
    ASSUME Base, NEW s \in Sockets
    PROVE  /\ sock[s] \in Records
           /\ sock[s].state \in Synchronised => sock[s].bound /\ sock[s].peer # None
           /\ Connected(s) => /\ sock[s].peer \in Clients /\ sock[s].irs \in 1..MaxIrs
                              /\ sock[s].irs <= client[sock[s].peer].irs
<1>1. sock[s] \in Records  BY DEF Base, TypeOK, Records
<1>2. sock[s].state \in Synchronised => sock[s].bound /\ sock[s].peer # None
  BY DEF Base, PeerIsSet, Connected
<1>3. Connected(s) => sock[s].irs # 0 /\ Current(sock[s])  BY DEF Base, PeerIsSet, NumbersKnown
<1>4. sock[s].peer \in Clients \cup {None} /\ sock[s].irs \in 0..MaxIrs  BY <1>1 DEF Records
<1>5. MaxIrs \in Nat  BY ServerAssumption DEF ServerAssumption
<1> QED  BY <1>1, <1>2, <1>3, <1>4, <1>5 DEF Connected, Current

\* _nx_tcp_socket_block_cleanup forgets the peer and keeps the port.
LEMMA CleanedIs ==
    ASSUME NEW r \in Records
    PROVE  /\ Cleaned(r) \in Records /\ Cleaned(r).peer = None /\ Cleaned(r).bound = r.bound
           /\ Cleaned(r).state = IF r.server THEN "LISTEN" ELSE "CLOSED"
           /\ Cleaned(r).state \notin Synchronised
           /\ Fresh \in Records
<1>1. Fresh \in Records
  <2>1. <<>> \in Seq({"FIN", "RST"}) /\ 0 \in 0..MaxIrs
    BY EmptySeq, ServerAssumption DEF ServerAssumption
  <2> QED  BY <2>1 DEF Fresh, Records, Numbers
<1>2. Cleaned(r) = [Fresh EXCEPT !.state = IF r.server THEN "LISTEN" ELSE "CLOSED",
                                 !.server = r.server, !.bound = r.bound]
  BY DEF Cleaned
<1>3. Fresh.peer = None  BY DEF Fresh
<1>4. Cleaned(r) \in Records
  BY <1>1, <1>2 DEF Records, Opening
<1>5. /\ Cleaned(r).peer = None /\ Cleaned(r).bound = r.bound
      /\ Cleaned(r).state = IF r.server THEN "LISTEN" ELSE "CLOSED"
  BY <1>1, <1>2, <1>3 DEF Records
<1> QED  BY <1>1, <1>4, <1>5 DEF Synchronised

\* A thread that is resumed out of accept or disconnect.
LEMMA WakesAre ==
    ASSUME Base, NEW s \in Sockets
    PROVE  /\ WakeAccept(s) => accept' \in [Sockets -> {"none", "waiting", "failed"}]
           /\ WakeDisconnect(s) => disconnect' \in [Sockets -> {"none", "waiting", "woken"}]
BY DEF Base, TypeOK, WakeAccept, WakeDisconnect

\* A step that only changes the state of a socket, or nothing of it.
LEMMA StateStep ==
    ASSUME Base, NEW s \in Sockets, NEW st \in {"CLOSED"} \cup Opening \cup Synchronised,
           sock' = [sock EXCEPT ![s].state = st], st \in Synchronised => Connected(s),
           UNCHANGED <<cacheVars, client>>,
           listen' \in [on : BOOLEAN, slot : Sockets \cup {None}],
           accept' \in [Sockets -> {"none", "waiting", "failed"}],
           disconnect' \in [Sockets -> {"none", "waiting", "woken"}],
           net' \subseteq Segments, NetKnown'
    PROVE  Base'
<1> DEFINE r == [sock[s] EXCEPT !.state = st]
<1>1. sock[s] \in Records  BY RecordIs
<1>2. /\ r \in Records /\ r.state = st /\ r.bound = sock[s].bound /\ r.peer = sock[s].peer
      /\ r.irs = sock[s].irs /\ r.iss = sock[s].iss
  BY <1>1 DEF Records
<1>3. sock' = [sock EXCEPT ![s] = r]  BY DEF Base, TypeOK
<1> HIDE DEF r
<1> QED  BY <1>2, <1>3, SocketStep DEF Connected

\* A step that cleans a socket up, or makes it new.
LEMMA CleanStep ==
    ASSUME Base, NEW s \in Sockets, sock' = [sock EXCEPT ![s] = Cleaned(@)] \/ sock' = [sock EXCEPT ![s] = Fresh],
           UNCHANGED <<cacheVars, client>>,
           listen' \in [on : BOOLEAN, slot : Sockets \cup {None}],
           accept' \in [Sockets -> {"none", "waiting", "failed"}],
           disconnect' \in [Sockets -> {"none", "waiting", "woken"}],
           net' \subseteq Segments, NetKnown'
    PROVE  Base'
<1>1. sock[s] \in Records  BY RecordIs
<1>2. CASE sock' = [sock EXCEPT ![s] = Cleaned(@)]
  <2> DEFINE r == Cleaned(sock[s])
  <2>1. r \in Records /\ r.peer = None /\ r.state \notin Synchronised  BY <1>1, CleanedIs
  <2>2. sock' = [sock EXCEPT ![s] = r]  BY <1>2
  <2> HIDE DEF r
  <2> QED  BY <2>1, <2>2, SocketStep
<1>3. CASE sock' = [sock EXCEPT ![s] = Fresh]
  <2>1. Fresh \in Records /\ Fresh.peer = None /\ Fresh.state \notin Synchronised
    BY <1>1, CleanedIs DEF Fresh, Synchronised
  <2> QED  BY <1>3, <2>1, SocketStep
<1> QED  BY <1>2, <1>3

\* The types of what a socket's step leaves alone.
LEMMA ThreadTypes ==
    ASSUME Base
    PROVE  /\ listen \in [on : BOOLEAN, slot : Sockets \cup {None}]
           /\ accept \in [Sockets -> {"none", "waiting", "failed"}]
           /\ disconnect \in [Sockets -> {"none", "waiting", "woken"}]
BY DEF Base, TypeOK

\* _nx_tcp_socket_connection_reset
LEMMA ConnectionResetStep ==
    ASSUME Base, NEW s \in Sockets, ConnectionReset(s), UNCHANGED <<listen, cacheVars, client, net>>
    PROVE  Base'
<1>1. /\ listen' \in [on : BOOLEAN, slot : Sockets \cup {None}]
      /\ accept' \in [Sockets -> {"none", "waiting", "failed"}]
      /\ disconnect' \in [Sockets -> {"none", "waiting", "woken"}]
  BY ThreadTypes, WakesAre DEF ConnectionReset
<1>2. net' \subseteq Segments /\ NetKnown'  BY SendsNothing
<1> QED  BY <1>1, <1>2, CleanStep DEF ConnectionReset

\* _nx_tcp_syncache_hold
LEMMA HoldStep ==
    ASSUME Base, NEW s \in Sockets, NEW m, Hold(s, m), UNCHANGED <<listen, cacheVars, client>>
    PROVE  Base'
<1>1. /\ listen' \in [on : BOOLEAN, slot : Sockets \cup {None}]
      /\ accept' \in [Sockets -> {"none", "waiting", "failed"}]
      /\ disconnect' \in [Sockets -> {"none", "waiting", "woken"}]
  BY ThreadTypes DEF Hold
<1>2. net' \subseteq Segments /\ NetKnown'  BY SendsNothing DEF Hold
<1>3. sock[s] \in Records /\ (sock[s].state \in Synchronised => sock[s].bound /\ sock[s].peer # None)
  BY RecordIs
<1>4. CASE sock' = sock
  <2>1. sock' = [sock EXCEPT ![s] = sock[s]]  BY <1>4 DEF Base, TypeOK
  <2> QED  BY <1>1, <1>2, <1>3, <2>1, SocketStep
<1>5. CASE sock' # sock
  <2> DEFINE h == Append(sock[s].held, m.type)
             r == [sock[s] EXCEPT !.held = h]
  <2>1. m.type \in {"FIN", "RST"} /\ sock' = [sock EXCEPT ![s] = r]  BY <1>5 DEF Hold, Base, TypeOK
  <2>2. sock[s].held \in Seq({"FIN", "RST"})  BY <1>3 DEF Records
  <2>3. h \in Seq({"FIN", "RST"})  BY <2>1, <2>2, AppendProperties
  <2> HIDE DEF h
  <2>4. /\ r \in Records /\ r.state = sock[s].state /\ r.bound = sock[s].bound /\ r.peer = sock[s].peer
        /\ r.irs = sock[s].irs /\ r.iss = sock[s].iss
    BY <1>3, <2>3 DEF Records
  <2> HIDE DEF r
  <2> QED  BY <1>1, <1>2, <1>3, <2>1, <2>4, SocketStep
<1> QED  BY <1>4, <1>5

\* _nx_tcp_socket_packet_process of a connected socket.
LEMMA SocketInputStep ==
    ASSUME Base, NEW m \in net, NEW s \in Home(m), SocketInput(s, m), UNCHANGED <<listen, cacheVars, client>>
    PROVE  Base'
<1>1. s \in Sockets /\ Connected(s)
  <2>1. m.peer \in Clients  BY SegmentIs
  <2> QED  BY <2>1, ServerAssumption DEF Home, Connected, ServerAssumption
<1>2. /\ sock[s] \in Records /\ sock[s].peer \in Clients /\ sock[s].irs \in 1..MaxIrs
      /\ sock[s].irs <= client[sock[s].peer].irs /\ sock[s].iss \in Numbers
  BY <1>1, RecordIs DEF Records
<1>3. CASE ConnectionReset(s) /\ net' = net  BY <1>1, <1>3, ConnectionResetStep
<1>4. CASE sock' = [sock EXCEPT ![s].state = "CLOSE_WAIT"] /\ UNCHANGED <<accept, disconnect, net>>
  <2>1. /\ listen' \in [on : BOOLEAN, slot : Sockets \cup {None}]
        /\ accept' \in [Sockets -> {"none", "waiting", "failed"}]
        /\ disconnect' \in [Sockets -> {"none", "waiting", "woken"}]
    BY <1>4, ThreadTypes
  <2>2. net' \subseteq Segments /\ NetKnown'  BY <1>4, SendsNothing
  <2>3. "CLOSE_WAIT" \in {"CLOSED"} \cup Opening \cup Synchronised  BY DEF Synchronised
  <2> QED  BY <1>1, <1>4, <2>1, <2>2, <2>3, StateStep
<1>5. CASE /\ net' \in Put({ToClient("ACK", sock[s].peer, sock[s].irs, sock[s].iss)})
           /\ UNCHANGED <<sock, accept, disconnect>>
  <2>1. FromServer(ToClient("ACK", sock[s].peer, sock[s].irs, sock[s].iss))  BY <1>2, ToClientIs
  <2>2. net' \subseteq Segments /\ NetKnown'  BY <1>5, <2>1, ServerPuts
  <2>3. half' = half /\ UNCHANGED <<queued, others, sock, listen, threadVars, client>>
    BY <1>5 DEF cacheVars, threadVars
  <2> QED  BY <2>2, <2>3, HalfIsLeft, LeftStep
<1> QED  BY <1>3, <1>4, <1>5 DEF SocketInput

\* _nx_tcp_packet_process: every segment the server gets.
LEMMA ServerReceivesStep ==
    ASSUME Base, NEW m \in net, ServerReceives(m)
    PROVE  Base'
<1>1. CASE \E s \in Home(m) : /\ IF AwaitingAccept(s) THEN Hold(s, m) ELSE SocketInput(s, m)
                              /\ UNCHANGED <<listen, cacheVars, client>>
  <2>1. PICK s \in Home(m) : /\ IF AwaitingAccept(s) THEN Hold(s, m) ELSE SocketInput(s, m)
                             /\ UNCHANGED <<listen, cacheVars, client>>
    BY <1>1
  <2>2. s \in Sockets  BY DEF Home
  <2> QED  BY <2>1, <2>2, HoldStep, SocketInputStep
<1>2. CASE Home(m) = {} /\ SynReceived(m)  BY <1>2, SynReceivedStep
<1>3. CASE Home(m) = {} /\ m.to = "server" /\ m.type \in {"ACK", "FIN"} /\ AckReceived(m)
  BY <1>3, AckReceivedStep
<1>4. CASE ResetReceived(m)  BY <1>4, ResetReceivedStep
<1>5. CASE net' \in Put({Reset(m)}) /\ UNCHANGED <<sock, listen, cacheVars, threadVars, client>>
  <2>1. FromServer(Reset(m))  BY SegmentIs, ResetIs
  <2>2. net' \subseteq Segments /\ NetKnown'  BY <1>5, <2>1, ServerPuts
  <2>3. half' = half /\ UNCHANGED <<queued, others, sock, listen, threadVars, client>>
    BY <1>5 DEF cacheVars
  <2> QED  BY <2>2, <2>3, HalfIsLeft, LeftStep
<1> QED  BY <1>1, <1>2, <1>3, <1>4, <1>5 DEF ServerReceives

\* accept of a connection that waits for it keeps the peer, or cleans up.
LEMMA AcceptNowStep ==
    ASSUME Base, NEW s \in Sockets, AcceptNow(s)
    PROVE  Base'
<1>1. /\ listen' \in [on : BOOLEAN, slot : Sockets \cup {None}]
      /\ accept' \in [Sockets -> {"none", "waiting", "failed"}]
      /\ disconnect' \in [Sockets -> {"none", "waiting", "woken"}]
  BY ThreadTypes DEF AcceptNow, threadVars
<1>2. net' \subseteq Segments /\ NetKnown'  BY SendsNothing DEF AcceptNow
<1>3. sock[s] \in Records /\ Connected(s)  BY RecordIs DEF AcceptNow, AwaitingAccept, Connected
<1> DEFINE r == Accepted(sock[s])
           now == [sock[s] EXCEPT !.state = "ESTABLISHED", !.held = <<>>]
<1>4. sock' = [sock EXCEPT ![s] = r]  BY DEF AcceptNow
<1>5. /\ now \in Records /\ now.bound = sock[s].bound /\ now.peer = sock[s].peer
      /\ now.irs = sock[s].irs /\ now.iss = sock[s].iss
  <2>1. <<>> \in Seq({"FIN", "RST"})  BY EmptySeq
  <2> QED  BY <1>3, <2>1 DEF Records, Synchronised
<1>6. r = now \/ r = [now EXCEPT !.state = "CLOSE_WAIT"] \/ r = Cleaned(now)  BY DEF Accepted
<1> HIDE DEF r, now
<1>7. CASE r = now
  BY <1>1, <1>2, <1>3, <1>4, <1>5, <1>7, SocketStep DEF Connected, AcceptNow
<1>8. CASE r = [now EXCEPT !.state = "CLOSE_WAIT"]
  <2>1. /\ r \in Records /\ r.bound = sock[s].bound /\ r.peer = sock[s].peer
        /\ r.irs = sock[s].irs /\ r.iss = sock[s].iss
    BY <1>5, <1>8 DEF Records, Synchronised
  <2> QED  BY <1>1, <1>2, <1>3, <1>4, <2>1, SocketStep DEF Connected, AcceptNow
<1>9. CASE r = Cleaned(now)
  <2>1. r \in Records /\ r.peer = None /\ r.state \notin Synchronised  BY <1>5, <1>9, CleanedIs
  <2> QED  BY <1>1, <1>2, <1>4, <2>1, SocketStep DEF AcceptNow
<1> QED  BY <1>6, <1>7, <1>8, <1>9

\* nx_tcp_server_socket_listen parks a socket without a connection.
LEMMA ListenStep ==
    ASSUME Base, NEW s \in Sockets, Listen(s)
    PROVE  Base'
<1> DEFINE r == [sock[s] EXCEPT !.state = "LISTEN", !.server = TRUE]
<1>1. /\ listen' \in [on : BOOLEAN, slot : Sockets \cup {None}]
      /\ accept' \in [Sockets -> {"none", "waiting", "failed"}]
      /\ disconnect' \in [Sockets -> {"none", "waiting", "woken"}]
  BY ThreadTypes DEF Listen, threadVars
<1>2. net' \subseteq Segments /\ NetKnown'  BY SendsNothing DEF Listen
<1>3. sock[s] \in Records  BY RecordIs
<1>4. r \in Records /\ r.state = "LISTEN" /\ r.bound = sock[s].bound  BY <1>3 DEF Records, Opening
<1>5. sock' = [sock EXCEPT ![s] = r] /\ ~sock[s].bound  BY DEF Listen, Base, TypeOK
<1> HIDE DEF r
<1> QED  BY <1>1, <1>2, <1>4, <1>5, SocketStep, ZenonT(40) DEF Synchronised, Listen

\* nx_tcp_server_socket_relisten
LEMMA RelistenStep ==
    ASSUME Base, NEW s \in Sockets, Relisten(s)
    PROVE  Base'
<1>1. UNCHANGED <<others, disconnect, client>> /\ client' = client /\ ~sock[s].bound  BY DEF Relisten
<1>2. CASE queued # <<>> /\ HandOver(s, Head(queued)) /\ queued' = Tail(queued) /\ UNCHANGED <<half, net>>
  <2> DEFINE e == Head(queued)
  <2>1. queued \in Seq(QueueEntries) /\ Distinct(queued)  BY LengthsAre DEF Base, HomesApart
  <2>2. /\ queued' \in Seq(QueueEntries) /\ Len(queued') = Len(queued) - 1
        /\ \A j \in DOMAIN queued' : \E k \in DOMAIN queued : queued'[j] = queued[k]
        /\ 1 \in DOMAIN queued /\ e = queued[1]
        /\ Distinct(queued') /\ Peers(queued') = Peers(queued) \ {e.peer}
    BY <1>2, <2>1, TailEntry
  <2>3. e \in QueueEntries /\ Current(e)  BY <2>2, QueuedIs
  <2>4. \A i \in DOMAIN queued' : Current(queued'[i])  BY <2>2, QueuedIs
  <2>5. e.peer \in Peers(queued)  BY <2>2 DEF Peers
  <2>6. \A t \in Sockets : Connected(t) => sock[t].peer # e.peer  BY <2>5 DEF Base, HomesApart
  <2>7. e.peer \notin Peers(half)  BY <2>5 DEF Base, HomesApart
  <2>8. half' = half /\ net' = net /\ HandOver(s, e)  BY <1>2
  <2> HIDE DEF e
  <2>9. half' \in Seq(HalfEntries) /\ Distinct(half') /\ Known(half)'
    BY <1>1, <2>8, LengthsAre DEF Base, HomesApart, NumbersKnown, Known
  <2>10. others + Len(half') + Len(queued') <= CacheSize  BY <2>2, <2>8, LengthsAre
  <2>11. Peers(half') \subseteq Peers(half) \ {e.peer}  BY <2>7, <2>8
  <2>12. Peers(queued') \subseteq Peers(queued) \ {e.peer}  BY <2>2
  <2> QED  BY <1>1, <2>2, <2>3, <2>4, <2>6, <2>8, <2>9, <2>10, <2>11, <2>12, HandOverStep
<1>3. CASE /\ listen' = [listen EXCEPT !.slot = s]
           /\ sock' = [sock EXCEPT ![s].state = "LISTEN", ![s].server = TRUE]
           /\ UNCHANGED <<queued, accept>>
           /\ AnswerDeferred(half, TRUE)
  <2> DEFINE r == [sock[s] EXCEPT !.state = "LISTEN", !.server = TRUE]
  <2>1. /\ listen' \in [on : BOOLEAN, slot : Sockets \cup {None}]
        /\ accept' \in [Sockets -> {"none", "waiting", "failed"}]
        /\ disconnect' \in [Sockets -> {"none", "waiting", "woken"}]
    BY <1>1, <1>3, ThreadTypes
  <2>2. Left(half') /\ net' \subseteq Segments /\ NetKnown'
    BY <1>1, <1>3, HalfIsLeft, AnswerDeferredIs
  <2>3. sock[s] \in Records  BY RecordIs
  <2>4. r \in Records /\ r.state = "LISTEN" /\ r.bound = sock[s].bound  BY <2>3 DEF Records, Opening
  <2>5. sock' = [sock EXCEPT ![s] = r]  BY <1>3 DEF Base, TypeOK
  <2>6. UNCHANGED <<queued, others, client>>  BY <1>1, <1>3
  <2> HIDE DEF r
  <2> QED  BY <1>1, <2>1, <2>2, <2>4, <2>5, <2>6, SocketLeftStep DEF Synchronised
<1> QED  BY <1>2, <1>3 DEF Relisten

\* The calls and timers that change a socket's state or clean it up, one by one.
LEMMA CallStep ==
    ASSUME Base, NEW s \in Sockets,
           \/ Accept(s) \/ AcceptTimeout(s) \/ AcceptFails(s) \/ DisconnectOpening(s)
           \/ DisconnectNow(s) \/ Disconnect(s) \/ Closes(s) \/ ClosingExpires(s)
           \/ DisconnectTimeout(s) \/ DisconnectReturns(s) \/ Unaccept(s)
    PROVE  Base'
<1>1. /\ listen' \in [on : BOOLEAN, slot : Sockets \cup {None}]
      /\ accept' \in [Sockets -> {"none", "waiting", "failed"}]
      /\ disconnect' \in [Sockets -> {"none", "waiting", "woken"}]
  <2> USE ThreadTypes, WakesAre
  <2>1. CASE Accept(s)  BY <2>1 DEF Accept
  <2>2. CASE AcceptTimeout(s)  BY <2>2 DEF AcceptTimeout
  <2>3. CASE AcceptFails(s)  BY <2>3 DEF AcceptFails
  <2>4. CASE DisconnectOpening(s)  BY <2>4 DEF DisconnectOpening
  <2>5. CASE DisconnectNow(s)  BY <2>5 DEF DisconnectNow
  <2>6. CASE Disconnect(s)  BY <2>6 DEF Disconnect
  <2>7. CASE Closes(s)  BY <2>7 DEF Closes
  <2>8. CASE ClosingExpires(s)  BY <2>8 DEF ClosingExpires, ConnectionReset, threadVars
  <2>9. CASE DisconnectTimeout(s)  BY <2>9 DEF DisconnectTimeout
  <2>10. CASE DisconnectReturns(s)  BY <2>10 DEF DisconnectReturns
  <2>11. CASE Unaccept(s)  BY <2>11 DEF Unaccept
  <2> QED  BY <2>1, <2>2, <2>3, <2>4, <2>5, <2>6, <2>7, <2>8, <2>9, <2>10, <2>11
<1>2. UNCHANGED <<cacheVars, client>> /\ client' = client
  BY DEF Accept, AcceptTimeout, AcceptFails, DisconnectOpening, DisconnectNow, Disconnect, Closes,
         ClosingExpires, DisconnectTimeout, DisconnectReturns, Unaccept
<1>3. sock[s] \in Records /\ (sock[s].state \in Synchronised => Connected(s))  BY RecordIs DEF Connected
<1>4. net' \subseteq Segments /\ NetKnown'
  <2>1. CASE net' = net  BY <1>2, <2>1, SendsNothing
  <2>2. CASE DisconnectNow(s)
    <3>1. Connected(s)  BY <1>3, <2>2 DEF DisconnectNow, Synchronised
    <3>2. FromServer(Reset(sock[s]))  BY <3>1, RecordIs, ResetIs
    <3> QED  BY <1>2, <2>2, <3>2, ServerPuts DEF DisconnectNow
  <2> QED  BY <2>1, <2>2 DEF Accept, AcceptTimeout, AcceptFails, DisconnectOpening, Disconnect, Closes,
                             ClosingExpires, DisconnectTimeout, DisconnectReturns, Unaccept
<1>5. CASE sock' = [sock EXCEPT ![s] = Cleaned(@)] \/ sock' = [sock EXCEPT ![s] = Fresh]
  BY <1>1, <1>2, <1>4, <1>5, CleanStep
<1>6. CASE sock' = sock
  <2>1. sock' = [sock EXCEPT ![s] = sock[s]]  BY <1>6 DEF Base, TypeOK
  <2> QED  BY <1>1, <1>2, <1>3, <1>4, <2>1, SocketStep DEF Connected
<1>7. ASSUME NEW st \in {"CLOSED"} \cup Opening, sock' = [sock EXCEPT ![s].state = st]
      PROVE  Base'
  <2>1. st \notin Synchronised  BY DEF Opening, Synchronised
  <2> QED  BY <1>1, <1>2, <1>4, <1>7, <2>1, StateStep
<1>8. ASSUME NEW st \in Synchronised, sock[s].state \in Synchronised, sock' = [sock EXCEPT ![s].state = st]
      PROVE  Base'
  BY <1>1, <1>2, <1>3, <1>4, <1>8, StateStep
<1>9. CASE Accept(s)  BY <1>7, <1>9 DEF Accept, Opening
<1>10. CASE AcceptTimeout(s)  BY <1>7, <1>10 DEF AcceptTimeout, Opening
<1>11. CASE AcceptFails(s)  BY <1>7, <1>11 DEF AcceptFails, Opening
<1>12. CASE DisconnectOpening(s)  BY <1>7, <1>12 DEF DisconnectOpening, Opening
<1>13. CASE DisconnectNow(s)  BY <1>5, <1>13 DEF DisconnectNow
<1>14. CASE Disconnect(s)
  <2> DEFINE st == IF sock[s].state = "ESTABLISHED" THEN "FIN_WAIT" ELSE "LAST_ACK"
  <2>1. sock' = [sock EXCEPT ![s].state = st]  BY <1>14 DEF Disconnect, Base, TypeOK
  <2>2. st \in Synchronised /\ sock[s].state \in Synchronised  BY <1>14 DEF Disconnect, Synchronised
  <2> HIDE DEF st
  <2> QED  BY <1>8, <2>1, <2>2
<1>15. CASE Closes(s)  BY <1>5, <1>8, <1>15 DEF Closes, Synchronised
<1>16. CASE ClosingExpires(s)  BY <1>5, <1>16 DEF ClosingExpires, ConnectionReset
<1>17. CASE DisconnectTimeout(s)  BY <1>6, <1>17 DEF DisconnectTimeout
<1>18. CASE DisconnectReturns(s)  BY <1>5, <1>6, <1>18 DEF DisconnectReturns
<1>19. CASE Unaccept(s)  BY <1>5, <1>19 DEF Unaccept
<1> QED  BY <1>9, <1>10, <1>11, <1>12, <1>13, <1>14, <1>15, <1>16, <1>17, <1>18, <1>19

\* nx_tcp_server_socket_unlisten empties the cache.
LEMMA UnlistenStep ==
    ASSUME Base, Unlisten
    PROVE  Base'
<1>1. half' = <<>> /\ queued' = <<>> /\ UNCHANGED <<others, threadVars, client>> /\ client' = client
  BY DEF Unlisten
<1>2. net' \subseteq Segments /\ NetKnown'
  <2> DEFINE new == {Reset(queued[i]) : i \in DOMAIN queued}
  <2>1. \A m \in new : FromServer(m)  BY QueuedIs, ResetIs
  <2>2. net' \in Put(new)  BY DEF Unlisten
  <2> HIDE DEF new
  <2>3. net' \subseteq net \cup new  BY <2>2, PutNet
  <2> QED  BY <1>1, <2>1, <2>3, ServerSends
<1>3. /\ \A s \in Sockets : sock'[s] \in Records
      /\ \A s \in Sockets : /\ sock'[s].bound = sock[s].bound /\ sock'[s].peer = sock[s].peer
                            /\ sock'[s].irs = sock[s].irs /\ sock'[s].iss = sock[s].iss
                            /\ sock'[s].state = sock[s].state \/ sock'[s].state = "CLOSED"
      /\ sock' \in [Sockets -> Records]
  <2>1. sock \in [Sockets -> Records]  BY DEF Base, TypeOK, Records
  <2>2. CASE sock' = sock  BY <2>1, <2>2
  <2>3. CASE sock' = [sock EXCEPT ![listen.slot].state = "CLOSED"] /\ listen.slot \in Sockets
    <3> DEFINE p == listen.slot
               r == [sock[p] EXCEPT !.state = "CLOSED"]
    <3>1. p \in Sockets /\ sock[p] \in Records /\ sock' = [sock EXCEPT ![p] = r]  BY <2>1, <2>3
    <3>2. /\ r \in Records /\ r.bound = sock[p].bound /\ r.peer = sock[p].peer
          /\ r.irs = sock[p].irs /\ r.iss = sock[p].iss /\ r.state = "CLOSED"
      BY <3>1 DEF Records
    <3> HIDE DEF p, r
    <3> QED  BY <2>1, <3>1, <3>2
  <2> QED  BY <2>2, <2>3 DEF Unlisten, Base, TypeOK
<1>4. TypeOK'
  <2>1. listen' \in [on : BOOLEAN, slot : Sockets \cup {None}]
    <3>1. listen' = listen \/ listen' = [on |-> FALSE, slot |-> None]  BY DEF Unlisten
    <3>2. [on |-> FALSE, slot |-> None] \in [on : BOOLEAN, slot : Sockets \cup {None}]  OBVIOUS
    <3> QED  BY <3>1, <3>2, ThreadTypes
  <2>2. /\ half' \in Seq(HalfEntries) /\ queued' \in Seq(QueueEntries) /\ Len(half') = 0 /\ Len(queued') = 0
    BY <1>1, EmptySeq
  <2>3. others + 0 + 0 <= CacheSize  BY LengthsAre
  <2> QED  BY <1>1, <1>2, <1>3, <2>1, <2>2, <2>3
           DEF Base, TypeOK, Records, HalfEntries, QueueEntries, threadVars
<1>5. \A s \in Sockets : Connected(s)' <=> Connected(s)  BY <1>3 DEF Connected
<1>6. HomesApart'
  <2>1. Peers(half') = {} /\ Peers(queued') = {} /\ Distinct(half') /\ Distinct(queued')
    BY <1>1 DEF Peers, Distinct
  <2>2. /\ Distinct(half)' = Distinct(half') /\ Distinct(queued)' = Distinct(queued')
        /\ Peers(half)' = Peers(half') /\ Peers(queued)' = Peers(queued')
    BY DEF Distinct, Peers
  <2> QED  BY <1>3, <1>5, <2>1, <2>2 DEF Base, HomesApart
<1>7. NumbersKnown'
  <2>1. Known(half)' /\ \A i \in DOMAIN queued' : Current(queued[i])'  BY <1>1 DEF Known
  <2>2. \A s \in Sockets : Connected(s)' => Current(sock[s])'
    BY <1>1, <1>3, <1>5 DEF Base, NumbersKnown, Current
  <2> QED  BY <1>2, <2>1, <2>2 DEF NumbersKnown
<1>8. PeerIsSet'
  BY <1>3, <1>5 DEF Base, PeerIsSet, Synchronised
<1>9. ClientIsNumbered'  BY <1>1 DEF Base, ClientIsNumbered
<1> QED  BY <1>4, <1>6, <1>7, <1>8, <1>9 DEF Base

-----------------------------------------------------------------------------
(* Base: the clients *)

\* A client that goes on with a connection keeps its number; one that starts has
\* a new one, which nothing has seen.
LEMMA ClientStep ==
    ASSUME Base, UNCHANGED ServerVars, NEW c \in Clients,
           NEW r \in [state : {"closed", "syn_sent", "established"}, irs : 0..MaxIrs, iss : Numbers],
           client' = [client EXCEPT ![c] = r], r.state # "closed" => r.irs # 0,
           \/ r.irs > client[c].irs
           \/ /\ r.irs = client[c].irs
              /\ \/ r.state = "closed"
                 \/ r.state = client[c].state /\ r.iss = client[c].iss
                 \/ client[c].state = "syn_sent",
           net' \subseteq Segments,
           \A m \in net' \ net : /\ m.peer = c /\ m.irs <= r.irs
                                 /\ m.to = "server" /\ m.type \in {"ACK", "FIN"} =>
                                      (r.irs = m.irs /\ r.state = "established" /\ r.iss = m.iss)
    PROVE  Base'
<1>1. /\ UNCHANGED <<sock, listen, half, queued, others, accept, disconnect>>
  BY DEF ServerVars, cacheVars, threadVars
<1>2. client \in [Clients -> [state : {"closed", "syn_sent", "established"}, irs : 0..MaxIrs, iss : Numbers]]
  BY DEF Base, TypeOK
<1>3. client'[c] = r /\ \A d \in Clients : d # c => client'[d] = client[d]  BY <1>2
<1>4. \A d \in Clients : client[d].irs <= client'[d].irs
  <2>1. \A d \in Clients : client[d].irs \in Nat  BY <1>2
  <2>2. r.irs \in Nat  OBVIOUS
  <2> QED  BY <1>3, <2>1, <2>2
<1>5. ASSUME NEW e, e.peer \in Clients, e.irs \in 0..MaxIrs, Current(e) PROVE Current(e)'
  <2>1. CASE e.peer # c  BY <1>3, <1>5, <2>1 DEF Current
  <2>2. CASE e.peer = c
    <3>1. e.irs <= client[c].irs  BY <1>5, <2>2 DEF Current
    <3>2. e.irs \in Nat /\ client[c].irs \in Nat /\ r.irs \in Nat  BY <1>2, <1>5
    <3>3. CASE r.irs > client[c].irs  BY <1>3, <2>2, <3>1, <3>2, <3>3 DEF Current
    <3>4. CASE r.irs = client[c].irs
      BY <1>3, <1>5, <2>2, <3>1, <3>2, <3>4 DEF Current
    <3> QED  BY <3>3, <3>4
  <2> QED  BY <2>1, <2>2
<1>6. TypeOK'
  <2>1. client' \in [Clients -> [state : {"closed", "syn_sent", "established"}, irs : 0..MaxIrs, iss : Numbers]]
    BY <1>2
  <2> QED  BY <1>1, <2>1 DEF Base, TypeOK
<1>7. HomesApart'  BY <1>1 DEF Base, HomesApart, Distinct, Peers, Connected
<1>8. NumbersKnown'
  <2>1. Known(half)'
    <3> SUFFICES ASSUME NEW i \in DOMAIN half PROVE half[i].irs <= client'[half[i].peer].irs
      BY <1>1 DEF Known
    <3>1. half[i].peer \in Clients /\ half[i].irs \in 1..MaxIrs /\ half[i].irs <= client[half[i].peer].irs
      BY HalfIsLeft, EntryIs
    <3>2. client[half[i].peer].irs \in Nat /\ client'[half[i].peer].irs \in Nat  BY <1>2, <1>3, <3>1
    <3> QED  BY <1>4, <3>1, <3>2
  <2>2. \A i \in DOMAIN queued' : Current(queued[i])'
    <3> SUFFICES ASSUME NEW i \in DOMAIN queued PROVE Current(queued[i])'  BY <1>1
    <3>1. queued[i].peer \in Clients /\ queued[i].irs \in 0..MaxIrs /\ Current(queued[i])  BY QueuedIs
    <3> DEFINE e == queued[i]
    <3>2. e.peer \in Clients /\ e.irs \in 0..MaxIrs /\ Current(e)  BY <3>1
    <3>3. queued'[i] = e  BY <1>1
    <3> HIDE DEF e
    <3> QED  BY <1>5, <3>2, <3>3 DEF Current
  <2>3. \A s \in Sockets : Connected(s)' => Current(sock[s])'
    <3> SUFFICES ASSUME NEW s \in Sockets, Connected(s) PROVE Current(sock[s])'  BY <1>1 DEF Connected
    <3> DEFINE e == sock[s]
    <3>1. e.peer \in Clients /\ e.irs \in 0..MaxIrs /\ Current(e)  BY RecordIs DEF Base, NumbersKnown
    <3>2. sock'[s] = e  BY <1>1
    <3> HIDE DEF e
    <3> QED  BY <1>5, <3>1, <3>2 DEF Current
  <2>4. NetKnown'
    <3> SUFFICES ASSUME NEW m \in net'
                 PROVE  /\ m.irs <= client'[m.peer].irs
                        /\ m.to = "server" /\ m.type \in {"ACK", "FIN"} => Current(m)'
      BY DEF NetKnown, Current
    <3>1. CASE m \in net
      <4>1. /\ m.peer \in Clients /\ m.irs \in 1..MaxIrs /\ m.irs <= client[m.peer].irs
            /\ m.to = "server" /\ m.type \in {"ACK", "FIN"} => Current(m)
        BY <3>1, SegmentIs
      <4>2. client[m.peer].irs \in Nat /\ client'[m.peer].irs \in Nat  BY <1>2, <1>3, <4>1
      <4>3. m.irs <= client'[m.peer].irs  BY <1>4, <4>1, <4>2
      <4> QED  BY <1>5, <4>1, <4>3
    <3>2. CASE m \notin net
      <4>1. /\ m.peer = c /\ m.irs <= r.irs
            /\ m.to = "server" /\ m.type \in {"ACK", "FIN"} =>
                 (r.irs = m.irs /\ r.state = "established" /\ r.iss = m.iss)
        BY <3>2
      <4> QED  BY <1>3, <4>1 DEF Current
    <3> QED  BY <3>1, <3>2
  <2> QED  BY <2>1, <2>2, <2>3, <2>4 DEF NumbersKnown
<1>9. PeerIsSet'  BY <1>1 DEF Base, PeerIsSet, Connected
<1>10. ClientIsNumbered'  BY <1>3 DEF Base, ClientIsNumbered
<1> QED  BY <1>6, <1>7, <1>8, <1>9, <1>10 DEF Base

ClientRecords == [state : {"closed", "syn_sent", "established"}, irs : 0..MaxIrs, iss : Numbers]

\* What a client sends carries its own number, and the numbers of its connection
\* when there is one.
LEMMA ToServerIs ==
    ASSUME NEW type \in {"SYN", "ACK", "FIN", "RST"}, NEW c \in Clients, NEW irs \in 1..MaxIrs,
           NEW iss \in Numbers
    PROVE  LET m == ToServer(type, c, irs, iss)
           IN  m \in Segments /\ m.peer = c /\ m.irs = irs /\ m.iss = iss /\ m.type = type
BY DEF ToServer, Segments

\* What is known of a client.
LEMMA ClientIs ==
    ASSUME Base, NEW c \in Clients
    PROVE  client[c] \in ClientRecords /\ client = [client EXCEPT ![c] = client[c]]
BY DEF Base, TypeOK, ClientRecords

\* The new segments of a step that puts one of the client's into the network.
LEMMA ClientPuts ==
    ASSUME Base, NEW c \in Clients, NEW r \in ClientRecords, NEW x \in Segments, net' \in Put({x}),
           x.peer = c, x.irs <= r.irs,
           x.type \in {"ACK", "FIN"} => r.irs = x.irs /\ r.state = "established" /\ r.iss = x.iss
    PROVE  /\ net' \subseteq Segments
           /\ \A m \in net' \ net : /\ m.peer = c /\ m.irs <= r.irs
                                    /\ m.to = "server" /\ m.type \in {"ACK", "FIN"} =>
                                         (r.irs = m.irs /\ r.state = "established" /\ r.iss = m.iss)
<1>1. net' \subseteq net \cup {x}  BY PutNet
<1>2. net \subseteq Segments  BY DEF Base, TypeOK
<1> QED  BY <1>1, <1>2

\* A client connects with a number it has not used.
LEMMA ClientConnectsStep ==
    ASSUME Base, NEW c \in Clients, ClientConnects(c)
    PROVE  Base'
<1> DEFINE n == client[c].irs + 1
           r == [state |-> "syn_sent", irs |-> n, iss |-> "none"]
           x == ToServer("SYN", c, n, "none")
<1>1. client[c] \in ClientRecords /\ client[c].irs < MaxIrs /\ MaxIrs \in Nat
  BY ClientIs, ServerAssumption DEF ClientConnects, ServerAssumption
<1>2. n \in 0..MaxIrs /\ n \in 1..MaxIrs /\ n > client[c].irs /\ n <= n /\ n # 0
  BY <1>1 DEF ClientRecords
<1>3. r \in ClientRecords /\ r.irs = n
  <2> HIDE DEF n
  <2> QED  BY <1>2 DEF ClientRecords, Numbers
<1>4. client' = [client EXCEPT ![c] = r] /\ client'[c] = r  BY DEF ClientConnects, Base, TypeOK
<1>5. x \in Segments /\ x.peer = c /\ x.irs = n /\ x.type = "SYN"
  <2> HIDE DEF n
  <2> QED  BY <1>2, ToServerIs DEF Numbers
<1>6. net' \in Put({x})  BY <1>3, <1>4 DEF ClientConnects
<1> HIDE DEF n, r, x
<1>7. /\ net' \subseteq Segments
      /\ \A m \in net' \ net : /\ m.peer = c /\ m.irs <= r.irs
                               /\ m.to = "server" /\ m.type \in {"ACK", "FIN"} =>
                                    (r.irs = m.irs /\ r.state = "established" /\ r.iss = m.iss)
  BY <1>2, <1>3, <1>5, <1>6, ClientPuts
<1>8. UNCHANGED ServerVars  BY DEF ClientConnects
<1> QED  BY <1>2, <1>3, <1>4, <1>7, <1>8, ClientStep DEF ClientRecords

\* A client with a connection has a number.
LEMMA ClientNumbers ==
    ASSUME Base, NEW c \in Clients, client[c].state # "closed"
    PROVE  client[c].irs \in 1..MaxIrs /\ client[c].irs # 0 /\ client[c].irs <= client[c].irs
<1>1. client[c].irs \in 0..MaxIrs  BY ClientIs DEF ClientRecords
<1>2. client[c].irs # 0  BY DEF Base, ClientIsNumbered
<1>3. MaxIrs \in Nat  BY ServerAssumption DEF ServerAssumption
<1> QED  BY <1>1, <1>2, <1>3

\* It sends its SYN or its FIN again.
LEMMA ClientResendsStep ==
    ASSUME Base, NEW c \in Clients, ClientResends(c)
    PROVE  Base'
<1> DEFINE r == client[c]
           x == IF r.state = "syn_sent" THEN ToServer("SYN", c, r.irs, "none")
                                        ELSE ToServer("FIN", c, r.irs, r.iss)
<1>1. r \in ClientRecords /\ r.state # "closed" /\ client' = [client EXCEPT ![c] = r]
  BY ClientIs DEF ClientResends
<1>2. r.irs \in 1..MaxIrs /\ r.irs # 0 /\ r.irs <= r.irs /\ r.iss \in Numbers
  BY <1>1, ClientNumbers DEF ClientRecords
<1>3. net' \in Put({x}) /\ (r.state = "syn_sent" \/ r.state = "established")  BY DEF ClientResends
<1> HIDE DEF r
<1>4. /\ x \in Segments /\ x.peer = c /\ x.irs <= r.irs
      /\ x.type \in {"ACK", "FIN"} => r.irs = x.irs /\ r.state = "established" /\ r.iss = x.iss
  <2>1. CASE r.state = "syn_sent"
    <3>1. x = ToServer("SYN", c, r.irs, "none") /\ "none" \in Numbers  BY <2>1 DEF Numbers
    <3> HIDE DEF x
    <3> QED  BY <1>2, <3>1, ToServerIs
  <2>2. CASE r.state = "established"
    <3>1. x = ToServer("FIN", c, r.irs, r.iss)  BY <2>2
    <3> HIDE DEF x
    <3> QED  BY <1>2, <2>2, <3>1, ToServerIs
  <2> QED  BY <1>3, <2>1, <2>2
<1> HIDE DEF x
<1>5. /\ net' \subseteq Segments
      /\ \A m \in net' \ net : /\ m.peer = c /\ m.irs <= r.irs
                               /\ m.to = "server" /\ m.type \in {"ACK", "FIN"} =>
                                    (r.irs = m.irs /\ r.state = "established" /\ r.iss = m.iss)
  BY <1>1, <1>3, <1>4, ClientPuts
<1>6. UNCHANGED ServerVars  BY DEF ClientResends
<1> QED  BY <1>1, <1>2, <1>5, <1>6, ClientStep DEF ClientRecords, r

\* It ends its connection, with or without a RST.
LEMMA ClientClosesStep ==
    ASSUME Base, NEW c \in Clients, client[c].state # "closed", UNCHANGED ServerVars,
           client' = [client EXCEPT ![c].state = "closed", ![c].iss = "none"],
           net' = net \/ net' \in Put({ToServer("RST", c, client[c].irs, "none")})
    PROVE  Base'
<1> DEFINE r == [client[c] EXCEPT !.state = "closed", !.iss = "none"]
           n == client[c].irs
           x == ToServer("RST", c, n, "none")
<1>1. client[c] \in ClientRecords  BY ClientIs
<1>2. r \in ClientRecords /\ r.state = "closed" /\ r.irs = n  BY <1>1 DEF ClientRecords, Numbers
<1>3. client' = [client EXCEPT ![c] = r]  BY DEF Base, TypeOK
<1>4. n \in 1..MaxIrs /\ n <= n /\ "none" \in Numbers  BY ClientNumbers DEF Numbers
<1>5. x \in Segments /\ x.peer = c /\ x.irs = n /\ x.type = "RST"
  <2> HIDE DEF n
  <2> QED  BY <1>4, ToServerIs
<1>6. net' = net \/ net' \in Put({x})  OBVIOUS
<1>7. net \subseteq Segments  BY DEF Base, TypeOK
<1> HIDE DEF r, n, x
<1>8. /\ net' \subseteq Segments
      /\ \A m \in net' \ net : /\ m.peer = c /\ m.irs <= r.irs
                               /\ m.to = "server" /\ m.type \in {"ACK", "FIN"} =>
                                    (r.irs = m.irs /\ r.state = "established" /\ r.iss = m.iss)
  BY <1>2, <1>4, <1>5, <1>6, <1>7, ClientPuts
<1> QED  BY <1>2, <1>3, <1>8, ClientStep, ZenonT(40) DEF ClientRecords, n

\* It gets a SYN-ACK, an acknowledgement or a RST, of this connection or an old one.
LEMMA ClientReceivesStep ==
    ASSUME Base, NEW m \in net, ClientReceives(m)
    PROVE  Base'
<1> DEFINE c == m.peer
           r == client[c]
           mine == r.state # "closed" /\ m.irs = r.irs
           now == IF r.state = "syn_sent" THEN [r EXCEPT !.state = "established", !.iss = m.iss] ELSE r
<1>1. /\ c \in Clients /\ m.irs \in 1..MaxIrs /\ m.iss \in Numbers /\ m.irs <= r.irs /\ "none" \in Numbers
  BY SegmentIs DEF Numbers
<1>2. r \in ClientRecords /\ client = [client EXCEPT ![c] = r]  BY <1>1, ClientIs
<1>3. UNCHANGED ServerVars  BY DEF ClientReceives
<1>4. CASE /\ mine /\ client' = [client EXCEPT ![c] = now]
           /\ net' \in Put({ToServer("ACK", c, m.irs, now.iss)})
  <2> DEFINE x == ToServer("ACK", c, m.irs, now.iss)
  <2>1. now \in ClientRecords /\ now.irs = r.irs /\ now.state = "established"
    BY <1>1, <1>2, <1>4 DEF ClientRecords
  <2>2. r.state = "syn_sent" \/ (now.state = r.state /\ now.iss = r.iss)  OBVIOUS
  <2>3. r.irs # 0 /\ r.irs <= r.irs  BY <1>1, <1>4, ClientNumbers
  <2> HIDE DEF now
  <2>4. now.iss \in Numbers  BY <2>1 DEF ClientRecords
  <2>5. x \in Segments /\ x.peer = c /\ x.irs = m.irs /\ x.iss = now.iss
    BY <1>1, <2>4, ToServerIs
  <2>6. net' \in Put({x})  BY <1>4
  <2>7. m.irs = now.irs /\ m.irs <= now.irs  BY <1>1, <1>4, <2>1
  <2> HIDE DEF x
  <2>8. /\ net' \subseteq Segments
        /\ \A y \in net' \ net : /\ y.peer = c /\ y.irs <= now.irs
                                 /\ y.to = "server" /\ y.type \in {"ACK", "FIN"} =>
                                      (now.irs = y.irs /\ now.state = "established" /\ now.iss = y.iss)
    BY <1>1, <2>1, <2>5, <2>6, <2>7, ClientPuts
  <2>10. client' = [client EXCEPT ![c] = now]  BY <1>4
  <2> QED  BY <1>1, <1>3, <2>1, <2>2, <2>3, <2>8, <2>10, ClientStep DEF ClientRecords
<1>5. CASE /\ mine /\ client' = [client EXCEPT ![c].state = "closed", ![c].iss = "none"]
           /\ net' = net
  <2>1. client[c].state # "closed" /\ client' = [client EXCEPT ![c].state = "closed", ![c].iss = "none"] /\ net' = net
    BY <1>5
  <2> HIDE DEF c
  <2> QED  BY <1>1, <1>3, <2>1, ClientClosesStep
<1>6. CASE net' \in Put({ToServer("RST", c, m.irs, "none")}) /\ client' = client
  <2> DEFINE x == ToServer("RST", c, m.irs, "none")
  <2>1. x \in Segments /\ x.peer = c /\ x.irs = m.irs /\ x.type = "RST"  BY <1>1, ToServerIs
  <2>2. net' \in Put({x})  BY <1>6
  <2> HIDE DEF x
  <2>3. /\ net' \subseteq Segments
        /\ \A y \in net' \ net : /\ y.peer = c /\ y.irs <= r.irs
                                 /\ y.to = "server" /\ y.type \in {"ACK", "FIN"} =>
                                      (r.irs = y.irs /\ r.state = "established" /\ r.iss = y.iss)
    BY <1>1, <1>2, <2>1, <2>2, ClientPuts
  <2>4. r.state # "closed" => r.irs # 0  BY <1>1, ClientNumbers
  <2> QED  BY <1>1, <1>2, <1>3, <1>6, <2>3, <2>4, ClientStep DEF ClientRecords
<1> QED  BY <1>4, <1>5, <1>6 DEF ClientReceives

-----------------------------------------------------------------------------
(* Base: theorems *)

\* Nothing is connected and nothing in the network.
LEMMA InitBase == Init => Base
<1> SUFFICES ASSUME Init PROVE Base  OBVIOUS
<1>1. TypeOK
  <2>1. 0 \in 0..MaxIrs /\ 0 \in 0..MaxOthers /\ 0 <= CacheSize
    BY ServerAssumption DEF ServerAssumption
  <2>2. Fresh \in Records
    <3>1. <<>> \in Seq({"FIN", "RST"})  BY EmptySeq
    <3> QED  BY <2>1, <3>1 DEF Fresh, Records, Numbers
  <2>3. /\ <<>> \in Seq(HalfEntries) /\ <<>> \in Seq(QueueEntries) /\ Len(<<>>) = 0
    BY EmptySeq
  <2>4. sock \in [Sockets -> Records]  BY <2>2 DEF Init
  <2>5. listen \in [on : BOOLEAN, slot : Sockets \cup {None}]  BY DEF Init
  <2>6. client \in [Clients -> ClientRecords]  BY <2>1 DEF Init, ClientRecords, Numbers
  <2> QED  BY <2>1, <2>3, <2>4, <2>5, <2>6 DEF Init, TypeOK, Records, HalfEntries, QueueEntries, ClientRecords
<1>2. HomesApart  BY DEF Init, HomesApart, Distinct, Peers, Connected, Fresh
<1>3. NumbersKnown  BY DEF Init, NumbersKnown, NetKnown, Known, Connected, Fresh
<1>4. PeerIsSet  BY DEF Init, PeerIsSet, Connected, Fresh, Synchronised
<1>5. ClientIsNumbered  BY DEF Init, ClientIsNumbered
<1> QED  BY <1>1, <1>2, <1>3, <1>4, <1>5 DEF Base

\* Every step of the server's threads, timers and input, of the clients and of the
\* network keeps a client's homes apart and the numbers known.
LEMMA NextBase == Base /\ [Next]_vars => Base'
<1> SUFFICES ASSUME Base, [Next]_vars PROVE Base'  OBVIOUS
<1>1. CASE UNCHANGED vars
  <2>1. half' = half /\ UNCHANGED <<queued, others, sock, listen, threadVars, client, net>>
    BY <1>1 DEF vars, threadVars
  <2> QED  BY <2>1, HalfIsLeft, SendsNothing, LeftStep
<1>2. CASE Next
  <2>1. ASSUME NEW s \in Sockets, Call(s) \/ Resumed(s) \/ SocketTimer(s) \/ Closes(s) PROVE Base'
    BY <2>1, ListenStep, AcceptNowStep, RelistenStep, CallStep DEF Call, Resumed, SocketTimer
  <2>2. CASE CacheTimer
    BY <2>2, EntryResendsStep, EntryExpiresStep, QueuedExpiresStep DEF CacheTimer
  <2>3. ASSUME NEW m \in net, ServerReceives(m) \/ ClientReceives(m) PROVE Base'
    BY <2>3, ServerReceivesStep, ClientReceivesStep
  <2>4. ASSUME NEW c \in Clients, ClientConnects(c) \/ ClientResends(c) \/ ClientEnds(c) PROVE Base'
    BY <2>4, ClientConnectsStep, ClientResendsStep, ClientClosesStep DEF ClientEnds
  <2> QED  BY <1>2, <2>1, <2>2, <2>3, <2>4, UnlistenStep, OtherPortsStep DEF Next
<1> QED  BY <1>1, <1>2

\* Where a client's connection is, and which numbers it has, for callers of any kind.
THEOREM BaseInvariant == Spec => []Base
BY InitBase, NextBase, PTL DEF Spec

\* The variables keep their types, and the entries of the listen port, with those
\* of other ports, fit into the cache.
THEOREM TypeCorrect == Spec => []TypeOK
<1>1. Base => TypeOK  BY DEF Base
<1> QED  BY <1>1, BaseInvariant, PTL

\* A set with at most one element has cardinality 0 or 1.
LEMMA AtMostOne ==
    ASSUME NEW S, \A x, y \in S : x = y
    PROVE  Cardinality(S) \in {0, 1} /\ (S = {} => Cardinality(S) = 0)
<1>1. CASE S = {}  BY <1>1, FS_EmptySet
<1>2. CASE S # {}
  <2>1. PICK x : x \in S  BY <1>2
  <2>2. S = {x}  BY <2>1
  <2>3. Cardinality({x}) = 1  BY FS_Singleton
  <2> QED  BY <1>2, <2>2, <2>3
<1> QED  BY <1>1, <1>2

\* A client has one home: an entry of the SYN cache, an entry of the accept queue
\* or a socket.
THEOREM OneHomeHolds == Spec => []OneHome
<1>1. Base => OneHome
  <2> SUFFICES ASSUME Base, NEW c \in Clients
               PROVE  Cardinality(Of(half, c)) + Cardinality(Of(queued, c))
                        + Cardinality({s \in Sockets : sock[s].bound /\ sock[s].peer = c}) <= 1
    BY DEF OneHome
  <2> DEFINE H == Of(half, c)
             Q == Of(queued, c)
             S == {s \in Sockets : sock[s].bound /\ sock[s].peer = c}
  <2>1. c # None  BY ServerAssumption DEF ServerAssumption
  <2>2. \A i, j \in H : i = j  BY DEF Of, Base, HomesApart, Distinct
  <2>3. \A i, j \in Q : i = j  BY DEF Of, Base, HomesApart, Distinct
  <2>4. \A s, t \in S : s = t  BY <2>1 DEF Base, HomesApart, Connected
  <2>5. H = {} \/ (Q = {} /\ S = {})  BY <2>1 DEF Of, Base, HomesApart, Connected, Peers
  <2>6. Q = {} \/ S = {}  BY <2>1 DEF Of, Base, HomesApart, Connected, Peers
  <2> HIDE DEF H, Q, S
  <2>7. Cardinality(H) \in {0, 1} /\ (H = {} => Cardinality(H) = 0)  BY <2>2, AtMostOne
  <2>8. Cardinality(Q) \in {0, 1} /\ (Q = {} => Cardinality(Q) = 0)  BY <2>3, AtMostOne
  <2>9. Cardinality(S) \in {0, 1} /\ (S = {} => Cardinality(S) = 0)  BY <2>4, AtMostOne
  <2>10. Cardinality(H) + Cardinality(Q) + Cardinality(S) <= 1
    BY <2>5, <2>6, <2>7, <2>8, <2>9
  <2> QED  BY <2>10 DEF H, Q, S
<1> QED  BY <1>1, BaseInvariant, PTL

\* The socket and the client of a connection use the same numbers, whatever
\* SYN-ACKs, cookies and acknowledgements of earlier attempts still arrive.
THEOREM AgreementHolds == Spec => []Agreement
<1>1. Base => Agreement
  BY DEF Base, NumbersKnown, Connected, Current, Agreement
<1> QED  BY <1>1, BaseInvariant, PTL

-----------------------------------------------------------------------------
(* Served: one thread at a time makes calls on a socket *)

\* The step is of socket s and of no other.
OnlyOf(s) ==
    \A t \in Sockets : t # s => sock'[t] = sock[t] /\ accept'[t] = accept[t] /\ disconnect'[t] = disconnect[t]

\* A step of one socket, which may park it or take it off the listen request.
LEMMA ServedStep ==
    ASSUME Served, NEW s \in Sockets, OnlyOf(s),
           listen'.slot = listen.slot \/ (listen.slot \in {s, None} /\ listen'.slot \in {s, None}),
           Fits(s, sock'[s], accept'[s], disconnect'[s], listen'.slot), CacheServed'
    PROVE  Served'
<1>1. ASSUME NEW t \in Sockets PROVE Fits(t, sock'[t], accept'[t], disconnect'[t], listen'.slot)
  <2>1. CASE t = s  BY <2>1
  <2>2. CASE t # s
    <3>1. Fits(t, sock[t], accept[t], disconnect[t], listen.slot)  BY DEF Served, SocketsServed
    <3>2. sock'[t] = sock[t] /\ accept'[t] = accept[t] /\ disconnect'[t] = disconnect[t]
      BY <2>2 DEF OnlyOf
    <3>3. (listen'.slot = t) <=> (listen.slot = t)
      BY <2>2, ServerAssumption DEF ServerAssumption
    <3> QED  BY <3>1, <3>2, <3>3 DEF Fits
  <2> QED  BY <2>1, <2>2
<1> QED  BY <1>1 DEF Served, SocketsServed, Fits

\* A step of no socket.
LEMMA ServedCacheStep ==
    ASSUME Served, UNCHANGED <<sock, listen, accept, disconnect>>, CacheServed'
    PROVE  Served'
BY DEF Served, SocketsServed, Fits

\* The cache is left as it is.
LEMMA CacheLeftAlone ==
    ASSUME Served, UNCHANGED <<half, queued>>,
           listen' = listen \/ (listen'.on = listen.on /\ listen'.slot = None)
    PROVE  CacheServed'
BY DEF Served, CacheServed, With

\* The socket on the listen request is ready for a handshake.
LEMMA ReadyIs ==
    ASSUME Base, Served
    PROVE  /\ Ready <=> listen.slot # None
           /\ listen.slot \in Sockets \cup {None}
<1>1. listen.slot \in Sockets \cup {None}  BY DEF Base, TypeOK
<1>2. listen.slot # None => sock[listen.slot].state \in Opening /\ ~sock[listen.slot].bound
  BY <1>1 DEF Served, SocketsServed, Fits
<1> QED  BY <1>1, <1>2 DEF Ready

\* A call finds no other thread inside a call of its socket.
LEMMA MayIs ==
    ASSUME SocketIsShared = FALSE, NEW s \in Sockets, May(s)
    PROVE  accept[s] = "none" /\ disconnect[s] = "none"
BY DEF May

\* What the invariants say of a socket that has its connection, or is closing.
LEMMA BoundIs ==
    ASSUME Base, Served, NEW s \in Sockets, sock[s].state \in Synchronised
    PROVE  /\ sock[s].bound /\ accept[s] = "none" /\ listen.slot # s
<1>1. Fits(s, sock[s], accept[s], disconnect[s], listen.slot)  BY DEF Served, SocketsServed
<1>2. sock[s].bound  BY RecordIs
<1>3. sock[s].state # "LISTEN" /\ sock[s].state # "SYN_RECEIVED"  BY DEF Synchronised
<1>4. accept[s] \in {"none", "waiting", "failed"}  BY DEF Base, TypeOK
<1> QED  BY <1>1, <1>2, <1>3, <1>4 DEF Fits

\* The shapes of what a socket's step changes.
LEMMA Shapes ==
    ASSUME Base
    PROVE  /\ sock \in [Sockets -> Records]
           /\ listen \in [on : BOOLEAN, slot : Sockets \cup {None}]
           /\ accept \in [Sockets -> {"none", "waiting", "failed"}]
           /\ disconnect \in [Sockets -> {"none", "waiting", "woken"}]
           /\ \A s \in Sockets : sock[s] \in Records
BY DEF Base, TypeOK, Records

\* A step that sets the state of a socket and lets its threads be a and d.
LEMMA ServedState ==
    ASSUME Base, Served, NEW s \in Sockets, NEW st, sock' = [sock EXCEPT ![s].state = st],
           NEW a, accept' = [accept EXCEPT ![s] = a], NEW d, disconnect' = [disconnect EXCEPT ![s] = d],
           UNCHANGED <<half, queued, listen>>,
           (listen.slot = s) <=> (st \in Opening /\ ~sock[s].bound),
           a = "failed" => st = "LISTEN" /\ sock[s].server,
           st = "SYN_RECEIVED" => ~sock[s].bound,
           d # "none" => sock[s].bound /\ a = "none",
           a = "waiting" => listen.slot = s /\ st = "SYN_RECEIVED"
    PROVE  Served'
<1>1. /\ sock \in [Sockets -> Records] /\ sock[s] \in Records
      /\ accept \in [Sockets -> {"none", "waiting", "failed"}]
      /\ disconnect \in [Sockets -> {"none", "waiting", "woken"}]
  BY Shapes
<1>2. OnlyOf(s) /\ accept'[s] = a /\ disconnect'[s] = d  BY <1>1 DEF OnlyOf
<1>3. sock'[s].state = st /\ sock'[s].bound = sock[s].bound /\ sock'[s].server = sock[s].server
  BY <1>1 DEF Records
<1>4. listen.slot = s => sock[s].server  BY DEF Served, SocketsServed, Fits
<1>5. Fits(s, sock'[s], accept'[s], disconnect'[s], listen'.slot)
  BY <1>2, <1>3, <1>4 DEF Fits
<1>6. CacheServed'  BY CacheLeftAlone
<1> QED  BY <1>2, <1>5, <1>6, ServedStep

\* A step that cleans up a socket with a port, with no thread in accept.
LEMMA ServedClean ==
    ASSUME Base, Served, NEW s \in Sockets, sock[s].bound, accept[s] = "none",
           sock' = [sock EXCEPT ![s] = Cleaned(@)], accept' = accept,
           NEW d, disconnect' = [disconnect EXCEPT ![s] = d],
           UNCHANGED <<half, queued, listen>>
    PROVE  Served'
<1>1. /\ sock \in [Sockets -> Records] /\ sock[s] \in Records
      /\ accept \in [Sockets -> {"none", "waiting", "failed"}]
      /\ disconnect \in [Sockets -> {"none", "waiting", "woken"}]
  BY Shapes
<1>2. OnlyOf(s) /\ accept'[s] = "none" /\ disconnect'[s] = d /\ sock'[s] = Cleaned(sock[s])
  BY <1>1 DEF OnlyOf
<1>3. Cleaned(sock[s]).bound = sock[s].bound /\ Cleaned(sock[s]).state # "SYN_RECEIVED"
  BY <1>1, CleanedIs
<1>4. listen.slot # s  BY DEF Served, SocketsServed, Fits
<1>5. Fits(s, sock'[s], accept'[s], disconnect'[s], listen'.slot)
  BY <1>2, <1>3, <1>4 DEF Fits
<1>6. CacheServed'  BY CacheLeftAlone
<1> QED  BY <1>2, <1>5, <1>6, ServedStep

\* nx_tcp_server_socket_listen parks the socket on a request that has no cache yet.
LEMMA ListenServed ==
    ASSUME SocketIsShared = FALSE, Base, Served, NEW s \in Sockets, Listen(s)
    PROVE  Served'
<1>1. /\ sock \in [Sockets -> Records] /\ sock[s] \in Records  BY Shapes
<1>2. accept[s] = "none" /\ disconnect[s] = "none"  BY MayIs DEF Listen
<1>3. /\ listen' = [on |-> TRUE, slot |-> s] /\ UNCHANGED <<half, queued, accept, disconnect>>
      /\ sock' = [sock EXCEPT ![s].state = "LISTEN", ![s].server = TRUE] /\ ~sock[s].bound /\ ~listen.on
  BY DEF Listen, cacheVars, threadVars
<1>4. listen.slot = None /\ half = <<>> /\ queued = <<>>  BY <1>3 DEF Served, CacheServed
<1>5. OnlyOf(s)  BY <1>1, <1>3 DEF OnlyOf
<1>6. sock'[s].state = "LISTEN" /\ sock'[s].bound = sock[s].bound /\ sock'[s].server = TRUE
  BY <1>1, <1>3 DEF Records
<1>7. Fits(s, sock'[s], accept'[s], disconnect'[s], listen'.slot)
  BY <1>2, <1>3, <1>6 DEF Fits, Opening
<1>8. CacheServed'  BY <1>3, <1>4 DEF CacheServed, With
<1> QED  BY <1>3, <1>4, <1>5, <1>7, <1>8, ServedStep

\* nx_tcp_server_socket_accept of a connection that came before it.
LEMMA AcceptNowServed ==
    ASSUME SocketIsShared = FALSE, Base, Served, NEW s \in Sockets, AcceptNow(s)
    PROVE  Served'
<1>1. /\ sock \in [Sockets -> Records] /\ sock[s] \in Records  BY Shapes
<1>2. accept[s] = "none" /\ disconnect[s] = "none"  BY MayIs DEF AcceptNow
<1>3. /\ sock' = [sock EXCEPT ![s] = Accepted(@)] /\ UNCHANGED <<half, queued, listen, accept, disconnect>>
      /\ sock[s].bound
  BY DEF AcceptNow, AwaitingAccept, cacheVars, threadVars
<1> DEFINE now == [sock[s] EXCEPT !.state = "ESTABLISHED", !.held = <<>>]
<1>4. now \in Records /\ now.bound = sock[s].bound /\ now.state = "ESTABLISHED"
  <2>1. <<>> \in Seq({"FIN", "RST"})  BY EmptySeq
  <2> QED  BY <1>1, <2>1 DEF Records, Synchronised
<1>5. Accepted(sock[s]).bound = sock[s].bound /\ Accepted(sock[s]).state # "SYN_RECEIVED"
  <2>1. Accepted(sock[s]) = now \/ Accepted(sock[s]) = [now EXCEPT !.state = "CLOSE_WAIT"] \/ Accepted(sock[s]) = Cleaned(now)
    BY DEF Accepted
  <2> HIDE DEF now
  <2>2. [now EXCEPT !.state = "CLOSE_WAIT"].bound = now.bound /\ [now EXCEPT !.state = "CLOSE_WAIT"].state = "CLOSE_WAIT"
    BY <1>4 DEF Records
  <2>3. Cleaned(now).bound = now.bound /\ Cleaned(now).state # "SYN_RECEIVED"  BY <1>4, CleanedIs
  <2> QED  BY <1>4, <2>1, <2>2, <2>3
<1>6. OnlyOf(s) /\ sock'[s] = Accepted(sock[s])  BY <1>1, <1>3 DEF OnlyOf
<1>7. listen.slot # s  BY <1>3 DEF Served, SocketsServed, Fits
<1>8. Fits(s, sock'[s], accept'[s], disconnect'[s], listen'.slot)
  BY <1>2, <1>3, <1>5, <1>6, <1>7 DEF Fits
<1>9. CacheServed'  BY <1>3, CacheLeftAlone
<1> QED  BY <1>3, <1>6, <1>8, <1>9, ServedStep

\* The calls and timers that only set a socket's state: accept ahead of a
\* connection, its time-out, disconnect before and after the connection.
LEMMA StatesServed ==
    ASSUME SocketIsShared = FALSE, Base, Served, NEW s \in Sockets,
           \/ Accept(s) \/ AcceptTimeout(s) \/ AcceptFails(s) \/ DisconnectOpening(s)
           \/ Disconnect(s) \/ DisconnectTimeout(s)
    PROVE  Served'
<1>1. /\ sock \in [Sockets -> Records] /\ sock[s] \in Records
      /\ accept \in [Sockets -> {"none", "waiting", "failed"}]
      /\ disconnect \in [Sockets -> {"none", "waiting", "woken"}]
  BY Shapes
<1>2. Fits(s, sock[s], accept[s], disconnect[s], listen.slot)  BY DEF Served, SocketsServed
<1>3. /\ accept = [accept EXCEPT ![s] = accept[s]] /\ disconnect = [disconnect EXCEPT ![s] = disconnect[s]]
      /\ sock = [sock EXCEPT ![s].state = sock[s].state]
  BY <1>1 DEF Records
<1>4. CASE Accept(s)
  <2>1. accept[s] = "none" /\ disconnect[s] = "none"  BY <1>4, MayIs DEF Accept
  <2>2. PICK a \in {"none", "waiting"} : accept' = [accept EXCEPT ![s] = a]  BY <1>4 DEF Accept
  <2>3. /\ sock' = [sock EXCEPT ![s].state = "SYN_RECEIVED"] /\ UNCHANGED <<half, queued, listen>>
        /\ disconnect' = [disconnect EXCEPT ![s] = disconnect[s]]
        /\ sock[s].state \in Opening /\ ~sock[s].bound
    BY <1>3, <1>4 DEF Accept, cacheVars
  <2>4. listen.slot = s /\ "SYN_RECEIVED" \in Opening  BY <1>2, <2>3 DEF Fits, Opening
  <2> QED  BY <2>1, <2>2, <2>3, <2>4, ServedState
<1>5. CASE AcceptTimeout(s)
  <2>1. /\ accept[s] = "waiting" /\ accept' = [accept EXCEPT ![s] = "failed"]
        /\ sock' = [sock EXCEPT ![s].state = IF sock[s].server THEN "LISTEN" ELSE "CLOSED"]
        /\ UNCHANGED <<half, queued, listen>> /\ disconnect' = [disconnect EXCEPT ![s] = disconnect[s]]
    BY <1>3, <1>5 DEF AcceptTimeout, cacheVars
  <2>2. listen.slot = s /\ sock[s].server /\ ~sock[s].bound /\ disconnect[s] = "none" /\ "LISTEN" \in Opening
    BY <1>2, <2>1 DEF Fits, Opening
  <2>3. sock' = [sock EXCEPT ![s].state = "LISTEN"]  BY <2>1, <2>2
  <2>4. /\ accept' = [accept EXCEPT ![s] = "failed"] /\ disconnect' = [disconnect EXCEPT ![s] = "none"]
        /\ UNCHANGED <<half, queued, listen>>
    BY <2>1, <2>2
  <2> QED  BY <2>2, <2>3, <2>4, ServedState
<1>6. CASE AcceptFails(s)
  <2>1. /\ accept[s] = "failed" /\ accept' = [accept EXCEPT ![s] = "none"]
        /\ sock' = [sock EXCEPT ![s].state = "LISTEN"]
        /\ UNCHANGED <<half, queued, listen>> /\ disconnect' = [disconnect EXCEPT ![s] = disconnect[s]]
    BY <1>3, <1>6 DEF AcceptFails, cacheVars
  <2>2. sock[s].state = "LISTEN" /\ disconnect[s] = "none"  BY <1>2, <2>1 DEF Fits
  <2>3. (listen.slot = s) <=> ("LISTEN" \in Opening /\ ~sock[s].bound)  BY <1>2, <2>2 DEF Fits
  <2> QED  BY <2>1, <2>2, <2>3, ServedState
<1>7. CASE DisconnectOpening(s)
  <2>1. accept[s] = "none" /\ disconnect[s] = "none"  BY <1>7, MayIs DEF DisconnectOpening
  <2>2. /\ sock[s].state = "SYN_RECEIVED" /\ sock' = [sock EXCEPT ![s].state = "LISTEN"]
        /\ accept' = [accept EXCEPT ![s] = accept[s]] /\ disconnect' = [disconnect EXCEPT ![s] = disconnect[s]]
        /\ UNCHANGED <<half, queued, listen>>
    BY <1>3, <1>7, <2>1 DEF DisconnectOpening, WakeAccept, cacheVars
  <2>3. (listen.slot = s) <=> ("LISTEN" \in Opening /\ ~sock[s].bound)  BY <1>2, <2>2 DEF Fits, Opening
  <2> QED  BY <2>1, <2>2, <2>3, ServedState
<1>8. CASE Disconnect(s)
  <2> DEFINE st == IF sock[s].state = "ESTABLISHED" THEN "FIN_WAIT" ELSE "LAST_ACK"
  <2>1. accept[s] = "none" /\ disconnect[s] = "none"  BY <1>8, MayIs DEF Disconnect
  <2>2. /\ sock' = [sock EXCEPT ![s].state = st] /\ disconnect' = [disconnect EXCEPT ![s] = "waiting"]
        /\ accept' = [accept EXCEPT ![s] = accept[s]] /\ UNCHANGED <<half, queued, listen>>
    BY <1>3, <1>8 DEF Disconnect, cacheVars
  <2>3. sock[s].state \in Synchronised  BY <1>8 DEF Disconnect, Synchronised
  <2>4. sock[s].bound /\ listen.slot # s  BY <2>3, BoundIs
  <2>5. st \notin Opening /\ st # "SYN_RECEIVED"  BY DEF Opening
  <2> HIDE DEF st
  <2> QED  BY <2>1, <2>2, <2>4, <2>5, ServedState
<1>9. CASE DisconnectTimeout(s)
  <2>1. /\ disconnect[s] = "waiting" /\ disconnect' = [disconnect EXCEPT ![s] = "woken"]
        /\ sock' = [sock EXCEPT ![s].state = sock[s].state]
        /\ accept' = [accept EXCEPT ![s] = accept[s]] /\ UNCHANGED <<half, queued, listen>>
    BY <1>3, <1>9 DEF DisconnectTimeout, cacheVars
  <2>2. sock[s].bound /\ accept[s] = "none"  BY <1>2, <2>1 DEF Fits
  <2> QED  BY <1>2, <2>1, <2>2, ServedState DEF Fits
<1> QED  BY <1>4, <1>5, <1>6, <1>7, <1>8, <1>9

\* The steps that end a connection and clean its socket up.
LEMMA CleansServed ==
    ASSUME SocketIsShared = FALSE, Base, Served, NEW s \in Sockets,
           \/ DisconnectNow(s) \/ Closes(s) \/ ClosingExpires(s) \/ DisconnectReturns(s)
    PROVE  Served'
<1>1. /\ sock \in [Sockets -> Records] /\ sock[s] \in Records
      /\ accept \in [Sockets -> {"none", "waiting", "failed"}]
      /\ disconnect \in [Sockets -> {"none", "waiting", "woken"}]
  BY Shapes
<1>2. Fits(s, sock[s], accept[s], disconnect[s], listen.slot)  BY DEF Served, SocketsServed
<1>3. sock[s].bound /\ accept[s] = "none"
  <2>1. CASE DisconnectReturns(s)  BY <1>2, <2>1 DEF DisconnectReturns, Fits
  <2>2. CASE ~DisconnectReturns(s)
    <3>1. sock[s].state \in Synchronised
      BY <2>2 DEF DisconnectNow, Closes, ClosingExpires, Synchronised
    <3> QED  BY <3>1, BoundIs
  <2> QED  BY <2>1, <2>2
<1>4. /\ accept = [accept EXCEPT ![s] = accept[s]]
      /\ disconnect = [disconnect EXCEPT ![s] = disconnect[s]]
      /\ sock = [sock EXCEPT ![s].state = sock[s].state]
  BY <1>1 DEF Records
<1>5. UNCHANGED <<half, queued, listen>> /\ accept' = accept
  BY <1>3 DEF DisconnectNow, Closes, ClosingExpires, DisconnectReturns, ConnectionReset, WakeAccept,
              cacheVars, threadVars
<1>6. \E d \in {"none", "waiting", "woken"} : disconnect' = [disconnect EXCEPT ![s] = d]
  <2>1. disconnect[s] \in {"none", "waiting", "woken"}  BY <1>1
  <2>2. disconnect' = [disconnect EXCEPT ![s] = disconnect[s]] \/ disconnect' = [disconnect EXCEPT ![s] = "woken"]
        \/ disconnect' = [disconnect EXCEPT ![s] = "none"]
    BY <1>4 DEF DisconnectNow, Closes, ClosingExpires, DisconnectReturns, ConnectionReset, WakeDisconnect,
                threadVars
  <2> QED  BY <2>1, <2>2
<1>7. PICK d \in {"none", "waiting", "woken"} : disconnect' = [disconnect EXCEPT ![s] = d]  BY <1>6
<1>8. \/ sock' = [sock EXCEPT ![s] = Cleaned(@)]
      \/ sock' = [sock EXCEPT ![s].state = "TIMED_WAIT"]
      \/ sock' = sock /\ sock[s].state = "TIMED_WAIT"
  BY DEF DisconnectNow, Closes, ClosingExpires, DisconnectReturns, ConnectionReset
<1>9. CASE sock' = [sock EXCEPT ![s] = Cleaned(@)]  BY <1>3, <1>5, <1>7, <1>9, ServedClean
<1>10. CASE sock' = [sock EXCEPT ![s].state = "TIMED_WAIT"] \/ (sock' = sock /\ sock[s].state = "TIMED_WAIT")
  <2>1. sock' = [sock EXCEPT ![s].state = "TIMED_WAIT"]  BY <1>4, <1>10
  <2>2. listen.slot # s /\ "TIMED_WAIT" \notin Opening  BY <1>2, <1>3 DEF Fits, Opening
  <2>3. accept' = [accept EXCEPT ![s] = "none"]  BY <1>3, <1>4, <1>5
  <2>4. UNCHANGED <<half, queued, listen>>  BY <1>5
  <2>5. disconnect' = [disconnect EXCEPT ![s] = d]  BY <1>7
  <2>6. sock[s].bound  BY <1>3
  <2> DEFINE st == "TIMED_WAIT"
             a == "none"
  <2>7. /\ sock' = [sock EXCEPT ![s].state = st] /\ accept' = [accept EXCEPT ![s] = a]
        /\ st \notin Opening /\ st # "SYN_RECEIVED" /\ a = "none" /\ a # "failed" /\ a # "waiting"
    BY <2>1, <2>2, <2>3
  <2> HIDE DEF st, a
  <2> QED  BY <2>2, <2>4, <2>5, <2>6, <2>7, ServedState
<1> QED  BY <1>8, <1>9, <1>10

\* nx_tcp_server_socket_unaccept makes the socket new, and takes it off the listen
\* request if it is parked there.
LEMMA UnacceptServed ==
    ASSUME SocketIsShared = FALSE, Base, Served, NEW s \in Sockets, Unaccept(s)
    PROVE  Served'
<1>1. sock \in [Sockets -> Records] /\ listen \in [on : BOOLEAN, slot : Sockets \cup {None}]  BY Shapes
<1>2. Fits(s, sock[s], accept[s], disconnect[s], listen.slot)  BY DEF Served, SocketsServed
<1>3. accept[s] = "none" /\ disconnect[s] = "none"  BY MayIs DEF Unaccept
<1>4. /\ sock' = [sock EXCEPT ![s] = Fresh] /\ UNCHANGED <<half, queued, accept>>
      /\ listen' = IF ~sock[s].bound /\ listen.slot = s THEN [listen EXCEPT !.slot = None] ELSE listen
  BY DEF Unaccept, cacheVars
<1>5. disconnect' = disconnect  BY <1>3 DEF Unaccept, WakeDisconnect
<1>6. OnlyOf(s) /\ sock'[s] = Fresh  BY <1>1, <1>4, <1>5 DEF OnlyOf
<1>7. listen'.slot # s /\ (listen'.slot = listen.slot \/ (listen.slot = s /\ listen'.slot = None))
  BY <1>1, <1>2, <1>4, ServerAssumption DEF Fits, ServerAssumption
<1>8. Fits(s, sock'[s], accept'[s], disconnect'[s], listen'.slot)
  BY <1>3, <1>4, <1>5, <1>6, <1>7 DEF Fits, Fresh, Opening
<1>9. listen' = listen \/ (listen'.on = listen.on /\ listen'.slot = None)  BY <1>1, <1>4
<1>10. CacheServed'  BY <1>4, <1>9, CacheLeftAlone
<1> QED  BY <1>6, <1>7, <1>8, <1>10, ServedStep

\* _nx_tcp_syncache_answer_deferred: with a socket ready and nothing queued, an
\* answer is out or nobody waits for one.
LEMMA AnswerDeferredServes ==
    ASSUME NEW list \in Seq(HalfEntries), NEW ready, AnswerDeferred(list, ready)
    PROVE  ready /\ queued' = <<>> /\ With(half', "SYN_RECEIVED") = {} => With(half', "DEFERRED") = {}
<1>1. CASE half' = list
  <2>1. CASE ready /\ queued' = <<>> /\ With(list, "SYN_RECEIVED") = {} /\ With(list, "DEFERRED") # {}
    <3> DEFINE i == Oldest(list, "DEFERRED")
    <3>1. half' = Answered(list, i) /\ i \in DOMAIN list  BY <2>1, OldestIs DEF AnswerDeferred
    <3>2. Answered(list, i)[i].state = "SYN_RECEIVED" /\ DOMAIN Answered(list, i) = DOMAIN list
      BY <3>1, AnsweredEntry
    <3> HIDE DEF i
    <3> QED  BY <3>1, <3>2 DEF With
  <2>2. CASE ~(ready /\ queued' = <<>> /\ With(list, "SYN_RECEIVED") = {} /\ With(list, "DEFERRED") # {})
    BY <1>1, <2>2
  <2> QED  BY <2>1, <2>2
<1>2. CASE half' # list
  <2> DEFINE i == Oldest(list, "DEFERRED")
  <2>1. half' = Answered(list, i) /\ With(list, "DEFERRED") # {}  BY <1>2 DEF AnswerDeferred
  <2>2. i \in DOMAIN list  BY <2>1, OldestIs
  <2>3. Answered(list, i)[i].state = "SYN_RECEIVED" /\ DOMAIN Answered(list, i) = DOMAIN list
    BY <2>2, AnsweredEntry
  <2> HIDE DEF i
  <2> QED  BY <2>1, <2>2, <2>3 DEF With
<1> QED  BY <1>1, <1>2

\* The hand-over of a connection to a socket that is open or new takes it off the
\* listen request.
LEMMA HandOverServed ==
    ASSUME Base, Served, NEW s \in Sockets, NEW e, HandOver(s, e), disconnect' = disconnect,
           disconnect[s] = "none", listen.slot = s \/ accept[s] = "none",
           listen.on, listen.slot \in {s, None}
    PROVE  Served'
<1>1. /\ sock \in [Sockets -> Records] /\ listen \in [on : BOOLEAN, slot : Sockets \cup {None}]
      /\ accept \in [Sockets -> {"none", "waiting", "failed"}]
  BY Shapes
<1>2. Fits(s, sock[s], accept[s], disconnect[s], listen.slot)  BY DEF Served, SocketsServed
<1>3. /\ sock'[s].bound /\ sock'[s].server /\ \A t \in Sockets : t # s => sock'[t] = sock[t]
      /\ sock'[s].state = IF sock[s].state = "SYN_RECEIVED" THEN "ESTABLISHED" ELSE "LISTEN"
  BY <1>1 DEF HandOver
<1>4. /\ listen'.on = listen.on /\ listen'.slot = None
  BY <1>1 DEF HandOver
<1>5. /\ accept'[s] = IF sock[s].state = "SYN_RECEIVED" /\ accept[s] = "waiting" THEN "none" ELSE accept[s]
      /\ \A t \in Sockets : t # s => accept'[t] = accept[t]
  BY <1>1 DEF HandOver
<1>6. OnlyOf(s)  BY <1>3, <1>5 DEF OnlyOf
<1>7. Fits(s, sock'[s], accept'[s], disconnect'[s], listen'.slot)
  BY <1>2, <1>3, <1>4, <1>5, ServerAssumption DEF Fits, Opening, ServerAssumption
<1>8. CacheServed'  BY <1>4 DEF CacheServed
<1> QED  BY <1>4, <1>6, <1>7, <1>8, ServedStep

\* nx_tcp_server_socket_relisten
LEMMA RelistenServed ==
    ASSUME SocketIsShared = FALSE, Base, Served, NEW s \in Sockets, Relisten(s)
    PROVE  Served'
<1>1. sock \in [Sockets -> Records] /\ listen \in [on : BOOLEAN, slot : Sockets \cup {None}]  BY Shapes
<1>2. accept[s] = "none" /\ disconnect[s] = "none" /\ disconnect' = disconnect  BY MayIs DEF Relisten
<1>3. listen.on /\ listen.slot = None /\ ~sock[s].bound  BY DEF Relisten
<1>4. CASE HandOver(s, Head(queued))  BY <1>2, <1>3, <1>4, HandOverServed
<1>5. CASE /\ queued = <<>> /\ listen' = [listen EXCEPT !.slot = s]
           /\ sock' = [sock EXCEPT ![s].state = "LISTEN", ![s].server = TRUE]
           /\ UNCHANGED <<queued, accept>> /\ AnswerDeferred(half, TRUE)
  <2>1. listen'.on /\ listen'.slot = s  BY <1>1, <1>3, <1>5
  <2>2. sock'[s].state = "LISTEN" /\ sock'[s].bound = sock[s].bound /\ sock'[s].server = TRUE
    BY <1>1, <1>5 DEF Records
  <2>3. OnlyOf(s)  BY <1>1, <1>2, <1>5 DEF OnlyOf
  <2>4. Fits(s, sock'[s], accept'[s], disconnect'[s], listen'.slot)
    BY <1>2, <1>3, <1>5, <2>1, <2>2 DEF Fits, Opening
  <2>5. With(half', "SYN_RECEIVED") = {} => With(half', "DEFERRED") = {}
    BY <1>5, LengthsAre, AnswerDeferredServes
  <2>6. CacheServed'  BY <1>5, <2>1, <2>5 DEF CacheServed, With
  <2> QED  BY <1>3, <2>1, <2>3, <2>4, <2>6, ServedStep
<1> QED  BY <1>4, <1>5 DEF Relisten

\* nx_tcp_server_socket_unlisten empties the cache, and closes the parked socket
\* unless a thread has called accept of it.
LEMMA UnlistenServed ==
    ASSUME SocketIsShared = FALSE, Base, Served, Unlisten
    PROVE  Served'
<1>1. sock \in [Sockets -> Records] /\ listen \in [on : BOOLEAN, slot : Sockets \cup {None}]  BY Shapes
<1>2. half' = <<>> /\ queued' = <<>> /\ UNCHANGED <<accept, disconnect>>  BY DEF Unlisten, threadVars
<1>3. With(half', "SYN_RECEIVED") = {} /\ With(half', "DEFERRED") = {}  BY <1>2 DEF With
<1>4. CASE UNCHANGED <<sock, listen>>
  <2>1. CacheServed'  BY <1>2, <1>3, <1>4 DEF Served, CacheServed, With
  <2> QED  BY <1>2, <1>4, <2>1, ServedCacheStep
<1>5. CASE /\ listen' = [on |-> FALSE, slot |-> None] /\ listen.slot = None /\ sock' = sock
  <2>1. CacheServed'  BY <1>2, <1>5 DEF CacheServed
  <2>2. listen'.slot = listen.slot  BY <1>5
  <2> QED  BY <1>2, <1>5, <2>1, <2>2 DEF Served, SocketsServed, Fits
<1>6. CASE /\ listen' = [on |-> FALSE, slot |-> None] /\ listen.slot # None
           /\ sock[listen.slot].state = "LISTEN" /\ sock' = [sock EXCEPT ![listen.slot].state = "CLOSED"]
  <2> DEFINE s == listen.slot
  <2>1. s \in Sockets /\ sock' = [sock EXCEPT ![s].state = "CLOSED"] /\ sock[s].state = "LISTEN"
    BY <1>1, <1>6
  <2>2. Fits(s, sock[s], accept[s], disconnect[s], s)  BY <2>1 DEF Served, SocketsServed
  <2>3. accept[s] # "failed"  BY <2>1 DEF Unlisten
  <2>4. listen'.slot = None /\ ~listen'.on /\ listen.slot = s  BY <1>6
  <2> HIDE DEF s
  <2>5. OnlyOf(s)  BY <1>1, <1>2, <2>1 DEF OnlyOf
  <2>6. sock'[s].state = "CLOSED" /\ sock'[s].bound = sock[s].bound  BY <1>1, <2>1 DEF Records
  <2>7. Fits(s, sock'[s], accept'[s], disconnect'[s], listen'.slot)
    BY <1>2, <2>1, <2>2, <2>3, <2>4, <2>6, ServerAssumption DEF Fits, Opening, ServerAssumption
  <2>8. CacheServed'  BY <1>2, <2>4 DEF CacheServed
  <2> QED  BY <2>1, <2>4, <2>5, <2>7, <2>8, ServedStep
<1> QED  BY <1>4, <1>5, <1>6 DEF Unlisten

\* An entry whose time is up, or that its client resets, leaves no SYN waiting.
LEMMA EntryEndsServed ==
    ASSUME Base, Served, UNCHANGED <<queued, sock, listen, threadVars>>, NEW i \in DOMAIN half,
           IF half[i].state = "SYN_RECEIVED" THEN AnswerDeferred(RemoveAt(half, i), Ready)
                                             ELSE half' = RemoveAt(half, i) /\ net' = net
    PROVE  Served'
<1> DEFINE r == RemoveAt(half, i)
<1>1. /\ half \in Seq(HalfEntries) /\ r \in Seq(HalfEntries)
      /\ \A j \in DOMAIN r : \E k \in DOMAIN half : k # i /\ r[j] = half[k]
      /\ \A k \in DOMAIN half : k # i => \E j \in DOMAIN r : r[j] = half[k]
  <2>1. half \in Seq(HalfEntries)  BY LengthsAre
  <2> QED  BY <2>1, RemoveEntry
<1>2. listen' = listen /\ queued' = queued /\ UNCHANGED <<sock, listen, accept, disconnect>>  BY DEF threadVars
<1>3. half # <<>>
  OBVIOUS
<1>4. listen.on  BY <1>3 DEF Served, CacheServed
<1> HIDE DEF r
<1>5. listen.slot # None /\ With(half', "SYN_RECEIVED") = {} => With(half', "DEFERRED") = {}
  <2> SUFFICES ASSUME listen.slot # None, With(half', "SYN_RECEIVED") = {} PROVE With(half', "DEFERRED") = {}
    OBVIOUS
  <2>1. CASE half[i].state = "SYN_RECEIVED"
    <3>1. Ready /\ queued' = <<>>  BY <1>2, ReadyIs DEF Served, CacheServed
    <3>2. AnswerDeferred(r, Ready)  BY <2>1 DEF r
    <3> QED  BY <1>1, <3>1, <3>2, AnswerDeferredServes
  <2>2. CASE half[i].state # "SYN_RECEIVED"
    <3>1. half' = r  BY <2>2 DEF r
    <3>2. ASSUME NEW k \in DOMAIN half, half[k].state = "SYN_RECEIVED" PROVE FALSE
      <4>1. PICK j \in DOMAIN r : r[j] = half[k]  BY <1>1, <2>2, <3>2
      <4>2. j \in With(half', "SYN_RECEIVED")  BY <3>1, <3>2, <4>1 DEF With
      <4> QED  BY <4>2
    <3>3. With(half, "DEFERRED") = {}  BY <3>2 DEF Served, CacheServed, With
    <3> QED  BY <1>1, <3>1, <3>3 DEF With
  <2> QED  BY <2>1, <2>2
<1>6. CacheServed'  BY <1>2, <1>4, <1>5 DEF Served, CacheServed, With
<1> QED  BY <1>2, <1>6, ServedCacheStep

\* An entry leaves the accept queue: no socket is parked.
LEMMA UnqueueServed ==
    ASSUME Base, Served, UNCHANGED <<half, sock, listen, threadVars>>, NEW i \in DOMAIN queued
    PROVE  Served'
<1>1. UNCHANGED <<sock, listen, accept, disconnect>>  BY DEF threadVars
<1>2. queued # <<>>  OBVIOUS
<1>3. listen.on /\ listen.slot = None  BY <1>2 DEF Served, CacheServed
<1>4. CacheServed'  BY <1>1, <1>3 DEF CacheServed
<1> QED  BY <1>1, <1>4, ServedCacheStep

\* _nx_tcp_syncache_reset_received
LEMMA ResetReceivedServed ==
    ASSUME Base, Served, NEW m \in net, ResetReceived(m)
    PROVE  Served'
<1>1. UNCHANGED <<sock, listen, threadVars>>  BY DEF ResetReceived
<1>2. ASSUME NEW i \in Of(half, m.peer), queued' = queued,
             IF half[i].state = "SYN_RECEIVED" THEN AnswerDeferred(RemoveAt(half, i), Ready)
                                               ELSE half' = RemoveAt(half, i) /\ net' = net
      PROVE  Served'
  BY <1>1, <1>2, OfIs, EntryEndsServed
<1>3. ASSUME NEW i \in Of(queued, m.peer), half' = half PROVE Served'
  BY <1>1, <1>3, OfIs, UnqueueServed
<1> QED  BY <1>2, <1>3 DEF ResetReceived

\* _nx_tcp_syncache_syn_received of a SYN that is not known, with list what is left
\* of the cache: an entry that was taken out made room for it.
LEMMA NewSynServed ==
    ASSUME Base, Served, UNCHANGED <<queued, sock, listen, threadVars>>, listen.on,
           NEW list, Left(list), list = half \/ Len(list) < Len(half), NEW c, NEW irs, NewSyn(c, irs, list)
    PROVE  Served'
<1>1. UNCHANGED <<sock, listen, accept, disconnect>>  BY DEF threadVars
<1>2. listen.slot # None /\ With(half', "SYN_RECEIVED") = {} => With(half', "DEFERRED") = {}
  <2> SUFFICES ASSUME listen.slot # None PROVE With(half', "SYN_RECEIVED") = {} => With(half', "DEFERRED") = {}
    OBVIOUS
  <2>1. Ready  BY ReadyIs
  <2>2. CASE ~Room(list)
    <3>1. half' = list  BY <2>1, <2>2 DEF NewSyn
    <3>2. list = half
      <4>1. Len(list) \in Nat  BY LenProperties DEF Left
      <4> QED  BY <2>2, <4>1, LengthsAre DEF Room
    <3> QED  BY <3>1, <3>2 DEF Served, CacheServed
  <2>3. CASE Room(list)
    <3> DEFINE e == [[peer |-> c, irs |-> irs, state |-> "DEFERRED"] EXCEPT !.state = "SYN_RECEIVED"]
    <3>1. half' = Append(list, e) /\ e.state = "SYN_RECEIVED"  BY <2>1, <2>3 DEF NewSyn
    <3> HIDE DEF e
    <3>2. list \in Seq(HalfEntries \cup {e})
      <4>1. list \in Seq(HalfEntries)  BY DEF Left
      <4> QED  BY <4>1
    <3>3. \E j \in DOMAIN half' : half'[j] = e  BY <3>1, <3>2, AppendEntry
    <3> QED  BY <3>1, <3>3 DEF With
  <2> QED  BY <2>2, <2>3
<1>3. CacheServed'  BY <1>1, <1>2 DEF Served, CacheServed, With
<1> QED  BY <1>1, <1>3, ServedCacheStep

\* A SYN, new or repeated.
LEMMA SynReceivedServed ==
    ASSUME Base, Served, NEW m \in net, listen.on, SynReceived(m)
    PROVE  Served'
<1>1. UNCHANGED <<queued, sock, listen, threadVars>> /\ UNCHANGED <<sock, listen, accept, disconnect>>
  BY DEF SynReceived, threadVars
<1>2. CASE half' = half
  <2>1. CacheServed'  BY <1>1, <1>2, CacheLeftAlone
  <2> QED  BY <1>1, <2>1, ServedCacheStep
<1>3. CASE NewSyn(m.peer, m.irs, half)  BY <1>1, <1>3, HalfIsLeft, NewSynServed
<1>4. CASE \E i \in Of(half, m.peer) : NewSyn(m.peer, m.irs, RemoveAt(half, i))
  <2>1. PICK i \in Of(half, m.peer) : NewSyn(m.peer, m.irs, RemoveAt(half, i))  BY <1>4
  <2>2. Left(RemoveAt(half, i)) /\ Len(RemoveAt(half, i)) = Len(half) - 1
    BY HalfIsLeft, OfIs, RemovedIsLeft
  <2>3. Len(RemoveAt(half, i)) < Len(half)  BY <2>2, LengthsAre
  <2> QED  BY <1>1, <2>1, <2>2, <2>3, NewSynServed
<1>5. CASE \E i \in Of(half, m.peer) : half' = Answered(half, i)
  <2>1. PICK i \in Of(half, m.peer) : half' = Answered(half, i)  BY <1>5
  <2>2. i \in DOMAIN half' /\ half'[i].state = "SYN_RECEIVED"  BY <2>1, OfIs, LengthsAre, AnsweredEntry
  <2>3. With(half', "SYN_RECEIVED") # {}  BY <2>2 DEF With
  <2>4. CacheServed'  BY <1>1, <2>3 DEF Served, CacheServed, With
  <2> QED  BY <1>1, <2>4, ServedCacheStep
<1> QED  BY <1>2, <1>3, <1>4, <1>5 DEF SynReceived

\* A finished handshake goes to the parked socket, or waits for one.
LEMMA FinishServed ==
    ASSUME Base, Served, disconnect' = disconnect, listen.on, NEW e, Finish(e)
    PROVE  Served'
<1>1. CASE Ready /\ HandOver(listen.slot, e)
  <2> DEFINE s == listen.slot
  <2>1. s \in Sockets /\ HandOver(s, e) /\ listen.slot = s  BY <1>1, ReadyIs
  <2>2. ~sock[s].bound  BY <1>1 DEF Ready
  <2> HIDE DEF s
  <2>3. disconnect[s] = "none"  BY <2>1, <2>2 DEF Served, SocketsServed, Fits
  <2> QED  BY <2>1, <2>3, HandOverServed
<1>2. CASE ~Ready /\ UNCHANGED <<sock, listen, accept>>
  <2>1. listen.slot = None  BY <1>2, ReadyIs
  <2>2. CacheServed'  BY <1>2, <2>1 DEF CacheServed
  <2> QED  BY <1>2, <2>2, ServedCacheStep
<1> QED  BY <1>1, <1>2 DEF Finish

\* _nx_tcp_syncache_ack_received
LEMMA AckReceivedServed ==
    ASSUME Base, Served, NEW m \in net, listen.on, AckReceived(m)
    PROVE  Served'
<1>1. disconnect' = disconnect  BY DEF AckReceived
<1>2. CASE \E e : Finish(e)  BY <1>1, <1>2, FinishServed
<1>3. CASE UNCHANGED <<half, queued, sock, listen, accept>>
  <2>1. CacheServed'  BY <1>3, CacheLeftAlone
  <2> QED  BY <1>1, <1>3, <2>1, ServedCacheStep
<1> QED  BY <1>2, <1>3 DEF AckReceived

\* A segment for the socket that has its peer.
LEMMA HomeServed ==
    ASSUME Base, Served, NEW m \in net, NEW s \in Home(m), UNCHANGED <<listen, cacheVars, client>>,
           IF AwaitingAccept(s) THEN Hold(s, m) ELSE SocketInput(s, m)
    PROVE  Served'
<1>1. s \in Sockets /\ sock[s].bound /\ sock[s].peer # None
  <2>1. m.peer \in Clients  BY SegmentIs
  <2> QED  BY <2>1, ServerAssumption DEF Home, ServerAssumption
<1>2. /\ sock \in [Sockets -> Records] /\ sock[s] \in Records
      /\ accept \in [Sockets -> {"none", "waiting", "failed"}]
      /\ disconnect \in [Sockets -> {"none", "waiting", "woken"}]
  BY <1>1, Shapes
<1>3. Fits(s, sock[s], accept[s], disconnect[s], listen.slot)  BY <1>1 DEF Served, SocketsServed
<1>4. UNCHANGED <<half, queued, listen>>  BY DEF cacheVars
<1>5. CacheServed'  BY <1>4, CacheLeftAlone
<1>6. CASE sock' = sock /\ UNCHANGED <<accept, disconnect>>  BY <1>4, <1>5, <1>6, ServedCacheStep
<1>7. CASE AwaitingAccept(s) /\ sock' # sock
  <2>1. sock' = [sock EXCEPT ![s].held = Append(@, m.type)] /\ UNCHANGED <<accept, disconnect>>
    BY <1>7 DEF Hold
  <2>2. /\ OnlyOf(s) /\ sock'[s].state = sock[s].state /\ sock'[s].bound = sock[s].bound
        /\ sock'[s].server = sock[s].server
    BY <1>2, <2>1 DEF OnlyOf, Records
  <2>3. Fits(s, sock'[s], accept'[s], disconnect'[s], listen'.slot)  BY <1>3, <1>4, <2>1, <2>2 DEF Fits
  <2> QED  BY <1>1, <1>4, <1>5, <2>2, <2>3, ServedStep
<1>8. CASE ~AwaitingAccept(s) /\ ~(sock' = sock /\ UNCHANGED <<accept, disconnect>>)
  <2>1. accept[s] = "none"
    <3>1. accept[s] # "waiting" /\ accept[s] # "failed"  BY <1>1, <1>3, <1>8 DEF Fits, AwaitingAccept
    <3> QED  BY <1>1, <1>2, <3>1
  <2>2. SocketInput(s, m)  BY <1>8
  <2>3. CASE ConnectionReset(s)
    <3>1. accept' = accept  BY <2>1, <2>3 DEF ConnectionReset, WakeAccept
    <3>2. disconnect = [disconnect EXCEPT ![s] = disconnect[s]]  BY <1>2
    <3>3. \E d : disconnect' = [disconnect EXCEPT ![s] = d]
      BY <2>3, <3>2 DEF ConnectionReset, WakeDisconnect
    <3>4. sock' = [sock EXCEPT ![s] = Cleaned(@)]  BY <2>3 DEF ConnectionReset
    <3> QED  BY <1>1, <1>4, <2>1, <3>1, <3>3, <3>4, ServedClean
  <2>4. CASE sock' = [sock EXCEPT ![s].state = "CLOSE_WAIT"] /\ UNCHANGED <<accept, disconnect>>
    <3>0. OnlyOf(s)  BY <1>2, <2>4 DEF OnlyOf
    <3>1. /\ sock'[s].state = "CLOSE_WAIT" /\ sock'[s].bound = sock[s].bound
          /\ sock'[s].server = sock[s].server
      BY <1>1, <1>2, <2>4 DEF Records
    <3>2. listen'.slot # s /\ accept'[s] = "none" /\ disconnect'[s] = disconnect[s]
      BY <1>1, <1>3, <1>4, <2>1, <2>4 DEF Fits
    <3>3. Fits(s, sock'[s], accept'[s], disconnect'[s], listen'.slot)
      BY <1>1, <3>1, <3>2 DEF Fits, Opening
    <3> QED  BY <1>1, <1>4, <1>5, <3>0, <3>3, ServedStep
  <2> QED  BY <1>8, <2>2, <2>3, <2>4 DEF SocketInput
<1> QED  BY <1>6, <1>7, <1>8 DEF Hold

\* Every segment the server gets.
LEMMA ServerReceivesServed ==
    ASSUME Base, Served, NEW m \in net, ServerReceives(m)
    PROVE  Served'
<1>1. CASE UNCHANGED <<sock, listen, cacheVars, threadVars>>
  <2>1. UNCHANGED <<sock, listen, half, queued, accept, disconnect>>  BY <1>1 DEF cacheVars, threadVars
  <2>2. CacheServed'  BY <2>1, CacheLeftAlone
  <2> QED  BY <2>1, <2>2, ServedCacheStep
<1> QED  BY <1>1, HomeServed, SynReceivedServed, AckReceivedServed, ResetReceivedServed DEF ServerReceives

\* No listen request, no entry, no queue and no socket parked.
LEMMA InitServed == Init => Served
<1> SUFFICES ASSUME Init PROVE Served  OBVIOUS
<1>1. SocketsServed
  BY ServerAssumption DEF Init, SocketsServed, Fits, Fresh, Opening, ServerAssumption
<1>2. CacheServed  BY DEF Init, CacheServed, With
<1> QED  BY <1>1, <1>2 DEF Served

\* Served is inductive, given Base and callers that take turns on a socket.
LEMMA NextServed == SocketIsShared = FALSE /\ Base /\ Served /\ [Next]_vars => Served'
<1> SUFFICES ASSUME SocketIsShared = FALSE, Base, Served, [Next]_vars PROVE Served'  OBVIOUS
<1>1. CASE UNCHANGED <<sock, listen, half, queued, accept, disconnect>>
  <2>1. CacheServed'  BY <1>1, CacheLeftAlone
  <2> QED  BY <1>1, <2>1, ServedCacheStep
<1>2. ASSUME NEW s \in Sockets, Call(s) \/ Resumed(s) \/ SocketTimer(s) \/ Closes(s) PROVE Served'
  BY <1>2, ListenServed, AcceptNowServed, StatesServed, CleansServed, UnacceptServed, RelistenServed
     DEF Call, Resumed, SocketTimer
<1>3. ASSUME NEW i \in DOMAIN half, EntryExpires(i) PROVE Served'
  BY <1>3, EntryEndsServed DEF EntryExpires
<1>4. ASSUME NEW i \in DOMAIN queued, QueuedExpires(i) PROVE Served'
  BY <1>4, UnqueueServed DEF QueuedExpires
<1>5. CASE Next
  <2>1. ASSUME NEW i \in DOMAIN half, EntryResends(i) PROVE Served'
    BY <1>1, <2>1 DEF EntryResends, threadVars
  <2>2. CASE OtherPorts  BY <1>1, <2>2 DEF OtherPorts, threadVars
  <2>3. ASSUME UNCHANGED ServerVars PROVE Served'
    BY <1>1, <2>3 DEF ServerVars, cacheVars, threadVars
  <2>4. ASSUME NEW m \in net, ServerReceives(m) \/ ClientReceives(m) PROVE Served'
    BY <2>3, <2>4, ServerReceivesServed DEF ClientReceives
  <2>5. ASSUME NEW c \in Clients, ClientConnects(c) \/ ClientResends(c) \/ ClientEnds(c) PROVE Served'
    BY <2>3, <2>5 DEF ClientConnects, ClientResends, ClientEnds
  <2> QED  BY <1>2, <1>3, <1>4, <1>5, <2>1, <2>2, <2>4, <2>5, UnlistenServed DEF Next, CacheTimer
<1>6. CASE UNCHANGED vars  BY <1>1, <1>6 DEF vars
<1> QED  BY <1>5, <1>6

\* With one thread at a time on a socket, the parked socket is the open and free
\* one, nothing is queued behind it, and the threads in its calls agree with it.
THEOREM ServedInvariant == SocketIsShared = FALSE => (Spec => []Served)
<1> SUFFICES ASSUME SocketIsShared = FALSE PROVE Spec => []Served  OBVIOUS
<1>1. Base /\ Served /\ [Next]_vars => Served'  BY NextServed
<1> QED  BY <1>1, InitServed, BaseInvariant, PTL DEF Spec

\* A thread suspended in accept is on the socket that gets the next connection: it
\* cannot be left waiting on a socket that unaccept, unlisten or a hand-over took
\* off the listen request.
THEOREM AcceptIsServedHolds == SocketIsShared = FALSE => (Spec => []AcceptIsServed)
<1> SUFFICES ASSUME SocketIsShared = FALSE PROVE Spec => []AcceptIsServed  OBVIOUS
<1>1. Served => AcceptIsServed  BY DEF Served, SocketsServed, Fits, AcceptIsServed
<1> QED  BY <1>1, ServedInvariant, PTL

\* No SYN waits behind a socket that is ready for it.
THEOREM NoIdleDeferredHolds == SocketIsShared = FALSE => (Spec => []NoIdleDeferred)
<1> SUFFICES ASSUME SocketIsShared = FALSE PROVE Spec => []NoIdleDeferred  OBVIOUS
<1>1. Served => NoIdleDeferred  BY DEF Served, CacheServed, NoIdleDeferred, Ready
<1> QED  BY <1>1, ServedInvariant, PTL

=============================================================================
