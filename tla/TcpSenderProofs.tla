--------------------------- MODULE TcpSenderProofs ---------------------------
(***************************************************************************)
(* Proofs about TcpSender for any number of threads, any segment size,      *)
(* queue depth, windows and retry limit.                                    *)
(*                                                                          *)
(* The inductive invariant IInv puts the transmit list, the sequence        *)
(* numbers, what the network holds and what the peer has into one order:    *)
(* acknowledged <= what the peer has <= the end of the data, plus the one   *)
(* byte a zero-window probe may run ahead.  On top of it WindowKept needs a *)
(* build with NX_ENABLE_TCP_SACK, and WaiterHasWakeup that no allocation    *)
(* fails inside a send.                                                     *)
(***************************************************************************)
EXTENDS TcpSender, Lists, FiniteSetTheorems

States == {"ESTABLISHED", "FIN_WAIT_1", "FIN_WAIT_2", "CLOSED"}
Places == {"idle", "loop", "alloc", "built", "blocked", "closing"}
Sending == {"loop", "alloc", "built", "blocked"}
Pieces == [seq : Nat, len : Nat]
Packets == [seq : Nat, len : Nat \ {0}, done : BOOLEAN]
Messages == [seq : Nat, data : Seq(Threads), fin : BOOLEAN]
Probes == [on : BOOLEAN, seq : Nat, data : Seq(Threads), failure : Nat]
Peers == [bytes : Seq(Threads), fin : BOOLEAN, edge : Nat]

SocketTypes ==
    /\ state \in States /\ {txSeq, out, adv, advMax, retries} \subseteq Nat
    /\ queue \in Seq(Packets) /\ probe \in Probes
    /\ timer \in BOOLEAN /\ finAcked \in BOOLEAN
    /\ stream \in Seq(Threads)

NetTypes ==
    /\ segs \subseteq Messages /\ acks \subseteq [ack : Nat, wnd : Nat]
    /\ peer \in Peers

\* A thread at p of send_internal, with l bytes of its packet left and the segment g.
Fits(p, l, g) ==
    /\ p \in Sending => l # 0
    /\ p \in {"alloc", "built"} => g.len # 0 /\ g.len <= l
    /\ p = "built" => g.seq <= txSeq

ThreadsFit ==
    /\ pc \in [Threads -> Places] /\ left \in [Threads -> Nat] /\ seg \in [Threads -> Pieces]
    /\ \A t \in Threads : Fits(pc[t], left[t], seg[t])

\* The suspension list holds the suspended threads, each once.
WaitersWait ==
    /\ waiters \in Seq(Threads)
    /\ \A i \in DOMAIN waiters : pc[waiters[i]] = "blocked"
    /\ \A i, j \in DOMAIN waiters : waiters[i] = waiters[j] => i = j

\* Where the data with a sequence number ends: the FIN comes after it.
DataEnd == txSeq - FinSent

\* The list q of packets, o bytes of it outstanding, ends at e.
QueueOk(q, o, e) ==
    /\ \A i, j \in DOMAIN q : i < j => q[i].seq + q[i].len <= q[j].seq
    /\ \A i \in DOMAIN q : i + 1 \in DOMAIN q => q[i + 1].seq = q[i].seq + q[i].len
    /\ \A i \in DOMAIN q : q[i].seq + q[i].len <= e
    /\ q = <<>> => o = 0
    /\ q # <<>> => /\ q[Len(q)].seq + q[Len(q)].len = e
                   /\ q[1].seq <= e - o /\ e - o < q[1].seq + q[1].len

\* The byte of a probe for an empty list is beyond the data.
Limit == DataEnd + (IF queue = <<>> /\ probe.on THEN 1 ELSE 0)
FinGot == IF peer.fin THEN 1 ELSE 0

Known(m) ==
    /\ m.seq + Len(m.data) <= Limit
    /\ m.fin => state # "ESTABLISHED" /\ m.data = <<>> /\ m.seq = DataEnd

SegsKnown == \A m \in segs : Known(m)

ProbeKnown == probe.on => probe.seq <= txSeq /\ Len(probe.data) = 1

AcksKnown == \A m \in acks : m.ack <= Got + FinGot /\ m.ack + m.wnd <= peer.edge + FinGot

PeerKnown ==
    /\ Got <= Limit /\ Got <= peer.edge
    /\ peer.fin => state # "ESTABLISHED" /\ Got = DataEnd

StatesAgree ==
    /\ DataEnd \in Nat /\ Len(stream) = DataEnd
    /\ finAcked <=> state = "FIN_WAIT_2"
    /\ finAcked => queue = <<>> /\ peer.fin

\* While there is a connection.
Live ==
    /\ StatesAgree
    /\ QueueOk(queue, out, DataEnd)
    /\ SegsKnown /\ ProbeKnown /\ AcksKnown /\ PeerKnown
    /\ DataEnd - out <= Got
    /\ TimerRunsWhenNeeded

IInv ==
    /\ SocketTypes /\ NetTypes /\ ThreadsFit /\ WaitersWait
    /\ Connected => Live
    /\ ~Connected => queue = <<>>

\* What send_internal may send is inside the window.
WindowKept ==
    state = "ESTABLISHED" =>
        /\ txSeq - out + adv <= peer.edge
        /\ txSeq <= peer.edge
        /\ \A t \in Threads : pc[t] = "built" /\ seg[t].seq = txSeq => txSeq + seg[t].len <= peer.edge

-----------------------------------------------------------------------------
(* The transmit list *)

\* A first part of a list is counted by its last place.
LEMMA PrefixIs ==
    ASSUME NEW n \in Nat, NEW S, S \subseteq 1..n, \A i \in S : \A j \in 1..n : j < i => j \in S
    PROVE  \E k \in 0..n : S = 1..k /\ Cardinality(S) = k
<1> DEFINE T == (1..(n + 1)) \ S
<1>1. T \subseteq Nat /\ T # {}
  <2>1. n + 1 \in T  OBVIOUS
  <2> QED  BY <2>1
<1>2. PICK i \in T : \A j \in T : i <= j  BY <1>1, FirstExists
<1>3. i \in 1..(n + 1) /\ i \notin S  BY <1>2
<1>4. \A j \in 1..n : j < i => j \in S  BY <1>2, <1>3
<1>5. \A j \in S : j < i  BY <1>3
<1>6. S = 1..(i - 1)
  <2>1. ASSUME NEW j \in S PROVE j \in 1..(i - 1)
    <3>1. j \in 1..n /\ j < i  BY <1>5
    <3> QED  BY <1>3, <3>1
  <2>2. ASSUME NEW j \in 1..(i - 1) PROVE j \in S
    <3>1. j \in 1..n /\ j < i  BY <1>3
    <3> QED  BY <1>4, <3>1
  <2> QED  BY <2>1, <2>2
<1>7. i - 1 \in 0..n /\ i - 1 \in Int  BY <1>3
<1>8. Cardinality(1..(i - 1)) = i - 1  BY <1>7, FS_Interval
<1> QED  BY <1>6, <1>7, <1>8

\* send_internal appends the segment it sends to the list.
LEMMA QueueAppend ==
    ASSUME NEW q \in Seq(Packets), NEW o \in Nat, NEW e \in Nat, QueueOk(q, o, e),
           NEW p \in Packets, p.seq = e
    PROVE  QueueOk(Append(q, p), IF q = <<>> THEN p.len ELSE o + p.len, e + p.len)
<1> DEFINE r == Append(q, p)
           n == Len(q)
<1>1. /\ r \in Seq(Packets) /\ Len(r) = n + 1 /\ r # <<>>
      /\ \A i \in 1..n : r[i] = q[i]
      /\ r[n + 1] = p
  BY AppendProperties
<1>2. n \in Nat /\ DOMAIN q = 1..n /\ DOMAIN r = 1..(n + 1)  BY <1>1, LenProperties
<1>3. \A i \in 1..n : q[i] \in Packets  BY <1>2, ElementOfSeq
<1>4. \A i \in 1..n : q[i].seq \in Nat /\ q[i].len \in Nat /\ q[i].len # 0  BY <1>3 DEF Packets
<1>5. p.len \in Nat /\ p.len # 0  BY DEF Packets
<1>6. q = <<>> <=> n = 0  BY EmptySeq
<1> HIDE DEF r, n
<1>7. /\ \A i, j \in 1..n : i < j => q[i].seq + q[i].len <= q[j].seq
      /\ \A i \in 1..n : i + 1 \in 1..n => q[i + 1].seq = q[i].seq + q[i].len
      /\ \A i \in 1..n : q[i].seq + q[i].len <= e
      /\ n = 0 => o = 0
      /\ n # 0 => q[n].seq + q[n].len = e /\ q[1].seq <= e - o /\ e - o < q[1].seq + q[1].len
  BY <1>2, <1>6 DEF QueueOk, n
<1>8. ASSUME NEW i \in 1..(n + 1), NEW j \in 1..(n + 1), i < j
      PROVE  r[i].seq + r[i].len <= r[j].seq
  <2>1. i \in 1..n /\ (j \in 1..n \/ j = n + 1)  BY <1>2, <1>8
  <2> QED  BY <1>1, <1>7, <1>8, <2>1
<1>9. ASSUME NEW i \in 1..(n + 1), i + 1 \in 1..(n + 1) PROVE r[i + 1].seq = r[i].seq + r[i].len
  <2>1. i \in 1..n /\ (i + 1 \in 1..n \/ i = n)  BY <1>2, <1>9
  <2>2. i = n => n # 0  BY <2>1, <1>2
  <2> QED  BY <1>1, <1>7, <2>1, <2>2
<1>10. ASSUME NEW i \in 1..(n + 1) PROVE r[i].seq + r[i].len <= e + p.len
  <2>1. i \in 1..n \/ i = n + 1  BY <1>2
  <2>2. CASE i \in 1..n
    <3>1. r[i] = q[i] /\ q[i].seq \in Nat /\ q[i].len \in Nat  BY <1>1, <1>4, <2>2
    <3>2. q[i].seq + q[i].len <= e  BY <1>7, <2>2
    <3> QED  BY <1>5, <3>1, <3>2
  <2>3. CASE i = n + 1  BY <1>1, <1>5, <2>3
  <2> QED  BY <2>1, <2>2, <2>3
<1>11. r[n + 1].seq + r[n + 1].len = e + p.len  BY <1>1
<1> DEFINE w == IF q = <<>> THEN p.len ELSE o + p.len
<1>12. r[1].seq <= (e + p.len) - w /\ (e + p.len) - w < r[1].seq + r[1].len
  <2>1. CASE n = 0  BY <1>1, <1>5, <1>6, <2>1
  <2>2. CASE n # 0
    <3>1. 1 \in 1..n /\ r[1] = q[1] /\ w = o + p.len  BY <1>1, <1>2, <1>6, <2>2
    <3>2. (e + p.len) - w = e - o  BY <1>5, <3>1
    <3> QED  BY <1>7, <2>2, <3>1, <3>2
  <2> QED  BY <2>1, <2>2
<1> HIDE DEF w
<1>13. QueueOk(r, w, e + p.len)  BY <1>1, <1>2, <1>8, <1>9, <1>10, <1>11, <1>12 DEF QueueOk
<1> QED  BY <1>13 DEF r, w

\* The driver's mark of a packet is not part of the order.
LEMMA QueueMarked ==
    ASSUME NEW q \in Seq(Packets), NEW r \in Seq(Packets), NEW o, NEW e, QueueOk(q, o, e), Len(r) = Len(q),
           \A i \in DOMAIN q : r[i].seq = q[i].seq /\ r[i].len = q[i].len
    PROVE  QueueOk(r, o, e)
<1>1. DOMAIN r = 1..Len(q) /\ DOMAIN q = 1..Len(q) /\ Len(q) \in Nat  BY LenProperties
<1>2. (q = <<>> <=> Len(q) = 0) /\ (r = <<>> <=> Len(q) = 0)  BY EmptySeq
<1>3. q # <<>> => 1 \in DOMAIN q /\ Len(q) \in DOMAIN q  BY <1>1, <1>2
<1> QED  BY <1>1, <1>2, <1>3 DEF QueueOk

\* The ACK check takes the first k packets off the list and leaves w bytes
\* outstanding.
LEMMA QueueDropped ==
    ASSUME NEW q \in Seq(Packets), NEW o \in Nat, NEW e \in Nat, QueueOk(q, o, e), NEW k \in 0..Len(q),
           NEW w \in Nat, k = Len(q) => w = 0,
           k # Len(q) => q[k + 1].seq <= e - w /\ e - w < q[k + 1].seq + q[k + 1].len
    PROVE  LET r == SubSeq(q, k + 1, Len(q))
           IN  r \in Seq(Packets) /\ QueueOk(r, w, e) /\ (r = <<>> <=> k = Len(q))
<1> DEFINE n == Len(q)
           r == SubSeq(q, k + 1, n)
<1>1. n \in Nat /\ DOMAIN q = 1..n /\ \A i \in 1..n : q[i] \in Packets  BY LenProperties, ElementOfSeq
<1>2. k \in Nat /\ k <= n /\ k + 1 \in Int /\ n \in Int /\ \A i \in (k + 1)..n : q[i] \in Packets
  <2>1. k \in Nat /\ k <= n
    <3>1. Len(q) \in Nat  BY LenProperties
    <3> QED  BY <3>1
  <2> HIDE DEF n
  <2>2. (k + 1)..n \subseteq 1..n  BY <1>1, <2>1
  <2> QED  BY <1>1, <2>1, <2>2
<1>3. /\ r \in Seq(Packets) /\ Len(r) = IF k + 1 <= n THEN n - (k + 1) + 1 ELSE 0
      /\ \A i \in 1..(n - (k + 1) + 1) : r[i] = q[(k + 1) + i - 1]
  <2> HIDE DEF n
  <2> QED  BY <1>2, SubSeqProperties
<1> HIDE DEF r, n
<1>4. Len(r) = n - k /\ \A i \in 1..(n - k) : r[i] = q[k + i]
  <2>1. Len(r) = n - k  BY <1>1, <1>2, <1>3
  <2>2. ASSUME NEW i \in 1..(n - k) PROVE r[i] = q[k + i]
    <3>1. i \in 1..(n - (k + 1) + 1) /\ (k + 1) + i - 1 = k + i  BY <1>1, <1>2
    <3> QED  BY <1>3, <3>1
  <2> QED  BY <2>1, <2>2
<1>5. DOMAIN r = 1..(n - k)  BY <1>3, <1>4, LenProperties
<1>6. r = <<>> <=> n - k = 0  BY <1>3, <1>4, EmptySeq
<1>7. r = <<>> <=> k = n  BY <1>1, <1>2, <1>6
<1>8. \A i \in 1..(n - k) : k + i \in 1..n  BY <1>1, <1>2
<1>9. ASSUME NEW i \in 1..(n - k), NEW j \in 1..(n - k), i < j PROVE r[i].seq + r[i].len <= r[j].seq
  <2>1. k + i \in 1..n /\ k + j \in 1..n /\ k + i < k + j  BY <1>2, <1>8, <1>9
  <2> QED  BY <1>1, <1>4, <2>1 DEF QueueOk
<1>10. ASSUME NEW i \in 1..(n - k), i + 1 \in 1..(n - k) PROVE r[i + 1].seq = r[i].seq + r[i].len
  <2>1. k + i \in 1..n /\ k + (i + 1) \in 1..n /\ k + (i + 1) = (k + i) + 1  BY <1>2, <1>8, <1>10
  <2>2. q[(k + i) + 1].seq = q[k + i].seq + q[k + i].len  BY <1>1, <2>1 DEF QueueOk
  <2> QED  BY <1>4, <1>10, <2>1, <2>2
<1>11. ASSUME NEW i \in 1..(n - k) PROVE r[i].seq + r[i].len <= e
  BY <1>1, <1>4, <1>8 DEF QueueOk
<1>12. ASSUME r # <<>> PROVE /\ r[Len(r)].seq + r[Len(r)].len = e
                             /\ r[1].seq <= e - w /\ e - w < r[1].seq + r[1].len
  <2>1. k # n /\ n - k \in 1..(n - k) /\ 1 \in 1..(n - k) /\ n # 0  BY <1>1, <1>2, <1>7, <1>12
  <2>2. r[n - k] = q[k + (n - k)] /\ k + (n - k) = n /\ r[1] = q[k + 1]  BY <1>1, <1>2, <1>4, <2>1
  <2>3. q # <<>>  BY <2>1, EmptySeq DEF n
  <2>4. q[n].seq + q[n].len = e  BY <2>3 DEF QueueOk, n
  <2>5. q[k + 1].seq <= e - w /\ e - w < q[k + 1].seq + q[k + 1].len  BY <2>1 DEF n
  <2> QED  BY <1>4, <2>2, <2>4, <2>5
<1>13. r = <<>> => w = 0  BY <1>7 DEF n
<1>14. QueueOk(r, w, e)  BY <1>5, <1>9, <1>10, <1>11, <1>12, <1>13 DEF QueueOk
<1> QED  BY <1>3, <1>7, <1>14 DEF r, n

-----------------------------------------------------------------------------
(* The threads inside send_internal *)

\* A step of one thread.
LEMMA ThreadStepFits ==
    ASSUME ThreadsFit, {txSeq, txSeq'} \subseteq Nat, txSeq <= txSeq', NEW t \in Threads,
           NEW p \in Places, NEW l \in Nat, NEW g \in Pieces,
           pc' = [pc EXCEPT ![t] = p], left' = [left EXCEPT ![t] = l], seg' = [seg EXCEPT ![t] = g],
           Fits(p, l, g)'
    PROVE  ThreadsFit'
<1>1. pc \in [Threads -> Places] /\ left \in [Threads -> Nat] /\ seg \in [Threads -> Pieces]
  BY DEF ThreadsFit
<1>2. pc' \in [Threads -> Places] /\ left' \in [Threads -> Nat] /\ seg' \in [Threads -> Pieces]
  BY <1>1
<1>3. ASSUME NEW u \in Threads PROVE Fits(pc[u], left[u], seg[u])'
  <2>1. CASE u = t
    <3>1. pc'[u] = p /\ left'[u] = l /\ seg'[u] = g  BY <1>1, <2>1
    <3> QED  BY <3>1 DEF Fits
  <2>2. CASE u # t
    <3>1. pc'[u] = pc[u] /\ left'[u] = left[u] /\ seg'[u] = seg[u]  BY <1>1, <2>2
    <3>2. Fits(pc[u], left[u], seg[u]) /\ seg[u].seq \in Nat  BY <1>1 DEF ThreadsFit, Pieces
    <3> QED  BY <3>1, <3>2 DEF Fits
  <2> QED  BY <2>1, <2>2
<1> QED  BY <1>2, <1>3 DEF ThreadsFit

\* A step of no thread.
LEMMA ThreadsRest ==
    ASSUME ThreadsFit, {txSeq, txSeq'} \subseteq Nat, txSeq <= txSeq', UNCHANGED <<pc, left, seg>>
    PROVE  ThreadsFit'
<1>1. \A u \in Threads : seg[u].seq \in Nat  BY DEF ThreadsFit, Pieces
<1> QED  BY <1>1 DEF ThreadsFit, Fits

\* A thread that is not suspended is not in the list, and may be put there.
LEMMA WaitersStep ==
    ASSUME WaitersWait, ThreadsFit, NEW t \in Threads, pc[t] # "blocked", NEW p, pc' = [pc EXCEPT ![t] = p],
           waiters' = waiters \/ (p = "blocked" /\ waiters' = Append(waiters, t))
    PROVE  WaitersWait'
<1>1. pc \in [Threads -> Places] /\ waiters \in Seq(Threads)  BY DEF ThreadsFit, WaitersWait
<1>2. DOMAIN waiters = 1..Len(waiters) /\ Len(waiters) \in Nat /\ \A i \in DOMAIN waiters : waiters[i] \in Threads
  BY <1>1, LenProperties, ElementOfSeq
<1>3. \A i \in DOMAIN waiters : waiters[i] # t /\ pc'[waiters[i]] = "blocked"
  BY <1>1, <1>2 DEF WaitersWait
<1>4. CASE waiters' = waiters  BY <1>3, <1>4 DEF WaitersWait
<1>5. CASE p = "blocked" /\ waiters' = Append(waiters, t)
  <2>1. /\ waiters' \in Seq(Threads) /\ Len(waiters') = Len(waiters) + 1
        /\ \A i \in 1..Len(waiters) : waiters'[i] = waiters[i]
        /\ waiters'[Len(waiters) + 1] = t
    BY <1>1, <1>5, AppendProperties
  <2>2. DOMAIN waiters' = 1..(Len(waiters) + 1)  BY <2>1, LenProperties
  <2>3. pc'[t] = "blocked"  BY <1>1, <1>5
  <2>4. \A i \in DOMAIN waiters' : i \in DOMAIN waiters \/ i = Len(waiters) + 1  BY <1>2, <2>2
  <2>5. \A i \in DOMAIN waiters' : pc'[waiters'[i]] = "blocked"  BY <1>2, <1>3, <2>1, <2>3, <2>4
  <2>6. \A i, j \in DOMAIN waiters' : waiters'[i] = waiters'[j] => i = j
    BY <1>2, <1>3, <2>1, <2>4 DEF WaitersWait
  <2> QED  BY <2>1, <2>5, <2>6 DEF WaitersWait
<1> QED  BY <1>4, <1>5

\* _nx_tcp_transmit_cleanup moves the head of the list past the thread it takes out.
LEMMA RotateOut ==
    ASSUME NEW S, NEW s \in Seq(S), NEW i \in DOMAIN s
    PROVE  LET r == SubSeq(s, i + 1, Len(s)) \o SubSeq(s, 1, i - 1)
           IN  /\ r \in Seq(S)
               /\ \A j \in DOMAIN r : \E k \in DOMAIN s : k # i /\ r[j] = s[k]
               /\ (\A j, k \in DOMAIN s : s[j] = s[k] => j = k) => \A j, k \in DOMAIN r : r[j] = r[k] => j = k
<1> DEFINE n == Len(s)
           a == SubSeq(s, i + 1, n)
           b == SubSeq(s, 1, i - 1)
           was(j) == IF j <= n - i THEN i + j ELSE j - (n - i)
<1>1. n \in Nat /\ DOMAIN s = 1..n /\ i \in 1..n /\ \A k \in 1..n : s[k] \in S  BY LenProperties, ElementOfSeq
<1> HIDE DEF n
<1>2. i + 1 \in Int /\ i - 1 \in Int /\ n \in Int /\ (i + 1)..n \subseteq 1..n /\ 1..(i - 1) \subseteq 1..n
  BY <1>1
<1>3. /\ a \in Seq(S) /\ Len(a) = IF i + 1 <= n THEN n - (i + 1) + 1 ELSE 0
      /\ \A j \in 1..(n - (i + 1) + 1) : a[j] = s[(i + 1) + j - 1]
  <2>1. \A k \in (i + 1)..n : s[k] \in S  BY <1>1, <1>2
  <2> QED  BY <1>2, <2>1, SubSeqProperties
<1>4. /\ b \in Seq(S) /\ Len(b) = IF 1 <= i - 1 THEN (i - 1) - 1 + 1 ELSE 0
      /\ \A j \in 1..((i - 1) - 1 + 1) : b[j] = s[1 + j - 1]
  <2>1. \A k \in 1..(i - 1) : s[k] \in S  BY <1>1, <1>2
  <2> QED  BY <1>2, <2>1, SubSeqProperties
<1> HIDE DEF a, b
<1>5. Len(a) = n - i /\ Len(b) = i - 1  BY <1>1, <1>3, <1>4
<1>6. ASSUME NEW j \in 1..(n - i) PROVE a[j] = s[i + j]
  <2>1. j \in 1..(n - (i + 1) + 1) /\ (i + 1) + j - 1 = i + j  BY <1>1
  <2> QED  BY <1>3, <2>1
<1>7. ASSUME NEW j \in 1..(i - 1) PROVE b[j] = s[j]
  <2>1. j \in 1..((i - 1) - 1 + 1) /\ 1 + j - 1 = j  BY <1>1
  <2> QED  BY <1>4, <2>1
<1>8. /\ a \o b \in Seq(S) /\ Len(a \o b) = Len(a) + Len(b)
      /\ \A j \in 1..(Len(a) + Len(b)) : (a \o b)[j] = IF j <= Len(a) THEN a[j] ELSE b[j - Len(a)]
  BY <1>3, <1>4, ConcatProperties
<1> DEFINE r == a \o b
<1>9. DOMAIN r = 1..(n - 1)  BY <1>1, <1>5, <1>8, LenProperties
<1>10. \A j \in DOMAIN r : was(j) \in DOMAIN s /\ was(j) # i  BY <1>1, <1>9
<1>11. ASSUME NEW j \in DOMAIN r PROVE r[j] = s[was(j)]
  <2>1. j \in 1..(Len(a) + Len(b))  BY <1>1, <1>5, <1>9
  <2>2. CASE j <= n - i
    <3>1. j \in 1..(n - i) /\ r[j] = a[j]  BY <1>5, <1>8, <2>1, <2>2
    <3> QED  BY <1>6, <2>2, <3>1
  <2>3. CASE ~(j <= n - i)
    <3>1. j - (n - i) \in 1..(i - 1)  BY <1>1, <1>5, <2>1, <2>3
    <3>2. r[j] = b[j - (n - i)]  BY <1>5, <1>8, <2>1, <2>3
    <3> QED  BY <1>7, <2>3, <3>1, <3>2
  <2> QED  BY <2>2, <2>3
<1>12. \A j, k \in DOMAIN r : was(j) = was(k) => j = k  BY <1>1, <1>9
<1> HIDE DEF was, r
<1>13. \A j \in DOMAIN r : \E k \in DOMAIN s : k # i /\ r[j] = s[k]  BY <1>10, <1>11
<1>14. (\A j, k \in DOMAIN s : s[j] = s[k] => j = k) => \A j, k \in DOMAIN r : r[j] = r[k] => j = k
  BY <1>10, <1>11, <1>12
<1> QED  BY <1>8, <1>13, <1>14 DEF a, b, n, r

-----------------------------------------------------------------------------
(* A connection while a step leaves its numbers alone, or only adds to them *)

\* The numbers of a connection are integers in their order.
LEMMA NumbersAre ==
    ASSUME IInv, Connected
    PROVE  /\ txSeq \in Nat /\ out \in Nat /\ DataEnd \in Nat /\ Limit \in Nat /\ Got \in Nat /\ peer.edge \in Nat
           /\ DataEnd = txSeq - FinSent /\ FinSent \in {0, 1}
           /\ (FinSent = 0 <=> state = "ESTABLISHED")
           /\ DataEnd <= Limit /\ Limit <= DataEnd + 1
           /\ Limit = DataEnd + 1 => queue = <<>> /\ probe.on
           /\ queue \in Seq(Packets) /\ QueueOk(queue, out, DataEnd)
           /\ FinPending = (state = "FIN_WAIT_1") /\ DataEnd - out \in Nat
           /\ Live
<1>1. Live /\ SocketTypes /\ NetTypes  BY DEF IInv
<1>2. txSeq \in Nat /\ out \in Nat /\ queue \in Seq(Packets)  BY <1>1 DEF SocketTypes
<1>3. DataEnd \in Nat /\ QueueOk(queue, out, DataEnd)  BY <1>1 DEF Live, StatesAgree
<1>4. Got \in Nat /\ peer.edge \in Nat
  <2>1. peer.bytes \in Seq(Threads) /\ peer.edge \in Nat  BY <1>1 DEF NetTypes, Peers
  <2> QED  BY <2>1, LenProperties DEF Got
<1>5. FinSent \in {0, 1} /\ (FinSent = 0 <=> state = "ESTABLISHED")  BY DEF FinSent
<1>6. /\ Limit \in Nat /\ DataEnd <= Limit /\ Limit <= DataEnd + 1
      /\ Limit = DataEnd + 1 => queue = <<>> /\ probe.on
  BY <1>3 DEF Limit
<1>7. FinPending = (state = "FIN_WAIT_1")  BY <1>1 DEF FinPending, Live, StatesAgree
<1>8. DataEnd - out \in Nat
  <2>1. CASE queue = <<>>  BY <1>3, <2>1 DEF QueueOk
  <2>2. CASE queue # <<>>
    <3>1. 1 \in DOMAIN queue
      <4>1. Len(queue) # 0 /\ DOMAIN queue = 1..Len(queue) /\ Len(queue) \in Nat
        BY <1>2, <2>2, EmptySeq, LenProperties
      <4> QED  BY <4>1
    <3>2. queue[1].seq \in Nat /\ queue[1].seq <= DataEnd - out
      <4>1. queue[1] \in Packets  BY <1>2, <3>1, ElementOfSeq, LenProperties
      <4> QED  BY <1>3, <2>2, <4>1 DEF QueueOk, Packets
    <3> QED  BY <1>2, <1>3, <3>2
  <2> QED  BY <2>1, <2>2
<1> QED  BY <1>1, <1>2, <1>3, <1>4, <1>5, <1>6, <1>7, <1>8 DEF DataEnd

\* What is put into the network comes in, and nothing else does.
LEMMA PutNet == ASSUME NEW net, NEW new, NEW max, NEW n \in Put(net, new, max) PROVE n \subseteq net \cup new
BY DEF Put, kSubset

\* The segments in the network stay below the limit, and so do those that are sent.
LEMMA SegsStay ==
    ASSUME IInv, Connected, NEW new, segs' \subseteq segs \cup new, new \subseteq Messages,
           \A m \in new : Known(m)', Limit' \in Nat, Limit <= Limit',
           state # "ESTABLISHED" => state' # "ESTABLISHED" /\ DataEnd' = DataEnd
    PROVE  segs' \subseteq Messages /\ SegsKnown'
<1>1. segs \subseteq Messages /\ SegsKnown /\ Limit \in Nat  BY NumbersAre DEF IInv, NetTypes, Live
<1>2. ASSUME NEW m \in segs PROVE Known(m)'
  <2>1. Known(m)  BY <1>1 DEF SegsKnown
  <2>2. m.seq \in Nat /\ Len(m.data) \in Nat
    <3>1. m.seq \in Nat /\ m.data \in Seq(Threads)  BY <1>1 DEF Messages
    <3> QED  BY <3>1, LenProperties
  <2> QED  BY <1>1, <2>1, <2>2 DEF Known
<1>3. segs' \subseteq Messages  BY <1>1
<1>4. \A m \in segs' : Known(m)'  BY <1>2
<1> QED  BY <1>3, <1>4 DEF SegsKnown

\* ... and with them the peer, when it gets nothing.
LEMMA PeerStays ==
    ASSUME IInv, Connected, UNCHANGED <<acks, peer>>, Limit' \in Nat, Limit <= Limit',
           state # "ESTABLISHED" => state' # "ESTABLISHED" /\ DataEnd' = DataEnd
    PROVE  AcksKnown' /\ PeerKnown'
<1>1. AcksKnown /\ PeerKnown /\ Limit \in Nat /\ Got \in Nat  BY NumbersAre DEF Live
<1>2. Got' = Got /\ FinGot' = FinGot  BY DEF Got, FinGot
<1>3. AcksKnown'  BY <1>1, <1>2 DEF AcksKnown
<1>4. PeerKnown'  BY <1>1, <1>2 DEF PeerKnown
<1> QED  BY <1>3, <1>4

\* A step that leaves the numbers alone; a probe may be armed, the timer started.
LEMMA QuietStep ==
    ASSUME IInv, UNCHANGED <<state, txSeq, out, queue, finAcked, stream, segs, acks, peer>>,
           {adv', advMax', retries'} \subseteq Nat, probe' \in Probes, timer' \in BOOLEAN,
           probe.on => probe'.on, timer => timer',
           probe' = probe \/ (probe'.seq <= txSeq /\ Len(probe'.data) = 1)
    PROVE  SocketTypes' /\ NetTypes' /\ (Connected' => Live') /\ (~Connected' => queue' = <<>>)
<1>1. SocketTypes' /\ NetTypes'  BY DEF IInv, SocketTypes, NetTypes
<1>2. ASSUME Connected PROVE Live'
  <2>1. FinSent' = FinSent /\ DataEnd' = DataEnd  BY DEF FinSent, DataEnd
  <2>2. Limit' \in Nat /\ Limit <= Limit'
    <3>1. DataEnd \in Nat  BY <1>2, NumbersAre
    <3> QED  BY <2>1, <3>1 DEF Limit
  <2>3. Live  BY <1>2, NumbersAre
  <2>4. StatesAgree'  BY <2>1, <2>3 DEF Live, StatesAgree
  <2>5. QueueOk(queue, out, DataEnd)'  BY <2>1, <2>3 DEF Live, QueueOk
  <2>6. SegsKnown'
    <3> DEFINE new == {}
    <3>1. segs' \subseteq segs \cup new /\ new \subseteq Messages /\ \A m \in new : Known(m)'  OBVIOUS
    <3> HIDE DEF new
    <3> QED  BY <1>2, <2>1, <2>2, <3>1, SegsStay
  <2>7. AcksKnown' /\ PeerKnown'  BY <1>2, <2>1, <2>2, PeerStays
  <2>8. ProbeKnown'  BY <2>3 DEF Live, ProbeKnown
  <2>9. DataEnd' - out' <= Got'  BY <2>1, <2>3 DEF Live, Got
  <2>10. TimerRunsWhenNeeded'  BY <2>3 DEF Live, TimerRunsWhenNeeded, Connected, FinPending
  <2> QED  BY <2>4, <2>5, <2>6, <2>7, <2>8, <2>9, <2>10 DEF Live
<1>3. Connected' = Connected  BY DEF Connected
<1>4. ~Connected' => queue' = <<>>  BY <1>3 DEF IInv
<1> QED  BY <1>1, <1>2, <1>3, <1>4

-----------------------------------------------------------------------------
(* The steps of a thread in send_internal *)

\* _nx_tcp_socket_zero_window_probe_arm never disarms, and never stops the timer.
LEMMA ProbeArmIs ==
    ASSUME IInv, NEW t \in Threads, ProbeArm(t)
    PROVE  /\ probe' \in Probes /\ timer' \in BOOLEAN /\ retries' \in Nat
           /\ probe.on => probe'.on
           /\ timer => timer'
           /\ probe' = probe \/ (probe'.seq <= txSeq /\ Len(probe'.data) = 1)
           /\ adv = 0 => timer'
<1>1. probe \in Probes /\ timer \in BOOLEAN /\ retries \in Nat /\ txSeq \in Nat  BY DEF IInv, SocketTypes
<1> DEFINE b == <<t>>
<1>2. b \in Seq(Threads) /\ Len(b) = 1  OBVIOUS
<1>3. \/ UNCHANGED <<probe, timer, retries>> /\ adv # 0
      \/ /\ probe' = probe \/ (~probe.on /\ probe' = [on |-> TRUE, seq |-> txSeq, data |-> b, failure |-> 0])
         /\ timer' = TRUE /\ retries' \in {retries, 0}
  BY DEF ProbeArm
<1> HIDE DEF b
<1> DEFINE r == [on |-> TRUE, seq |-> txSeq, data |-> b, failure |-> 0]
<1>4. r \in Probes /\ r.on = TRUE /\ r.seq = txSeq /\ r.data = b  BY <1>1, <1>2 DEF Probes
<1>5. \/ UNCHANGED <<probe, timer, retries>> /\ adv # 0
      \/ (probe' = probe \/ probe' = r) /\ timer' = TRUE /\ retries' \in {retries, 0}
  BY <1>3
<1> HIDE DEF r
<1>6. r.seq <= txSeq /\ Len(r.data) = 1  BY <1>1, <1>2, <1>4
<1>7. CASE UNCHANGED <<probe, timer, retries>> /\ adv # 0  BY <1>1, <1>7
<1>8. CASE (probe' = probe \/ probe' = r) /\ timer' = TRUE /\ retries' \in {retries, 0}
  BY <1>1, <1>4, <1>6, <1>8
<1> QED  BY <1>5, <1>7, <1>8

\* What one segment may carry is part of the usable window.
LEMMA CreditIs ==
    ASSUME NEW n \in Nat, NEW o \in Nat, NEW a \in Nat, NEW m \in Nat
    PROVE  /\ Credit(n, o, a, m) \in Nat
           /\ Credit(n, o, a, m) # 0 => o + Credit(n, o, a, m) <= a
           /\ a # 0 /\ o = 0 => Credit(n, o, a, m) # 0
<1> DEFINE u == IF a > o THEN a - o ELSE 0
<1>1. u \in Nat /\ (u # 0 => o + u <= a) /\ (a # 0 /\ o = 0 => u # 0)  OBVIOUS
<1>2. Mss \in Nat /\ Mss # 0  BY SenderAssumption DEF SenderAssumption
<1>3. Credit(n, o, a, m) = IF n > u /\ ~SwsPermits(o, a, m) THEN 0 ELSE IF u > Mss THEN Mss ELSE u
  BY DEF Credit
<1>4. u # 0 /\ o = 0 => SwsPermits(o, a, m)  BY DEF SwsPermits
<1> HIDE DEF u
<1> QED  BY <1>1, <1>2, <1>3, <1>4

\* One pass of the loop of a thread that is not suspended.
LEMMA LoopBodyStep ==
    ASSUME IInv, NEW t \in Threads, pc[t] \in {"idle", "loop", "alloc"}, NEW n \in Nat \ {0}, LoopBody(t, n)
    PROVE  IInv'
<1> DEFINE w == Credit(n, out, adv, advMax)
<1>1. /\ SocketTypes /\ ThreadsFit /\ WaitersWait
      /\ txSeq \in Nat /\ out \in Nat /\ adv \in Nat /\ advMax \in Nat /\ retries \in Nat
      /\ probe \in Probes /\ timer \in BOOLEAN
  BY DEF IInv, SocketTypes
<1>2. w \in Nat  BY <1>1, CreditIs
<1>3. /\ UNCHANGED <<state, txSeq, out, queue, finAcked, stream, segs, acks, peer>>
      /\ adv' = adv /\ advMax' = advMax
  BY DEF LoopBody, windowVars, netVars
<1>4. /\ probe' \in Probes /\ timer' \in BOOLEAN /\ retries' \in Nat
      /\ probe.on => probe'.on
      /\ timer => timer'
      /\ probe' = probe \/ (probe'.seq <= txSeq /\ Len(probe'.data) = 1)
  <2>1. CASE ProbeArm(t)  BY <2>1, ProbeArmIs
  <2>2. CASE UNCHANGED <<probe, timer, retries>>  BY <1>1, <2>2
  <2> QED  BY <2>1, <2>2 DEF LoopBody
<1>5. SocketTypes' /\ NetTypes' /\ (Connected' => Live') /\ (~Connected' => queue' = <<>>)
  <2>1. {adv', advMax', retries'} \subseteq Nat  BY <1>1, <1>3, <1>4
  <2> QED  BY <1>3, <1>4, <2>1, QuietStep
<1>6. \E p \in Places, l \in Nat, g \in Pieces :
         /\ pc' = [pc EXCEPT ![t] = p] /\ left' = [left EXCEPT ![t] = l] /\ seg' = [seg EXCEPT ![t] = g]
         /\ waiters' = waiters \/ (p = "blocked" /\ waiters' = Append(waiters, t))
         /\ p \in Sending => l # 0
         /\ p \in {"alloc", "built"} => g.len # 0 /\ g.len <= l
         /\ p = "built" => g.seq <= txSeq
  <2> DEFINE x == IF n > w THEN w ELSE n
             g1 == [seq |-> 0, len |-> x]
             g2 == [seq |-> txSeq, len |-> n]
  <2>1. g1 \in Pieces /\ g1.len = x /\ g2 \in Pieces /\ g2.len = n /\ g2.seq = txSeq /\ NoSegment \in Pieces
    BY <1>1, <1>2 DEF Pieces, NoSegment
  <2>2. w # 0 => x # 0 /\ x <= n  BY <1>2
  <2>3. n # 0 /\ n <= n /\ txSeq <= txSeq /\ n \in Nat  BY <1>1
  <2>4. CASE /\ w # 0 /\ left' = [left EXCEPT ![t] = n] /\ waiters' = waiters
             /\ pc' = [pc EXCEPT ![t] = "alloc"] /\ seg' = [seg EXCEPT ![t] = g1]
    <3>1. "alloc" \in Places  BY DEF Places
    <3> HIDE DEF g1, w, x
    <3> QED  BY <2>1, <2>2, <2>3, <2>4, <3>1
  <2>5. CASE /\ left' = [left EXCEPT ![t] = n] /\ waiters' = waiters
             /\ pc' = [pc EXCEPT ![t] = "built"] /\ seg' = [seg EXCEPT ![t] = g2]
    <3>1. "built" \in Places  BY DEF Places
    <3> HIDE DEF g2
    <3> QED  BY <2>1, <2>3, <2>5, <3>1
  <2>6. CASE /\ left' = [left EXCEPT ![t] = n] /\ waiters' = Append(waiters, t)
             /\ pc' = [pc EXCEPT ![t] = "blocked"] /\ seg' = [seg EXCEPT ![t] = NoSegment]
    <3>1. "blocked" \in Places  BY DEF Places
    <3> QED  BY <2>1, <2>3, <2>6, <3>1
  <2>7. CASE /\ left' = [left EXCEPT ![t] = 0] /\ waiters' = waiters
             /\ pc' = [pc EXCEPT ![t] = "idle"] /\ seg' = [seg EXCEPT ![t] = NoSegment]
    <3>1. "idle" \in Places /\ "idle" \notin Sending /\ 0 \in Nat  BY DEF Places, Sending
    <3> QED  BY <2>1, <2>7, <3>1
  <2> QED  BY <2>4, <2>5, <2>6, <2>7 DEF LoopBody
<1>7. PICK p \in Places, l \in Nat, g \in Pieces :
         /\ pc' = [pc EXCEPT ![t] = p] /\ left' = [left EXCEPT ![t] = l] /\ seg' = [seg EXCEPT ![t] = g]
         /\ waiters' = waiters \/ (p = "blocked" /\ waiters' = Append(waiters, t))
         /\ p \in Sending => l # 0
         /\ p \in {"alloc", "built"} => g.len # 0 /\ g.len <= l
         /\ p = "built" => g.seq <= txSeq
  BY <1>6
<1>8. Fits(p, l, g)'  BY <1>3, <1>7 DEF Fits
<1>9. ThreadsFit'
  <2>1. {txSeq, txSeq'} \subseteq Nat /\ txSeq <= txSeq'  BY <1>1, <1>3
  <2> QED  BY <1>1, <1>7, <1>8, <2>1, ThreadStepFits
<1>10. WaitersWait'  BY <1>1, <1>7, WaitersStep
<1> QED  BY <1>5, <1>9, <1>10 DEF IInv

\* A step of one thread that sends nothing and does not touch the suspension list.
LEMMA MoveStep ==
    ASSUME IInv, NEW t \in Threads, pc[t] # "blocked", NEW p \in Places, NEW l \in Nat, NEW g \in Pieces,
           pc' = [pc EXCEPT ![t] = p], left' = [left EXCEPT ![t] = l], seg' = [seg EXCEPT ![t] = g],
           Fits(p, l, g),
           UNCHANGED <<state, txSeq, out, adv, advMax, queue, probe, timer, retries, finAcked, waiters,
                       stream, segs, acks, peer>>
    PROVE  IInv'
<1>1. /\ SocketTypes /\ ThreadsFit /\ WaitersWait /\ txSeq \in Nat
      /\ {adv, advMax, retries} \subseteq Nat /\ probe \in Probes /\ timer \in BOOLEAN
  BY DEF IInv, SocketTypes
<1>2. SocketTypes' /\ NetTypes' /\ (Connected' => Live') /\ (~Connected' => queue' = <<>>)
  BY <1>1, QuietStep
<1>3. ThreadsFit'
  <2>1. {txSeq, txSeq'} \subseteq Nat /\ txSeq <= txSeq'  BY <1>1
  <2>2. Fits(p, l, g)'  BY DEF Fits
  <2> QED  BY <1>1, <2>1, <2>2, ThreadStepFits
<1>4. WaitersWait'  BY <1>1, WaitersStep
<1> QED  BY <1>2, <1>3, <1>4 DEF IInv

\* The thread leaves the call.
LEMMA ReturnStep ==
    ASSUME IInv, NEW t \in Threads, pc[t] # "blocked", Return(t),
           UNCHANGED <<state, txSeq, out, adv, advMax, queue, probe, timer, retries, finAcked,
                       stream, segs, acks, peer>>
    PROVE  IInv'
<1>1. "idle" \in Places /\ 0 \in Nat /\ NoSegment \in Pieces  BY DEF Places, Pieces, NoSegment
<1>2. Fits("idle", 0, NoSegment)  BY DEF Fits, Sending
<1> QED  BY <1>1, <1>2, MoveStep DEF Return

\* What is known of a thread.
LEMMA ThreadIs ==
    ASSUME IInv, NEW t \in Threads
    PROVE  /\ pc[t] \in Places /\ left[t] \in Nat /\ seg[t] \in Pieces /\ Fits(pc[t], left[t], seg[t])
           /\ seg[t].seq \in Nat /\ seg[t].len \in Nat
           /\ pc = [pc EXCEPT ![t] = pc[t]] /\ left = [left EXCEPT ![t] = left[t]]
           /\ txSeq \in Nat
<1>1. pc \in [Threads -> Places] /\ left \in [Threads -> Nat] /\ seg \in [Threads -> Pieces]
  BY DEF IInv, ThreadsFit
<1>2. seg[t] \in Pieces  BY <1>1
<1> QED  BY <1>1, <1>2 DEF IInv, ThreadsFit, Pieces, SocketTypes

\* _nx_packet_allocate has returned a packet.
LEMMA AllocatedStep ==
    ASSUME IInv, NEW t \in Threads, Allocated(t)
    PROVE  IInv'
<1>1. pc[t] = "alloc"  BY DEF Allocated
<1>2. /\ left[t] \in Nat /\ seg[t] \in Pieces /\ Fits(pc[t], left[t], seg[t]) /\ seg[t].len \in Nat
      /\ left = [left EXCEPT ![t] = left[t]] /\ txSeq \in Nat
  BY ThreadIs
<1>3. left[t] # 0 /\ seg[t].len # 0 /\ seg[t].len <= left[t]  BY <1>1, <1>2 DEF Fits, Sending
<1>4. CASE LoopBody(t, left[t])
  <2>1. left[t] \in Nat \ {0} /\ pc[t] \in {"idle", "loop", "alloc"}  BY <1>1, <1>2, <1>3
  <2> QED  BY <1>4, <2>1, LoopBodyStep
<1>5. CASE /\ Return(t)
           /\ UNCHANGED <<state, txSeq, out, windowVars, queue, probe, timer, retries, finAcked, stream, netVars>>
  BY <1>1, <1>5, ReturnStep DEF windowVars, netVars
<1>6. CASE /\ pc' = [pc EXCEPT ![t] = "built"]
           /\ seg' = [seg EXCEPT ![t].seq = txSeq]
           /\ UNCHANGED <<state, txSeq, out, windowVars, queue, probe, timer, retries,
                          finAcked, waiters, left, stream, netVars>>
  <2> DEFINE g == [seg[t] EXCEPT !.seq = txSeq]
             l == left[t]
  <2>1. g \in Pieces /\ g.seq = txSeq /\ g.len = seg[t].len  BY <1>2 DEF Pieces
  <2>2. seg' = [seg EXCEPT ![t] = g]  BY <1>6
  <2>3. left' = [left EXCEPT ![t] = l] /\ l \in Nat /\ l # 0 /\ seg[t].len # 0 /\ seg[t].len <= l
    BY <1>2, <1>3, <1>6
  <2> HIDE DEF g, l
  <2>4. Fits("built", l, g)  BY <1>2, <2>1, <2>3 DEF Fits
  <2>5. "built" \in Places  BY DEF Places
  <2>6. UNCHANGED <<state, txSeq, out, adv, advMax, queue, probe, timer, retries, finAcked, waiters,
                    stream, segs, acks, peer>> /\ pc[t] # "blocked" /\ pc' = [pc EXCEPT ![t] = "built"]
    BY <1>1, <1>6 DEF windowVars, netVars
  <2> QED  BY <2>1, <2>2, <2>3, <2>4, <2>5, <2>6, MoveStep
<1> QED  BY <1>4, <1>5, <1>6 DEF Allocated

\* It has returned none.
LEMMA AllocateFailsStep ==
    ASSUME IInv, NEW t \in Threads, AllocateFails(t)
    PROVE  IInv'
<1>1. pc[t] # "blocked"  BY DEF AllocateFails
<1> QED  BY <1>1, ReturnStep DEF AllocateFails, windowVars, netVars

\* _nx_tcp_transmit_cleanup
LEMMA WaitTimeoutStep ==
    ASSUME IInv, NEW t \in Threads, WaitTimeout(t)
    PROVE  IInv'
<1>1. PICK i \in DOMAIN waiters :
        /\ waiters[i] = t
        /\ waiters' = SubSeq(waiters, i + 1, Len(waiters)) \o SubSeq(waiters, 1, i - 1)
        /\ pc' = [pc EXCEPT ![t] = "idle"]
        /\ left' = [left EXCEPT ![t] = 0]
        /\ UNCHANGED <<state, txSeq, out, windowVars, queue, probe, timer, retries, finAcked,
                       seg, stream, netVars>>
  BY DEF WaitTimeout
<1>2. /\ SocketTypes /\ ThreadsFit /\ WaitersWait /\ txSeq \in Nat
      /\ {adv, advMax, retries} \subseteq Nat /\ probe \in Probes /\ timer \in BOOLEAN
  BY DEF IInv, SocketTypes
<1>3. UNCHANGED <<state, txSeq, out, adv, advMax, queue, probe, timer, retries, finAcked, seg,
                  stream, segs, acks, peer>>
  BY <1>1 DEF windowVars, netVars
<1>4. SocketTypes' /\ NetTypes' /\ (Connected' => Live') /\ (~Connected' => queue' = <<>>)
  BY <1>2, <1>3, QuietStep
<1>5. ThreadsFit'
  <2>1. {txSeq, txSeq'} \subseteq Nat /\ txSeq <= txSeq'  BY <1>2, <1>3
  <2>2. seg[t] \in Pieces /\ seg' = [seg EXCEPT ![t] = seg[t]]  BY <1>2, <1>3 DEF ThreadsFit
  <2>3. PICK g \in Pieces : seg' = [seg EXCEPT ![t] = g]  BY <2>2
  <2>4. PICK p \in Places, l \in Nat :
           p = "idle" /\ pc' = [pc EXCEPT ![t] = p] /\ left' = [left EXCEPT ![t] = l]
    BY <1>1 DEF Places
  <2>5. Fits(p, l, g)'  BY <2>4 DEF Fits, Sending
  <2>6. pc' = [pc EXCEPT ![t] = p] /\ left' = [left EXCEPT ![t] = l]  BY <2>4
  <2> QED  BY <1>2, <2>1, <2>3, <2>5, <2>6, ThreadStepFits
<1>6. WaitersWait'
  <2>1. waiters \in Seq(Threads) /\ \A j, k \in DOMAIN waiters : waiters[j] = waiters[k] => j = k
    BY <1>2 DEF WaitersWait
  <2> DEFINE r == SubSeq(waiters, i + 1, Len(waiters)) \o SubSeq(waiters, 1, i - 1)
  <2>2. /\ r \in Seq(Threads)
        /\ \A j \in DOMAIN r : \E k \in DOMAIN waiters : k # i /\ r[j] = waiters[k]
        /\ \A j, k \in DOMAIN r : r[j] = r[k] => j = k
    BY <2>1, RotateOut
  <2>3. pc \in [Threads -> Places] /\ \A j \in DOMAIN waiters : waiters[j] \in Threads
    BY <1>2, <2>1, LenProperties, ElementOfSeq DEF ThreadsFit
  <2>4. waiters' = r  BY <1>1
  <2> HIDE DEF r
  <2>5. \A j \in DOMAIN waiters : j # i => waiters[j] # t /\ pc[waiters[j]] = "blocked"
    BY <1>1, <1>2 DEF WaitersWait
  <2>6. \A j \in DOMAIN r : pc'[r[j]] = "blocked"  BY <1>1, <2>2, <2>3, <2>5
  <2> QED  BY <2>2, <2>4, <2>6 DEF WaitersWait
<1> QED  BY <1>4, <1>5, <1>6 DEF IInv


\* A step of the socket that keeps the connection and puts new segments into the network.
LEMMA LiveStep ==
    ASSUME IInv, Connected, Connected', SocketTypes', UNCHANGED <<acks, peer>>,
           NEW new, segs' \subseteq segs \cup new, new \subseteq Messages, \A m \in new : Known(m)',
           Limit' \in Nat, Limit <= Limit',
           state # "ESTABLISHED" => state' # "ESTABLISHED" /\ DataEnd' = DataEnd,
           StatesAgree', QueueOk(queue, out, DataEnd)', ProbeKnown', DataEnd' - out' <= Got',
           TimerRunsWhenNeeded'
    PROVE  SocketTypes' /\ NetTypes' /\ (Connected' => Live') /\ (~Connected' => queue' = <<>>)
<1>1. segs' \subseteq Messages /\ SegsKnown'  BY SegsStay
<1>2. AcksKnown' /\ PeerKnown'  BY PeerStays
<1>3. NetTypes'  BY <1>1 DEF IInv, NetTypes
<1> QED  BY <1>1, <1>2, <1>3 DEF Live

\* A stretch of bytes written by one thread.
LEMMA BytesAre ==
    ASSUME NEW n \in Nat, NEW t \in Threads
    PROVE  [k \in 1..n |-> t] \in Seq(Threads) /\ Len([k \in 1..n |-> t]) = n
<1> DEFINE b == [k \in 1..n |-> t]
<1>1. b \in [1..n -> Threads]  OBVIOUS
<1>2. b \in Seq(Threads)  BY <1>1, IsASeq
<1>3. DOMAIN b = 1..n  OBVIOUS
<1> HIDE DEF b
<1>4. Len(b) = n  BY <1>2, <1>3, LenProperties
<1> QED  BY <1>2, <1>4 DEF b

\* The segment is queued and sent: the list, the stream and the numbers grow by it.
LEMMA CommitSends ==
    ASSUME IInv, state = "ESTABLISHED", NEW n \in Nat, n # 0,
           NEW b \in Seq(Threads), Len(b) = n,
           NEW p \in Packets, p.seq = txSeq, p.len = n,
           NEW m \in Messages, m.seq = txSeq, m.data = b, ~m.fin,
           UNCHANGED <<state, adv, advMax, finAcked, acks, peer>>,
           txSeq' = txSeq + n, stream' = stream \o b, probe' = NoProbe, queue' = Append(queue, p),
           out' = (IF queue = <<>> THEN n ELSE out + n),
           timer' = TRUE \/ (queue # <<>> /\ timer' = timer), retries' \in Nat,
           segs' \subseteq segs \cup {m}
    PROVE  SocketTypes' /\ NetTypes' /\ (Connected' => Live') /\ (~Connected' => queue' = <<>>)
<1>2. Connected /\ Connected'  BY DEF Connected
<1>3. /\ SocketTypes /\ txSeq \in Nat /\ out \in Nat /\ retries \in Nat /\ timer \in BOOLEAN
      /\ stream \in Seq(Threads) /\ queue \in Seq(Packets)
  BY DEF IInv, SocketTypes
<1>5. FinSent = 0 /\ FinSent' = 0 /\ DataEnd = txSeq /\ DataEnd' = txSeq + n  BY <1>3 DEF FinSent, DataEnd
<1>9. queue' \in Seq(Packets) /\ queue' # <<>>  BY <1>3, AppendProperties
<1>10. stream' \in Seq(Threads) /\ Len(stream') = Len(stream) + n
  <2>1. stream \o b \in Seq(Threads) /\ Len(stream \o b) = Len(stream) + Len(b)  BY <1>3, ConcatProperties
  <2> QED  BY <2>1
<1>11. /\ Limit \in Nat /\ Limit <= DataEnd + 1 /\ QueueOk(queue, out, DataEnd) /\ Live
       /\ DataEnd - out <= Got /\ (queue # <<>> => timer) /\ Got \in Nat /\ (queue = <<>> => out = 0)
  BY <1>2, NumbersAre DEF Live, TimerRunsWhenNeeded, QueueOk
<1>12. out' \in Nat /\ timer'  BY <1>3, <1>11
<1>13. QueueOk(queue, out, DataEnd)'
  <2>1. QueueOk(Append(queue, p), IF queue = <<>> THEN p.len ELSE out + p.len, DataEnd + p.len)
    BY <1>3, <1>5, <1>11, QueueAppend
  <2>2. Append(queue, p) = queue' /\ (IF queue = <<>> THEN p.len ELSE out + p.len) = out' /\ DataEnd + p.len = DataEnd'
    BY <1>5
  <2> QED  BY <2>1, <2>2 DEF QueueOk
<1>14. Limit' = txSeq + n  BY <1>3, <1>5, <1>9 DEF Limit
<1>15. Limit' \in Nat /\ Limit <= Limit'  BY <1>3, <1>5, <1>11, <1>14
<1>16. NoProbe \in Probes /\ ~NoProbe.on
  <2>1. <<>> \in Seq(Threads)  BY EmptySeq
  <2> QED  BY <2>1 DEF NoProbe, Probes
<1>17. SocketTypes'
  <2>1. txSeq' \in Nat /\ (timer' = TRUE \/ timer' = timer) /\ TRUE \in BOOLEAN  BY <1>3
  <2>2. probe' \in Probes  BY <1>16
  <2> QED  BY <1>3, <1>9, <1>10, <1>12, <2>1, <2>2 DEF SocketTypes
<1>18. StatesAgree'
  <2>1. DataEnd' \in Nat /\ Len(stream') = DataEnd'  BY <1>3, <1>5, <1>10, <1>11 DEF Live, StatesAgree
  <2>2. ~finAcked  BY <1>11 DEF Live, StatesAgree
  <2> QED  BY <2>1, <2>2 DEF StatesAgree
<1>19. Known(m)'
  <2>1. m.seq + Len(m.data) <= Limit'  BY <1>3, <1>14
  <2> QED  BY <2>1 DEF Known
<1>20. ProbeKnown'  BY <1>16 DEF ProbeKnown
<1>21. DataEnd' - out' <= Got'
  <2>1. Got' = Got  BY DEF Got
  <2>2. DataEnd' - out' = DataEnd - out  BY <1>3, <1>5, <1>11
  <2> QED  BY <1>11, <2>1, <2>2
<1>23. TimerRunsWhenNeeded'  BY <1>12 DEF TimerRunsWhenNeeded
<1> DEFINE new == {m}
<1>24. new \subseteq Messages /\ segs' \subseteq segs \cup new /\ \A x \in new : Known(x)'  BY <1>19
<1>25. state # "ESTABLISHED" => state' # "ESTABLISHED" /\ DataEnd' = DataEnd  OBVIOUS
<1>26. UNCHANGED <<acks, peer>>  OBVIOUS
<1> HIDE DEF new
<1> QED  BY <1>2, <1>13, <1>15, <1>17, <1>18, <1>20, <1>21, <1>23, <1>24, <1>25, <1>26, LiveStep

\* The mutex is held again after the checksum.
LEMMA CommitStep ==
    ASSUME IInv, NEW t \in Threads, Commit(t)
    PROVE  IInv'
<1> DEFINE n == seg[t].len
           more == left[t] - n
<1>1. pc[t] = "built"  BY DEF Commit
<1>2. /\ left[t] \in Nat /\ seg[t] \in Pieces /\ Fits(pc[t], left[t], seg[t]) /\ n \in Nat
      /\ left = [left EXCEPT ![t] = left[t]] /\ txSeq \in Nat
  BY ThreadIs
<1>3. left[t] # 0 /\ n # 0 /\ n <= left[t]  BY <1>1, <1>2 DEF Fits, Sending
<1>4. UNCHANGED <<adv, advMax, finAcked, acks, peer>>  BY DEF Commit, windowVars
<1>5. CASE /\ pc' = [pc EXCEPT ![t] = "loop"]
           /\ seg' = [seg EXCEPT ![t] = NoSegment]
           /\ UNCHANGED <<state, txSeq, out, queue, probe, timer, retries, stream, waiters, left, segs>>
  <2> DEFINE l == left[t]
  <2>1. "loop" \in Places /\ NoSegment \in Pieces /\ left' = [left EXCEPT ![t] = l] /\ l \in Nat /\ l # 0
    BY <1>2, <1>3, <1>5 DEF Places, Pieces, NoSegment
  <2> HIDE DEF l
  <2>2. Fits("loop", l, NoSegment)  BY <2>1 DEF Fits
  <2>3. /\ UNCHANGED <<state, txSeq, out, adv, advMax, queue, probe, timer, retries, finAcked, waiters,
                       stream, segs, acks, peer>>
        /\ pc[t] # "blocked" /\ pc' = [pc EXCEPT ![t] = "loop"] /\ seg' = [seg EXCEPT ![t] = NoSegment]
    BY <1>1, <1>4, <1>5
  <2> QED  BY <2>1, <2>2, <2>3, MoveStep
<1>6. CASE /\ Return(t)
           /\ UNCHANGED <<state, txSeq, out, queue, probe, timer, retries, stream, segs>>
  BY <1>1, <1>4, <1>6, ReturnStep
<1>7. CASE /\ state = "ESTABLISHED"
           /\ txSeq' = txSeq + n
           /\ stream' = stream \o [k \in 1..n |-> t]
           /\ probe' = NoProbe
           /\ queue' = Append(queue, [seq |-> txSeq, len |-> n, done |-> FALSE])
           /\ IF queue = <<>> THEN out' = n /\ timer' = TRUE /\ retries' = 0
                              ELSE out' = out + n /\ UNCHANGED <<timer, retries>>
           /\ segs' \in Put(segs, {[seq |-> txSeq, data |-> [k \in 1..n |-> t], fin |-> FALSE]}, MaxSegs)
           /\ left' = [left EXCEPT ![t] = more]
           /\ pc' = [pc EXCEPT ![t] = IF more = 0 THEN "idle" ELSE "loop"]
           /\ seg' = [seg EXCEPT ![t] = NoSegment]
           /\ UNCHANGED <<state, waiters>>
  <2>1. SocketTypes' /\ NetTypes' /\ (Connected' => Live') /\ (~Connected' => queue' = <<>>)
    <3> HIDE DEF n
    <3>1. PICK b \in Seq(Threads) : b = [k \in 1..n |-> t] /\ Len(b) = n  BY <1>2, BytesAre
    <3>2. PICK p \in Packets : p = [seq |-> txSeq, len |-> n, done |-> FALSE]  BY <1>2, <1>3 DEF Packets
    <3>3. PICK m \in Messages : m = [seq |-> txSeq, data |-> b, fin |-> FALSE]  BY <1>2 DEF Messages
    <3>4. /\ p.seq = txSeq /\ p.len = n /\ queue' = Append(queue, p)
          /\ m.seq = txSeq /\ m.data = b /\ ~m.fin /\ stream' = stream \o b
      BY <1>7, <3>1, <3>2, <3>3
    <3>5. segs' \subseteq segs \cup {m}  BY <1>7, <3>1, <3>3, PutNet
    <3>6. retries \in Nat  BY DEF IInv, SocketTypes
    <3>7. /\ out' = (IF queue = <<>> THEN n ELSE out + n) /\ retries' \in Nat
          /\ timer' = TRUE \/ (queue # <<>> /\ timer' = timer)
      BY <1>7, <3>6
    <3>8. /\ state = "ESTABLISHED" /\ txSeq' = txSeq + n /\ probe' = NoProbe
          /\ UNCHANGED <<state, adv, advMax, finAcked, acks, peer>> /\ Len(b) = n /\ n # 0
      BY <1>3, <1>4, <1>7, <3>1
    <3> QED  BY <1>2, <3>4, <3>5, <3>7, <3>8, CommitSends
  <2>2. ThreadsFit /\ WaitersWait  BY DEF IInv
  <2>3. {txSeq, txSeq'} \subseteq Nat /\ txSeq <= txSeq'  BY <1>2, <1>7
  <2>4. more \in Nat /\ NoSegment \in Pieces  BY <1>2, <1>3 DEF Pieces, NoSegment
  <2>5. PICK l \in Nat, p \in Places :
           /\ p = "idle" \/ (p = "loop" /\ l # 0)
           /\ left' = [left EXCEPT ![t] = l] /\ pc' = [pc EXCEPT ![t] = p]
    <3>1. "idle" \in Places /\ "loop" \in Places  BY DEF Places
    <3> HIDE DEF more
    <3> QED  BY <1>7, <2>4, <3>1
  <2>6. Fits(p, l, NoSegment)'  BY <2>5 DEF Fits, Sending
  <2>7. ThreadsFit'
    <3>1. PICK g \in Pieces : g = NoSegment  BY <2>4
    <3>2. seg' = [seg EXCEPT ![t] = g] /\ left' = [left EXCEPT ![t] = l] /\ pc' = [pc EXCEPT ![t] = p]
      BY <1>7, <2>5, <3>1
    <3>3. Fits(p, l, g)'  BY <2>6, <3>1
    <3> QED  BY <2>2, <2>3, <3>2, <3>3, ThreadStepFits
  <2>8. WaitersWait'
    <3>1. pc' = [pc EXCEPT ![t] = p] /\ pc[t] # "blocked" /\ waiters' = waiters  BY <1>1, <1>7, <2>5
    <3> QED  BY <2>2, <3>1, WaitersStep
  <2> QED  BY <2>1, <2>7, <2>8 DEF IInv
<1> QED  BY <1>5, <1>6, <1>7 DEF Commit

-----------------------------------------------------------------------------
(* The driver, the end of the connection and the timer *)

\* A step of the socket that touches no thread.
LEMMA SocketStep ==
    ASSUME IInv, UNCHANGED <<waiters, pc, left, seg>>, txSeq' = txSeq,
           SocketTypes' /\ NetTypes' /\ (Connected' => Live') /\ (~Connected' => queue' = <<>>)
    PROVE  IInv'
<1>1. ThreadsFit /\ WaitersWait /\ txSeq \in Nat  BY DEF IInv, SocketTypes
<1>2. ThreadsFit'
  <2>1. {txSeq, txSeq'} \subseteq Nat /\ txSeq <= txSeq'  BY <1>1
  <2> QED  BY <1>1, <2>1, ThreadsRest
<1>3. WaitersWait'  BY <1>1 DEF WaitersWait
<1> QED  BY <1>2, <1>3 DEF IInv

\* A packet of the list.
LEMMA PacketIs ==
    ASSUME IInv, NEW i \in DOMAIN queue
    PROVE  /\ queue[i] \in Packets /\ queue[i].seq \in Nat /\ queue[i].len \in Nat
           /\ Connected /\ queue # <<>>
           /\ queue[i].seq + queue[i].len <= DataEnd /\ DataEnd - out < queue[i].seq + queue[i].len
<1>1. queue \in Seq(Packets) /\ out \in Nat  BY DEF IInv, SocketTypes
<1>2. DOMAIN queue = 1..Len(queue) /\ Len(queue) \in Nat /\ \A j \in DOMAIN queue : queue[j] \in Packets
  BY <1>1, LenProperties, ElementOfSeq
<1>3. \A j \in DOMAIN queue : queue[j].seq \in Nat /\ queue[j].len \in Nat  BY <1>2 DEF Packets
<1>4. queue # <<>> /\ 1 \in DOMAIN queue  BY <1>1, <1>2, EmptySeq
<1>5. Connected  BY <1>4 DEF IInv
<1>6. QueueOk(queue, out, DataEnd) /\ DataEnd \in Nat  BY <1>5, NumbersAre
<1>7. queue[i].seq + queue[i].len <= DataEnd  BY <1>6 DEF QueueOk
<1>8. DataEnd - out < queue[1].seq + queue[1].len  BY <1>4, <1>6 DEF QueueOk
<1>9. 1 = i \/ queue[1].seq + queue[1].len <= queue[i].seq
  <2>1. 1 = i \/ 1 < i  BY <1>2
  <2> QED  BY <1>4, <1>6, <2>1 DEF QueueOk
<1>10. queue[i].seq <= queue[i].seq + queue[i].len  BY <1>3
<1>11. DataEnd - out < queue[i].seq + queue[i].len  BY <1>1, <1>3, <1>4, <1>6, <1>8, <1>9, <1>10
<1> QED  BY <1>2, <1>3, <1>4, <1>5, <1>7, <1>11

\* A step that marks packets of the list and sends some of the data again; a
\* probe that was armed is dropped, or left.
LEMMA MarkStep ==
    ASSUME IInv, queue # <<>>, queue' \in Seq(Packets), Len(queue') = Len(queue),
           \A i \in DOMAIN queue : queue'[i].seq = queue[i].seq /\ queue'[i].len = queue[i].len,
           UNCHANGED <<state, txSeq, out, adv, advMax, timer, finAcked, waiters, pc, left, seg, stream,
                       acks, peer>>,
           probe' = probe \/ probe' = NoProbe, retries' \in Nat,
           NEW new, segs' \subseteq segs \cup new, new \subseteq Messages,
           \A m \in new : m.seq + Len(m.data) <= DataEnd /\ ~m.fin
    PROVE  IInv'
<1>1. Connected /\ Connected'  BY DEF IInv, Connected
<1>2. /\ DataEnd \in Nat /\ QueueOk(queue, out, DataEnd) /\ Live /\ SocketTypes
      /\ queue \in Seq(Packets) /\ probe \in Probes
  BY <1>1, NumbersAre DEF IInv, SocketTypes
<1>3. FinSent' = FinSent /\ DataEnd' = DataEnd  BY DEF FinSent, DataEnd
<1>4. queue' # <<>>  BY <1>2, EmptySeq
<1>5. Limit = DataEnd /\ Limit' = DataEnd  BY <1>2, <1>3, <1>4 DEF Limit
<1>6. QueueOk(queue, out, DataEnd)'
  <2>1. QueueOk(queue', out, DataEnd)  BY <1>2, QueueMarked
  <2> QED  BY <1>3, <2>1 DEF QueueOk
<1>7. NoProbe \in Probes /\ ~NoProbe.on
  <2>1. <<>> \in Seq(Threads)  BY EmptySeq
  <2> QED  BY <2>1 DEF NoProbe, Probes
<1>8. SocketTypes'
  <2>1. probe' \in Probes  BY <1>2, <1>7
  <2> QED  BY <1>2, <2>1 DEF SocketTypes
<1>9. StatesAgree'
  <2>1. ~finAcked  BY <1>2 DEF Live, StatesAgree
  <2> QED  BY <1>2, <1>3, <2>1 DEF Live, StatesAgree
<1>10. ProbeKnown'  BY <1>2, <1>7 DEF Live, ProbeKnown
<1>11. DataEnd' - out' <= Got'  BY <1>2, <1>3 DEF Live, Got
<1>12. TimerRunsWhenNeeded'  BY <1>1, <1>2 DEF Live, TimerRunsWhenNeeded
<1>13. \A m \in new : Known(m)'  BY <1>5 DEF Known
<1>14. Limit' \in Nat /\ Limit <= Limit' /\ UNCHANGED <<acks, peer>>  BY <1>2, <1>5
<1>15. state # "ESTABLISHED" => state' # "ESTABLISHED" /\ DataEnd' = DataEnd  BY <1>3
<1>16. SocketTypes' /\ NetTypes' /\ (Connected' => Live') /\ (~Connected' => queue' = <<>>)
  BY <1>1, <1>6, <1>8, <1>9, <1>10, <1>11, <1>12, <1>13, <1>14, <1>15, LiveStep
<1>17. UNCHANGED <<waiters, pc, left, seg>> /\ txSeq' = txSeq  OBVIOUS
<1> QED  BY <1>16, <1>17, SocketStep

\* The driver has transmitted a packet.
LEMMA DriverDoneStep ==
    ASSUME IInv, NEW i \in 1..QueueMax, DriverDone(i)
    PROVE  IInv'
<1>1. i \in DOMAIN queue /\ queue' = [queue EXCEPT ![i].done = TRUE]  BY DEF DriverDone
<1>2. /\ queue \in Seq(Packets) /\ retries \in Nat
  BY DEF IInv, SocketTypes
<1>3. \A j \in DOMAIN queue : queue[j] \in Packets  BY <1>2, LenProperties, ElementOfSeq
<1>4. DOMAIN queue' = DOMAIN queue /\ \A j \in DOMAIN queue : j # i => queue'[j] = queue[j]  BY <1>1
<1>5. queue'[i] = [queue[i] EXCEPT !.done = TRUE]  BY <1>1
<1>6. queue'[i] \in Packets /\ queue'[i].seq = queue[i].seq /\ queue'[i].len = queue[i].len
  BY <1>1, <1>3, <1>5 DEF Packets
<1>7. queue' \in Seq(Packets) /\ Len(queue') = Len(queue)
  <2>1. DOMAIN queue = 1..Len(queue) /\ Len(queue) \in Nat  BY <1>2, LenProperties
  <2>2. queue' = [j \in 1..Len(queue) |-> queue'[j]]  BY <1>1, <2>1
  <2>3. \A j \in 1..Len(queue) : queue'[j] \in Packets  BY <1>3, <1>4, <1>6, <2>1
  <2>4. queue' \in [1..Len(queue) -> Packets]  BY <2>2, <2>3
  <2>5. queue' \in Seq(Packets)  BY <2>1, <2>4, IsASeq
  <2> QED  BY <1>4, <2>1, <2>5, LenProperties
<1>8. \A j \in DOMAIN queue : queue'[j].seq = queue[j].seq /\ queue'[j].len = queue[j].len  BY <1>4, <1>6
<1>9. queue # <<>>  BY <1>1, PacketIs
<1>10. UNCHANGED <<state, txSeq, out, adv, advMax, timer, finAcked, waiters, pc, left, seg, stream,
                   acks, peer>> /\ retries' \in Nat /\ probe' = probe
  BY <1>2 DEF DriverDone, windowVars, threadVars, netVars
<1> DEFINE new == {}
<1>11. /\ segs' \subseteq segs \cup new /\ new \subseteq Messages
       /\ \A m \in new : m.seq + Len(m.data) <= DataEnd /\ ~m.fin
  BY DEF DriverDone, netVars
<1> HIDE DEF new
<1> QED  BY <1>7, <1>8, <1>9, <1>10, <1>11, MarkStep

\* The connection is given up, and with it all that waits.
LEMMA ShutStep ==
    ASSUME IInv, NEW closer, Shut(closer)
    PROVE  IInv'
<1>1. SocketTypes /\ ThreadsFit /\ NetTypes  BY DEF IInv
<1>2. <<>> \in Seq(Threads) /\ <<>> \in Seq(Packets) /\ DOMAIN <<>> = {}  BY EmptySeq
<1>3. SocketTypes'
  <2>1. NoProbe \in Probes  BY <1>2 DEF NoProbe, Probes
  <2>2. state' \in States /\ timer' \in BOOLEAN  BY DEF Shut, States
  <2> QED  BY <1>1, <1>2, <2>1, <2>2 DEF Shut, SocketTypes, windowVars
<1>4. NetTypes'  BY <1>1 DEF Shut, NetTypes
<1>5. ThreadsFit'
  <2>1. pc \in [Threads -> Places] /\ left \in [Threads -> Nat] /\ seg \in [Threads -> Pieces]  BY <1>1 DEF ThreadsFit
  <2>2. /\ pc' = [t \in Threads |-> IF pc[t] = "blocked" \/ t \in closer THEN "idle" ELSE pc[t]]
        /\ left' = [t \in Threads |-> IF pc[t] = "blocked" THEN 0 ELSE left[t]]
        /\ seg' = seg /\ txSeq' = txSeq
    BY DEF Shut
  <2>3. "idle" \in Places /\ 0 \in Nat  BY DEF Places
  <2>4. pc' \in [Threads -> Places] /\ left' \in [Threads -> Nat] /\ seg' \in [Threads -> Pieces]
    BY <2>1, <2>2, <2>3
  <2>5. ASSUME NEW u \in Threads PROVE Fits(pc[u], left[u], seg[u])'
    <3>1. CASE pc[u] = "blocked" \/ u \in closer
      <4>1. pc'[u] = "idle"  BY <2>2, <3>1
      <4> QED  BY <4>1 DEF Fits, Sending
    <3>2. CASE ~(pc[u] = "blocked" \/ u \in closer)
      <4>1. pc'[u] = pc[u] /\ left'[u] = left[u] /\ seg'[u] = seg[u]  BY <2>2, <3>2
      <4>2. Fits(pc[u], left[u], seg[u])  BY <1>1 DEF ThreadsFit
      <4> QED  BY <2>2, <4>1, <4>2 DEF Fits
    <3> QED  BY <3>1, <3>2
  <2> QED  BY <2>4, <2>5 DEF ThreadsFit
<1>6. WaitersWait'  BY <1>2 DEF Shut, WaitersWait
<1>7. ~Connected' /\ queue' = <<>>  BY DEF Shut, Connected
<1> QED  BY <1>3, <1>4, <1>5, <1>6, <1>7 DEF IInv

\* nx_tcp_socket_disconnect sends the FIN: it comes after the data.
LEMMA DisconnectStep ==
    ASSUME IInv, NEW t \in Threads, Disconnect(t)
    PROVE  IInv'
<1>1. /\ pc[t] = "idle" /\ state = "ESTABLISHED" /\ state' = "FIN_WAIT_1"
      /\ txSeq' = txSeq + 1
      /\ timer' = TRUE \/ (queue # <<>> /\ timer' = timer)
      /\ retries' \in {retries, 0}
      /\ segs' \in Put(segs, {Fin(txSeq)}, MaxSegs)
      /\ pc' = [pc EXCEPT ![t] = "closing"]
      /\ UNCHANGED <<out, adv, advMax, queue, probe, finAcked, waiters, left, seg, stream, acks, peer>>
  BY DEF Disconnect, windowVars
<1>2. Connected /\ Connected'  BY <1>1 DEF Connected
<1>3. /\ SocketTypes /\ txSeq \in Nat /\ retries \in Nat /\ timer \in BOOLEAN /\ ThreadsFit /\ WaitersWait
  BY DEF IInv, SocketTypes
<1>4. /\ DataEnd \in Nat /\ QueueOk(queue, out, DataEnd) /\ Live /\ Limit \in Nat /\ FinSent = 0
      /\ DataEnd = txSeq - FinSent
  BY <1>1, <1>2, NumbersAre
<1>5. FinSent' = 1  BY <1>1 DEF FinSent
<1>6. DataEnd' = txSeq /\ DataEnd = txSeq  BY <1>1, <1>3, <1>4, <1>5 DEF DataEnd
<1>7. Limit' = Limit  BY <1>1, <1>6 DEF Limit
<1>8. QueueOk(queue, out, DataEnd)'  BY <1>1, <1>4, <1>6 DEF QueueOk
<1>9. SocketTypes'
  <2>1. txSeq' \in Nat /\ retries' \in Nat  BY <1>1, <1>3
  <2>2. state' \in States  BY <1>1 DEF States
  <2>3. timer' \in BOOLEAN  BY <1>1, <1>3, Zenon
  <2> QED  BY <1>1, <1>3, <2>1, <2>2, <2>3 DEF SocketTypes
<1>10. StatesAgree'
  <2>1. ~finAcked /\ DataEnd' \in Nat /\ Len(stream) = DataEnd  BY <1>1, <1>4, <1>6 DEF Live, StatesAgree
  <2> QED  BY <1>1, <1>6, <2>1 DEF StatesAgree
<1>11. ProbeKnown'
  <2>1. probe.seq \in Nat /\ ProbeKnown  BY <1>3, <1>4 DEF Live, SocketTypes, Probes
  <2> QED  BY <1>1, <1>3, <2>1 DEF ProbeKnown
<1>12. DataEnd' - out' <= Got'
  <2>1. Got' = Got  BY <1>1 DEF Got
  <2> QED  BY <1>1, <1>4, <1>6, <2>1 DEF Live
<1>13. TimerRunsWhenNeeded'
  <2>1. timer'  BY <1>1, <1>2, <1>4 DEF Live, TimerRunsWhenNeeded
  <2> QED  BY <2>1 DEF TimerRunsWhenNeeded
<1>14. PICK m \in Messages : m = Fin(txSeq)
  <2>1. <<>> \in Seq(Threads)  BY EmptySeq
  <2> QED  BY <1>3, <2>1 DEF Fin, Messages
<1>15. m.seq = txSeq /\ m.data = <<>> /\ m.fin  BY <1>14 DEF Fin
<1>16. Known(m)'
  <2>1. Len(<<>>) = 0 /\ DataEnd <= Limit  BY <1>4, EmptySeq DEF Limit
  <2> QED  BY <1>1, <1>3, <1>6, <1>7, <1>15, <2>1 DEF Known
<1> DEFINE new == {m}
<1>17. segs' \subseteq segs \cup new /\ new \subseteq Messages /\ \A x \in new : Known(x)'
  BY <1>1, <1>14, <1>16, PutNet
<1> HIDE DEF new
<1>18. Limit' \in Nat /\ Limit <= Limit' /\ UNCHANGED <<acks, peer>>
       /\ (state # "ESTABLISHED" => state' # "ESTABLISHED" /\ DataEnd' = DataEnd)
  BY <1>1, <1>4, <1>7
<1>19. SocketTypes' /\ NetTypes' /\ (Connected' => Live') /\ (~Connected' => queue' = <<>>)
  BY <1>2, <1>8, <1>9, <1>10, <1>11, <1>12, <1>13, <1>17, <1>18, LiveStep
<1>20. ThreadsFit'
  <2>1. {txSeq, txSeq'} \subseteq Nat /\ txSeq <= txSeq'  BY <1>1, <1>3
  <2>2. PICK p \in Places : p = "closing"  BY DEF Places
  <2>3. left[t] \in Nat /\ seg[t] \in Pieces /\ left' = [left EXCEPT ![t] = left[t]]
        /\ seg' = [seg EXCEPT ![t] = seg[t]]
    BY <1>1, <1>3 DEF ThreadsFit
  <2>4. PICK l \in Nat, g \in Pieces : left' = [left EXCEPT ![t] = l] /\ seg' = [seg EXCEPT ![t] = g]
    BY <2>3
  <2>5. Fits(p, l, g)'  BY <2>2 DEF Fits, Sending
  <2>6. pc' = [pc EXCEPT ![t] = p]  BY <1>1, <2>2
  <2> QED  BY <1>3, <2>1, <2>4, <2>5, <2>6, ThreadStepFits
<1>21. WaitersWait'
  <2>1. pc[t] # "blocked" /\ waiters' = waiters  BY <1>1
  <2> QED  BY <1>1, <1>3, <2>1, WaitersStep
<1> QED  BY <1>19, <1>20, <1>21 DEF IInv

\* The first byte not acknowledged, while there is data or a FIN to acknowledge.
LEMMA UnackedIs ==
    ASSUME IInv, Connected
    PROVE  /\ Unacked \in Nat
           /\ state # "FIN_WAIT_2" => Unacked = DataEnd - out
           /\ state = "FIN_WAIT_2" => queue = <<>> /\ out = 0 /\ Unacked = DataEnd + 1
           /\ queue # <<>> => state # "FIN_WAIT_2"
<1>1. /\ txSeq \in Nat /\ out \in Nat /\ DataEnd \in Nat /\ DataEnd = txSeq - FinSent
      /\ FinSent \in {0, 1} /\ (FinSent = 0 <=> state = "ESTABLISHED")
      /\ FinPending = (state = "FIN_WAIT_1") /\ DataEnd - out \in Nat /\ Live
      /\ QueueOk(queue, out, DataEnd)
  BY NumbersAre
<1>2. state \in {"ESTABLISHED", "FIN_WAIT_1", "FIN_WAIT_2"}  BY DEF IInv, SocketTypes, States, Connected
<1>3. state = "FIN_WAIT_2" => queue = <<>> /\ out = 0  BY <1>1 DEF Live, StatesAgree, QueueOk
<1>4. CASE state = "ESTABLISHED"
  <2>1. ~FinPending /\ FinSent = 0  BY <1>1, <1>4
  <2>2. Unacked = txSeq - out - 0  BY <2>1 DEF Unacked
  <2> QED  BY <1>1, <1>4, <2>1, <2>2
<1>5. CASE state = "FIN_WAIT_1"
  <2>1. FinPending /\ FinSent = 1  BY <1>1, <1>5
  <2>2. Unacked = txSeq - out - 1  BY <2>1 DEF Unacked
  <2> QED  BY <1>1, <1>5, <2>1, <2>2
<1>6. CASE state = "FIN_WAIT_2"
  <2>1. ~FinPending /\ FinSent = 1  BY <1>1, <1>6
  <2>2. Unacked = txSeq - out - 0  BY <2>1 DEF Unacked
  <2> QED  BY <1>1, <1>3, <1>6, <2>1, <2>2
<1> QED  BY <1>2, <1>4, <1>5, <1>6

\* Counters stay counters.
LEMMA MoreIs == ASSUME NEW c \in Nat PROVE More(c) \in Nat
BY DEF More

\* The probe: one byte, the first the peer lacks or the one a sender armed.
LEMMA TimerProbesStep ==
    ASSUME IInv, TimerProbes
    PROVE  IInv'
<1> DEFINE old == IF probe.on THEN probe.failure ELSE 0
           at == IF queue # <<>> THEN Unacked ELSE probe.seq
           byte == IF queue # <<>> THEN <<stream[Unacked + 1]>> ELSE probe.data
<1>1. /\ queue # <<>> \/ (state = "ESTABLISHED" /\ probe.on)
      /\ probe' = [on |-> TRUE, seq |-> at, data |-> byte, failure |-> More(old)]
      /\ segs' \in Put(segs, {[seq |-> at, data |-> byte, fin |-> FALSE]}, MaxSegs)
      /\ retries' = More(retries)
      /\ UNCHANGED <<state, txSeq, out, adv, advMax, queue, timer, finAcked, waiters, pc, left, seg,
                     stream, acks, peer>>
  BY DEF TimerProbes, windowVars, threadVars
<1>2. Connected /\ Connected'  BY <1>1 DEF IInv, Connected
<1>3. /\ SocketTypes /\ txSeq \in Nat /\ retries \in Nat /\ probe \in Probes /\ stream \in Seq(Threads)
      /\ queue \in Seq(Packets) /\ out \in Nat
  BY DEF IInv, SocketTypes
<1>4. probe.failure \in Nat /\ probe.seq \in Nat /\ probe.data \in Seq(Threads)  BY <1>3 DEF Probes
<1>5. /\ DataEnd \in Nat /\ QueueOk(queue, out, DataEnd) /\ Live /\ Limit \in Nat
      /\ DataEnd = txSeq - FinSent /\ FinSent \in {0, 1} /\ (FinSent = 0 <=> state = "ESTABLISHED")
  BY <1>2, NumbersAre
<1>6. More(old) \in Nat /\ retries' \in Nat
  <2>1. old \in Nat  BY <1>4
  <2> HIDE DEF old
  <2> QED  BY <1>1, <1>3, <2>1, MoreIs
<1>7. /\ at \in Nat /\ byte \in Seq(Threads) /\ Len(byte) = 1 /\ at <= txSeq
      /\ at + 1 <= DataEnd + (IF queue = <<>> THEN 1 ELSE 0)
  <2>1. CASE queue # <<>>
    <3>1. 1 \in DOMAIN queue
      <4>1. Len(queue) # 0 /\ DOMAIN queue = 1..Len(queue) /\ Len(queue) \in Nat
        BY <1>3, <2>1, EmptySeq, LenProperties
      <4> QED  BY <4>1
    <3>2. /\ queue[1].seq + queue[1].len <= DataEnd /\ DataEnd - out < queue[1].seq + queue[1].len
          /\ queue[1].seq \in Nat /\ queue[1].len \in Nat
      BY <3>1, PacketIs
    <3>3. Unacked = DataEnd - out /\ Unacked \in Nat  BY <1>2, <2>1, UnackedIs
    <3>4. Unacked < DataEnd  BY <1>3, <1>5, <3>2, <3>3
    <3>5. stream[Unacked + 1] \in Threads
      <4>1. Len(stream) = DataEnd  BY <1>5 DEF Live, StatesAgree
      <4>2. Unacked + 1 \in 1..Len(stream)  BY <1>5, <3>3, <3>4, <4>1
      <4> QED  BY <1>3, <4>2, ElementOfSeq
    <3>6. <<stream[Unacked + 1]>> \in Seq(Threads) /\ Len(<<stream[Unacked + 1]>>) = 1  BY <3>5
    <3>7. at = Unacked /\ byte = <<stream[Unacked + 1]>>  BY <2>1
    <3> HIDE DEF at, byte
    <3> QED  BY <1>3, <1>5, <2>1, <3>3, <3>4, <3>6, <3>7
  <2>2. CASE queue = <<>>
    <3>1. state = "ESTABLISHED" /\ probe.on  BY <1>1, <2>2
    <3>2. probe.seq <= txSeq /\ Len(probe.data) = 1  BY <1>5, <3>1 DEF Live, ProbeKnown
    <3>3. DataEnd = txSeq  BY <1>3, <1>5, <3>1
    <3>4. at = probe.seq /\ byte = probe.data  BY <2>2
    <3> HIDE DEF at, byte
    <3> QED  BY <1>3, <1>4, <2>2, <3>2, <3>3, <3>4
  <2> QED  BY <2>1, <2>2
<1> HIDE DEF old, at, byte
<1>8. PICK r \in Probes : r = [on |-> TRUE, seq |-> at, data |-> byte, failure |-> More(old)]
  BY <1>6, <1>7 DEF Probes
<1>9. probe' = r /\ r.on /\ r.seq = at /\ r.data = byte  BY <1>1, <1>8
<1>10. PICK m \in Messages : m = [seq |-> at, data |-> byte, fin |-> FALSE]  BY <1>7 DEF Messages
<1>11. segs' \subseteq segs \cup {m} /\ m.seq = at /\ m.data = byte /\ ~m.fin  BY <1>1, <1>10, PutNet
<1>12. FinSent' = FinSent /\ DataEnd' = DataEnd  BY <1>1 DEF FinSent, DataEnd
<1>13. Limit' = DataEnd + (IF queue = <<>> THEN 1 ELSE 0) /\ Limit <= Limit' /\ Limit' \in Nat
  BY <1>1, <1>5, <1>9, <1>12 DEF Limit
<1>14. SocketTypes'  BY <1>1, <1>3, <1>6, <1>8, <1>9 DEF SocketTypes
<1>15. StatesAgree'  BY <1>1, <1>5, <1>12 DEF Live, StatesAgree
<1>16. QueueOk(queue, out, DataEnd)'  BY <1>1, <1>5, <1>12 DEF QueueOk
<1>17. ProbeKnown'  BY <1>1, <1>7, <1>9 DEF ProbeKnown
<1>18. DataEnd' - out' <= Got'  BY <1>1, <1>5, <1>12 DEF Live, Got
<1>19. TimerRunsWhenNeeded'  BY <1>1, <1>2, <1>5 DEF Live, TimerRunsWhenNeeded, FinPending
<1>20. Known(m)'  BY <1>7, <1>11, <1>13 DEF Known
<1> DEFINE new == {m}
<1>21. segs' \subseteq segs \cup new /\ new \subseteq Messages /\ \A x \in new : Known(x)'  BY <1>11, <1>20
<1> HIDE DEF new
<1>22. UNCHANGED <<acks, peer>> /\ (state # "ESTABLISHED" => state' # "ESTABLISHED" /\ DataEnd' = DataEnd)
  BY <1>1, <1>12
<1>23. SocketTypes' /\ NetTypes' /\ (Connected' => Live') /\ (~Connected' => queue' = <<>>)
  BY <1>2, <1>13, <1>14, <1>15, <1>16, <1>17, <1>18, <1>19, <1>21, <1>22, LiveStep
<1>24. UNCHANGED <<waiters, pc, left, seg>> /\ txSeq' = txSeq  BY <1>1
<1> QED  BY <1>23, <1>24, SocketStep

\* A segment sent again has the bytes of the stream at its place.
LEMMA DataIs ==
    ASSUME stream \in Seq(Threads), NEW s \in Nat, NEW n \in Nat, s + n <= Len(stream)
    PROVE  Data(s, n) \in Messages /\ Data(s, n).seq = s /\ Len(Data(s, n).data) = n /\ ~Data(s, n).fin
<1> DEFINE b == SubSeq(stream, s + 1, s + n)
<1>1. Len(stream) \in Nat /\ \A i \in 1..Len(stream) : stream[i] \in Threads  BY LenProperties, ElementOfSeq
<1>2. b \in Seq(Threads) /\ Len(b) = n
  <2>1. (s + 1)..(s + n) \subseteq 1..Len(stream)  BY <1>1
  <2>2. s + 1 \in Int /\ s + n \in Int /\ \A i \in (s + 1)..(s + n) : stream[i] \in Threads  BY <1>1, <2>1
  <2>3. b \in Seq(Threads) /\ Len(b) = IF s + 1 <= s + n THEN (s + n) - (s + 1) + 1 ELSE 0
    BY <2>2, SubSeqProperties
  <2> HIDE DEF b
  <2> QED  BY <2>3
<1>3. Data(s, n) = [seq |-> s, data |-> b, fin |-> FALSE]  BY DEF Data
<1> HIDE DEF b
<1> QED  BY <1>2, <1>3 DEF Messages

\* What a timeout sends again is data that has a sequence number.
LEMMA TimerResendsStep ==
    ASSUME IInv, TimerResends
    PROVE  IInv'
<1> DEFINE from(i) == IF queue[i].seq < Unacked THEN Unacked ELSE queue[i].seq
           new == {Data(from(i), queue[i].seq + queue[i].len - from(i)) : i \in Resendable}
<1>1. /\ queue # <<>> /\ probe' = NoProbe /\ retries' = More(retries)
      /\ queue' = [i \in DOMAIN queue |->
                      IF i \in Resendable /\ queue[i].seq >= Unacked
                        THEN [queue[i] EXCEPT !.done = FALSE] ELSE queue[i]]
      /\ segs' \in Put(segs, new, MaxSegs)
      /\ UNCHANGED <<state, txSeq, out, adv, advMax, timer, finAcked, waiters, pc, left, seg, stream,
                     acks, peer>>
  BY DEF TimerResends, windowVars, threadVars
<1>2. /\ queue \in Seq(Packets) /\ stream \in Seq(Threads) /\ retries \in Nat
  BY DEF IInv, SocketTypes
<1>3. Connected  BY <1>1 DEF IInv
<1>4. /\ DataEnd \in Nat /\ Len(stream) = DataEnd /\ Unacked = DataEnd - out /\ Unacked \in Nat
  BY <1>1, <1>3, NumbersAre, UnackedIs DEF Live, StatesAgree
<1>5. queue' \in Seq(Packets) /\ Len(queue') = Len(queue)
      /\ \A i \in DOMAIN queue : queue'[i].seq = queue[i].seq /\ queue'[i].len = queue[i].len
  <2>1. DOMAIN queue = 1..Len(queue) /\ Len(queue) \in Nat  BY <1>2, LenProperties
  <2>2. ASSUME NEW i \in DOMAIN queue
        PROVE  queue'[i] \in Packets /\ queue'[i].seq = queue[i].seq /\ queue'[i].len = queue[i].len
    <3>1. queue[i] \in Packets  BY PacketIs
    <3>2. queue'[i] = queue[i] \/ queue'[i] = [queue[i] EXCEPT !.done = FALSE]  BY <1>1
    <3> QED  BY <3>1, <3>2 DEF Packets
  <2>3. DOMAIN queue' = DOMAIN queue /\ queue' = [i \in DOMAIN queue |-> queue'[i]]  BY <1>1
  <2>4. queue' \in [1..Len(queue) -> Packets]  BY <2>1, <2>2, <2>3
  <2>5. queue' \in Seq(Packets)  BY <2>1, <2>4, IsASeq
  <2> QED  BY <2>1, <2>2, <2>3, <2>5, LenProperties
<1>6. ASSUME NEW i \in Resendable
      PROVE  LET m == Data(from(i), queue[i].seq + queue[i].len - from(i))
             IN  m \in Messages /\ m.seq + Len(m.data) <= DataEnd /\ ~m.fin
  <2> DEFINE f == from(i)
             n == queue[i].seq + queue[i].len - f
  <2>1. i \in DOMAIN queue  BY DEF Resendable
  <2>2. /\ queue[i].seq \in Nat /\ queue[i].len \in Nat
        /\ queue[i].seq + queue[i].len <= DataEnd /\ DataEnd - out < queue[i].seq + queue[i].len
    BY <2>1, PacketIs
  <2>3. f \in Nat /\ f <= queue[i].seq + queue[i].len  BY <1>4, <2>2
  <2> HIDE DEF f
  <2>4. n \in Nat /\ f + n <= Len(stream)  BY <1>4, <2>2, <2>3
  <2> HIDE DEF n
  <2>5. Data(f, n) \in Messages /\ Data(f, n).seq = f /\ Len(Data(f, n).data) = n /\ ~Data(f, n).fin
    BY <1>2, <2>3, <2>4, DataIs
  <2>6. Data(f, n).seq + Len(Data(f, n).data) <= DataEnd  BY <1>4, <2>4, <2>5
  <2> QED  BY <2>5, <2>6 DEF f, n
<1>7. segs' \subseteq segs \cup new  BY <1>1, PutNet
<1>8. new \subseteq Messages /\ \A m \in new : m.seq + Len(m.data) <= DataEnd /\ ~m.fin  BY <1>6
<1>9. retries' \in Nat  BY <1>1, <1>2, MoreIs
<1> HIDE DEF new
<1>10. /\ queue # <<>> /\ probe' = NoProbe
       /\ UNCHANGED <<state, txSeq, out, adv, advMax, timer, finAcked, waiters, pc, left, seg, stream,
                      acks, peer>>
  BY <1>1
<1> QED  BY <1>5, <1>7, <1>8, <1>9, <1>10, MarkStep

\* The FIN is sent again from the place it had.
LEMMA TimerResendsFinStep ==
    ASSUME IInv, TimerResendsFin
    PROVE  IInv'
<1>1. /\ state = "FIN_WAIT_1" /\ retries' = More(retries)
      /\ segs' \in Put(segs, {Fin(txSeq - 1)}, MaxSegs)
      /\ UNCHANGED <<state, txSeq, out, adv, advMax, queue, probe, timer, finAcked, waiters, pc, left, seg,
                     stream, acks, peer>>
  BY DEF TimerResendsFin, windowVars, threadVars
<1>2. Connected /\ Connected'  BY <1>1 DEF Connected
<1>3. SocketTypes /\ txSeq \in Nat /\ retries \in Nat  BY DEF IInv, SocketTypes
<1>4. /\ DataEnd \in Nat /\ QueueOk(queue, out, DataEnd) /\ Live /\ Limit \in Nat /\ DataEnd <= Limit
      /\ DataEnd = txSeq - FinSent /\ FinSent \in {0, 1} /\ FinSent # 0
  BY <1>1, <1>2, NumbersAre
<1>5. DataEnd = txSeq - 1  BY <1>4
<1>6. FinSent' = FinSent /\ DataEnd' = DataEnd  BY <1>1 DEF FinSent, DataEnd
<1>7. Limit' = Limit  BY <1>1, <1>6 DEF Limit
<1>8. SocketTypes'
  <2>1. retries' \in Nat  BY <1>1, <1>3, MoreIs
  <2> QED  BY <1>1, <1>3, <2>1 DEF SocketTypes
<1>9. StatesAgree'  BY <1>1, <1>4, <1>6 DEF Live, StatesAgree
<1>10. QueueOk(queue, out, DataEnd)'  BY <1>1, <1>4, <1>6 DEF QueueOk
<1>11. ProbeKnown'  BY <1>1, <1>4 DEF Live, ProbeKnown
<1>12. DataEnd' - out' <= Got'  BY <1>1, <1>4, <1>6 DEF Live, Got
<1>13. TimerRunsWhenNeeded'  BY <1>1, <1>2, <1>4 DEF Live, TimerRunsWhenNeeded, FinPending
<1>14. PICK m \in Messages : m = Fin(txSeq - 1)
  <2>1. <<>> \in Seq(Threads)  BY EmptySeq
  <2>2. txSeq - 1 \in Nat  BY <1>4, <1>5
  <2> QED  BY <2>1, <2>2 DEF Fin, Messages
<1>15. Known(m)'
  <2>1. m.seq = DataEnd /\ m.data = <<>> /\ Len(<<>>) = 0  BY <1>5, <1>14, EmptySeq DEF Fin
  <2> QED  BY <1>1, <1>4, <1>6, <1>7, <2>1 DEF Known
<1> DEFINE new == {m}
<1>16. segs' \subseteq segs \cup new /\ new \subseteq Messages /\ \A x \in new : Known(x)'
  BY <1>1, <1>14, <1>15, PutNet
<1> HIDE DEF new
<1>17. Limit' \in Nat /\ Limit <= Limit' /\ UNCHANGED <<acks, peer>>
       /\ (state # "ESTABLISHED" => state' # "ESTABLISHED" /\ DataEnd' = DataEnd)
  BY <1>1, <1>4, <1>6, <1>7
<1>18. SocketTypes' /\ NetTypes' /\ (Connected' => Live') /\ (~Connected' => queue' = <<>>)
  BY <1>2, <1>8, <1>9, <1>10, <1>11, <1>12, <1>13, <1>16, <1>17, LiveStep
<1>19. UNCHANGED <<waiters, pc, left, seg>> /\ txSeq' = txSeq  BY <1>1
<1> QED  BY <1>18, <1>19, SocketStep

-----------------------------------------------------------------------------
(* The acknowledgement *)

\* An acknowledgement in the network is of what the peer has.
LEMMA AckIs ==
    ASSUME IInv, Connected, NEW m \in acks
    PROVE  /\ m.ack \in Nat /\ m.wnd \in Nat /\ m.ack <= Got + FinGot /\ FinGot \in {0, 1}
           /\ FinGot = 1 => peer.fin /\ state # "ESTABLISHED" /\ Got = DataEnd
           /\ Got <= Limit /\ DataEnd - out <= Got
           /\ m.ack + m.wnd <= peer.edge + FinGot
<1>1. Live /\ NetTypes  BY NumbersAre DEF IInv
<1>2. m.ack \in Nat /\ m.wnd \in Nat  BY <1>1 DEF NetTypes
<1>3. FinGot \in {0, 1} /\ (FinGot = 1 => peer.fin)  BY DEF FinGot
<1> QED  BY <1>1, <1>2, <1>3 DEF Live, AcksKnown, PeerKnown

\* packet_release_count and acked_bytes fit together: what remains outstanding
\* begins in the first packet that remains, and the peer has all before it.
LEMMA ReleasedIs ==
    ASSUME IInv, Connected, NEW m \in acks, m.ack <= Ending
    PROVE  /\ Released(m) \in 0..Len(queue) /\ Acked(m) \in Nat /\ out - Acked(m) \in Nat
           /\ Released(m) = Len(queue) => out - Acked(m) = 0
           /\ Released(m) # Len(queue) =>
                 /\ queue[Released(m) + 1].seq <= DataEnd - (out - Acked(m))
                 /\ DataEnd - (out - Acked(m)) < queue[Released(m) + 1].seq + queue[Released(m) + 1].len
           /\ DataEnd - (out - Acked(m)) <= Got
           /\ m.ack = Ending => Released(m) = Len(queue)
<1> DEFINE n == Len(queue)
           U == Unacked
           a == m.ack
           F == FinSent
           end(i) == queue[i].seq + queue[i].len
           S == {i \in DOMAIN queue : U <= a /\ end(i) <= a}
<1>1. /\ txSeq \in Nat /\ out \in Nat /\ DataEnd \in Nat /\ Limit \in Nat /\ Got \in Nat
      /\ DataEnd = txSeq - F /\ F \in {0, 1} /\ (F = 0 <=> state = "ESTABLISHED")
      /\ DataEnd <= Limit /\ Limit <= DataEnd + 1 /\ (Limit = DataEnd + 1 => queue = <<>>)
      /\ queue \in Seq(Packets) /\ QueueOk(queue, out, DataEnd) /\ DataEnd - out \in Nat
  BY NumbersAre
<1>2. /\ a \in Nat /\ a <= Got + FinGot /\ FinGot \in {0, 1} /\ Got <= Limit /\ DataEnd - out <= Got
      /\ (FinGot = 1 => state # "ESTABLISHED" /\ Got = DataEnd)
  BY AckIs
<1>3. U \in Nat /\ (queue # <<>> => U = DataEnd - out)  BY UnackedIs
<1>4. n \in Nat /\ DOMAIN queue = 1..n /\ (queue = <<>> <=> n = 0)  BY <1>1, LenProperties, EmptySeq
<1>5. Acked(m) = IF a <= U THEN 0 ELSE IF a - U < out THEN a - U ELSE out  BY DEF Acked
<1>6. Released(m) = IF a = Ending THEN n ELSE Cardinality(S)  BY DEF Released
<1>7. \A i \in 1..n : end(i) \in Nat /\ end(i) <= DataEnd /\ queue[i].seq \in Nat /\ queue[i].seq <= end(i)
  BY <1>4, PacketIs
<1>8. Acked(m) \in Nat /\ out - Acked(m) \in Nat
  BY <1>1, <1>2, <1>3, <1>5
<1>9. CASE queue = <<>>
  <2>1. n = 0 /\ out = 0  BY <1>1, <1>4, <1>9 DEF QueueOk
  <2>2. S = {}  BY <1>4, <2>1
  <2>3. Cardinality(S) = 0  BY <2>2, FS_EmptySet
  <2>4. Released(m) = 0  BY <1>6, <2>1, <2>3
  <2>5. out - Acked(m) = 0  BY <1>8, <2>1
  <2>6. DataEnd - (out - Acked(m)) <= Got  BY <1>1, <1>2, <2>1, <2>5
  <2>7. Released(m) = Len(queue) /\ Len(queue) = 0  BY <2>1, <2>4
  <2>8. Released(m) \in 0..Len(queue)  BY <2>7
  <2> QED  BY <1>8, <2>5, <2>6, <2>7, <2>8
<1>10. CASE queue # <<>>
  <2>1. n # 0 /\ U = DataEnd - out /\ Limit = DataEnd  BY <1>1, <1>3, <1>4, <1>10
  <2>2. /\ \A i, j \in 1..n : i < j => end(i) <= queue[j].seq
        /\ \A i \in 1..n : i + 1 \in 1..n => queue[i + 1].seq = end(i)
        /\ end(n) = DataEnd /\ queue[1].seq <= U /\ U < end(1)
    BY <1>1, <1>4, <1>10, <2>1 DEF QueueOk
  <2>3. a <= DataEnd + FinGot /\ FinGot <= F /\ a <= txSeq  BY <1>1, <1>2, <2>1
  <2>4. CASE a = Ending
    <3>1. a = txSeq  BY <1>1, <2>3, <2>4 DEF Ending
    <3>2. a = DataEnd + F /\ a - U >= out  BY <1>1, <2>1, <3>1
    <3>3. Acked(m) = out  BY <1>1, <1>2, <1>3, <1>5, <2>1, <3>2
    <3>4. DataEnd <= Got  BY <1>1, <1>2, <3>2
    <3>5. Released(m) = n  BY <1>6, <2>4
    <3> HIDE DEF n, a, F
    <3> QED  BY <1>1, <1>4, <1>8, <3>3, <3>4, <3>5 DEF n
  <2>5. CASE a # Ending
    <3>1. S \subseteq 1..n  BY <1>4
    <3>2. ASSUME NEW i \in S, NEW j \in 1..n, j < i PROVE j \in S
      <4>1. i \in 1..n /\ U <= a /\ end(i) <= a  BY <3>1
      <4>2. end(j) <= queue[i].seq  BY <2>2, <3>2, <4>1
      <4>3. end(j) <= a  BY <1>2, <1>7, <4>1, <4>2
      <4> QED  BY <1>4, <4>1, <4>3
    <3> HIDE DEF S, n, U, a, F
    <3>3. PICK k \in 0..n : S = 1..k /\ Cardinality(S) = k  BY <1>4, <3>1, <3>2, PrefixIs
    <3>4. Released(m) = k  BY <1>6, <2>5, <3>3
    <3>5. CASE a < U
      <4>1. S = {}  BY <1>2, <1>3, <3>5 DEF S
      <4>2. k = 0  BY <1>4, <3>3, <4>1
      <4>3. Acked(m) = 0  BY <1>2, <1>3, <1>5, <3>5
      <4>4. out - Acked(m) = out  BY <1>1, <4>3
      <4> QED  BY <1>1, <1>2, <1>4, <2>1, <2>2, <2>5, <3>4, <4>2, <4>3, <4>4 DEF n, a
    <3>6. CASE U <= a /\ a <= DataEnd
      <4>1. DataEnd - (out - Acked(m)) = a  BY <1>1, <1>2, <1>3, <1>5, <2>1, <3>6
      <4>2. a <= Got  BY <1>1, <1>2, <3>6
      <4>3. k = n => out - Acked(m) = 0
        <5>1. ASSUME k = n PROVE end(n) <= a
          <6>1. n \in S  BY <1>4, <2>1, <3>3, <5>1
          <6> QED  BY <6>1 DEF S
        <5> QED  BY <1>1, <1>2, <1>8, <2>2, <3>6, <4>1, <5>1
      <4>4. ASSUME k # n PROVE queue[k + 1].seq <= a /\ a < end(k + 1)
        <5>1. k + 1 \in 1..n /\ k + 1 \notin S  BY <1>4, <3>3, <4>4
        <5>2. a < end(k + 1)  BY <1>2, <1>4, <1>7, <3>6, <5>1 DEF S
        <5>3. CASE k = 0  BY <1>1, <1>2, <1>3, <1>7, <2>2, <3>6, <5>1, <5>2, <5>3
        <5>4. CASE k # 0
          <6>1. k \in S /\ k \in 1..n  BY <1>4, <3>3, <5>4
          <6>2. end(k) <= a  BY <6>1 DEF S
          <6> QED  BY <2>2, <5>1, <5>2, <6>1, <6>2
        <5> QED  BY <5>3, <5>4
      <4> QED  BY <1>8, <2>5, <3>3, <3>4, <4>1, <4>2, <4>3, <4>4 DEF n, a
    <3>7. CASE a > DataEnd
      <4>1. a = DataEnd + 1 /\ FinGot = 1 /\ Got = DataEnd  BY <1>1, <1>2, <2>3, <3>7
      <4>2. n \in S  BY <1>1, <1>2, <1>3, <1>4, <2>1, <2>2, <3>7 DEF S
      <4>3. k = n  BY <1>4, <3>3, <4>2
      <4>4. out - Acked(m) = 0  BY <1>1, <1>2, <1>3, <1>5, <2>1, <4>1
      <4> QED  BY <1>1, <1>4, <1>8, <2>5, <3>4, <4>1, <4>3, <4>4 DEF n, a
    <3> QED  BY <1>1, <1>2, <1>3, <3>5, <3>6, <3>7
  <2> QED  BY <2>4, <2>5
<1> QED  BY <1>9, <1>10

\* The FIN counts as acknowledged only by an acknowledgement the peer sent after it.
LEMMA FinIsAcked ==
    ASSUME IInv, Connected, NEW m \in acks, AcksFin(m)
    PROVE  peer.fin
<1>1. /\ txSeq \in Nat /\ DataEnd \in Nat /\ Limit \in Nat /\ Got \in Nat
      /\ DataEnd = txSeq - FinSent /\ FinSent \in {0, 1} /\ (FinSent = 0 <=> state = "ESTABLISHED")
      /\ DataEnd <= Limit /\ Limit <= DataEnd + 1 /\ (Limit = DataEnd + 1 => probe.on)
  BY NumbersAre
<1>2. /\ m.ack \in Nat /\ m.ack <= Got + FinGot /\ FinGot \in {0, 1} /\ Got <= Limit
      /\ (FinGot = 1 => peer.fin)
  BY AckIs
<1>3. m.ack = Ending /\ txSeq = DataEnd + 1  BY <1>1 DEF AcksFin
<1>4. CASE probe.on
  <2>1. Ending = txSeq + 1  BY <1>4 DEF Ending
  <2> QED  BY <1>1, <1>2, <1>3, <2>1
<1>5. CASE ~probe.on
  <2>1. Ending = txSeq  BY <1>5 DEF Ending
  <2> QED  BY <1>1, <1>2, <1>3, <1>5, <2>1
<1> QED  BY <1>4, <1>5

\* The first suspended sender is resumed.
LEMMA ResumeStep ==
    ASSUME IInv, UNCHANGED <<left, seg>>, txSeq' = txSeq,
           UNCHANGED <<waiters, pc>> \/
           (waiters # <<>> /\ waiters' = Tail(waiters) /\ pc' = [pc EXCEPT ![Head(waiters)] = "loop"])
    PROVE  ThreadsFit' /\ WaitersWait'
<1>1. ThreadsFit /\ WaitersWait /\ txSeq \in Nat  BY DEF IInv, SocketTypes
<1>2. {txSeq, txSeq'} \subseteq Nat /\ txSeq <= txSeq'  BY <1>1
<1>3. CASE UNCHANGED <<waiters, pc>>
  <2>1. UNCHANGED <<pc, left, seg>>  BY <1>3
  <2>2. ThreadsFit'  BY <1>1, <1>2, <2>1, ThreadsRest
  <2> QED  BY <1>1, <1>3, <2>2 DEF WaitersWait
<1>4. CASE waiters # <<>> /\ waiters' = Tail(waiters) /\ pc' = [pc EXCEPT ![Head(waiters)] = "loop"]
  <2>1. waiters \in Seq(Threads)  BY <1>1 DEF WaitersWait
  <2>2. /\ Tail(waiters) \in Seq(Threads) /\ Len(Tail(waiters)) = Len(waiters) - 1
        /\ \A i \in 1..Len(Tail(waiters)) : Tail(waiters)[i] = waiters[i + 1]
        /\ Head(waiters) \in Threads
    BY <1>4, <2>1, HeadTailProperties
  <2>3. DOMAIN waiters = 1..Len(waiters) /\ Len(waiters) \in Nat /\ Len(waiters) # 0
        /\ DOMAIN Tail(waiters) = 1..(Len(waiters) - 1)
    BY <1>4, <2>1, <2>2, LenProperties, EmptySeq
  <2>a. waiters # <<>>  BY <1>4
  <2>b. Head(waiters) = waiters[1]  BY <2>1, <2>a
  <2>4. PICK t \in Threads : t = Head(waiters)  BY <2>2
  <2>c. t = waiters[1]  BY <2>b, <2>4
  <2>5. pc[t] = "blocked"  BY <1>1, <2>3, <2>c DEF WaitersWait
  <2>6. ThreadsFit'
    <3>1. /\ pc \in [Threads -> Places] /\ left \in [Threads -> Nat] /\ seg \in [Threads -> Pieces]
          /\ Fits(pc[t], left[t], seg[t])
      BY <1>1 DEF ThreadsFit
    <3>2. PICK p \in Places : p = "loop"  BY DEF Places
    <3>3. left[t] \in Nat /\ left[t] # 0 /\ left' = [left EXCEPT ![t] = left[t]] /\ seg[t] \in Pieces
          /\ seg' = [seg EXCEPT ![t] = seg[t]]
      BY <2>5, <3>1 DEF Fits, Sending
    <3>4. PICK l \in Nat, g \in Pieces :
             l # 0 /\ left' = [left EXCEPT ![t] = l] /\ seg' = [seg EXCEPT ![t] = g]
      BY <3>3
    <3>5. Fits(p, l, g)'  BY <3>2, <3>4 DEF Fits
    <3>6. pc' = [pc EXCEPT ![t] = p]  BY <1>4, <2>4, <3>2
    <3> QED  BY <1>1, <1>2, <3>4, <3>5, <3>6, ThreadStepFits
  <2>7. WaitersWait'
    <3> DEFINE r == Tail(waiters)
    <3>1. /\ pc \in [Threads -> Places]
          /\ \A i \in DOMAIN waiters : pc[waiters[i]] = "blocked" /\ waiters[i] \in Threads
          /\ \A i, j \in DOMAIN waiters : waiters[i] = waiters[j] => i = j
      BY <1>1, <2>1, <2>3, ElementOfSeq DEF ThreadsFit, WaitersWait
    <3>2. \A i \in DOMAIN r : i \in Nat /\ i + 1 \in DOMAIN waiters /\ i + 1 # 1 /\ r[i] = waiters[i + 1]
      BY <2>2, <2>3
    <3>3. r \in Seq(Threads) /\ waiters' = r /\ pc' = [pc EXCEPT ![t] = "loop"]  BY <1>4, <2>2, <2>4
    <3> HIDE DEF r
    <3>4. \A i \in DOMAIN r : r[i] # t
      <4>1. 1 \in DOMAIN waiters  BY <2>3
      <4> QED  BY <2>c, <3>1, <3>2, <4>1
    <3>5. \A i \in DOMAIN r : pc'[r[i]] = "blocked"  BY <3>1, <3>2, <3>3, <3>4
    <3>6. \A i, j \in DOMAIN r : r[i] = r[j] => i = j
      <4>1. ASSUME NEW i \in DOMAIN r, NEW j \in DOMAIN r, r[i] = r[j] PROVE i = j
        <5>1. i + 1 = j + 1  BY <3>1, <3>2, <4>1
        <5> QED  BY <3>2, <5>1
      <4> QED  BY <4>1
    <3> QED  BY <3>3, <3>5, <3>6 DEF WaitersWait
  <2> QED  BY <2>6, <2>7
<1> QED  BY <1>3, <1>4

\* The ACK check leaves everything in order.
LEMMA AckCheckStep ==
    ASSUME IInv, Connected, NEW m \in acks, m.ack <= Ending, AckCheck(m), UNCHANGED netVars
    PROVE  IInv'
<1> DEFINE k == Released(m)
           w == out - Acked(m)
<1>1. /\ k \in 0..Len(queue) /\ Acked(m) \in Nat /\ w \in Nat
      /\ k = Len(queue) => w = 0
      /\ k # Len(queue) => queue[k + 1].seq <= DataEnd - w /\ DataEnd - w < queue[k + 1].seq + queue[k + 1].len
      /\ DataEnd - w <= Got
      /\ m.ack = Ending => k = Len(queue)
  BY ReleasedIs
<1>2. /\ finAcked' = (finAcked \/ AcksFin(m))
      /\ out' = w
      /\ queue' = SubSeq(queue, k + 1, Len(queue))
      /\ state' = IF state = "FIN_WAIT_1" /\ finAcked' THEN "FIN_WAIT_2" ELSE state
      /\ UNCHANGED <<txSeq, left, seg, stream, segs, acks, peer>>
  BY DEF AckCheck, netVars
<1> HIDE DEF k, w
<1>3. /\ SocketTypes /\ {out, adv, advMax, retries} \subseteq Nat /\ queue \in Seq(Packets) /\ probe \in Probes
      /\ timer \in BOOLEAN /\ finAcked \in BOOLEAN /\ state \in States
  BY DEF IInv, SocketTypes
<1>4. /\ DataEnd \in Nat /\ QueueOk(queue, out, DataEnd) /\ Live /\ StatesAgree /\ Limit \in Nat
      /\ (queue = <<>> => out = 0)
  BY NumbersAre DEF Live, QueueOk
<1>5. m.ack \in Nat /\ m.wnd \in Nat  BY AckIs
<1>6. queue' \in Seq(Packets) /\ QueueOk(queue', w, DataEnd) /\ (queue' = <<>> <=> k = Len(queue))
  BY <1>1, <1>2, <1>3, <1>4, QueueDropped
<1>7. queue = <<>> => queue' = <<>>
  <2>1. Len(queue) = 0 \/ queue # <<>>  BY <1>3, EmptySeq
  <2> QED  BY <1>1, <1>6, <2>1
<1>8. /\ state' # "CLOSED" /\ state' \in States /\ (state' = "ESTABLISHED" <=> state = "ESTABLISHED")
      /\ finAcked' \in BOOLEAN /\ (finAcked' <=> state' = "FIN_WAIT_2")
  <2>1. state \in {"ESTABLISHED", "FIN_WAIT_1", "FIN_WAIT_2"}  BY <1>3 DEF States, Connected
  <2>2. finAcked <=> state = "FIN_WAIT_2"  BY <1>4 DEF StatesAgree
  <2>3. finAcked' \in BOOLEAN  BY <1>2, Zenon
  <2>4. AcksFin(m) => state # "ESTABLISHED"  BY DEF AcksFin
  <2> QED  BY <1>2, <2>1, <2>2, <2>3, <2>4 DEF States
<1>9. FinSent' = FinSent /\ DataEnd' = DataEnd /\ Connected'
  <2>1. FinSent' = FinSent  BY <1>8 DEF FinSent
  <2> QED  BY <1>2, <1>8, <2>1 DEF DataEnd, Connected
<1>10. finAcked' => queue' = <<>> /\ peer.fin
  <2>1. CASE finAcked  BY <1>4, <1>7, <2>1 DEF StatesAgree
  <2>2. CASE AcksFin(m)
    <3>1. k = Len(queue)  BY <1>1, <2>2 DEF AcksFin
    <3> QED  BY <1>6, <2>2, <3>1, FinIsAcked
  <2> QED  BY <1>2, <2>1, <2>2
<1>11. /\ adv' \in Nat /\ advMax' \in Nat /\ retries' \in Nat /\ timer' \in BOOLEAN
       /\ probe' \in Probes /\ probe'.on = probe.on /\ probe'.seq = probe.seq /\ probe'.data = probe.data
  <2>1. adv' \in Nat /\ advMax' \in Nat  BY <1>3, <1>5 DEF AckCheck
  <2>2. retries' \in Nat  BY <1>3 DEF AckCheck, AckTimer
  <2>3. timer' \in BOOLEAN  BY DEF AckCheck, AckTimer
  <2>4. probe' = probe \/ probe' = [probe EXCEPT !.failure = 0]  BY DEF AckCheck
  <2> QED  BY <1>3, <2>1, <2>2, <2>3, <2>4 DEF Probes
<1>12. TimerRunsWhenNeeded'
  <2>1. SUFFICES ASSUME queue' # <<>> \/ (state' = "FIN_WAIT_1" /\ ~finAcked') PROVE timer'
    BY DEF TimerRunsWhenNeeded, FinPending
  <2>2. timer' = (/\ timer \/ (Acked(m) # 0 \/ (k # 0 /\ (~(k # 0 /\ k = Len(queue)) \/ state = "FIN_WAIT_1")))
                  /\ ~(k # 0 /\ k = Len(queue) /\ state # "FIN_WAIT_1" /\ adv' # 0)
                  /\ ~(state = "FIN_WAIT_1" /\ finAcked'))
    BY DEF AckCheck, AckTimer, k
  <2>3. CASE queue' # <<>>
    <3>1. queue # <<>> /\ k # Len(queue) /\ ~finAcked'  BY <1>6, <1>7, <1>10, <2>3
    <3>2. timer  BY <1>4, <3>1 DEF Live, TimerRunsWhenNeeded
    <3> QED  BY <2>2, <3>1, <3>2
  <2>4. CASE state' = "FIN_WAIT_1" /\ ~finAcked'
    <3>1. state = "FIN_WAIT_1" /\ ~finAcked  BY <1>2, <2>4
    <3>2. timer  BY <1>4, <3>1 DEF Live, TimerRunsWhenNeeded, FinPending
    <3> QED  BY <2>2, <2>4, <3>1, <3>2
  <2> QED  BY <2>1, <2>3, <2>4
<1>13. SocketTypes'
  <2>1. {txSeq', out', adv', advMax', retries'} \subseteq Nat /\ stream' \in Seq(Threads)
    BY <1>1, <1>2, <1>3, <1>11 DEF SocketTypes
  <2> QED  BY <1>6, <1>8, <1>11, <2>1 DEF SocketTypes
<1>14. StatesAgree'  BY <1>2, <1>4, <1>8, <1>9, <1>10 DEF StatesAgree
<1>15. QueueOk(queue, out, DataEnd)'  BY <1>2, <1>6, <1>9 DEF QueueOk
<1>16. ProbeKnown'  BY <1>2, <1>4, <1>11 DEF Live, ProbeKnown
<1>17. DataEnd' - out' <= Got'  BY <1>1, <1>2, <1>9 DEF Got
<1>18. Limit' \in Nat /\ Limit <= Limit'  BY <1>4, <1>7, <1>9, <1>11 DEF Limit
<1> DEFINE new == {}
<1>19. segs' \subseteq segs \cup new /\ new \subseteq Messages /\ \A x \in new : Known(x)'  BY <1>2
<1> HIDE DEF new
<1>20. UNCHANGED <<acks, peer>> /\ (state # "ESTABLISHED" => state' # "ESTABLISHED" /\ DataEnd' = DataEnd)
  BY <1>2, <1>8, <1>9
<1>21. SocketTypes' /\ NetTypes' /\ (Connected' => Live') /\ (~Connected' => queue' = <<>>)
  BY <1>9, <1>12, <1>13, <1>14, <1>15, <1>16, <1>17, <1>18, <1>19, <1>20, LiveStep
<1>22. ThreadsFit' /\ WaitersWait'
  <2>1. UNCHANGED <<waiters, pc>> \/
        (waiters # <<>> /\ waiters' = Tail(waiters) /\ pc' = [pc EXCEPT ![Head(waiters)] = "loop"])
    BY DEF AckCheck, TransmitCheck
  <2>2. UNCHANGED <<left, seg>> /\ txSeq' = txSeq  BY <1>2
  <2> QED  BY <2>1, <2>2, ResumeStep
<1> QED  BY <1>21, <1>22 DEF IInv

-----------------------------------------------------------------------------
(* The peer and the network *)

\* A step of the peer: the socket does not move, the peer has more, or opens its
\* window, and acknowledges what it has.
LEMMA PeerStep ==
    ASSUME IInv, Connected,
           UNCHANGED <<state, txSeq, out, adv, advMax, queue, probe, timer, retries, finAcked, waiters,
                       pc, left, seg, stream, segs>>,
           peer' \in Peers, NEW a \in [ack : Nat, wnd : Nat], acks' \subseteq acks \cup {a},
           Got <= Got', FinGot <= FinGot', peer.edge <= peer'.edge, PeerKnown',
           a.ack <= Got' + FinGot', a.ack + a.wnd <= peer'.edge + FinGot'
    PROVE  IInv'
<1>1. Live /\ SocketTypes /\ NetTypes /\ Got \in Nat /\ Limit \in Nat  BY NumbersAre DEF IInv
<1>2. FinSent' = FinSent /\ DataEnd' = DataEnd /\ Limit' = Limit  BY DEF FinSent, DataEnd, Limit
<1>3. Got' \in Nat /\ peer.edge \in Nat /\ peer'.edge \in Nat /\ FinGot \in Nat /\ FinGot' \in Nat
  <2>1. peer'.bytes \in Seq(Threads) /\ peer'.edge \in Nat /\ peer.edge \in Nat  BY <1>1 DEF NetTypes, Peers
  <2> QED  BY <2>1, LenProperties DEF Got, FinGot
<1>4. SocketTypes' /\ NetTypes'  BY <1>1 DEF SocketTypes, NetTypes
<1>5. AcksKnown'
  <2>1. ASSUME NEW m \in acks' PROVE m.ack <= Got' + FinGot' /\ m.ack + m.wnd <= peer'.edge + FinGot'
    <3>1. CASE m \in acks
      <4>1. m.ack \in Nat /\ m.wnd \in Nat /\ m.ack <= Got + FinGot /\ m.ack + m.wnd <= peer.edge + FinGot
        BY <1>1, <3>1 DEF Live, AcksKnown, NetTypes
      <4> QED  BY <1>1, <1>3, <4>1
    <3>2. CASE m = a  BY <3>2
    <3> QED  BY <3>1, <3>2
  <2> QED  BY <2>1 DEF AcksKnown
<1>6. SegsKnown'  BY <1>1, <1>2 DEF Live, SegsKnown, Known
<1>7. StatesAgree'
  <2>1. peer.fin => peer'.fin
    <3>1. peer.fin \in BOOLEAN /\ peer'.fin \in BOOLEAN  BY <1>1 DEF NetTypes, Peers
    <3> QED  BY <3>1 DEF FinGot
  <2> QED  BY <1>1, <1>2, <2>1 DEF Live, StatesAgree
<1>8. QueueOk(queue, out, DataEnd)'  BY <1>1, <1>2 DEF Live, QueueOk
<1>9. ProbeKnown'  BY <1>1 DEF Live, ProbeKnown
<1>10. DataEnd' - out' <= Got'
  <2>1. DataEnd - out \in Nat /\ DataEnd - out <= Got  BY <1>1, NumbersAre DEF Live
  <2> QED  BY <1>1, <1>2, <1>3, <2>1
<1>11. TimerRunsWhenNeeded'  BY <1>1 DEF Live, TimerRunsWhenNeeded, Connected, FinPending
<1>12. SocketTypes' /\ NetTypes' /\ (Connected' => Live') /\ (~Connected' => queue' = <<>>)
  BY <1>4, <1>5, <1>6, <1>7, <1>8, <1>9, <1>10, <1>11 DEF Live, Connected
<1>13. UNCHANGED <<waiters, pc, left, seg>> /\ txSeq' = txSeq  OBVIOUS
<1> QED  BY <1>12, <1>13, SocketStep

\* What the peer has of a segment: the bytes in order and inside its window.
LEMMA TakesIs ==
    ASSUME IInv, Connected, NEW m \in segs
    PROVE  LET p == PeerTakes(m)
           IN  /\ p \in Peers /\ p.edge = peer.edge
               /\ Got <= Len(p.bytes) /\ Len(p.bytes) <= Limit /\ Len(p.bytes) <= p.edge
               /\ (peer.fin => p.fin)
               /\ p.fin => state # "ESTABLISHED" /\ Len(p.bytes) = DataEnd
<1> DEFINE p == PeerTakes(m)
           n == Len(m.data)
           g == Got
           last == IF peer.edge < m.seq + n THEN peer.edge ELSE m.seq + n
           b == SubSeq(m.data, g - m.seq + 1, last - m.seq)
           f == m.fin /\ m.seq = g
<1>1. /\ peer \in Peers /\ m \in Messages /\ Known(m) /\ PeerKnown /\ DataEnd \in Nat /\ Limit \in Nat
      /\ g \in Nat /\ peer.edge \in Nat /\ DataEnd <= Limit
  BY NumbersAre DEF IInv, NetTypes, Live, SegsKnown
<1>2. /\ m.seq \in Nat /\ m.data \in Seq(Threads) /\ m.fin \in BOOLEAN /\ n \in Nat
      /\ peer.bytes \in Seq(Threads) /\ peer.fin \in BOOLEAN /\ g = Len(peer.bytes)
      /\ \A i \in 1..n : m.data[i] \in Threads
  <2>1. m.seq \in Nat /\ m.data \in Seq(Threads) /\ m.fin \in BOOLEAN
        /\ peer.bytes \in Seq(Threads) /\ peer.fin \in BOOLEAN
    BY <1>1 DEF Messages, Peers
  <2> QED  BY <2>1, LenProperties, ElementOfSeq DEF Got
<1>3. /\ g <= Limit /\ g <= peer.edge /\ (peer.fin => state # "ESTABLISHED" /\ g = DataEnd)
      /\ m.seq + n <= Limit /\ (m.fin => state # "ESTABLISHED" /\ m.data = <<>> /\ m.seq = DataEnd)
  BY <1>1 DEF PeerKnown, Known
<1>4. CASE peer.fin \/ m.seq > g
  <2>1. p = peer  BY <1>4 DEF PeerTakes
  <2> QED  BY <1>1, <1>2, <1>3, <2>1
<1>5. CASE ~(peer.fin \/ m.seq > g)
  <2>1. p = [peer EXCEPT !.bytes = peer.bytes \o b, !.fin = f]  BY <1>5 DEF PeerTakes
  <2>2. b \in Seq(Threads) /\ (Len(b) = 0 \/ Len(b) = last - g) /\ (g < last => Len(b) = last - g) /\ last \in Nat
        /\ last <= peer.edge /\ last <= m.seq + n /\ Len(b) \in Nat
    <3>1. last \in Nat /\ last <= peer.edge /\ last <= m.seq + n  BY <1>1, <1>2
    <3> HIDE DEF last, g, n
    <3>2. (g - m.seq + 1)..(last - m.seq) \subseteq 1..n  BY <1>1, <1>2, <1>5, <3>1
    <3>3. g - m.seq + 1 \in Int /\ last - m.seq \in Int  BY <1>1, <1>2, <3>1
    <3>4. \A i \in (g - m.seq + 1)..(last - m.seq) : m.data[i] \in Threads  BY <1>2, <3>2
    <3>5. b \in Seq(Threads) /\ Len(b) = IF g - m.seq + 1 <= last - m.seq
                                           THEN (last - m.seq) - (g - m.seq + 1) + 1 ELSE 0
      BY <3>3, <3>4, SubSeqProperties
    <3>6. m.seq \in Nat /\ g \in Nat  BY <1>1, <1>2
    <3> HIDE DEF b, f, p
    <3>7. CASE g < last
      <4>1. g - m.seq + 1 <= last - m.seq /\ (last - m.seq) - (g - m.seq + 1) + 1 = last - g
        BY <3>1, <3>6, <3>7
      <4>2. Len(b) = last - g /\ last - g \in Nat  BY <3>1, <3>5, <3>6, <3>7, <4>1
      <4> QED  BY <3>1, <3>5, <4>2
    <3>8. CASE ~(g < last)
      <4>1. ~(g - m.seq + 1 <= last - m.seq)  BY <3>1, <3>6, <3>8
      <4>2. Len(b) = 0  BY <3>5, <4>1
      <4> QED  BY <3>1, <3>5, <3>8, <4>2
    <3> QED  BY <3>7, <3>8
  <2> HIDE DEF b
  <2>3. peer.bytes \o b \in Seq(Threads) /\ Len(peer.bytes \o b) = g + Len(b)  BY <1>2, <2>2, ConcatProperties
  <2> DEFINE c == peer.bytes \o b
  <2>4. f \in BOOLEAN  BY <1>2
  <2>5. f => state # "ESTABLISHED" /\ g = DataEnd /\ Len(b) = 0
    <3>1. SUFFICES ASSUME f PROVE state # "ESTABLISHED" /\ g = DataEnd /\ Len(b) = 0  OBVIOUS
    <3>2. n = 0  BY <1>3, <3>1, EmptySeq
    <3>3. last <= g  BY <1>1, <1>2, <2>2, <3>1, <3>2
    <3> HIDE DEF last
    <3> QED  BY <1>1, <1>3, <2>2, <3>1, <3>3
  <2> HIDE DEF c, f, p, last, n, g
  <2>6. p = [peer EXCEPT !.bytes = c, !.fin = f]  BY <2>1 DEF c
  <2>7. p \in Peers /\ p.edge = peer.edge /\ p.bytes = c /\ p.fin = f  BY <1>1, <2>3, <2>4, <2>6 DEF Peers, c
  <2>8. Len(c) = g + Len(b)  BY <2>3 DEF c
  <2>9. g <= Len(c) /\ Len(c) <= Limit /\ Len(c) <= peer.edge  BY <1>1, <1>2, <1>3, <2>2, <2>8
  <2>10. f => Len(c) = DataEnd  BY <1>1, <2>5, <2>8
  <2> QED  BY <1>5, <2>5, <2>7, <2>9, <2>10 DEF p, g
<1> QED  BY <1>4, <1>5

\* The peer receives a segment and acknowledges it.
LEMMA PeerReceivesStep ==
    ASSUME IInv, NEW m \in segs, PeerReceives(m)
    PROVE  IInv'
<1>1. Connected  BY DEF PeerReceives, Connected
<1>2. /\ PeerTakes(m) \in Peers /\ PeerTakes(m).edge = peer.edge
      /\ Got <= Len(PeerTakes(m).bytes) /\ Len(PeerTakes(m).bytes) <= Limit
      /\ Len(PeerTakes(m).bytes) <= PeerTakes(m).edge
      /\ (peer.fin => PeerTakes(m).fin)
      /\ PeerTakes(m).fin => state # "ESTABLISHED" /\ Len(PeerTakes(m).bytes) = DataEnd
  BY <1>1, TakesIs
<1>3. peer' = PeerTakes(m) /\ acks' \in Put(acks, {AckOf(peer')}, MaxAcks)  BY DEF PeerReceives
<1>4. /\ peer' \in Peers /\ peer'.edge = peer.edge /\ Got <= Got' /\ Got' <= Limit /\ Got' <= peer'.edge
      /\ (peer.fin => peer'.fin) /\ (peer'.fin => state # "ESTABLISHED" /\ Got' = DataEnd)
  BY <1>2, <1>3 DEF Got
<1>5. UNCHANGED <<state, txSeq, out, adv, advMax, queue, probe, timer, retries, finAcked, waiters,
                  pc, left, seg, stream, segs>>
  BY DEF PeerReceives, windowVars, threadVars
<1>6. Limit' = Limit /\ DataEnd' = DataEnd  BY <1>5 DEF Limit, DataEnd, FinSent
<1>7. Got' \in Nat /\ peer'.edge \in Nat /\ FinGot' \in {0, 1} /\ FinGot <= FinGot'
  <2>1. peer'.bytes \in Seq(Threads) /\ peer'.edge \in Nat /\ peer'.fin \in BOOLEAN  BY <1>4 DEF Peers
  <2>2. Got' \in Nat  BY <2>1, LenProperties DEF Got
  <2> QED  BY <1>4, <2>1, <2>2 DEF FinGot
<1>8. PeerKnown'  BY <1>4, <1>5, <1>6 DEF PeerKnown
<1> DEFINE x == Got'
           y == peer'.edge
           z == FinGot'
<1>a. x \in Nat /\ y \in Nat /\ z \in Nat /\ x <= y
  <2>1. x \in Nat /\ y \in Nat /\ z \in {0, 1}  BY <1>7
  <2>2. x <= y  BY <1>4
  <2>3. {0, 1} \subseteq Nat  OBVIOUS
  <2> QED  BY <2>1, <2>2, <2>3
<1>b. AckOf(peer') = [ack |-> x + z, wnd |-> y - x]  BY DEF AckOf, Got, FinGot
<1>c. y = peer'.edge /\ x = Got' /\ z = FinGot' /\ peer.edge = y  BY <1>4
<1> HIDE DEF x, y, z
<1>d. x + z \in Nat /\ y - x \in Nat  BY <1>a
<1>9. PICK a \in [ack : Nat, wnd : Nat] : a = AckOf(peer')  BY <1>b, <1>d
<1>10. a.ack = x + z /\ a.wnd = y - x  BY <1>b, <1>9
<1>e. a.ack <= x + z /\ a.ack + a.wnd <= y + z  BY <1>a, <1>10
<1>11. a.ack <= Got' + FinGot' /\ a.ack + a.wnd <= peer'.edge + FinGot' /\ peer.edge <= peer'.edge
  <2>1. y <= y  BY <1>a
  <2> QED  BY <1>c, <1>e, <2>1, Zenon
<1>12. acks' \subseteq acks \cup {a}  BY <1>3, <1>9, PutNet
<1> QED  BY <1>1, <1>4, <1>5, <1>7, <1>8, <1>11, <1>12, PeerStep

\* Its window opens.
LEMMA PeerOpensStep ==
    ASSUME IInv, PeerOpens
    PROVE  IInv'
<1>1. Connected  BY DEF PeerOpens, Connected
<1>2. PICK e \in (peer.edge + 1)..(Got + MaxWindow) :
         peer' = [peer EXCEPT !.edge = e] /\ acks' \in Put(acks, {AckOf(peer')}, MaxAcks)
  BY DEF PeerOpens
<1>3. peer \in Peers /\ PeerKnown /\ Got \in Nat /\ peer.edge \in Nat  BY <1>1, NumbersAre DEF IInv, NetTypes, Live
<1>4. MaxWindow \in Nat  BY SenderAssumption DEF SenderAssumption
<1>5. e \in Nat /\ peer.edge <= e  BY <1>3, <1>4
<1>6. peer' \in Peers /\ peer'.edge = e /\ peer'.bytes = peer.bytes /\ peer'.fin = peer.fin
  BY <1>2, <1>3, <1>5 DEF Peers
<1>7. UNCHANGED <<state, txSeq, out, adv, advMax, queue, probe, timer, retries, finAcked, waiters,
                  pc, left, seg, stream, segs>>
  BY DEF PeerOpens, windowVars, threadVars
<1>8. Limit' = Limit /\ DataEnd' = DataEnd /\ Got' = Got /\ FinGot' = FinGot /\ FinGot' \in {0, 1}
  BY <1>6, <1>7 DEF Limit, DataEnd, FinSent, Got, FinGot
<1>9. Got <= peer.edge /\ PeerKnown'  BY <1>3, <1>5, <1>6, <1>7, <1>8 DEF PeerKnown
<1>10. PICK a \in [ack : Nat, wnd : Nat] : a = AckOf(peer')
  <2>1. AckOf(peer') = [ack |-> Got' + FinGot', wnd |-> peer'.edge - Got']  BY DEF AckOf, Got, FinGot
  <2>2. Got' + FinGot' \in Nat /\ peer'.edge - Got' \in Nat  BY <1>3, <1>5, <1>6, <1>8, <1>9
  <2> QED  BY <2>1, <2>2
<1>11. a.ack = Got' + FinGot' /\ a.wnd = peer'.edge - Got'  BY <1>10 DEF AckOf, Got, FinGot
<1>12. a.ack <= Got' + FinGot' /\ a.ack + a.wnd <= peer'.edge + FinGot' /\ peer.edge <= peer'.edge
       /\ Got <= Got' /\ FinGot <= FinGot'
  BY <1>3, <1>5, <1>6, <1>8, <1>11
<1>13. acks' \subseteq acks \cup {a}  BY <1>2, <1>10, PutNet
<1> QED  BY <1>1, <1>6, <1>7, <1>9, <1>12, <1>13, PeerStep

\* A message is lost.
LEMMA NetworkLosesStep ==
    ASSUME IInv, NetworkLoses
    PROVE  IInv'
<1>1. /\ segs' \subseteq segs /\ acks' \subseteq acks
      /\ UNCHANGED <<state, txSeq, out, adv, advMax, queue, probe, timer, retries, finAcked, waiters,
                     pc, left, seg, stream, peer>>
  BY DEF NetworkLoses, windowVars, threadVars
<1>2. SocketTypes' /\ NetTypes'  BY <1>1 DEF IInv, SocketTypes, NetTypes
<1>3. ASSUME Connected PROVE Live'
  <2>1. Live  BY <1>3 DEF IInv
  <2>2. /\ FinSent' = FinSent /\ DataEnd' = DataEnd /\ Limit' = Limit /\ Got' = Got /\ FinGot' = FinGot
    BY <1>1 DEF FinSent, DataEnd, Limit, Got, FinGot
  <2>3. SegsKnown'  BY <1>1, <2>1, <2>2 DEF Live, SegsKnown, Known
  <2>4. AcksKnown'  BY <1>1, <2>1, <2>2 DEF Live, AcksKnown
  <2>5. PeerKnown' /\ ProbeKnown' /\ StatesAgree'
    BY <1>1, <2>1, <2>2 DEF Live, PeerKnown, ProbeKnown, StatesAgree
  <2>6. QueueOk(queue, out, DataEnd)' /\ DataEnd' - out' <= Got'  BY <1>1, <2>1, <2>2 DEF Live, QueueOk
  <2>7. TimerRunsWhenNeeded'  BY <1>1, <2>1 DEF Live, TimerRunsWhenNeeded, Connected, FinPending
  <2> QED  BY <2>3, <2>4, <2>5, <2>6, <2>7 DEF Live
<1>4. SocketTypes' /\ NetTypes' /\ (Connected' => Live') /\ (~Connected' => queue' = <<>>)
  BY <1>1, <1>2, <1>3 DEF Connected, IInv
<1>5. UNCHANGED <<waiters, pc, left, seg>> /\ txSeq' = txSeq  BY <1>1
<1> QED  BY <1>4, <1>5, SocketStep

-----------------------------------------------------------------------------
(* The invariant *)

\* The state in which the connection is established
LEMMA InitIInv == Init => IInv
<1>1. SUFFICES ASSUME Init PROVE IInv  OBVIOUS
<1>2. MaxWindow \in Nat  BY SenderAssumption DEF SenderAssumption
<1>3. <<>> \in Seq(Threads) /\ <<>> \in Seq(Packets) /\ Len(<<>>) = 0 /\ DOMAIN <<>> = {}  BY EmptySeq
<1>4. adv \in Nat  BY <1>1, <1>2 DEF Init
<1>5. SocketTypes
  <2>1. NoProbe \in Probes  BY <1>3 DEF NoProbe, Probes
  <2>2. {txSeq, out, adv, advMax, retries} \subseteq Nat /\ queue \in Seq(Packets) /\ stream \in Seq(Threads)
    BY <1>1, <1>3, <1>4 DEF Init
  <2>3. state \in States /\ timer \in BOOLEAN /\ finAcked \in BOOLEAN  BY <1>1 DEF Init, States
  <2>4. probe \in Probes  BY <1>1, <2>1 DEF Init
  <2> QED  BY <2>2, <2>3, <2>4 DEF SocketTypes
<1>6. NetTypes  BY <1>1, <1>3, <1>4 DEF Init, NetTypes, Peers
<1>7. ThreadsFit  BY <1>1 DEF Init, ThreadsFit, Fits, Places, Sending, Pieces, NoSegment
<1>8. WaitersWait  BY <1>1, <1>3 DEF Init, WaitersWait
<1>9. FinSent = 0 /\ DataEnd = 0 /\ Limit = 0 /\ Got = 0 /\ FinGot = 0
  <2>1. FinSent = 0 /\ Got = 0 /\ FinGot = 0  BY <1>1, <1>3 DEF Init, FinSent, Got, FinGot
  <2>2. DataEnd = 0  BY <1>1, <2>1 DEF Init, DataEnd
  <2>3. ~probe.on  BY <1>1 DEF Init, NoProbe
  <2> QED  BY <2>1, <2>2, <2>3 DEF Limit
<1>10. Live
  <2>1. StatesAgree  BY <1>1, <1>3, <1>9 DEF Init, StatesAgree
  <2>2. QueueOk(queue, out, DataEnd)  BY <1>1, <1>3 DEF Init, QueueOk
  <2>3. SegsKnown /\ AcksKnown  BY <1>1 DEF Init, SegsKnown, AcksKnown
  <2>4. ProbeKnown  BY <1>1 DEF Init, NoProbe, ProbeKnown
  <2>5. PeerKnown
    <3>1. ~peer.fin /\ peer.edge = adv  BY <1>1 DEF Init
    <3> QED  BY <1>4, <1>9, <3>1 DEF PeerKnown
  <2>6. DataEnd - out <= Got  BY <1>1, <1>9 DEF Init
  <2>7. TimerRunsWhenNeeded  BY <1>1 DEF Init, TimerRunsWhenNeeded, FinPending
  <2> QED  BY <2>1, <2>2, <2>3, <2>4, <2>5, <2>6, <2>7 DEF Live
<1>11. Connected  BY <1>1 DEF Init, Connected
<1> QED  BY <1>5, <1>6, <1>7, <1>8, <1>10, <1>11 DEF IInv

\* The calls of the application and what follows of them.
LEMMA ThreadStepKeeps ==
    ASSUME IInv, NEW t \in Threads, ThreadStep(t) \/ Closing(t)
    PROVE  IInv'
<1>1. CASE Send(t)
  <2>1. PICK n \in 1..MaxLen : LoopBody(t, n)  BY <1>1 DEF Send
  <2>2. MaxLen \in Nat  BY SenderAssumption DEF SenderAssumption
  <2>3. n \in Nat \ {0} /\ pc[t] \in {"idle", "loop", "alloc"}  BY <1>1, <2>2 DEF Send
  <2> QED  BY <2>1, <2>3, LoopBodyStep
<1>2. CASE SendAgain(t)
  <2>1. pc[t] = "loop" /\ LoopBody(t, left[t])  BY <1>2 DEF SendAgain
  <2>2. left[t] \in Nat /\ Fits(pc[t], left[t], seg[t])  BY ThreadIs
  <2>3. left[t] \in Nat \ {0} /\ pc[t] \in {"idle", "loop", "alloc"}  BY <2>1, <2>2 DEF Fits, Sending
  <2> QED  BY <2>1, <2>3, LoopBodyStep
<1>3. CASE Allocated(t)  BY <1>3, AllocatedStep
<1>4. CASE AllocateFails(t)  BY <1>4, AllocateFailsStep
<1>5. CASE Commit(t)  BY <1>5, CommitStep
<1>6. CASE WaitTimeout(t)  BY <1>6, WaitTimeoutStep
<1>7. CASE DisconnectNow(t)  BY <1>7, ShutStep DEF DisconnectNow
<1>8. CASE Disconnect(t)  BY <1>8, DisconnectStep
<1>9. CASE DisconnectEnds(t)  BY <1>9, ShutStep DEF DisconnectEnds
<1> QED  BY <1>1, <1>2, <1>3, <1>4, <1>5, <1>6, <1>7, <1>8, <1>9 DEF ThreadStep, Closing

\* An acknowledgement arrives.
LEMMA AckArrivesStep ==
    ASSUME IInv, NEW m \in acks, AckArrives(m)
    PROVE  IInv'
<1>1. Connected /\ UNCHANGED netVars  BY DEF AckArrives, Connected
<1>2. CASE m.ack > Ending
  <2>1. UNCHANGED <<state, txSeq, out, windowVars, queue, probe, timer, retries, finAcked,
                    threadVars, stream>>
    BY <1>2 DEF AckArrives
  <2>2. /\ UNCHANGED <<state, txSeq, out, adv, advMax, queue, probe, timer, retries, finAcked, stream,
                       segs, acks, peer>>
        /\ UNCHANGED <<waiters, pc, left, seg>>
    BY <1>1, <2>1 DEF windowVars, threadVars, netVars
  <2>3. {adv, advMax, retries} \subseteq Nat /\ probe \in Probes /\ timer \in BOOLEAN
    BY DEF IInv, SocketTypes
  <2>4. SocketTypes' /\ NetTypes' /\ (Connected' => Live') /\ (~Connected' => queue' = <<>>)
    BY <2>2, <2>3, QuietStep
  <2> QED  BY <2>2, <2>4, SocketStep
<1>3. CASE ~(m.ack > Ending)
  <2>1. m.ack <= Ending
    <3>1. m.ack \in Nat /\ txSeq \in Nat  BY <1>1, AckIs, NumbersAre
    <3> QED  BY <1>3, <3>1 DEF Ending
  <2> QED  BY <1>1, <1>3, <2>1, AckCheckStep DEF AckArrives
<1> QED  BY <1>2, <1>3

\* Every step of the socket, its threads, the peer or the network keeps IInv.
LEMMA NextIInv == IInv /\ [Next]_vars => IInv'
<1>1. SUFFICES ASSUME IInv, [Next]_vars PROVE IInv'  OBVIOUS
<1>2. ASSUME NEW t \in Threads, ThreadStep(t) \/ Closing(t) PROVE IInv'  BY <1>1, <1>2, ThreadStepKeeps
<1>3. ASSUME NEW i \in 1..QueueMax, DriverDone(i) PROVE IInv'  BY <1>1, <1>3, DriverDoneStep
<1>4. CASE TimerExpires
  <2>1. CASE TimerGivesUp  BY <1>1, <2>1, ShutStep DEF TimerGivesUp
  <2>2. CASE TimerProbes  BY <1>1, <2>2, TimerProbesStep
  <2>3. CASE TimerResends  BY <1>1, <2>3, TimerResendsStep
  <2>4. CASE TimerResendsFin  BY <1>1, <2>4, TimerResendsFinStep
  <2> QED  BY <1>4, <2>1, <2>2, <2>3, <2>4 DEF TimerExpires
<1>5. CASE PeerResets  BY <1>1, <1>5, ShutStep DEF PeerResets
<1>6. ASSUME NEW m \in segs, PeerReceives(m) PROVE IInv'  BY <1>1, <1>6, PeerReceivesStep
<1>7. ASSUME NEW m \in acks, AckArrives(m) PROVE IInv'  BY <1>1, <1>7, AckArrivesStep
<1>8. CASE PeerOpens  BY <1>1, <1>8, PeerOpensStep
<1>9. CASE NetworkLoses  BY <1>1, <1>9, NetworkLosesStep
<1>10. CASE UNCHANGED vars
  <2>1. /\ UNCHANGED <<state, txSeq, out, adv, advMax, queue, probe, timer, retries, finAcked, stream,
                       segs, acks, peer>>
        /\ UNCHANGED <<waiters, pc, left, seg>>
    BY <1>10 DEF vars
  <2>2. {adv, advMax, retries} \subseteq Nat /\ probe \in Probes /\ timer \in BOOLEAN
    BY <1>1 DEF IInv, SocketTypes
  <2>3. SocketTypes' /\ NetTypes' /\ (Connected' => Live') /\ (~Connected' => queue' = <<>>)
    BY <1>1, <2>1, <2>2, QuietStep
  <2> QED  BY <1>1, <2>1, <2>3, SocketStep
<1> QED  BY <1>1, <1>2, <1>3, <1>4, <1>5, <1>6, <1>7, <1>8, <1>9, <1>10 DEF Next

\* The inductive invariant holds in every state.
THEOREM Invariant == Spec => []IInv
BY InitIInv, NextIInv, PTL DEF Spec

\* The transmit list is the stretch of the stream the peer has not acknowledged,
\* whichever of any number of senders, acknowledgements and a FIN came in between.
THEOREM QueueIsUnackedHolds == Spec => []QueueIsUnacked
<1>1. IInv => QueueIsUnacked
  <2>1. SUFFICES ASSUME IInv, Connected PROVE
            /\ \A i \in 1..(Len(queue) - 1) : queue[i + 1].seq = queue[i].seq + queue[i].len
            /\ queue = <<>> => out = 0
            /\ queue # <<>> =>
                  /\ queue[Len(queue)].seq + queue[Len(queue)].len = txSeq - FinSent
                  /\ txSeq - FinSent - out \in queue[1].seq..(queue[1].seq + queue[1].len - 1)
    BY DEF QueueIsUnacked
  <2>2. queue \in Seq(Packets) /\ QueueOk(queue, out, DataEnd) /\ DataEnd - out \in Nat
    BY <2>1, NumbersAre
  <2>3. DOMAIN queue = 1..Len(queue) /\ Len(queue) \in Nat /\ (queue = <<>> <=> Len(queue) = 0)
    BY <2>2, LenProperties, EmptySeq
  <2>4. \A i \in 1..(Len(queue) - 1) : queue[i + 1].seq = queue[i].seq + queue[i].len
    <3>1. \A i \in 1..(Len(queue) - 1) : i \in DOMAIN queue /\ i + 1 \in DOMAIN queue  BY <2>3
    <3> QED  BY <2>2, <3>1 DEF QueueOk
  <2>5. queue # <<>> => txSeq - FinSent - out \in queue[1].seq..(queue[1].seq + queue[1].len - 1)
    <3>1. SUFFICES ASSUME queue # <<>>
                   PROVE  DataEnd - out \in queue[1].seq..(queue[1].seq + queue[1].len - 1)
      BY DEF DataEnd
    <3>2. 1 \in DOMAIN queue  BY <2>3, <3>1
    <3>3. queue[1].seq \in Nat /\ queue[1].len \in Nat  BY <2>1, <3>2, PacketIs
    <3>4. queue[1].seq <= DataEnd - out /\ DataEnd - out < queue[1].seq + queue[1].len
      BY <2>2, <3>1 DEF QueueOk
    <3> QED  BY <2>2, <3>3, <3>4
  <2> QED  BY <2>2, <2>4, <2>5 DEF QueueOk, DataEnd
<1> QED  BY <1>1, Invariant, PTL

\* Nothing leaves the transmit list that the peer does not have, and the FIN
\* counts as acknowledged only when the peer has it and all data before it: with
\* a zero-window probe ahead of the data, and stale and duplicate acknowledgements.
THEOREM ReleasedIsDeliveredHolds == Spec => []ReleasedIsDelivered
<1>1. IInv => ReleasedIsDelivered
  <2>1. SUFFICES ASSUME IInv, Connected
                 PROVE  txSeq - FinSent - out <= Got /\ (finAcked => peer.fin /\ Got = txSeq - 1)
    BY DEF ReleasedIsDelivered
  <2>2. Live /\ FinSent \in {0, 1} /\ (FinSent = 0 <=> state = "ESTABLISHED") /\ DataEnd = txSeq - FinSent
    BY <2>1, NumbersAre
  <2>3. txSeq - FinSent - out <= Got  BY <2>2 DEF Live, DataEnd
  <2>4. ASSUME finAcked PROVE peer.fin /\ Got = txSeq - 1
    <3>1. peer.fin /\ state = "FIN_WAIT_2"  BY <2>2, <2>4 DEF Live, StatesAgree
    <3>2. Got = DataEnd  BY <2>2, <3>1 DEF Live, PeerKnown
    <3>3. FinSent = 1  BY <2>2, <3>1
    <3> QED  BY <2>2, <3>1, <3>2, <3>3
  <2> QED  BY <2>3, <2>4
<1> QED  BY <1>1, Invariant, PTL

\* The timer runs while a packet or the FIN is not acknowledged.
THEOREM TimerRunsWhenNeededHolds == Spec => []TimerRunsWhenNeeded
<1>1. IInv => TimerRunsWhenNeeded  BY DEF IInv, Live, TimerRunsWhenNeeded
<1> QED  BY <1>1, Invariant, PTL

-----------------------------------------------------------------------------
(* The window of the peer *)

\* A step that sends nothing, whose thread, if any, plans nothing beyond the window.
LEMMA WindowStays ==
    ASSUME IInv, WindowKept, state' = "ESTABLISHED" => state = "ESTABLISHED",
           UNCHANGED <<txSeq, out, adv>>, peer.edge <= peer'.edge, peer'.edge \in Nat,
           \A u \in Threads : pc'[u] = "built" =>
              \/ pc[u] = "built" /\ seg'[u] = seg[u]
              \/ txSeq + seg'[u].len <= peer.edge /\ seg'[u].len \in Nat
    PROVE  WindowKept'
<1>1. SUFFICES ASSUME state' = "ESTABLISHED"
               PROVE  /\ txSeq' - out' + adv' <= peer'.edge
                      /\ txSeq' <= peer'.edge
                      /\ \A t \in Threads : pc'[t] = "built" /\ seg'[t].seq = txSeq'
                            => txSeq' + seg'[t].len <= peer'.edge
  BY DEF WindowKept
<1>2. /\ txSeq - out + adv <= peer.edge
      /\ txSeq <= peer.edge
      /\ \A t \in Threads : pc[t] = "built" /\ seg[t].seq = txSeq => txSeq + seg[t].len <= peer.edge
  BY <1>1 DEF WindowKept
<1>3. Connected  BY <1>1 DEF Connected
<1>4. txSeq \in Nat /\ out \in Nat /\ adv \in Nat /\ peer.edge \in Nat  BY <1>3, NumbersAre DEF IInv, SocketTypes
<1>5. txSeq' - out' + adv' <= peer'.edge /\ txSeq' <= peer'.edge
  <2>1. txSeq' - out' + adv' = txSeq - out + adv /\ txSeq' = txSeq  OBVIOUS
  <2> QED  BY <1>2, <1>4, <2>1
<1>6. ASSUME NEW t \in Threads, pc'[t] = "built", seg'[t].seq = txSeq
      PROVE  txSeq + seg'[t].len <= peer'.edge
  <2>1. seg[t].len \in Nat  BY ThreadIs
  <2>2. txSeq + seg'[t].len <= peer.edge /\ seg'[t].len \in Nat
    <3>1. CASE pc[t] = "built" /\ seg'[t] = seg[t]  BY <1>2, <1>6, <2>1, <3>1
    <3>2. CASE txSeq + seg'[t].len <= peer.edge /\ seg'[t].len \in Nat  BY <3>2
    <3> QED  BY <1>6, <3>1, <3>2
  <2> QED  BY <1>4, <2>2
<1> QED  BY <1>5, <1>6

\* What one pass builds at once fits in the usable window.
LEMMA LoopBodyWindow ==
    ASSUME IInv, WindowKept, state = "ESTABLISHED", NEW t \in Threads, NEW n \in Nat \ {0}, LoopBody(t, n)
    PROVE  WindowKept'
<1> DEFINE w == Credit(n, out, adv, advMax)
<1>1. Connected  BY DEF Connected
<1>2. /\ txSeq \in Nat /\ out \in Nat /\ adv \in Nat /\ advMax \in Nat /\ peer.edge \in Nat
      /\ pc \in [Threads -> Places] /\ seg \in [Threads -> Pieces]
  BY <1>1, NumbersAre DEF IInv, SocketTypes, ThreadsFit
<1>3. w \in Nat /\ (w # 0 => out + w <= adv)  BY <1>2, CreditIs
<1>4. UNCHANGED <<state, txSeq, out, adv, peer>>  BY DEF LoopBody, windowVars, netVars
<1>5. ASSUME NEW u \in Threads, pc'[u] = "built"
      PROVE  \/ pc[u] = "built" /\ seg'[u] = seg[u]
             \/ txSeq + seg'[u].len <= peer.edge /\ seg'[u].len \in Nat
  <2>1. \/ w # 0 /\ n <= w /\ pc' = [pc EXCEPT ![t] = "built"] /\ seg' = [seg EXCEPT ![t] = [seq |-> txSeq, len |-> n]]
        \/ \E p \in {"alloc", "blocked", "idle"} : \E g : pc' = [pc EXCEPT ![t] = p] /\ seg' = [seg EXCEPT ![t] = g]
    BY DEF LoopBody
  <2>2. CASE u # t
    <3>1. pc'[u] = pc[u] /\ seg'[u] = seg[u]  BY <1>2, <2>1, <2>2
    <3> QED  BY <1>5, <3>1
  <2>3. CASE u = t
    <3>1. w # 0 /\ n <= w /\ seg' = [seg EXCEPT ![t] = [seq |-> txSeq, len |-> n]]  BY <1>2, <1>5, <2>1, <2>3
    <3>2. seg'[u].len = n  BY <1>2, <2>3, <3>1
    <3>3. txSeq - out + adv <= peer.edge  BY DEF WindowKept
    <3>4. out + w <= adv  BY <1>3, <3>1
    <3> HIDE DEF w
    <3>5. txSeq + n <= peer.edge  BY <1>2, <1>3, <3>1, <3>3, <3>4
    <3> QED  BY <3>2, <3>5
  <2> QED  BY <2>2, <2>3
<1>6. /\ state' = "ESTABLISHED" => state = "ESTABLISHED"
      /\ UNCHANGED <<txSeq, out, adv>> /\ peer.edge <= peer'.edge /\ peer'.edge \in Nat
  BY <1>2, <1>4
<1> QED  BY <1>5, <1>6, WindowStays

\* A build with NX_ENABLE_TCP_SACK looks at the windows again after the allocation.
LEMMA AllocatedWindow ==
    ASSUME SackBuild = TRUE, IInv, WindowKept, state = "ESTABLISHED", NEW t \in Threads, Allocated(t)
    PROVE  WindowKept'
<1> DEFINE usable == IF adv > out THEN adv - out ELSE 0
<1>1. Connected /\ pc[t] = "alloc"  BY DEF Connected, Allocated
<1>2. /\ txSeq \in Nat /\ out \in Nat /\ adv \in Nat /\ peer.edge \in Nat
      /\ pc \in [Threads -> Places] /\ seg \in [Threads -> Pieces]
  BY <1>1, NumbersAre DEF IInv, SocketTypes, ThreadsFit
<1>3. /\ seg[t].len \in Nat /\ seg[t].len # 0 /\ left[t] \in Nat \ {0}
  <2>1. seg[t].len \in Nat /\ left[t] \in Nat /\ Fits(pc[t], left[t], seg[t])  BY ThreadIs
  <2> QED  BY <1>1, <2>1 DEF Fits, Sending
<1>4. CASE seg[t].len > usable
  <2>1. LoopBody(t, left[t])  BY <1>4 DEF Allocated
  <2> QED  BY <1>3, <2>1, LoopBodyWindow
<1>5. CASE ~(seg[t].len > usable)
  <2>1. /\ pc' = [pc EXCEPT ![t] = "built"] /\ seg' = [seg EXCEPT ![t].seq = txSeq]
        /\ UNCHANGED <<state, txSeq, out, adv, peer>>
    BY <1>5 DEF Allocated, windowVars, netVars
  <2>2. txSeq - out + adv <= peer.edge  BY DEF WindowKept
  <2>3. txSeq + seg[t].len <= peer.edge  BY <1>2, <1>3, <1>5, <2>2
  <2>4. ASSUME NEW u \in Threads, pc'[u] = "built"
        PROVE  \/ pc[u] = "built" /\ seg'[u] = seg[u]
               \/ txSeq + seg'[u].len <= peer.edge /\ seg'[u].len \in Nat
    <3>1. CASE u # t
      <4>1. pc'[u] = pc[u] /\ seg'[u] = seg[u]  BY <1>2, <2>1, <3>1
      <4> QED  BY <2>4, <4>1
    <3>2. CASE u = t
      <4>1. seg'[t] = [seg[t] EXCEPT !.seq = txSeq] /\ seg[t] \in Pieces  BY <1>2, <2>1
      <4>2. seg'[t].len = seg[t].len  BY <4>1 DEF Pieces
      <4> QED  BY <1>3, <2>3, <3>2, <4>2
    <3> QED  BY <3>1, <3>2
  <2>5. /\ state' = "ESTABLISHED" => state = "ESTABLISHED"
        /\ UNCHANGED <<txSeq, out, adv>> /\ peer.edge <= peer'.edge /\ peer'.edge \in Nat
    BY <1>2, <2>1
  <2> QED  BY <2>4, <2>5, WindowStays
<1> QED  BY <1>4, <1>5

\* What was built for this sequence number is sent; what others built for it is not.
LEMMA CommitWindow ==
    ASSUME IInv, WindowKept, state = "ESTABLISHED", NEW t \in Threads, Commit(t)
    PROVE  WindowKept'
<1> DEFINE n == seg[t].len
<1>1. Connected /\ pc[t] = "built"  BY DEF Connected, Commit
<1>2. /\ txSeq \in Nat /\ out \in Nat /\ adv \in Nat /\ peer.edge \in Nat
      /\ pc \in [Threads -> Places] /\ seg \in [Threads -> Pieces]
      /\ (queue = <<>> => out = 0)
  BY <1>1, NumbersAre DEF IInv, SocketTypes, ThreadsFit, QueueOk
<1>3. n \in Nat /\ n # 0
  <2>1. seg[t].len \in Nat /\ Fits(pc[t], left[t], seg[t])  BY ThreadIs
  <2> QED  BY <1>1, <2>1 DEF Fits
<1>4. UNCHANGED <<adv, peer>>  BY DEF Commit, windowVars
<1>5. \E p \in {"idle", "loop"} : \E g : pc' = [pc EXCEPT ![t] = p] /\ seg' = [seg EXCEPT ![t] = g]
  BY DEF Commit, Return
<1>6. \A u \in Threads : pc'[u] = "built" => u # t /\ pc[u] = "built" /\ seg'[u] = seg[u]
  BY <1>2, <1>5
<1>7. CASE UNCHANGED <<state, txSeq, out>>
  <2>1. /\ state' = "ESTABLISHED" => state = "ESTABLISHED"
        /\ UNCHANGED <<txSeq, out, adv>> /\ peer.edge <= peer'.edge /\ peer'.edge \in Nat
    BY <1>2, <1>4, <1>7
  <2> QED  BY <1>6, <2>1, WindowStays
<1>8. CASE seg[t].seq = txSeq /\ txSeq' = txSeq + n /\ out' = (IF queue = <<>> THEN n ELSE out + n)
  <2>1. txSeq - out + adv <= peer.edge /\ txSeq + n <= peer.edge  BY <1>1, <1>8 DEF WindowKept
  <2>2. out' = out + n  BY <1>2, <1>3, <1>8
  <2> HIDE DEF n
  <2>3. txSeq' - out' + adv' <= peer'.edge /\ txSeq' <= peer'.edge  BY <1>2, <1>3, <1>4, <1>8, <2>1, <2>2
  <2>4. ASSUME NEW u \in Threads, pc'[u] = "built" PROVE seg'[u].seq # txSeq'
    <3>1. seg[u].seq \in Nat /\ Fits(pc[u], left[u], seg[u])  BY ThreadIs
    <3>2. pc[u] = "built" /\ seg'[u] = seg[u]  BY <1>6, <2>4
    <3>3. seg[u].seq <= txSeq  BY <3>1, <3>2 DEF Fits
    <3> QED  BY <1>2, <1>3, <1>8, <3>1, <3>2, <3>3
  <2> QED  BY <2>3, <2>4 DEF WindowKept
<1> QED  BY <1>7, <1>8 DEF Commit

\* A newer window, or an old one with as much acknowledged, ends where the peer's does.
LEMMA AckWindow ==
    ASSUME IInv, WindowKept, state = "ESTABLISHED", NEW m \in acks, m.ack <= Ending, AckCheck(m), UNCHANGED netVars
    PROVE  WindowKept'
<1>1. Connected  BY DEF Connected
<1>2. /\ txSeq \in Nat /\ out \in Nat /\ adv \in Nat /\ peer.edge \in Nat
      /\ pc \in [Threads -> Places] /\ seg \in [Threads -> Pieces] /\ waiters \in Seq(Threads)
      /\ DataEnd = txSeq - FinSent /\ FinSent = 0 /\ DataEnd - out \in Nat
  BY <1>1, NumbersAre DEF IInv, SocketTypes, ThreadsFit, WaitersWait
<1>3. /\ m.ack \in Nat /\ m.wnd \in Nat /\ FinGot = 0 /\ m.ack + m.wnd <= peer.edge + FinGot
  BY <1>1, AckIs
<1>4. Unacked = txSeq - out /\ Unacked \in Nat  BY <1>1, <1>2, UnackedIs
<1>5. Acked(m) = IF m.ack <= Unacked THEN 0 ELSE IF m.ack - Unacked < out THEN m.ack - Unacked ELSE out
  BY DEF Acked
<1>6. /\ txSeq' = txSeq /\ out' = out - Acked(m) /\ adv' = (IF m.ack >= Unacked THEN m.wnd ELSE adv)
      /\ seg' = seg /\ peer' = peer
  BY DEF AckCheck, netVars
<1>7. /\ txSeq - out + adv <= peer.edge /\ txSeq <= peer.edge
      /\ \A t \in Threads : pc[t] = "built" /\ seg[t].seq = txSeq => txSeq + seg[t].len <= peer.edge
  BY DEF WindowKept
<1>8. txSeq - out' + adv' <= peer.edge
  <2>1. CASE m.ack < Unacked
    <3>1. out' = out /\ adv' = adv  BY <1>2, <1>3, <1>4, <1>5, <1>6, <2>1
    <3> QED  BY <1>7, <3>1
  <2>2. CASE m.ack >= Unacked
    <3>1. adv' = m.wnd  BY <1>6, <2>2
    <3>2. txSeq - out' <= m.ack  BY <1>2, <1>3, <1>4, <1>5, <1>6, <2>2
    <3>3. out' \in Int  BY <1>2, <1>3, <1>4, <1>5, <1>6
    <3> QED  BY <1>2, <1>3, <3>1, <3>2, <3>3
  <2> QED  BY <1>3, <1>4, <2>1, <2>2
<1>9. ASSUME NEW u \in Threads, pc'[u] = "built" PROVE pc[u] = "built"
  <2>1. pc' = pc \/ (waiters # <<>> /\ pc' = [pc EXCEPT ![Head(waiters)] = "loop"])
    BY DEF AckCheck, TransmitCheck
  <2> QED  BY <1>2, <1>9, <2>1
<1>10. \A u \in Threads : pc'[u] = "built" /\ seg'[u].seq = txSeq' => txSeq' + seg'[u].len <= peer'.edge
  BY <1>6, <1>7, <1>9
<1>11. txSeq' - out' + adv' <= peer'.edge /\ txSeq' <= peer'.edge  BY <1>6, <1>7, <1>8
<1> QED  BY <1>10, <1>11 DEF WindowKept

\* Every other step: no thread has anything built that it had not.
LEMMA OthersWindow ==
    ASSUME IInv, WindowKept, state' = "ESTABLISHED" => state = "ESTABLISHED",
           UNCHANGED <<txSeq, out, adv, seg>>, peer.edge <= peer'.edge, peer.edge \in Nat, peer'.edge \in Nat,
           \A u \in Threads : pc'[u] = "built" => pc[u] = "built"
    PROVE  WindowKept'
<1>1. \A u \in Threads : pc'[u] = "built" => pc[u] = "built" /\ seg'[u] = seg[u]  OBVIOUS
<1> QED  BY <1>1, WindowStays

\* Every step keeps what is unacknowledged inside the window the peer offered.
LEMMA NextWindow == SackBuild = TRUE /\ IInv /\ WindowKept /\ [Next]_vars => WindowKept'
<1>1. SUFFICES ASSUME SackBuild = TRUE, IInv, WindowKept, [Next]_vars, state' = "ESTABLISHED" PROVE WindowKept'
  BY DEF WindowKept
<1>2. peer \in Peers /\ pc \in [Threads -> Places] /\ txSeq \in Nat /\ seg \in [Threads -> Pieces]
  BY <1>1 DEF IInv, NetTypes, ThreadsFit, SocketTypes
<1>3. peer.edge \in Nat /\ peer.edge <= peer.edge  BY <1>2 DEF Peers
<1>4. ASSUME NEW closer, Shut(closer) PROVE FALSE  BY <1>1, <1>4 DEF Shut
<1>5. ASSUME NEW t \in Threads, ThreadStep(t) \/ Closing(t) PROVE WindowKept'
  <2>1. CASE Send(t)
    <3>1. PICK n \in 1..MaxLen : LoopBody(t, n)  BY <2>1 DEF Send
    <3>2. MaxLen \in Nat  BY SenderAssumption DEF SenderAssumption
    <3>3. n \in Nat \ {0} /\ state = "ESTABLISHED"  BY <2>1, <3>2 DEF Send
    <3> QED  BY <1>1, <3>1, <3>3, LoopBodyWindow
  <2>2. CASE SendAgain(t)
    <3>1. pc[t] = "loop" /\ LoopBody(t, left[t])  BY <2>2 DEF SendAgain
    <3>2. left[t] \in Nat /\ Fits(pc[t], left[t], seg[t])  BY <1>1, ThreadIs
    <3>3. left[t] \in Nat \ {0}  BY <3>1, <3>2 DEF Fits, Sending
    <3>4. state = "ESTABLISHED"  BY <1>1, <3>1 DEF LoopBody
    <3> QED  BY <1>1, <3>1, <3>3, <3>4, LoopBodyWindow
  <2>3. CASE Allocated(t)
    <3>1. state = "ESTABLISHED"  BY <1>1, <2>3 DEF Allocated, LoopBody
    <3> QED  BY <1>1, <2>3, <3>1, AllocatedWindow
  <2>4. CASE AllocateFails(t)
    <3>1. UNCHANGED <<state, txSeq, out, adv, peer>> /\ pc' = [pc EXCEPT ![t] = "idle"]
          /\ seg' = [seg EXCEPT ![t] = NoSegment]
      BY <2>4 DEF AllocateFails, Return, windowVars, netVars
    <3>2. \A u \in Threads : pc'[u] = "built" => pc[u] = "built" /\ seg'[u] = seg[u]  BY <1>2, <3>1
    <3>3. /\ state' = "ESTABLISHED" => state = "ESTABLISHED"
          /\ UNCHANGED <<txSeq, out, adv>> /\ peer.edge <= peer'.edge /\ peer'.edge \in Nat
      BY <1>3, <3>1
    <3> QED  BY <1>1, <3>2, <3>3, WindowStays
  <2>5. CASE Commit(t)
    <3>1. state = "ESTABLISHED"  BY <1>1, <2>5 DEF Commit
    <3> QED  BY <1>1, <2>5, <3>1, CommitWindow
  <2>6. CASE WaitTimeout(t)
    <3>1. UNCHANGED <<state, txSeq, out, adv, seg, peer>> /\ pc' = [pc EXCEPT ![t] = "idle"]
      BY <2>6 DEF WaitTimeout, windowVars, netVars
    <3>2. \A u \in Threads : pc'[u] = "built" => pc[u] = "built"  BY <1>2, <3>1
    <3> QED  BY <1>1, <1>3, <3>1, <3>2, OthersWindow
  <2>7. CASE DisconnectNow(t)  BY <1>4, <2>7 DEF DisconnectNow
  <2>8. CASE Disconnect(t)  BY <1>1, <2>8 DEF Disconnect
  <2>9. CASE DisconnectEnds(t)  BY <1>4, <2>9 DEF DisconnectEnds
  <2> QED  BY <1>5, <2>1, <2>2, <2>3, <2>4, <2>5, <2>6, <2>7, <2>8, <2>9 DEF ThreadStep, Closing
<1>6. ASSUME UNCHANGED <<state, txSeq, out, adv, seg, peer, pc>> PROVE WindowKept'
  BY <1>1, <1>3, <1>6, OthersWindow
<1>7. ASSUME NEW i \in 1..QueueMax, DriverDone(i) PROVE WindowKept'
  BY <1>6, <1>7 DEF DriverDone, windowVars, threadVars, netVars
<1>8. CASE TimerExpires
  <2>1. CASE TimerGivesUp  BY <1>4, <2>1 DEF TimerGivesUp
  <2>2. CASE TimerProbes  BY <1>6, <2>2 DEF TimerProbes, windowVars, threadVars
  <2>3. CASE TimerResends  BY <1>6, <2>3 DEF TimerResends, windowVars, threadVars
  <2>4. CASE TimerResendsFin  BY <1>6, <2>4 DEF TimerResendsFin, windowVars, threadVars
  <2> QED  BY <1>8, <2>1, <2>2, <2>3, <2>4 DEF TimerExpires
<1>9. CASE PeerResets  BY <1>4, <1>9 DEF PeerResets
<1>10. ASSUME NEW m \in segs, PeerReceives(m) PROVE WindowKept'
  <2>1. /\ UNCHANGED <<state, txSeq, out, adv, seg, pc>> /\ peer' = PeerTakes(m)
    BY <1>10 DEF PeerReceives, windowVars, threadVars
  <2>2. PeerTakes(m).edge = peer.edge
    <3>1. Connected  BY <1>10 DEF PeerReceives, Connected
    <3> QED  BY <1>1, <3>1, TakesIs
  <2>3. peer'.edge = peer.edge  BY <2>1, <2>2
  <2>4. peer'.edge \in Nat /\ peer.edge <= peer'.edge  BY <1>3, <2>3
  <2> QED  BY <1>1, <1>3, <2>1, <2>4, OthersWindow
<1>11. ASSUME NEW m \in acks, AckArrives(m) PROVE WindowKept'
  <2>1. UNCHANGED netVars  BY <1>11 DEF AckArrives
  <2>2. CASE m.ack > Ending
    <3>1. UNCHANGED <<state, txSeq, out, adv, seg, peer, pc>>
      BY <1>11, <2>1, <2>2 DEF AckArrives, windowVars, threadVars, netVars
    <3> QED  BY <1>6, <3>1
  <2>3. CASE ~(m.ack > Ending)
    <3>1. AckCheck(m)  BY <1>11, <2>3 DEF AckArrives
    <3>2. state = "ESTABLISHED"  BY <1>1, <3>1 DEF AckCheck
    <3>3. m.ack <= Ending
      <4>1. Connected  BY <3>2 DEF Connected
      <4>2. m.ack \in Nat  BY <1>1, <4>1, AckIs
      <4> QED  BY <1>2, <2>3, <4>2 DEF Ending
    <3> QED  BY <1>1, <2>1, <3>1, <3>2, <3>3, AckWindow
  <2> QED  BY <2>2, <2>3
<1>12. CASE PeerOpens
  <2>1. UNCHANGED <<state, txSeq, out, adv, seg, pc>>  BY <1>12 DEF PeerOpens, windowVars, threadVars
  <2>2. PICK e \in (peer.edge + 1)..(Got + MaxWindow) : peer' = [peer EXCEPT !.edge = e]  BY <1>12 DEF PeerOpens
  <2>3. e \in Nat /\ peer.edge <= e
    <3>1. Connected  BY <1>12 DEF PeerOpens, Connected
    <3>2. Got \in Nat /\ MaxWindow \in Nat  BY <1>1, <3>1, NumbersAre, SenderAssumption DEF SenderAssumption
    <3> QED  BY <1>3, <3>2
  <2>4. peer'.edge = e  BY <1>2, <2>2 DEF Peers
  <2> QED  BY <1>1, <1>3, <2>1, <2>3, <2>4, OthersWindow
<1>13. CASE NetworkLoses  BY <1>6, <1>13 DEF NetworkLoses, windowVars, threadVars
<1>14. CASE UNCHANGED vars  BY <1>6, <1>14 DEF vars
<1> QED  BY <1>1, <1>5, <1>7, <1>8, <1>9, <1>10, <1>11, <1>12, <1>13, <1>14 DEF Next

\* New data never passes the right edge of the window the peer has advertised, in
\* a build that looks at the windows again after the allocation: the windows are
\* read before send_internal gives the mutex up, and several senders share them.
THEOREM WithinWindowHolds ==
    ASSUME SackBuild = TRUE
    PROVE  Spec => []WithinWindow
<1>1. Init => WindowKept
  <2>1. SUFFICES ASSUME Init PROVE WindowKept  OBVIOUS
  <2>2. adv \in Nat /\ peer.edge = adv /\ txSeq = 0 /\ out = 0 /\ \A t \in Threads : pc[t] = "idle"
    <3>1. MaxWindow \in Nat  BY SenderAssumption DEF SenderAssumption
    <3> QED  BY <2>1, <3>1 DEF Init
  <2> QED  BY <2>2 DEF WindowKept
<1>2. IInv /\ WindowKept /\ [Next]_vars => WindowKept'  BY NextWindow
<1>3. WindowKept => WithinWindow  BY DEF WindowKept, WithinWindow
<1> QED  BY <1>1, <1>2, <1>3, Invariant, PTL DEF Spec

-----------------------------------------------------------------------------
(* The wakeup of a suspended sender *)

\* Resumed or about to look again: the thread will come to the queue by itself.
OnItsWay(t) == pc[t] \in {"loop", "alloc", "built"}

\* A step that stops no timer and takes no thread off its way.
LEMMA WakeupStays ==
    ASSUME WaiterHasWakeup, state' = "ESTABLISHED" => state = "ESTABLISHED",
           waiters' # <<>> => waiters # <<>>, timer => timer',
           \A u \in Threads : OnItsWay(u) => OnItsWay(u)'
    PROVE  WaiterHasWakeup'
BY DEF WaiterHasWakeup, OnItsWay

\* A pass that can send goes on; one that cannot finds the timer running, or starts it.
LEMMA LoopBodyWakeup ==
    ASSUME IInv, state = "ESTABLISHED", NEW t \in Threads, NEW n \in Nat, LoopBody(t, n)
    PROVE  WaiterHasWakeup'
<1> DEFINE w == Credit(n, out, adv, advMax)
<1>1. Connected  BY DEF Connected
<1>2. /\ out \in Nat /\ adv \in Nat /\ advMax \in Nat /\ pc \in [Threads -> Places] /\ queue \in Seq(Packets)
      /\ (queue = <<>> => out = 0) /\ (queue # <<>> => timer)
  BY <1>1, NumbersAre DEF IInv, SocketTypes, ThreadsFit, QueueOk, Live, TimerRunsWhenNeeded
<1>3. adv # 0 /\ out = 0 => w # 0  BY <1>2, CreditIs
<1>4. CASE pc' = [pc EXCEPT ![t] = "alloc"] \/ pc' = [pc EXCEPT ![t] = "built"]
  <2>1. pc'[t] \in {"loop", "alloc", "built"}  BY <1>2, <1>4
  <2> QED  BY <2>1 DEF WaiterHasWakeup
<1>5. CASE ~(w # 0 /\ Len(queue) < QueueMax) /\ ProbeArm(t)
  <2>1. CASE adv = 0
    <3>1. timer'  BY <1>5, <2>1, ProbeArmIs
    <3> QED  BY <3>1 DEF WaiterHasWakeup
  <2>2. CASE adv # 0
    <3>1. queue # <<>>
      <4>1. CASE w = 0  BY <1>2, <1>3, <2>2, <4>1
      <4>2. CASE ~(Len(queue) < QueueMax)
        <5>1. QueueMax \in Nat \ {0}  BY SenderAssumption DEF SenderAssumption
        <5>2. queue = <<>> => Len(queue) = 0  BY <1>2, EmptySeq
        <5> QED  BY <4>2, <5>1, <5>2
      <4> QED  BY <1>5, <4>1, <4>2
    <3>2. timer' = timer  BY <1>5, <2>2 DEF ProbeArm
    <3> QED  BY <1>2, <3>1, <3>2 DEF WaiterHasWakeup
  <2> QED  BY <2>1, <2>2
<1> QED  BY <1>4, <1>5 DEF LoopBody

\* The ACK check stops the timer only when an open window leaves nothing in the
\* list, and then it resumes the first suspended sender itself.
LEMMA AckWakeup ==
    ASSUME IInv, WaiterHasWakeup, state = "ESTABLISHED", NEW m \in acks, m.ack <= Ending, AckCheck(m)
    PROVE  WaiterHasWakeup'
<1> DEFINE k == Released(m)
<1>1. SUFFICES ASSUME waiters' # <<>> PROVE timer' \/ \E t \in Threads : pc'[t] \in {"loop", "alloc", "built"}
  BY DEF WaiterHasWakeup
<1>2. Connected /\ SocketTypes /\ ThreadsFit /\ WaitersWait  BY DEF Connected, IInv
<1>3. /\ pc \in [Threads -> Places] /\ left \in [Threads -> Nat] /\ waiters \in Seq(Threads)
      /\ queue \in Seq(Packets) /\ {out, adv, advMax} \subseteq Nat
  BY <1>2 DEF SocketTypes, ThreadsFit, WaitersWait
<1>4. k \in 0..Len(queue) /\ (k = Len(queue) => out - Acked(m) = 0)  BY <1>2, ReleasedIs
<1>5. out' = out - Acked(m) /\ queue' = SubSeq(queue, k + 1, Len(queue)) /\ TransmitCheck
  BY DEF AckCheck
<1>6. adv' \in Nat /\ advMax' \in Nat
  <2>1. m.wnd \in Nat  BY <1>2, AckIs
  <2> QED  BY <1>3, <2>1 DEF AckCheck
<1>7. CASE waiters # <<>> /\ pc' = [pc EXCEPT ![Head(waiters)] = "loop"]
  <2>1. Head(waiters) \in Threads  BY <1>3, <1>7, HeadTailProperties
  <2>2. pc'[Head(waiters)] = "loop"  BY <1>3, <1>7, <2>1
  <2> QED  BY <2>1, <2>2
<1>8. CASE UNCHANGED <<waiters, pc>> /\ (waiters # <<>> => ~(Credit(left[Head(waiters)], out', adv', advMax') # 0
                                                           /\ Len(queue') < QueueMax))
  <2>1. waiters # <<>>  BY <1>1, <1>8
  <2>2. timer \/ \E t \in Threads : pc[t] \in {"loop", "alloc", "built"}  BY <2>1 DEF WaiterHasWakeup
  <2>3. CASE \E t \in Threads : pc[t] \in {"loop", "alloc", "built"}  BY <1>8, <2>3
  <2>4. CASE timer
    <3>1. SUFFICES ASSUME ~timer' PROVE FALSE  OBVIOUS
    <3>2. k # 0 /\ k = Len(queue) /\ adv' # 0  BY <2>4, <3>1 DEF AckCheck, AckTimer
    <3>3. out' = 0  BY <1>4, <1>5, <3>2
    <3>4. Len(queue') = 0
      <4>1. Len(queue) \in Nat /\ queue' = SubSeq(queue, Len(queue) + 1, Len(queue))
        BY <1>3, <1>5, <3>2, LenProperties
      <4>2. Len(SubSeq(queue, Len(queue) + 1, Len(queue))) = 0  BY <1>3, <4>1
      <4> QED  BY <4>1, <4>2
    <3>5. left[Head(waiters)] \in Nat
      <4>1. Head(waiters) \in Threads  BY <1>3, <2>1, HeadTailProperties
      <4> QED  BY <1>3, <4>1
    <3>6. Credit(left[Head(waiters)], out', adv', advMax') # 0
      <4> DEFINE l == left[Head(waiters)]
      <4>1. l \in Nat /\ 0 \in Nat  BY <3>5
      <4> HIDE DEF l
      <4>2. Credit(l, 0, adv', advMax') # 0  BY <1>6, <3>2, <4>1, CreditIs
      <4> QED  BY <3>3, <4>2 DEF l
    <3>7. 0 < QueueMax  BY SenderAssumption DEF SenderAssumption
    <3> QED  BY <1>8, <2>1, <3>4, <3>6, <3>7
  <2> QED  BY <2>2, <2>3, <2>4
<1> QED  BY <1>5, <1>7, <1>8 DEF TransmitCheck

\* Every step leaves each suspended sender something that wakes it.
LEMMA NextWakeup == PoolRunsDry = FALSE /\ IInv /\ WaiterHasWakeup /\ [Next]_vars => WaiterHasWakeup'
<1>1. SUFFICES ASSUME PoolRunsDry = FALSE, IInv, WaiterHasWakeup, [Next]_vars, state' = "ESTABLISHED"
               PROVE  WaiterHasWakeup'
  BY DEF WaiterHasWakeup
<1>2. pc \in [Threads -> Places] /\ WaitersWait  BY <1>1 DEF IInv, ThreadsFit
<1>3. ASSUME NEW closer, Shut(closer) PROVE FALSE  BY <1>1, <1>3 DEF Shut
<1>4. ASSUME NEW t \in Threads, ThreadStep(t) \/ Closing(t) PROVE WaiterHasWakeup'
  <2>1. CASE Send(t)
    <3>1. PICK n \in 1..MaxLen : LoopBody(t, n)  BY <2>1 DEF Send
    <3>2. MaxLen \in Nat  BY SenderAssumption DEF SenderAssumption
    <3>3. n \in Nat /\ state = "ESTABLISHED"  BY <2>1, <3>2 DEF Send
    <3> QED  BY <1>1, <3>1, <3>3, LoopBodyWakeup
  <2>2. CASE SendAgain(t)
    <3>1. LoopBody(t, left[t])  BY <2>2 DEF SendAgain
    <3>2. left[t] \in Nat  BY <1>1, ThreadIs
    <3>3. state = "ESTABLISHED"  BY <1>1, <3>1 DEF LoopBody
    <3> QED  BY <1>1, <3>1, <3>2, <3>3, LoopBodyWakeup
  <2>3. CASE Allocated(t)
    <3>1. state = "ESTABLISHED"  BY <1>1, <2>3 DEF Allocated, LoopBody
    <3>2. CASE LoopBody(t, left[t])
      <4>1. left[t] \in Nat  BY <1>1, ThreadIs
      <4> QED  BY <1>1, <3>1, <3>2, <4>1, LoopBodyWakeup
    <3>3. CASE pc' = [pc EXCEPT ![t] = "built"]
      <4>1. pc'[t] \in {"loop", "alloc", "built"}  BY <1>2, <3>3
      <4> QED  BY <4>1 DEF WaiterHasWakeup
    <3> QED  BY <2>3, <3>1, <3>2, <3>3 DEF Allocated
  <2>4. CASE AllocateFails(t)  BY <1>1, <2>4 DEF AllocateFails
  <2>5. CASE Commit(t)
    <3>1. state = "ESTABLISHED"  BY <1>1, <2>5 DEF Commit
    <3>2. CASE pc' = [pc EXCEPT ![t] = "loop"]
      <4>1. pc'[t] \in {"loop", "alloc", "built"}  BY <1>2, <3>2
      <4> QED  BY <4>1 DEF WaiterHasWakeup
    <3>3. CASE timer' = TRUE \/ (queue # <<>> /\ timer' = timer)
      <4>1. queue # <<>> => timer
        <5>1. Connected  BY <3>1 DEF Connected
        <5> QED  BY <1>1, <5>1 DEF IInv, Live, TimerRunsWhenNeeded
      <4>2. timer'  BY <3>3, <4>1
      <4> QED  BY <4>2 DEF WaiterHasWakeup
    <3> QED  BY <2>5, <3>1, <3>2, <3>3 DEF Commit
  <2>6. CASE WaitTimeout(t)
    <3>1. PICK i \in DOMAIN waiters : waiters[i] = t  BY <2>6 DEF WaitTimeout
    <3>2. pc[t] = "blocked"  BY <1>2, <3>1 DEF WaitersWait
    <3>3. waiters # <<>>
      <4>1. DOMAIN <<>> = {}  BY EmptySeq
      <4> QED  BY <3>1, <4>1
    <3>4. UNCHANGED <<state, timer>> /\ pc' = [pc EXCEPT ![t] = "idle"]  BY <2>6 DEF WaitTimeout
    <3>5. \A u \in Threads : OnItsWay(u) => OnItsWay(u)'
      <4>1. ASSUME NEW u \in Threads, pc[u] \in {"loop", "alloc", "built"} PROVE pc'[u] = pc[u]
        BY <1>2, <3>2, <3>4, <4>1
      <4> QED  BY <4>1 DEF OnItsWay
    <3> QED  BY <1>1, <3>3, <3>4, <3>5, WakeupStays
  <2>7. CASE DisconnectNow(t)  BY <1>3, <2>7 DEF DisconnectNow
  <2>8. CASE Disconnect(t)  BY <1>1, <2>8 DEF Disconnect
  <2>9. CASE DisconnectEnds(t)  BY <1>3, <2>9 DEF DisconnectEnds
  <2> QED  BY <1>4, <2>1, <2>2, <2>3, <2>4, <2>5, <2>6, <2>7, <2>8, <2>9 DEF ThreadStep, Closing
<1>5. ASSUME UNCHANGED <<state, timer, waiters, pc>> PROVE WaiterHasWakeup'
  <2>1. \A u \in Threads : OnItsWay(u) => OnItsWay(u)'  BY <1>5 DEF OnItsWay
  <2> QED  BY <1>1, <1>5, <2>1, WakeupStays
<1>6. ASSUME NEW i \in 1..QueueMax, DriverDone(i) PROVE WaiterHasWakeup'
  BY <1>5, <1>6 DEF DriverDone, threadVars
<1>7. CASE TimerExpires
  <2>1. CASE TimerGivesUp  BY <1>3, <2>1 DEF TimerGivesUp
  <2>2. CASE TimerProbes  BY <1>5, <2>2 DEF TimerProbes, threadVars
  <2>3. CASE TimerResends  BY <1>5, <2>3 DEF TimerResends, threadVars
  <2>4. CASE TimerResendsFin  BY <1>5, <2>4 DEF TimerResendsFin, threadVars
  <2> QED  BY <1>7, <2>1, <2>2, <2>3, <2>4 DEF TimerExpires
<1>8. CASE PeerResets  BY <1>3, <1>8 DEF PeerResets
<1>9. ASSUME NEW m \in segs, PeerReceives(m) PROVE WaiterHasWakeup'
  BY <1>5, <1>9 DEF PeerReceives, threadVars
<1>10. ASSUME NEW m \in acks, AckArrives(m) PROVE WaiterHasWakeup'
  <2>1. CASE m.ack > Ending
    <3>1. UNCHANGED <<state, timer, waiters, pc>>  BY <1>10, <2>1 DEF AckArrives, threadVars
    <3> QED  BY <1>5, <3>1
  <2>2. CASE ~(m.ack > Ending)
    <3>1. AckCheck(m)  BY <1>10, <2>2 DEF AckArrives
    <3>2. state = "ESTABLISHED"  BY <1>1, <3>1 DEF AckCheck
    <3>3. m.ack <= Ending
      <4>1. Connected  BY <3>2 DEF Connected
      <4>2. m.ack \in Nat /\ txSeq \in Nat  BY <1>1, <4>1, AckIs, NumbersAre
      <4> QED  BY <2>2, <4>2 DEF Ending
    <3> QED  BY <1>1, <3>1, <3>2, <3>3, AckWakeup
  <2> QED  BY <2>1, <2>2
<1>11. CASE PeerOpens  BY <1>5, <1>11 DEF PeerOpens, threadVars
<1>12. CASE NetworkLoses  BY <1>5, <1>12 DEF NetworkLoses, threadVars
<1>13. CASE UNCHANGED vars  BY <1>5, <1>13 DEF vars
<1> QED  BY <1>1, <1>4, <1>6, <1>7, <1>8, <1>9, <1>10, <1>11, <1>12, <1>13 DEF Next

\* A suspended sender always has a wakeup coming, when no allocation fails inside
\* a send: the timer runs, or another thread is on its way to start it or to
\* suspend itself, and arm the probe, in its turn.
THEOREM WaiterHasWakeupHolds ==
    ASSUME PoolRunsDry = FALSE
    PROVE  Spec => []WaiterHasWakeup
<1>1. Init => WaiterHasWakeup  BY DEF Init, WaiterHasWakeup
<1>2. IInv /\ WaiterHasWakeup /\ [Next]_vars => WaiterHasWakeup'  BY NextWakeup
<1> QED  BY <1>1, <1>2, Invariant, PTL DEF Spec
=============================================================================
