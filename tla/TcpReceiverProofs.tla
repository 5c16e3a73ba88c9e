-------------------------- MODULE TcpReceiverProofs --------------------------
(***************************************************************************)
(* Proofs about TcpReceiver for any number of readers, any stream, segment  *)
(* size, buffer and caps, with or without a pool that runs dry.             *)
(*                                                                          *)
(* The inductive invariant IInv is the order of the queue (InOrder), what   *)
(* the readers have (Progress), and the properties of the window and of the *)
(* readers that the model states.  InOrder says of any two packets of the   *)
(* queue what QueueInOrder says of neighbours, and that none goes beyond    *)
(* the stream, so that the FIN can only be taken after the last byte.       *)
(***************************************************************************)
EXTENDS TcpReceiver, Lists

Packets == [seq : Nat, data : Seq(Nat), ready : BOOLEAN]
Windows == [seq : Nat, win : Nat, sent : Nat, acked : Nat]
Acks == [seq : Nat, edge : Nat]

SocketTypes ==
    /\ rcv \in Windows /\ cap \in Caps /\ fin \subseteq {Total}
    /\ queue \in Seq(Packets) /\ waiters \in Seq(Threads)
    /\ ack \subseteq Acks /\ peer \in [una : Nat, edge : Nat]

\* A piece of the stream as the peer sent it
Whole(x) == x.data # <<>> /\ x.data = Bytes(x.seq, End(x)) /\ End(x) <= Total

\* Where what comes before the i-th packet of q ends, d bytes being delivered
Before(q, d, i) == IF i = 1 THEN d ELSE End(q[i - 1])

\* The packets of q do not overlap, come after the first d bytes and end by e.
Apart(q, d, e) ==
    /\ \A i \in DOMAIN q : Whole(q[i]) /\ q[i].seq >= d /\ End(q[i]) <= e
    /\ \A i, j \in DOMAIN q : i < j => End(q[i]) <= q[j].seq

\* Those up to r are READY and follow on each other, the others begin beyond a gap.
ReadyUpTo(q, d, r) ==
    /\ \A i \in DOMAIN q :
          /\ q[i].ready = (End(q[i]) <= r)
          /\ q[i].ready => q[i].seq = Before(q, d, i)
    /\ Min2(r, Total) > d => \E i \in DOMAIN q : End(q[i]) = Min2(r, Total)

Gap(q, r) == \A i \in DOMAIN q : ~q[i].ready => q[i].seq > r

InOrder(q, d, r, e) == Apart(q, d, e) /\ ReadyUpTo(q, d, r) /\ Gap(q, r)

\* What the readers have, and when the end is reached
Progress ==
    /\ delivered = Bytes(0, Len(delivered)) /\ Len(delivered) \in Nat
    /\ Len(delivered) <= Accepted
    /\ state \in {"ESTABLISHED", "CLOSE_WAIT"} /\ ended \in BOOLEAN
    /\ state = "ESTABLISHED" => rcv.seq <= Total
    /\ state = "CLOSE_WAIT" => rcv.seq = Total + 1
    /\ ended => state = "CLOSE_WAIT" /\ Len(delivered) = Total

Edges ==
    /\ rcv.sent <= rcv.win
    /\ peer.edge <= rcv.seq + rcv.win
    /\ \A a \in ack : a.edge <= rcv.seq + rcv.win

\* The inductive invariant
IInv ==
    /\ SocketTypes /\ Progress
    /\ InOrder(queue, Len(delivered), rcv.seq, rcv.seq + rcv.win)
    /\ WindowIsFree /\ Edges /\ NoReaderBesidesData

-----------------------------------------------------------------------------
(* Bytes of the stream *)

\* Bytes(b, e) is the piece of the stream from b up to e.
LEMMA BytesPiece ==
    ASSUME NEW b \in Nat, NEW e \in Nat, b <= e
    PROVE  /\ Bytes(b, e) \in Seq(Nat) /\ Len(Bytes(b, e)) = e - b
           /\ \A i \in 1..(e - b) : Bytes(b, e)[i] = b + i - 1
<1>1. e - b \in Nat  BY SMT
<1>2. \A i \in 1..(e - b) : b + i - 1 \in Nat  BY <1>1, SMT
<1>3. [i \in 1..(e - b) |-> b + i - 1] \in Seq(Nat)  BY <1>1, <1>2, IsASeq
<1>4. Bytes(b, e) \in Seq(Nat)  BY <1>3 DEF Bytes
<1>5. DOMAIN Bytes(b, e) = 1..(e - b)  BY DEF Bytes
<1>6. Len(Bytes(b, e)) = e - b  BY <1>1, <1>4, <1>5, LenProperties, SMT
<1> QED  BY <1>4, <1>6 DEF Bytes

\* A part of a piece is a piece.
LEMMA BytesPart ==
    ASSUME NEW b \in Nat, NEW e \in Nat, NEW m \in 1..(e - b + 1), NEW n \in (m - 1)..(e - b)
    PROVE  SubSeq(Bytes(b, e), m, n) = Bytes(b + m - 1, b + n)
<1> DEFINE s == Bytes(b, e)
           t == Bytes(b + m - 1, b + n)
<1>1. b <= e /\ b + m - 1 \in Nat /\ b + n \in Nat /\ b + m - 1 <= b + n
  OBVIOUS
<1>2. /\ s \in Seq(Nat) /\ Len(s) = e - b
      /\ \A i \in 1..(e - b) : s[i] = b + i - 1
  BY <1>1, BytesPiece
<1>3. /\ t \in Seq(Nat) /\ Len(t) = b + n - (b + m - 1)
      /\ \A i \in 1..(b + n - (b + m - 1)) : t[i] = b + m - 1 + i - 1
  <2> DEFINE c == b + m - 1
             d == b + n
  <2>1. c \in Nat /\ d \in Nat /\ c <= d  BY <1>1
  <2> HIDE DEF c, d
  <2>2. /\ Bytes(c, d) \in Seq(Nat) /\ Len(Bytes(c, d)) = d - c
        /\ \A i \in 1..(d - c) : Bytes(c, d)[i] = c + i - 1
    BY <2>1, BytesPiece
  <2> QED  BY <2>2 DEF c, d
<1> HIDE DEF s, t
<1>4. \A k \in m..n : s[k] \in Nat
  <2>1. \A k \in m..n : k \in 1..(e - b)  OBVIOUS
  <2> QED  BY <1>2, <2>1
<1>5. /\ SubSeq(s, m, n) \in Seq(Nat)
      /\ Len(SubSeq(s, m, n)) = IF m <= n THEN n - m + 1 ELSE 0
      /\ \A i \in 1..(n - m + 1) : SubSeq(s, m, n)[i] = s[m + i - 1]
  BY <1>4, SubSeqProperties
<1>6. Len(SubSeq(s, m, n)) = Len(t) /\ Len(t) = n - m + 1  BY <1>1, <1>3, <1>5
<1>7. ASSUME NEW i \in 1..Len(t) PROVE SubSeq(s, m, n)[i] = t[i]
  <2>1. /\ i \in 1..(n - m + 1) /\ i \in 1..(b + n - (b + m - 1))
        /\ m + i - 1 \in 1..(e - b)
    BY <1>6, <1>7
  <2>2. SubSeq(s, m, n)[i] = s[m + i - 1]  BY <1>5, <2>1
  <2>3. s[m + i - 1] = b + (m + i - 1) - 1  BY <1>2, <2>1
  <2>4. t[i] = b + m - 1 + i - 1  BY <1>3, <2>1
  <2>5. b + (m + i - 1) - 1 = b + m - 1 + i - 1  BY <2>1
  <2> QED  BY <2>2, <2>3, <2>4, <2>5
<1>8. SubSeq(s, m, n) = t  BY <1>3, <1>5, <1>6, <1>7, SeqEqual
<1> QED  BY <1>8 DEF s, t

\* Two adjacent pieces are one.
LEMMA BytesJoin ==
    ASSUME NEW b \in Nat, NEW c \in Nat, NEW e \in Nat, b <= c, c <= e
    PROVE  Bytes(b, c) \o Bytes(c, e) = Bytes(b, e)
<1> DEFINE x == Bytes(b, c)
           y == Bytes(c, e)
           z == Bytes(b, e)
<1>1. x \in Seq(Nat) /\ Len(x) = c - b /\ \A i \in 1..(c - b) : x[i] = b + i - 1
  BY BytesPiece
<1>2. y \in Seq(Nat) /\ Len(y) = e - c /\ \A i \in 1..(e - c) : y[i] = c + i - 1
  BY BytesPiece
<1>3. z \in Seq(Nat) /\ Len(z) = e - b /\ \A i \in 1..(e - b) : z[i] = b + i - 1
  BY BytesPiece
<1> HIDE DEF x, y, z
<1>4. /\ x \o y \in Seq(Nat) /\ Len(x \o y) = Len(x) + Len(y)
      /\ \A i \in 1..(Len(x) + Len(y)) :
            (x \o y)[i] = IF i <= Len(x) THEN x[i] ELSE y[i - Len(x)]
  BY <1>1, <1>2, ConcatProperties
<1>5. Len(x \o y) = Len(z) /\ Len(z) = e - b /\ Len(x) = c - b /\ Len(x) + Len(y) = e - b
  BY <1>1, <1>2, <1>3, <1>4
<1>6. ASSUME NEW i \in 1..Len(z) PROVE (x \o y)[i] = z[i]
  <2>1. i \in 1..(e - b) /\ i \in 1..(Len(x) + Len(y)) /\ z[i] = b + i - 1
    BY <1>3, <1>5, <1>6
  <2>2. CASE i <= Len(x)
    <3>1. (x \o y)[i] = x[i]  BY <1>4, <2>1, <2>2
    <3>2. i \in 1..(c - b)  BY <1>5, <2>1, <2>2
    <3> QED  BY <1>1, <2>1, <3>1, <3>2
  <2>3. CASE ~(i <= Len(x))
    <3>1. (x \o y)[i] = y[i - Len(x)]  BY <1>4, <2>1, <2>3
    <3>2. i - Len(x) \in 1..(e - c) /\ c + (i - Len(x)) - 1 = b + i - 1
      BY <1>5, <2>1, <2>3
    <3>3. y[i - Len(x)] = c + (i - Len(x)) - 1  BY <1>2, <3>2
    <3> QED  BY <2>1, <3>1, <3>2, <3>3
  <2> QED  BY <2>2, <2>3
<1>7. x \o y = z  BY <1>3, <1>4, <1>5, <1>6, SeqEqual
<1> QED  BY <1>7 DEF x, y, z

-----------------------------------------------------------------------------
(* Packets *)

\* What is known of a packet: its numbers, and that it is empty when it ends where it begins.
LEMMA PacketFacts ==
    ASSUME NEW x \in Packets
    PROVE  /\ x.seq \in Nat /\ x.ready \in BOOLEAN /\ x.data \in Seq(Nat)
           /\ End(x) \in Nat /\ Len(x.data) = End(x) - x.seq /\ x.seq <= End(x)
           /\ x.data # <<>> <=> x.seq < End(x)
<1>1. x.seq \in Nat /\ x.ready \in BOOLEAN /\ x.data \in Seq(Nat)  BY DEF Packets
<1>2. Len(x.data) \in Nat  BY <1>1, LenProperties
<1>3. x.data = <<>> <=> Len(x.data) = 0  BY <1>1, EmptySeq
<1> QED  BY <1>1, <1>2, <1>3 DEF End

\* A packet that holds a piece of the stream is whole.
LEMMA PieceIsWhole ==
    ASSUME NEW b \in Nat, NEW e \in Nat, b < e, e <= Total,
           NEW x, x.seq = b, x.data = Bytes(b, e), x.ready \in BOOLEAN,
           x = [seq |-> x.seq, data |-> x.data, ready |-> x.ready]
    PROVE  x \in Packets /\ End(x) = e /\ Whole(x)
<1>1. Bytes(b, e) \in Seq(Nat) /\ Len(Bytes(b, e)) = e - b
  <2>1. b <= e  OBVIOUS
  <2> QED  BY <2>1, BytesPiece
<1>2. x \in Packets  BY <1>1 DEF Packets
<1>3. End(x) = e
  <2>1. Len(x.data) = e - b  BY <1>1
  <2> QED  BY <2>1 DEF End
<1>4. x.data # <<>>  BY <1>2, <1>3, PacketFacts
<1> QED  BY <1>2, <1>3, <1>4 DEF Whole

\* What is cut off at the end of a packet
LEMMA TrimProperties ==
    ASSUME NEW x \in Packets, Whole(x), NEW s \in Nat, x.seq < s
    PROVE  /\ Trim(x, s) \in Packets /\ Whole(Trim(x, s))
           /\ Trim(x, s).seq = x.seq /\ Trim(x, s).ready = x.ready
           /\ End(Trim(x, s)) = Min2(End(x), s)
<1>1. /\ x.seq \in Nat /\ x.ready \in BOOLEAN /\ End(x) \in Nat
      /\ x.data = Bytes(x.seq, End(x)) /\ End(x) <= Total
  BY PacketFacts DEF Whole
<1>2. CASE End(x) <= s
  <2>1. Trim(x, s) = x  BY Zenon, <1>2 DEF Trim
  <2>2. Min2(End(x), s) = End(x)  BY <1>1, <1>2 DEF Min2
  <2> QED  BY <2>1, <2>2
<1>3. CASE ~(End(x) <= s)
  <2> DEFINE e == End(x)
             t == Trim(x, s)
  <2>1. t = [x EXCEPT !.data = SubSeq(@, 1, s - x.seq)]  BY <1>3 DEF Trim
  <2>2. SubSeq(x.data, 1, s - x.seq) = Bytes(x.seq, s)
    <3> DEFINE b == x.seq
               n == s - x.seq
    <3>1. b \in Nat /\ e \in Nat /\ 1 \in 1..(e - b + 1) /\ n \in (1 - 1)..(e - b)
      BY <1>1, <1>3
    <3>2. b + 1 - 1 = b /\ b + n = s  BY <1>1
    <3>3. x.data = Bytes(b, e)  BY <1>1
    <3> HIDE DEF b, e, n
    <3>4. SubSeq(Bytes(b, e), 1, n) = Bytes(b + 1 - 1, b + n)  BY <3>1, BytesPart
    <3>5. SubSeq(x.data, 1, n) = Bytes(b, s)  BY <3>2, <3>3, <3>4
    <3> QED  BY <3>5 DEF b, n
  <2>3. t = [seq |-> x.seq, data |-> Bytes(x.seq, s), ready |-> x.ready]
    BY <2>1, <2>2 DEF Packets
  <2>6. /\ t.seq = x.seq /\ t.data = Bytes(x.seq, s) /\ t.ready = x.ready
        /\ t = [seq |-> t.seq, data |-> t.data, ready |-> t.ready]
    BY <2>3
  <2> HIDE DEF t
  <2>4. s <= Total /\ Min2(End(x), s) = s  BY <1>1, <1>3, ReceiverAssumption DEF Min2
  <2>5. t \in Packets /\ t.seq = x.seq /\ End(t) = s /\ t.ready = x.ready /\ Whole(t)
    BY <1>1, <2>4, <2>6, PieceIsWhole
  <2> QED  BY <2>4, <2>5 DEF t
<1> QED  BY <1>2, <1>3

\* The packets of a list that follow on each other from d are one piece.
LEMMA DataIsPiece ==
    ASSUME NEW q \in Seq(Packets), NEW d \in Nat,
           \A i \in DOMAIN q : Whole(q[i]) /\ q[i].seq = Before(q, d, i) /\ d <= q[i].seq
    PROVE  Data(q) = IF q = <<>> THEN <<>> ELSE Bytes(d, End(q[Len(q)]))
<1> DEFINE s == [i \in DOMAIN q |-> q[i].data]
           f == [i \in DOMAIN q |-> Bytes(d, End(q[i]))]
<1>1. Len(q) \in Nat /\ DOMAIN q = 1..Len(q) /\ \A i \in DOMAIN q : q[i] \in Packets
  BY LenProperties, ElementOfSeq
<1>2. s \in Seq(Seq(Nat)) /\ Len(s) = Len(q)
  <2>1. \A i \in 1..Len(q) : q[i].data \in Seq(Nat)  BY <1>1, PacketFacts
  <2>2. s \in Seq(Seq(Nat))  BY <1>1, <2>1, IsASeq
  <2>3. DOMAIN s = 1..Len(q)  BY <1>1
  <2> HIDE DEF s
  <2> QED  BY <1>1, <2>2, <2>3, LenProperties
<1>3. Data(q) = FlattenSeq(s)  BY DEF Data
<1>4. q = <<>> <=> Len(q) = 0  BY EmptySeq
<1>5. CASE q = <<>>
  <2>1. s = <<>>
    <3> HIDE DEF s
    <3> QED  BY <1>2, <1>4, <1>5, EmptySeq
  <2>2. FlattenSeq(s) = <<>>
    <3>1. Len(s) = 0  BY <1>2, <1>4, <1>5
    <3> HIDE DEF s
    <3> QED  BY <2>1, <3>1 DEF FlattenSeq
  <2> QED  BY <1>3, <1>5, <2>2
<1>6. CASE q # <<>>
  <2>1. ASSUME NEW i \in 1..Len(s) PROVE f[i] = IF i = 1 THEN s[i] ELSE f[i - 1] \o s[i]
    <3>1. /\ i \in DOMAIN q /\ q[i] \in Packets /\ q[i].seq = Before(q, d, i) /\ d <= q[i].seq
          /\ s[i] = Bytes(q[i].seq, End(q[i])) /\ f[i] = Bytes(d, End(q[i]))
      BY <1>1, <1>2 DEF Whole
    <3>2. CASE i = 1
      BY <3>1, <3>2 DEF Before
    <3>3. CASE i # 1
      <4>1. i - 1 \in DOMAIN q /\ f[i - 1] = Bytes(d, End(q[i - 1]))  BY <1>1, <3>1, <3>3
      <4>2. q[i].seq = End(q[i - 1])  BY <3>1, <3>3 DEF Before
      <4>3. /\ q[i].seq \in Nat /\ End(q[i]) \in Nat
            /\ d <= q[i].seq /\ q[i].seq <= End(q[i])
        BY <3>1, PacketFacts
      <4>4. Bytes(d, q[i].seq) \o Bytes(q[i].seq, End(q[i])) = Bytes(d, End(q[i]))
        BY <4>3, BytesJoin
      <4> QED  BY <3>1, <3>3, <4>1, <4>2, <4>4
    <3> QED  BY <3>2, <3>3
  <2>2. f = [i \in 1..Len(s) |-> IF i = 1 THEN s[i] ELSE f[i - 1] \o s[i]]
    <3>1. f = [i \in 1..Len(s) |-> f[i]]  BY <1>1, <1>2
    <3> HIDE DEF f, s
    <3> QED  BY <2>1, <3>1
  <2>3. Len(s) \in Nat /\ Len(s) # 0  BY <1>1, <1>2, <1>4, <1>6
  <2>4. f[Len(s)] = Bytes(d, End(q[Len(q)]))  BY <1>1, <1>2, <2>3
  <2>5. FlattenSeq(s) = f[Len(s)]
    <3> HIDE DEF f, s
    <3> QED  BY <2>2, <2>3, FlattenIs
  <2> QED  BY <1>3, <1>6, <2>4, <2>5
<1> QED  BY <1>5, <1>6

-----------------------------------------------------------------------------
(* A segment as it is queued *)

\* The segments of the peer are pieces of its stream; its FIN comes at the end, and
\* only when the window it knows has room for all.
LEMMA SegmentFacts ==
    ASSUME NEW s \in PeerSegments, peer.edge \in Nat
    PROVE  /\ s.seq \in Nat /\ s.fin \in BOOLEAN /\ End(s) \in Nat /\ s.seq <= End(s)
           /\ s.data = Bytes(s.seq, End(s)) /\ End(s) <= Total
           /\ s.data # <<>> <=> s.seq < End(s)
           /\ s.fin => End(s) = Total /\ Total <= peer.edge
<1>1. PICK b \in 0..Total, e \in 0..Total, f \in BOOLEAN :
         s = Segment(b, e, f) /\ b <= e /\ (f => e = Total /\ Total <= peer.edge)
  BY ReceiverAssumption DEF PeerSegments
<1>2. b \in Nat /\ e \in Nat /\ e <= Total  BY ReceiverAssumption
<1>3. Bytes(b, e) \in Seq(Nat) /\ Len(Bytes(b, e)) = e - b  BY <1>1, <1>2, BytesPiece
<1>4. s.seq = b /\ s.data = Bytes(b, e) /\ s.fin = f  BY <1>1 DEF Segment
<1>5. End(s) = e  BY <1>2, <1>3, <1>4 DEF End
<1>6. s.data = <<>> <=> Len(s.data) = 0  BY <1>3, <1>4, EmptySeq
<1> QED  BY <1>1, <1>2, <1>3, <1>4, <1>5, <1>6

\* What is queued of a segment in the window: the piece that is inside of it.
LEMMA TrimmedProperties ==
    ASSUME NEW s \in PeerSegments, peer.edge \in Nat, rcv \in Windows,
           s.data # <<>>, InWindow(s)
    PROVE  /\ Trimmed(s) \in Packets /\ Whole(Trimmed(s)) /\ ~Trimmed(s).ready
           /\ Trimmed(s).seq = Max2(s.seq, rcv.seq)
           /\ End(Trimmed(s)) = Min2(End(s), rcv.seq + rcv.win)
<1> DEFINE a == [seq |-> s.seq, data |-> s.data, ready |-> FALSE]
           p == TrimFront(a, rcv.seq)
<1>1. /\ s.seq \in Nat /\ End(s) \in Nat /\ s.data = Bytes(s.seq, End(s)) /\ End(s) <= Total
      /\ s.seq < End(s)
  BY SegmentFacts
<1>2. /\ rcv.seq \in Nat /\ rcv.win \in Nat /\ rcv.sent \in Nat  BY DEF Windows
<1>3. s.seq < rcv.seq + rcv.win /\ End(s) > rcv.seq /\ rcv.win > 0
  <2>1. /\ ReceiveWindow > 0 /\ s.seq < rcv.seq + ReceiveWindow /\ End(s) > rcv.seq
    BY Zenon DEF InWindow
  <2>2. ReceiveWindow = rcv.win \/ ReceiveWindow = Min2(rcv.win, rcv.sent)
    BY Zenon DEF ReceiveWindow
  <2>3. ReceiveWindow \in Nat /\ ReceiveWindow <= rcv.win  BY <1>2, <2>2 DEF Min2
  <2> QED  BY <1>1, <1>2, <2>1, <2>3
<1>4. a \in Packets /\ a.seq = s.seq /\ End(a) = End(s) /\ a.ready = FALSE /\ Whole(a)
  <2>1. /\ a.seq = s.seq /\ a.data = Bytes(s.seq, End(s)) /\ a.ready = FALSE
        /\ a.ready \in BOOLEAN /\ a = [seq |-> a.seq, data |-> a.data, ready |-> a.ready]
    BY <1>1
  <2> HIDE DEF a
  <2>2. a \in Packets /\ End(a) = End(s) /\ Whole(a)  BY <1>1, <2>1, PieceIsWhole
  <2> QED  BY <2>1, <2>2
<1>5. /\ p \in Packets /\ Whole(p) /\ p.ready = FALSE
      /\ p.seq = Max2(s.seq, rcv.seq) /\ End(p) = End(s)
  <2>1. CASE s.seq >= rcv.seq
    <3>1. p = a
      <4> HIDE DEF a
      <4> QED  BY Zenon, <1>4, <2>1 DEF TrimFront
    <3>2. Max2(s.seq, rcv.seq) = s.seq  BY <1>1, <1>2, <2>1 DEF Max2
    <3> HIDE DEF a, p
    <3> QED  BY <1>4, <3>1, <3>2
  <2>2. CASE ~(s.seq >= rcv.seq)
    <3>1. p = [seq |-> rcv.seq, data |-> SubSeq(s.data, rcv.seq - s.seq + 1, Len(s.data)),
               ready |-> FALSE]
      BY <2>2 DEF TrimFront
    <3>2. SubSeq(s.data, rcv.seq - s.seq + 1, Len(s.data)) = Bytes(rcv.seq, End(s))
      <4> DEFINE b == s.seq
                 e == End(s)
                 m == rcv.seq - s.seq + 1
                 n == Len(s.data)
      <4>1. n = e - b
        <5>1. Len(Bytes(b, e)) = e - b
          <6>1. b \in Nat /\ e \in Nat /\ b <= e  BY <1>1
          <6> HIDE DEF b, e
          <6> QED  BY <6>1, BytesPiece
        <5> QED  BY <1>1, <5>1
      <4>2. b \in Nat /\ e \in Nat /\ m \in 1..(e - b + 1) /\ n \in (m - 1)..(e - b)
        BY <1>1, <1>2, <1>3, <2>2, <4>1
      <4>3. b + m - 1 = rcv.seq /\ b + n = e  BY <1>1, <1>2, <4>1
      <4>4. s.data = Bytes(b, e)  BY <1>1
      <4> HIDE DEF b, e, m, n
      <4>5. SubSeq(Bytes(b, e), m, n) = Bytes(b + m - 1, b + n)  BY <4>2, BytesPart
      <4>6. SubSeq(s.data, m, n) = Bytes(rcv.seq, e)  BY <4>3, <4>4, <4>5
      <4> QED  BY <4>6 DEF e, m, n
    <3>3. Max2(s.seq, rcv.seq) = rcv.seq  BY <1>1, <1>2, <2>2 DEF Max2
    <3> HIDE DEF p
    <3>4. /\ p.seq = rcv.seq /\ p.data = Bytes(rcv.seq, End(s)) /\ p.ready = FALSE
          /\ p.ready \in BOOLEAN /\ p = [seq |-> p.seq, data |-> p.data, ready |-> p.ready]
      BY <3>1, <3>2
    <3>5. p \in Packets /\ End(p) = End(s) /\ Whole(p)
      BY <1>1, <1>2, <1>3, <3>4, PieceIsWhole
    <3> QED  BY <3>3, <3>4, <3>5
  <2> QED  BY <2>1, <2>2
<1>6. Trimmed(s) = Trim(p, rcv.seq + rcv.win)  BY DEF Trimmed
<1>7. rcv.seq + rcv.win \in Nat /\ p.seq < rcv.seq + rcv.win
  <2>1. p.seq = s.seq \/ p.seq = rcv.seq
    <3> HIDE DEF p
    <3> QED  BY Zenon, <1>5 DEF Max2
  <2> HIDE DEF p
  <2> QED  BY <1>2, <1>3, <2>1
<1> HIDE DEF p
<1>8. /\ Trim(p, rcv.seq + rcv.win) \in Packets /\ Whole(Trim(p, rcv.seq + rcv.win))
      /\ Trim(p, rcv.seq + rcv.win).seq = p.seq
      /\ Trim(p, rcv.seq + rcv.win).ready = p.ready
      /\ End(Trim(p, rcv.seq + rcv.win)) = Min2(End(p), rcv.seq + rcv.win)
  BY <1>5, <1>7, TrimProperties
<1> QED  BY <1>5, <1>6, <1>8

-----------------------------------------------------------------------------
(* The insertion *)

\* The numbers of the packets in a queue
LEMMA QueueNumbers ==
    ASSUME NEW q \in Seq(Packets)
    PROVE  /\ Len(q) \in Nat /\ DOMAIN q = 1..Len(q)
           /\ \A i \in 1..Len(q) :
                 /\ q[i] \in Packets /\ q[i].seq \in Nat /\ End(q[i]) \in Nat
                 /\ q[i].ready \in BOOLEAN
                 /\ Whole(q[i]) => q[i].seq < End(q[i])
<1>1. Len(q) \in Nat /\ DOMAIN q = 1..Len(q)  BY LenProperties
<1>2. \A i \in 1..Len(q) : q[i] \in Packets  BY ElementOfSeq, <1>1
<1> QED  BY <1>1, <1>2, PacketFacts DEF Whole

\* The walk stops at the first of the places, if there is one.
LEMMA StopProperties ==
    ASSUME queue \in Seq(Packets), NEW P, P \subseteq DOMAIN queue
    PROVE  /\ Stop(P) \in 1..(Len(queue) + 1)
           /\ Stop(P) <= Len(queue) => Stop(P) \in P
           /\ \A j \in P : Stop(P) <= j
<1>1. Len(queue) \in Nat /\ P \subseteq 1..Len(queue)  BY QueueNumbers
<1>2. \E i \in P \cup {Len(queue) + 1} : \A j \in P : i <= j
  <2>1. CASE P = {}
    BY <2>1
  <2>2. CASE P # {}
    <3>1. P \subseteq Nat  BY <1>1
    <3> QED  BY <2>2, <3>1, FirstExists
  <2> QED  BY <2>1, <2>2
<1>3. Stop(P) \in P \cup {Len(queue) + 1} /\ \A j \in P : Stop(P) <= j
  BY Zenon, <1>2 DEF Stop
<1>4. Len(queue) + 1 \in 1..(Len(queue) + 1) /\ ~(Len(queue) + 1 <= Len(queue))  BY <1>1
<1> QED  BY <1>1, <1>3, <1>4

\* The walk for p: the first at - 1 packets begin before p, those from at up to next
\* are covered by it, and the one at next reaches beyond it.
LEMMA InsertedProperties ==
    ASSUME queue \in Seq(Packets), NEW d \in Nat, NEW e \in Nat, Apart(queue, d, e),
           NEW p \in Packets, Whole(p), ~Covered(p)
    PROVE  \E at \in 1..(Len(queue) + 1), next \in 1..(Len(queue) + 1), x \in Packets :
             /\ at <= next
             /\ \A i \in 1..Len(queue) : /\ i < at => queue[i].seq < p.seq
                                         /\ at <= i => p.seq <= queue[i].seq
             /\ Whole(x) /\ x.seq = p.seq /\ x.ready = p.ready /\ End(x) <= End(p)
             /\ \A i \in next..Len(queue) : End(x) <= queue[i].seq
             /\ Inserted(p) \in Seq(Packets)
             /\ Len(Inserted(p)) = at + Len(queue) - next + 1
             /\ \A i \in 1..(at - 1) : Inserted(p)[i] = Trim(queue[i], p.seq)
             /\ Inserted(p)[at] = x
             /\ \A i \in (at + 1)..(at + Len(queue) - next + 1) :
                   Inserted(p)[i] = queue[i + next - at - 1]
<1> DEFINE n == Len(queue)
           A == {i \in DOMAIN queue : queue[i].seq >= p.seq}
           at == Stop(A)
           B == {i \in DOMAIN queue : i >= at /\ End(queue[i]) > End(p)}
           next == Stop(B)
           x == IF next > Len(queue) THEN p ELSE Trim(p, queue[next].seq)
           front == [i \in 1..(at - 1) |-> Trim(queue[i], p.seq)]
           back == SubSeq(queue, next, n)
<1>1. /\ n \in Nat /\ DOMAIN queue = 1..n
      /\ \A i \in 1..n : /\ queue[i] \in Packets /\ queue[i].seq \in Nat
                         /\ End(queue[i]) \in Nat /\ Whole(queue[i])
                         /\ queue[i].seq < End(queue[i])
      /\ p.seq \in Nat /\ End(p) \in Nat /\ p.seq < End(p)
  BY QueueNumbers, PacketFacts DEF Apart, Whole
<1>2. \A i, j \in 1..n : i < j => End(queue[i]) <= queue[j].seq
  BY <1>1 DEF Apart
<1>3. at \in 1..(n + 1) /\ (at <= n => at \in A) /\ \A j \in A : at <= j
  <2> HIDE DEF A
  <2>1. A \subseteq DOMAIN queue  BY DEF A
  <2> QED  BY <2>1, StopProperties
<1> HIDE DEF at
<1>4. next \in 1..(n + 1) /\ (next <= n => next \in B) /\ \A j \in B : next <= j
  <2> HIDE DEF B
  <2>1. B \subseteq DOMAIN queue  BY DEF B
  <2> QED  BY <2>1, StopProperties
<1> HIDE DEF next
<1>5. at <= next  BY <1>1, <1>3, <1>4
<1>6. ASSUME NEW i \in 1..n
      PROVE  (i < at => queue[i].seq < p.seq) /\ (at <= i => p.seq <= queue[i].seq)
  <2>1. CASE i < at
    <3>1. i \notin A  BY <1>1, <1>3, <2>1
    <3> QED  BY <1>1, <1>3, <2>1, <3>1
  <2>2. CASE ~(i < at)
    <3>1. at \in 1..n /\ p.seq <= queue[at].seq  BY <1>1, <1>3, <2>2
    <3>2. CASE i = at
      BY <2>2, <3>1, <3>2
    <3>3. CASE i # at
      <4>1. at < i  BY <1>3, <2>2, <3>3
      <4>2. End(queue[at]) <= queue[i].seq /\ queue[at].seq < End(queue[at])
        BY <1>1, <1>2, <3>1, <4>1
      <4>3. /\ queue[at].seq \in Nat /\ End(queue[at]) \in Nat
            /\ queue[i].seq \in Nat /\ p.seq \in Nat
        BY <1>1, <3>1
      <4>4. p.seq <= queue[i].seq  BY <3>1, <4>2, <4>3
      <4> QED  BY <2>2, <4>4
    <3> QED  BY <3>2, <3>3
  <2> QED  BY <2>1, <2>2
<1>7. next <= n => p.seq < queue[next].seq
  <2> SUFFICES ASSUME next <= n PROVE p.seq < queue[next].seq  OBVIOUS
  <2>1. next \in 1..n /\ End(p) < End(queue[next])  BY <1>1, <1>4
  <2>2. p.seq <= queue[next].seq  BY <1>3, <1>5, <1>6, <2>1
  <2>3. p.seq # queue[next].seq
    <3>1. queue[next] \in Range(queue)  BY <1>1, <2>1 DEF Range
    <3>2. End(p) <= End(queue[next])  BY <1>1, <2>1
    <3>3. ~(queue[next].seq <= p.seq)  BY Zenon, <3>1, <3>2 DEF Covered
    <3> QED  BY <1>1, <2>1, <3>3
  <2> QED  BY <1>1, <2>1, <2>2, <2>3
<1>8. /\ x \in Packets /\ Whole(x) /\ x.seq = p.seq /\ x.ready = p.ready /\ End(x) <= End(p)
      /\ next <= n => End(x) <= queue[next].seq
  <2>1. CASE next > n
    <3>1. x = p  BY <2>1
    <3>2. ~(next <= n)  BY <1>1, <1>4, <2>1
    <3> QED  BY <1>1, <3>1, <3>2
  <2>2. CASE ~(next > n)
    <3> DEFINE s == queue[next].seq
    <3>1. next \in 1..n /\ s \in Nat /\ p.seq < s  BY <1>1, <1>4, <1>7, <2>2
    <3>2. x = Trim(p, s)  BY <2>2
    <3> HIDE DEF s, x
    <3>3. /\ Trim(p, s) \in Packets /\ Whole(Trim(p, s))
          /\ Trim(p, s).seq = p.seq /\ Trim(p, s).ready = p.ready
          /\ End(Trim(p, s)) = Min2(End(p), s)
      BY <3>1, TrimProperties
    <3>4. Min2(End(p), s) <= End(p) /\ Min2(End(p), s) <= s  BY <1>1, <3>1 DEF Min2
    <3>5. End(x) <= End(p) /\ End(x) <= s  BY <3>2, <3>3, <3>4
    <3>6. /\ x \in Packets /\ Whole(x) /\ x.seq = p.seq /\ x.ready = p.ready
      BY <3>2, <3>3
    <3> QED  BY <3>5, <3>6 DEF s
  <2> QED  BY <2>1, <2>2
<1> HIDE DEF x
<1>9. ASSUME NEW i \in next..n PROVE End(x) <= queue[i].seq
  <2>1. next \in 1..n /\ i \in 1..n /\ End(x) <= queue[next].seq /\ End(x) \in Nat
    BY <1>1, <1>4, <1>8, <1>9, PacketFacts
  <2>2. CASE i = next
    BY <2>1, <2>2
  <2>3. CASE i # next
    <3>1. End(queue[next]) <= queue[i].seq /\ queue[next].seq < End(queue[next])
      BY <1>1, <1>2, <1>9, <2>1, <2>3
    <3> QED  BY <1>1, <2>1, <3>1
  <2> QED  BY <2>2, <2>3
<1>10. front \in Seq(Packets) /\ Len(front) = at - 1
       /\ \A i \in 1..(at - 1) : front[i] = Trim(queue[i], p.seq)
  <2>1. at - 1 \in Nat  BY <1>1, <1>3
  <2>2. \A i \in 1..(at - 1) : Trim(queue[i], p.seq) \in Packets
    <3> SUFFICES ASSUME NEW i \in 1..(at - 1) PROVE Trim(queue[i], p.seq) \in Packets
      OBVIOUS
    <3>1. i \in 1..n /\ i < at  BY <1>1, <1>3
    <3>2. queue[i] \in Packets /\ Whole(queue[i]) /\ queue[i].seq < p.seq /\ p.seq \in Nat
      BY <1>1, <1>6, <3>1
    <3> QED  BY <3>2, TrimProperties
  <2>3. front \in Seq(Packets)  BY <2>1, <2>2, IsASeq
  <2>4. DOMAIN front = 1..(at - 1)  OBVIOUS
  <2>5. \A i \in 1..(at - 1) : front[i] = Trim(queue[i], p.seq)  OBVIOUS
  <2> HIDE DEF front
  <2> QED  BY <2>1, <2>3, <2>4, <2>5, LenProperties
<1>11. back \in Seq(Packets) /\ Len(back) = n - next + 1
       /\ \A i \in 1..(n - next + 1) : back[i] = queue[next + i - 1]
  <2>1. \A k \in next..n : queue[k] \in Packets  BY <1>1, <1>4
  <2>2. n \in Int /\ next \in Int  BY <1>1, <1>4
  <2>3. /\ back \in Seq(Packets)
        /\ Len(back) = IF next <= n THEN n - next + 1 ELSE 0
        /\ \A i \in 1..(n - next + 1) : back[i] = queue[next + i - 1]
    <3> HIDE DEF n
    <3> QED  BY <2>1, <2>2, SubSeqProperties
  <2> HIDE DEF back
  <2>4. Len(back) = n - next + 1  BY <1>1, <1>4, <2>3
  <2> QED  BY <2>3, <2>4
<1>12. Inserted(p) = front \o <<x>> \o back
  BY DEF Inserted, x, at, next
<1> HIDE DEF front, back
<1> DEFINE ahead == front \o <<x>>
<1>13. ahead \in Seq(Packets) /\ Len(ahead) = at
       /\ \A i \in 1..at : ahead[i] = IF i = at THEN x ELSE front[i]
  <2>1. <<x>> \in Seq(Packets) /\ Len(<<x>>) = 1 /\ <<x>>[1] = x  BY <1>8
  <2> DEFINE one == <<x>>
  <2>2. one \in Seq(Packets) /\ Len(one) = 1 /\ one[1] = x  BY <2>1
  <2> HIDE DEF one
  <2>3. /\ front \o one \in Seq(Packets) /\ Len(front \o one) = Len(front) + Len(one)
        /\ \A i \in 1..(Len(front) + Len(one)) :
              (front \o one)[i] = IF i <= Len(front) THEN front[i] ELSE one[i - Len(front)]
    BY <1>10, <2>2, ConcatProperties
  <2>4. Len(front \o one) = at  BY <1>3, <1>10, <2>2, <2>3
  <2>5. ASSUME NEW i \in 1..at PROVE (front \o one)[i] = IF i = at THEN x ELSE front[i]
    <3>1. i \in 1..(Len(front) + Len(one))  BY <1>3, <1>10, <2>2
    <3>2. CASE i = at
      <4>1. ~(i <= Len(front)) /\ i - Len(front) = 1  BY <1>3, <1>10, <3>2
      <4> QED  BY <2>2, <2>3, <3>1, <3>2, <4>1
    <3>3. CASE i # at
      <4>1. i <= Len(front)  BY <1>3, <1>10, <3>3
      <4> QED  BY <2>3, <3>1, <3>3, <4>1
    <3> QED  BY <3>2, <3>3
  <2> QED  BY <2>3, <2>4, <2>5 DEF one
<1> HIDE DEF ahead
<1>14. /\ ahead \o back \in Seq(Packets) /\ Len(ahead \o back) = Len(ahead) + Len(back)
       /\ \A i \in 1..(Len(ahead) + Len(back)) :
             (ahead \o back)[i] = IF i <= Len(ahead) THEN ahead[i] ELSE back[i - Len(ahead)]
  BY <1>11, <1>13, ConcatProperties
<1>15. Inserted(p) = ahead \o back  BY <1>12 DEF ahead
<1>16. Len(ahead \o back) = at + n - next + 1  BY <1>1, <1>3, <1>4, <1>11, <1>13, <1>14
<1>17. ASSUME NEW i \in 1..(at - 1) PROVE (ahead \o back)[i] = Trim(queue[i], p.seq)
  <2>1. /\ i \in 1..(Len(ahead) + Len(back)) /\ i <= Len(ahead) /\ i \in 1..at /\ i # at
    BY <1>1, <1>3, <1>4, <1>11, <1>13, SMTT(30)
  <2> QED  BY <1>10, <1>13, <1>14, <2>1
<1>18. (ahead \o back)[at] = x
  <2>1. at \in 1..(Len(ahead) + Len(back)) /\ at <= Len(ahead) /\ at \in 1..at
    BY <1>1, <1>3, <1>4, <1>11, <1>13
  <2> QED  BY <1>13, <1>14, <2>1
<1>19. ASSUME NEW i \in (at + 1)..(at + n - next + 1)
       PROVE  (ahead \o back)[i] = queue[i + next - at - 1]
  <2>1. /\ i \in 1..(Len(ahead) + Len(back)) /\ ~(i <= Len(ahead))
        /\ i - Len(ahead) = i - at /\ i - at \in 1..(n - next + 1)
        /\ next + (i - at) - 1 = i + next - at - 1
    BY <1>1, <1>3, <1>4, <1>11, <1>13
  <2>2. (ahead \o back)[i] = back[i - at]  BY <1>14, <2>1
  <2>3. back[i - at] = queue[next + (i - at) - 1]  BY <1>11, <2>1
  <2> QED  BY <2>1, <2>2, <2>3
<1>20. at \in 1..(Len(queue) + 1) /\ next \in 1..(Len(queue) + 1)  BY <1>3, <1>4
<1>21. x \in Packets  BY <1>8
<1> USE <1>20, <1>21
<1> WITNESS at \in 1..(Len(queue) + 1), next \in 1..(Len(queue) + 1), x \in Packets
<1> QED
  BY Zenon, <1>5, <1>6, <1>8, <1>9, <1>14, <1>15, <1>16, <1>17, <1>18, <1>19

\* With p inserted the queue is in order, except that p may begin at rx_sequence: it
\* then follows on what is READY.
LEMMA InsertedOrder ==
    ASSUME queue \in Seq(Packets), NEW d \in Nat, NEW r \in Nat, NEW e \in Nat,
           d <= r, r <= Total, InOrder(queue, d, r, e),
           NEW p \in Packets, Whole(p), ~p.ready, r <= p.seq, End(p) <= e, ~Covered(p)
    PROVE  /\ Inserted(p) \in Seq(Packets) /\ Inserted(p) # <<>>
           /\ Apart(Inserted(p), d, e) /\ ReadyUpTo(Inserted(p), d, r)
           /\ \A i \in DOMAIN Inserted(p) : ~Inserted(p)[i].ready =>
                 \/ r < Inserted(p)[i].seq
                 \/ Inserted(p)[i].seq = r /\ Before(Inserted(p), d, i) = r
<1> DEFINE n == Len(queue)
           q == Inserted(p)
<1>1. /\ n \in Nat /\ DOMAIN queue = 1..n
      /\ \A i \in 1..n : /\ queue[i] \in Packets /\ queue[i].seq \in Nat
                         /\ End(queue[i]) \in Nat /\ Whole(queue[i])
                         /\ queue[i].ready \in BOOLEAN
                         /\ queue[i].seq < End(queue[i])
                         /\ d <= queue[i].seq /\ End(queue[i]) <= e
      /\ p.seq \in Nat /\ End(p) \in Nat /\ p.seq < End(p)
  BY QueueNumbers, PacketFacts DEF InOrder, Apart, Whole
<1>2. \A i, j \in 1..n : i < j => End(queue[i]) <= queue[j].seq
  BY <1>1 DEF InOrder, Apart
<1>3. \A i \in 1..n : /\ queue[i].ready = (End(queue[i]) <= r)
                      /\ queue[i].ready => queue[i].seq = Before(queue, d, i)
                      /\ ~queue[i].ready => queue[i].seq > r
  BY <1>1 DEF InOrder, ReadyUpTo, Gap
<1>4. d < r => \E k \in 1..n : End(queue[k]) = r
  <2>1. Min2(r, Total) = r  BY ReceiverAssumption DEF Min2
  <2> QED  BY <1>1, <2>1 DEF InOrder, ReadyUpTo
<1>5. PICK at \in 1..(n + 1), next \in 1..(n + 1), x \in Packets :
             /\ at <= next
             /\ \A i \in 1..n : /\ i < at => queue[i].seq < p.seq
                                /\ at <= i => p.seq <= queue[i].seq
             /\ Whole(x) /\ x.seq = p.seq /\ x.ready = p.ready /\ End(x) <= End(p)
             /\ \A i \in next..n : End(x) <= queue[i].seq
             /\ q \in Seq(Packets)
             /\ Len(q) = at + n - next + 1
             /\ \A i \in 1..(at - 1) : q[i] = Trim(queue[i], p.seq)
             /\ q[at] = x
             /\ \A i \in (at + 1)..(at + n - next + 1) : q[i] = queue[i + next - at - 1]
  <2>1. Apart(queue, d, e)  BY DEF InOrder
  <2> QED  BY <2>1, InsertedProperties
<1> DEFINE was(i) == i + next - at - 1
<1> HIDE DEF q
<1>6. /\ Len(q) \in Nat /\ DOMAIN q = 1..Len(q) /\ at \in 1..Len(q) /\ q # <<>>
      /\ Len(q) = at + n - next + 1
  <2>1. Len(q) \in Nat /\ DOMAIN q = 1..Len(q)  BY <1>5, QueueNumbers
  <2>2. Len(q) # 0 /\ at \in 1..Len(q)  BY <1>1, <1>5
  <2> QED  BY <1>5, <2>1, <2>2, EmptySeq
\* The packets ahead of p
<1>7. ASSUME NEW i \in 1..n, i < at
      PROVE  /\ i \in 1..Len(q) /\ Whole(q[i]) /\ q[i].seq = queue[i].seq /\ queue[i].seq < p.seq
             /\ q[i].ready = queue[i].ready /\ End(q[i]) \in Nat
             /\ End(q[i]) = Min2(End(queue[i]), p.seq)
             /\ End(q[i]) <= End(queue[i]) /\ End(q[i]) <= p.seq
  <2>1. i \in 1..(at - 1) /\ i \in 1..Len(q)  BY <1>1, <1>5, <1>6, <1>7
  <2>2. q[i] = Trim(queue[i], p.seq) /\ queue[i].seq < p.seq  BY <1>5, <1>7, <2>1
  <2>3. /\ Trim(queue[i], p.seq) \in Packets /\ Whole(Trim(queue[i], p.seq))
        /\ Trim(queue[i], p.seq).seq = queue[i].seq
        /\ Trim(queue[i], p.seq).ready = queue[i].ready
        /\ End(Trim(queue[i], p.seq)) = Min2(End(queue[i]), p.seq)
    BY <1>1, <2>2, TrimProperties
  <2>4. /\ Min2(End(queue[i]), p.seq) <= End(queue[i]) /\ Min2(End(queue[i]), p.seq) <= p.seq
        /\ Min2(End(queue[i]), p.seq) \in Nat
    BY <1>1 DEF Min2
  <2> QED  BY <2>1, <2>2, <2>3, <2>4
\* p itself
<1>8. /\ q[at] = x /\ Whole(x) /\ x.seq = p.seq /\ ~x.ready /\ End(x) \in Nat
      /\ End(x) <= End(p) /\ p.seq < End(x)
  <2>1. End(x) \in Nat /\ (Whole(x) => x.seq < End(x))  BY <1>5, PacketFacts DEF Whole
  <2> QED  BY <1>5, <2>1
\* The packets behind p
<1>9. ASSUME NEW i \in 1..Len(q), at < i
      PROVE  /\ was(i) \in 1..n /\ was(i) \in next..n /\ q[i] = queue[was(i)]
             /\ at <= was(i) /\ End(x) <= q[i].seq /\ p.seq < q[i].seq /\ r < q[i].seq
             /\ ~q[i].ready
  <2>1. was(i) \in 1..n /\ was(i) \in next..n /\ at <= was(i)
    <3>1. n \in Nat /\ i \in Nat /\ at < i /\ i <= at + n - next + 1  BY <1>1, <1>6, <1>9
    <3>2. at \in Nat /\ next \in Nat /\ 1 <= at /\ at <= next  BY <1>1, <1>5
    <3> QED  BY <3>1, <3>2
  <2>2. i \in (at + 1)..(at + n - next + 1)  BY <1>1, <1>5, <1>6, <1>9
  <2>3. q[i] = queue[was(i)]  BY <1>5, <2>2
  <2> HIDE DEF was
  <2>4. End(x) <= queue[was(i)].seq  BY <1>5, <2>1
  <2>5. queue[was(i)].seq \in Nat /\ queue[was(i)].seq < End(queue[was(i)])
        /\ End(queue[was(i)]) \in Nat
    BY <1>1, <2>1
  <2>6. r < queue[was(i)].seq /\ p.seq < queue[was(i)].seq
    <3>1. queue[was(i)].seq \in Nat /\ End(x) <= queue[was(i)].seq  BY <2>4, <2>5
    <3>2. End(x) \in Nat /\ p.seq < End(x)  BY <1>8
    <3>3. p.seq \in Nat  BY <1>1
    <3>4. p.seq < queue[was(i)].seq  BY <3>1, <3>2, <3>3
    <3> QED  BY <3>1, <3>3, <3>4
  <2>7. ~(End(queue[was(i)]) <= r)  BY <2>5, <2>6
  <2>8. ~queue[was(i)].ready  BY <1>3, <2>1, <2>7
  <2> QED  BY <2>1, <2>3, <2>4, <2>6, <2>8
<1>10. Apart(q, d, e)
  <2>1. ASSUME NEW i \in DOMAIN q PROVE Whole(q[i]) /\ q[i].seq >= d /\ End(q[i]) <= e
    <3>1. i \in 1..Len(q)  BY <1>6
    <3>2. CASE i < at
      <4>1. i \in 1..n  BY <1>1, <1>5, <3>1, <3>2
      <4> QED  BY <1>1, <1>7, <3>2, <4>1
    <3>3. CASE i = at
      BY <1>1, <1>8, <3>3
    <3>4. CASE at < i
      <4> HIDE DEF was
      <4> QED  BY <1>1, <1>9, <3>1, <3>4
    <3> QED  BY <1>5, <3>1, <3>2, <3>3, <3>4
  <2>2. ASSUME NEW i \in DOMAIN q, NEW j \in DOMAIN q, i < j
        PROVE  End(q[i]) <= q[j].seq
    <3>1. i \in 1..Len(q) /\ j \in 1..Len(q)  BY <1>6
    <3>2. CASE j < at
      <4>1. i \in 1..n /\ j \in 1..n /\ i < at  BY <1>1, <1>5, <2>2, <3>1, <3>2, SMTT(30)
      <4>2. End(q[i]) <= End(queue[i]) /\ End(q[i]) \in Nat /\ q[j].seq = queue[j].seq
        BY <1>7, <3>2, <4>1
      <4>3. End(queue[i]) <= queue[j].seq  BY <1>2, <2>2, <4>1
      <4> QED  BY <1>1, <4>1, <4>2, <4>3
    <3>3. CASE j = at
      <4>1. i \in 1..n /\ i < at  BY <1>1, <1>5, <2>2, <3>1, <3>3
      <4> QED  BY <1>7, <1>8, <3>3, <4>1
    <3>4. CASE at < j
      <4>1. /\ was(j) \in 1..n /\ q[j] = queue[was(j)] /\ at <= was(j) /\ End(x) <= q[j].seq
            /\ p.seq < q[j].seq
        BY <1>9, <3>1, <3>4
      <4>2. CASE i < at
        <5>1. i \in 1..n  BY <1>1, <1>5, <3>1, <4>2
        <5>2. End(q[i]) <= p.seq /\ End(q[i]) \in Nat  BY <1>7, <4>2, <5>1
        <5>3. q[j].seq \in Nat
          <6> HIDE DEF was
          <6> QED  BY <1>1, <4>1
        <5> QED  BY <1>1, <4>1, <5>2, <5>3
      <4>3. CASE i = at
        BY <1>8, <4>1, <4>3
      <4>4. CASE at < i
        <5>1. was(i) \in 1..n /\ q[i] = queue[was(i)]  BY <1>9, <3>1, <4>4
        <5>2. was(i) < was(j)  BY <1>1, <1>5, <2>2, <3>1
        <5> HIDE DEF was
        <5>3. End(queue[was(i)]) <= queue[was(j)].seq  BY <1>2, <4>1, <5>1, <5>2
        <5> QED  BY <4>1, <5>1, <5>3
      <4> QED  BY <1>5, <3>1, <4>2, <4>3, <4>4
    <3> QED  BY <1>5, <3>1, <3>2, <3>3, <3>4
  <2> QED  BY <2>1, <2>2 DEF Apart
<1>11. ASSUME NEW k \in 1..n, End(queue[k]) <= r
       PROVE  k < at /\ End(q[k]) = End(queue[k])
  <2>1. k < at
    <3> SUFFICES ASSUME ~(k < at) PROVE FALSE  OBVIOUS
    <3>1. p.seq <= queue[k].seq  BY <1>5
    <3>2. /\ queue[k].seq \in Nat /\ End(queue[k]) \in Nat /\ p.seq \in Nat
          /\ queue[k].seq < End(queue[k])
      BY <1>1
    <3> QED  BY <1>11, <3>1, <3>2
  <2>2. Min2(End(queue[k]), p.seq) = End(queue[k])
    <3>1. End(queue[k]) \in Nat /\ p.seq \in Nat  BY <1>1
    <3> QED  BY <1>11, <3>1 DEF Min2
  <2> QED  BY <1>7, <2>1, <2>2
<1>12. ReadyUpTo(q, d, r)
  <2>1. ASSUME NEW i \in DOMAIN q
        PROVE  /\ q[i].ready = (End(q[i]) <= r)
               /\ q[i].ready => q[i].seq = Before(q, d, i)
    <3>1. i \in 1..Len(q)  BY <1>6
    <3>2. CASE i < at
      <4>1. /\ i \in 1..n /\ q[i].seq = queue[i].seq /\ q[i].ready = queue[i].ready
            /\ End(q[i]) \in Nat /\ Whole(q[i])
        <5>1. i \in 1..n  BY <1>1, <1>5, <3>1, <3>2
        <5> QED  BY <1>7, <3>2, <5>1
      <4>2. CASE queue[i].ready
        <5>1. End(queue[i]) <= r /\ queue[i].seq = Before(queue, d, i)  BY <1>3, <4>1, <4>2
        <5>2. End(q[i]) <= r /\ q[i].ready  BY <1>11, <4>1, <4>2, <5>1
        <5>3. Before(q, d, i) = Before(queue, d, i)
          <6>1. CASE i = 1
            BY <6>1 DEF Before
          <6>2. CASE i # 1
            <7>1. i - 1 \in 1..n /\ i - 1 < i  BY <4>1, <6>2
            <7>2. End(queue[i - 1]) <= queue[i].seq  BY <1>2, <4>1, <7>1
            <7>3. /\ End(queue[i - 1]) \in Nat /\ queue[i].seq \in Nat /\ End(queue[i]) \in Nat
                  /\ queue[i].seq < End(queue[i])
              BY <1>1, <4>1, <7>1
            <7>4. End(queue[i - 1]) <= r  BY <5>1, <7>2, <7>3
            <7>5. End(q[i - 1]) = End(queue[i - 1])  BY <1>11, <7>1, <7>4
            <7> QED  BY <6>2, <7>5 DEF Before
          <6> QED  BY <6>1, <6>2
        <5> QED  BY <4>1, <5>1, <5>2, <5>3
      <4>3. CASE ~queue[i].ready
        <5>1. r < queue[i].seq /\ queue[i].seq \in Nat  BY <1>1, <1>3, <4>1, <4>3
        <5>2. q[i].seq < End(q[i])
          <6>1. q[i] \in Packets  BY <1>5, <1>6, <3>1, QueueNumbers
          <6> QED  BY <4>1, <6>1, PacketFacts DEF Whole
        <5>3. ~(End(q[i]) <= r) /\ ~q[i].ready  BY <4>1, <4>3, <5>1, <5>2
        <5>4. q[i].ready \in BOOLEAN  BY <1>1, <4>1
        <5> QED  BY <5>3, <5>4
      <4> QED  BY <1>1, <4>1, <4>2, <4>3
    <3>3. CASE i = at
      <4>1. ~(End(q[i]) <= r) /\ ~q[i].ready  BY <1>1, <1>8, <3>3
      <4>2. q[i].ready \in BOOLEAN  BY <1>5, <1>6, <3>1, QueueNumbers
      <4> QED  BY <4>1, <4>2
    <3>4. CASE at < i
      <4>1. r < q[i].seq /\ ~q[i].ready  BY <1>9, <3>1, <3>4
      <4>2. q[i].ready \in BOOLEAN /\ q[i].seq \in Nat /\ End(q[i]) \in Nat /\ q[i].seq <= End(q[i])
        <5>1. q[i] \in Packets  BY <1>5, <1>6, <3>1, QueueNumbers
        <5> QED  BY <5>1, PacketFacts
      <4>3. ~(End(q[i]) <= r)  BY <4>1, <4>2
      <4> QED  BY <4>1, <4>2, <4>3
    <3> QED  BY <1>5, <3>1, <3>2, <3>3, <3>4
  <2>2. ASSUME Min2(r, Total) > d PROVE \E i \in DOMAIN q : End(q[i]) = Min2(r, Total)
    <3>1. Min2(r, Total) = r  BY ReceiverAssumption DEF Min2
    <3>2. PICK k \in 1..n : End(queue[k]) = r  BY <1>4, <2>2, <3>1
    <3>3. End(queue[k]) <= r  BY <3>2
    <3>4. k < at /\ End(q[k]) = r  BY <1>11, <3>2, <3>3
    <3>5. k \in DOMAIN q  BY <1>6, <1>7, <3>4
    <3> QED  BY <3>1, <3>4, <3>5
  <2> QED  BY <2>1, <2>2 DEF ReadyUpTo
<1>13. ASSUME NEW i \in DOMAIN q, ~q[i].ready
       PROVE  r < q[i].seq \/ (q[i].seq = r /\ Before(q, d, i) = r)
  <2>1. i \in 1..Len(q)  BY <1>6
  <2>2. CASE i < at
    <3>1. i \in 1..n  BY <1>1, <1>5, <2>1, <2>2
    <3>2. ~queue[i].ready /\ q[i].seq = queue[i].seq  BY <1>7, <1>13, <2>2, <3>1
    <3> QED  BY <1>3, <3>1, <3>2
  <2>3. CASE at < i
    BY <1>9, <2>1, <2>3
  <2>4. CASE i = at /\ r < p.seq
    BY <1>8, <2>4
  <2>5. CASE i = at /\ p.seq = r
    <3>1. q[i].seq = r  BY <1>8, <2>5
    <3>2. CASE d < r
      <4>1. PICK k \in 1..n : End(queue[k]) = r  BY <1>4, <3>2
      <4>2. k < at /\ End(q[k]) = r
        <5>1. End(queue[k]) <= r  BY <4>1
        <5> QED  BY <1>11, <4>1, <5>1
      <4>3. k = at - 1
        <5> SUFFICES ASSUME k # at - 1 PROVE FALSE  OBVIOUS
        <5>1. k + 1 \in 1..n /\ k < k + 1 /\ k + 1 < at  BY <1>1, <1>5, <4>2
        <5>2. End(queue[k]) <= queue[k + 1].seq  BY <1>2, <5>1
        <5>3. queue[k + 1].seq < p.seq  BY <1>5, <5>1
        <5>4. queue[k + 1].seq \in Nat  BY <1>1, <5>1
        <5> QED  BY <2>5, <4>1, <5>2, <5>3, <5>4
      <4>4. i - 1 = k /\ i # 1  BY <1>5, <2>5, <4>3
      <4> QED  BY <3>1, <4>2, <4>4 DEF Before
    <3>3. CASE ~(d < r)
      <4>1. i = 1
        <5> SUFFICES ASSUME i # 1 PROVE FALSE  OBVIOUS
        <5>1. 1 \in 1..n /\ 1 < at  BY <1>1, <1>5, <2>5
        <5>2. queue[1].seq < p.seq /\ d <= queue[1].seq /\ queue[1].seq \in Nat
          BY <1>1, <1>5, <5>1
        <5> QED  BY <2>5, <3>3, <5>2
      <4> QED  BY <3>1, <3>3, <4>1 DEF Before
    <3> QED  BY <3>2, <3>3
  <2> QED  BY <1>1, <1>5, <2>1, <2>2, <2>3, <2>4, <2>5
<1> QED  BY <1>5, <1>6, <1>10, <1>12, <1>13 DEF q

-----------------------------------------------------------------------------
(* The READY loop *)

\* What the loop expects at the i-th packet of q
Expects(q, i) == IF i = 1 THEN rcv.seq ELSE Max2(rcv.seq, End(q[i - 1]))

\* The loop ends at the first packet that begins beyond what it expects.
LEMMA ContiguousProperties ==
    ASSUME NEW q \in Seq(Packets), rcv.seq \in Nat
    PROVE  /\ Contiguous(q) \in 0..Len(q)
           /\ \A i \in 1..Contiguous(q) : q[i].seq <= Expects(q, i)
           /\ Contiguous(q) < Len(q) =>
                 q[Contiguous(q) + 1].seq > Expects(q, Contiguous(q) + 1)
<1> DEFINE T == {i \in 1..Len(q) : q[i].seq > Expects(q, i)}
<1>1. Len(q) \in Nat /\ \A i \in 1..Len(q) : q[i].seq \in Nat /\ End(q[i]) \in Nat
  BY QueueNumbers
<1>2. ASSUME NEW i \in 1..Len(q) PROVE Expects(q, i) \in Nat
  <2>1. CASE i = 1
    BY <2>1 DEF Expects
  <2>2. CASE i # 1
    <3>1. i - 1 \in 1..Len(q)  BY <1>1, <2>2
    <3>2. End(q[i - 1]) \in Nat  BY <1>1, <3>1
    <3> QED  BY <2>2, <3>2 DEF Expects, Max2
  <2> QED  BY <2>1, <2>2
<1>3. \A i \in (1..Len(q)) \ T : q[i].seq <= Expects(q, i)
  <2> SUFFICES ASSUME NEW i \in (1..Len(q)) \ T PROVE q[i].seq <= Expects(q, i)  OBVIOUS
  <2>1. ~(q[i].seq > Expects(q, i))  OBVIOUS
  <2>2. q[i].seq \in Nat /\ Expects(q, i) \in Nat  BY <1>1, <1>2
  <2> HIDE DEF T
  <2> QED  BY <2>1, <2>2
<1>4. \E n \in 0..Len(q) : /\ \A i \in 1..n : q[i].seq <= Expects(q, i)
                           /\ n < Len(q) => q[n + 1].seq > Expects(q, n + 1)
  <2>1. CASE T = {}
    <3>1. Len(q) \in 0..Len(q) /\ ~(Len(q) < Len(q))  BY <1>1
    <3>2. \A i \in 1..Len(q) : q[i].seq <= Expects(q, i)
      <4> HIDE DEF T
      <4> QED  BY <1>3, <2>1
    <3> QED  BY <3>1, <3>2
  <2>2. CASE T # {}
    <3>1. T \subseteq Nat  OBVIOUS
    <3>2. PICK m \in T : \A j \in T : m <= j
      <4> HIDE DEF T
      <4> QED  BY <2>2, <3>1, FirstExists
    <3>3. m \in 1..Len(q) /\ q[m].seq > Expects(q, m)  BY <3>2
    <3> HIDE DEF T
    <3>4. m - 1 \in 0..Len(q) /\ m - 1 + 1 = m  BY <1>1, <3>3
    <3>5. \A i \in 1..(m - 1) : q[i].seq <= Expects(q, i)
      <4> SUFFICES ASSUME NEW i \in 1..(m - 1) PROVE q[i].seq <= Expects(q, i)  OBVIOUS
      <4>1. i \in 1..Len(q) /\ ~(m <= i)  BY <1>1, <3>3
      <4> QED  BY <1>3, <3>2, <4>1
    <3> QED  BY <3>3, <3>4, <3>5
  <2> QED  BY <2>1, <2>2
<1> DEFINE c == CHOOSE n \in 0..Len(q) :
                   /\ \A i \in 1..n : q[i].seq <= Expects(q, i)
                   /\ n < Len(q) => q[n + 1].seq > Expects(q, n + 1)
<1>5. /\ c \in 0..Len(q)
      /\ \A i \in 1..c : q[i].seq <= Expects(q, i)
      /\ c < Len(q) => q[c + 1].seq > Expects(q, c + 1)
  BY Zenon, <1>4
<1>6. Contiguous(q) = c  BY DEF Contiguous, Expects
<1> HIDE DEF c
<1> QED  BY <1>5, <1>6

\* The queue after the loop: the first n packets are READY and rx_sequence is
\* at their end.
LEMMA MarkedOrder ==
    ASSUME NEW q \in Seq(Packets), NEW d \in Nat, NEW e \in Nat,
           NEW r \in Nat, r = rcv.seq, r <= Total, Apart(q, d, e), ReadyUpTo(q, d, r),
           \A i \in DOMAIN q : ~q[i].ready =>
              r < q[i].seq \/ (q[i].seq = r /\ Before(q, d, i) = r),
           NEW n, n = Contiguous(q),
           NEW to, to = r + (IF n = 0 THEN 0 ELSE Less(End(q[n]), r))
    PROVE  /\ n \in 0..Len(q) /\ to \in Nat /\ r <= to /\ to <= Total /\ (r <= e => to <= e)
           /\ MarkReady(q, n) \in Seq(Packets) /\ Len(MarkReady(q, n)) = Len(q)
           /\ InOrder(MarkReady(q, n), d, to, e)
           /\ \A i \in 1..Len(q) : MarkReady(q, n)[i].ready = (i <= n)
<1> DEFINE m == MarkReady(q, n)
<1>1. /\ Len(q) \in Nat /\ DOMAIN q = 1..Len(q)
      /\ \A i \in 1..Len(q) : /\ q[i] \in Packets /\ q[i].seq \in Nat /\ End(q[i]) \in Nat
                              /\ q[i].ready \in BOOLEAN /\ Whole(q[i])
                              /\ q[i].seq < End(q[i]) /\ End(q[i]) <= Total
                              /\ d <= q[i].seq /\ End(q[i]) <= e
  BY QueueNumbers DEF Apart, Whole
<1>2. \A i, j \in 1..Len(q) : i < j => End(q[i]) <= q[j].seq
  BY <1>1 DEF Apart
<1>3. \A i \in 1..Len(q) : /\ q[i].ready = (End(q[i]) <= r)
                           /\ q[i].ready => q[i].seq = Before(q, d, i)
                           /\ ~q[i].ready =>
                                 r < q[i].seq \/ (q[i].seq = r /\ Before(q, d, i) = r)
  BY <1>1 DEF ReadyUpTo
<1>4. /\ n \in 0..Len(q)
      /\ \A i \in 1..n : q[i].seq <= Expects(q, i)
      /\ n < Len(q) => q[n + 1].seq > Expects(q, n + 1)
  BY ContiguousProperties
<1>5. to \in Nat /\ r <= to /\ to <= Total /\ (r <= e => to <= e)
      /\ (n = 0 => to = r) /\ (n # 0 => to = Max2(r, End(q[n])))
  <2>1. CASE n = 0
    BY <2>1, ReceiverAssumption
  <2>2. CASE n # 0
    <3>1. n \in 1..Len(q)  BY <1>1, <1>4, <2>2
    <3>2. End(q[n]) \in Nat /\ End(q[n]) <= Total /\ End(q[n]) <= e  BY <1>1, <3>1
    <3>3. to = r + Less(End(q[n]), r)  BY <2>2
    <3> QED  BY <2>2, <3>2, <3>3 DEF Less, Max2
  <2> QED  BY <2>1, <2>2
<1>6. Expects(q, n + 1) = to
  <2>1. CASE n = 0
    BY <1>5, <2>1 DEF Expects
  <2>2. CASE n # 0
    <3> DEFINE k == n + 1
    <3>1. k # 1 /\ k - 1 = n  BY <1>1, <1>4, <2>2
    <3> HIDE DEF k
    <3>2. Expects(q, k) = Max2(rcv.seq, End(q[n]))  BY <3>1 DEF Expects
    <3> QED  BY <1>5, <2>2, <3>2 DEF k
  <2> QED  BY <2>1, <2>2
<1>7. ASSUME NEW i \in 1..Len(q) PROVE i <= n <=> End(q[i]) <= to
  <2>1. q[i].seq \in Nat /\ End(q[i]) \in Nat /\ q[i].seq < End(q[i])  BY <1>1
  <2>2. CASE i <= n
    <3>1. n \in 1..Len(q) /\ n # 0 /\ to = Max2(r, End(q[n]))  BY <1>1, <1>4, <1>5, <2>2
    <3>2. End(q[n]) \in Nat /\ q[n].seq \in Nat /\ q[n].seq < End(q[n])  BY <1>1, <3>1
    <3>3. End(q[i]) <= End(q[n])
      <4>1. i = n \/ End(q[i]) <= q[n].seq  BY <1>2, <2>2, <3>1
      <4> QED  BY <2>1, <3>2, <4>1
    <3>4. End(q[n]) <= Max2(r, End(q[n])) /\ Max2(r, End(q[n])) \in Nat  BY <3>2 DEF Max2
    <3> QED  BY <2>1, <2>2, <3>1, <3>2, <3>3, <3>4
  <2>3. CASE ~(i <= n)
    <3>1. n < Len(q) /\ n + 1 \in 1..Len(q) /\ n + 1 <= i  BY <1>1, <1>4, <2>3
    <3>3. q[n + 1].seq > to  BY <1>4, <1>6, <3>1
    <3>4. q[n + 1].seq \in Nat /\ End(q[n + 1]) \in Nat /\ q[n + 1].seq < End(q[n + 1])
      BY <1>1, <3>1
    <3>5. i = n + 1 \/ End(q[n + 1]) <= q[i].seq  BY <1>1, <1>2, <3>1
    <3>6. q[i].seq > to  BY <1>5, <2>1, <3>3, <3>4, <3>5
    <3>7. ~(End(q[i]) <= to)  BY <1>5, <2>1, <3>6
    <3> QED  BY <2>3, <3>7
  <2> QED  BY <2>2, <2>3
<1>8. m \in Seq(Packets) /\ Len(m) = Len(q) /\ DOMAIN m = 1..Len(q)
      /\ \A i \in 1..Len(q) : /\ m[i].seq = q[i].seq /\ m[i].data = q[i].data
                              /\ m[i].ready = (i <= n)
  <2>1. ASSUME NEW i \in 1..Len(q)
        PROVE  /\ m[i] \in Packets /\ m[i].seq = q[i].seq /\ m[i].data = q[i].data
               /\ m[i].ready = (i <= n)
    <3>1. m[i] = IF i <= n /\ End(q[i]) > r THEN [q[i] EXCEPT !.ready = TRUE] ELSE q[i]
      BY <1>1 DEF MarkReady
    <3>2. q[i] \in Packets /\ End(q[i]) \in Nat /\ q[i].ready \in BOOLEAN  BY <1>1
    <3> HIDE DEF m
    <3>3. CASE i <= n /\ End(q[i]) > r
      <4>1. m[i] = [q[i] EXCEPT !.ready = TRUE]  BY <3>1, <3>3
      <4>2. /\ m[i] \in Packets /\ m[i].seq = q[i].seq /\ m[i].data = q[i].data
            /\ m[i].ready = TRUE
        BY <3>2, <4>1 DEF Packets
      <4> QED  BY <3>3, <4>2
    <3>4. CASE ~(i <= n /\ End(q[i]) > r)
      <4>1. m[i] = q[i]  BY <3>1, <3>4
      <4>2. q[i].ready = (End(q[i]) <= r)  BY <1>3
      <4>3. End(q[i]) <= r <=> i <= n
        <5>1. i <= n => End(q[i]) <= r  BY <3>2, <3>4
        <5>2. End(q[i]) <= r => i <= n  BY <1>5, <1>7, <3>2
        <5> QED  BY <5>1, <5>2
      <4> QED  BY <3>2, <4>1, <4>2, <4>3
    <3> QED  BY <3>3, <3>4
  <2>2. m = [i \in 1..Len(q) |-> m[i]] /\ DOMAIN m = 1..Len(q)  BY <1>1 DEF MarkReady
  <2> HIDE DEF m
  <2>3. m \in Seq(Packets)
    <3>1. [i \in 1..Len(q) |-> m[i]] \in Seq(Packets)  BY <1>1, <2>1, IsASeq
    <3> QED  BY <2>2, <3>1
  <2>4. Len(m) = Len(q)  BY <1>1, <2>2, <2>3, LenProperties
  <2> QED  BY <2>1, <2>2, <2>3, <2>4
<1> HIDE DEF m
<1>9. \A i \in 1..Len(q) : End(m[i]) = End(q[i]) /\ Whole(m[i])
  <2>1. \A i \in 1..Len(q) : End(m[i]) = End(q[i])  BY <1>8 DEF End
  <2> QED  BY <1>1, <1>8, <2>1 DEF Whole
<1>10. Apart(m, d, e)
  <2>1. \A i \in DOMAIN m : Whole(m[i]) /\ m[i].seq >= d /\ End(m[i]) <= e
    <3> SUFFICES ASSUME NEW i \in 1..Len(q)
                 PROVE  Whole(m[i]) /\ m[i].seq >= d /\ End(m[i]) <= e
      BY <1>8
    <3>1. m[i].seq = q[i].seq /\ End(m[i]) = End(q[i]) /\ Whole(m[i])  BY <1>8, <1>9
    <3>2. q[i].seq \in Nat /\ d <= q[i].seq /\ End(q[i]) <= e  BY <1>1
    <3> QED  BY <3>1, <3>2
  <2>2. \A i, j \in DOMAIN m : i < j => End(m[i]) <= m[j].seq  BY <1>2, <1>8, <1>9
  <2> QED  BY <2>1, <2>2 DEF Apart
<1>11. ASSUME NEW i \in 1..Len(q), i <= n PROVE m[i].seq = Before(m, d, i)
  <2>1. Before(m, d, i) = Before(q, d, i)
    <3>1. i # 1 => i - 1 \in 1..Len(q)  BY <1>1
    <3> QED  BY <1>9, <3>1 DEF Before
  <2>2. q[i].seq = Before(q, d, i)
    <3>1. q[i].seq <= Expects(q, i)
      <4>1. i \in 1..n  BY <1>1, <1>4, <1>11
      <4> QED  BY <1>4, <4>1
    <3>2. CASE q[i].ready \/ q[i].seq = r
      <4>1. q[i].seq \in Nat  BY <1>1
      <4>2. ~(r < q[i].seq) \/ q[i].ready  BY <3>2, <4>1
      <4> QED  BY <1>3, <3>2, <4>2
    <3>3. CASE ~q[i].ready /\ r < q[i].seq
      <4>1. i # 1
        <5> SUFFICES ASSUME i = 1 PROVE FALSE  OBVIOUS
        <5>1. q[i].seq <= r  BY <3>1 DEF Expects
        <5>2. q[i].seq \in Nat  BY <1>1
        <5> QED  BY <3>3, <5>1, <5>2
      <4>2. i - 1 \in 1..Len(q) /\ i - 1 < i  BY <1>1, <4>1
      <4>3. End(q[i - 1]) <= q[i].seq /\ End(q[i - 1]) \in Nat /\ q[i].seq \in Nat
        BY <1>1, <1>2, <4>2
      <4>4. q[i].seq <= Max2(r, End(q[i - 1]))  BY <3>1, <4>1 DEF Expects
      <4>5. q[i].seq = End(q[i - 1])  BY <3>3, <4>3, <4>4 DEF Max2
      <4> QED  BY <4>1, <4>5 DEF Before
    <3>4. q[i].ready \/ r < q[i].seq \/ q[i].seq = r  BY <1>3
    <3> QED  BY <3>2, <3>3, <3>4
  <2> QED  BY <1>8, <2>1, <2>2
<1>12. ReadyUpTo(m, d, to)
  <2>1. \A i \in DOMAIN m : /\ m[i].ready = (End(m[i]) <= to)
                            /\ m[i].ready => m[i].seq = Before(m, d, i)
    <3> SUFFICES ASSUME NEW i \in 1..Len(q)
                 PROVE  /\ m[i].ready = (End(m[i]) <= to)
                        /\ m[i].ready => m[i].seq = Before(m, d, i)
      BY <1>8
    <3>1. m[i].ready = (i <= n) /\ End(m[i]) = End(q[i])  BY <1>8, <1>9
    <3>2. (i <= n) = (End(q[i]) <= to)  BY <1>7
    <3> QED  BY <1>11, <3>1, <3>2
  <2>2. ASSUME Min2(to, Total) > d PROVE \E i \in DOMAIN m : End(m[i]) = Min2(to, Total)
    <3>1. Min2(to, Total) = to  BY <1>5, ReceiverAssumption DEF Min2
    <3>2. CASE to = r
      <4>1. PICK i \in DOMAIN q : End(q[i]) = Min2(r, Total)
        BY <2>2, <3>2 DEF ReadyUpTo
      <4> QED  BY <1>1, <1>8, <1>9, <3>2, <4>1
    <3>3. CASE to # r
      <4>1. n # 0 /\ to = Max2(r, End(q[n]))  BY <1>5, <3>3
      <4>2. n \in 1..Len(q)  BY <1>1, <1>4, <4>1
      <4>3. to = End(q[n])  BY <1>1, <3>3, <4>1, <4>2 DEF Max2
      <4> QED  BY <1>8, <1>9, <3>1, <4>2, <4>3
    <3> QED  BY <3>2, <3>3
  <2> QED  BY <2>1, <2>2 DEF ReadyUpTo
<1>13. Gap(m, to)
  <2> SUFFICES ASSUME NEW i \in 1..Len(q), ~m[i].ready PROVE m[i].seq > to
    BY <1>8 DEF Gap
  <2>1. ~(i <= n)  BY <1>8
  <2>2. n < Len(q) /\ n + 1 \in 1..Len(q) /\ n + 1 <= i  BY <1>1, <1>4, <2>1
  <2>4. q[n + 1].seq > to  BY <1>4, <1>6, <2>2
  <2>5. i = n + 1 \/ End(q[n + 1]) <= q[i].seq  BY <1>1, <1>2, <2>2
  <2>6. q[n + 1].seq \in Nat /\ End(q[n + 1]) \in Nat /\ q[n + 1].seq < End(q[n + 1])
        /\ q[i].seq \in Nat
    BY <1>1, <2>2
  <2>7. q[i].seq > to  BY <1>5, <2>4, <2>5, <2>6
  <2> QED  BY <1>8, <2>7
<1> QED  BY <1>4, <1>5, <1>8, <1>10, <1>12, <1>13 DEF m, InOrder

-----------------------------------------------------------------------------
(* Hand-off to readers *)

\* What is left of the queue when its first k packets, all READY, are taken; they hold
\* the bytes that come next.
LEMMA ServedOrder ==
    ASSUME NEW q \in Seq(Packets), NEW d \in Nat, NEW r \in Nat, NEW e \in Nat,
           InOrder(q, d, r, e), d <= Min2(r, Total),
           NEW k \in 0..Len(q), \A i \in 1..k : q[i].ready,
           NEW to, to = IF k = 0 THEN d ELSE End(q[k])
    PROVE  /\ SubSeq(q, k + 1, Len(q)) \in Seq(Packets)
           /\ Len(SubSeq(q, k + 1, Len(q))) = Len(q) - k
           /\ \A i \in 1..(Len(q) - k) : SubSeq(q, k + 1, Len(q))[i] = q[k + i]
           /\ InOrder(SubSeq(q, k + 1, Len(q)), to, r, e)
           /\ to \in Nat /\ d <= to /\ to <= Min2(r, Total)
           /\ Data(SubSeq(q, 1, k)) = Bytes(d, to)
<1> DEFINE n == Len(q)
           b == SubSeq(q, k + 1, n)
           a == SubSeq(q, 1, k)
<1>1. /\ n \in Nat /\ DOMAIN q = 1..n
      /\ \A i \in 1..n : /\ q[i] \in Packets /\ q[i].seq \in Nat /\ End(q[i]) \in Nat
                         /\ q[i].ready \in BOOLEAN /\ Whole(q[i])
                         /\ q[i].seq < End(q[i]) /\ End(q[i]) <= Total
                         /\ d <= q[i].seq /\ End(q[i]) <= e
  BY QueueNumbers DEF InOrder, Apart, Whole
<1>2. \A i, j \in 1..n : i < j => End(q[i]) <= q[j].seq
  BY <1>1 DEF InOrder, Apart
<1>3. \A i \in 1..n : /\ q[i].ready = (End(q[i]) <= r)
                      /\ q[i].ready => q[i].seq = Before(q, d, i)
                      /\ ~q[i].ready => q[i].seq > r
  BY <1>1 DEF InOrder, ReadyUpTo, Gap
<1>4. Total \in Nat /\ Min2(r, Total) \in Nat  BY ReceiverAssumption DEF Min2
<1>5. b \in Seq(Packets) /\ Len(b) = n - k /\ \A i \in 1..(n - k) : b[i] = q[k + i]
  <2>1. \A j \in (k + 1)..n : q[j] \in Packets  BY <1>1
  <2>2. k + 1 \in Int /\ n \in Int  BY <1>1
  <2>3. /\ b \in Seq(Packets)
        /\ Len(b) = IF k + 1 <= n THEN n - (k + 1) + 1 ELSE 0
        /\ \A i \in 1..(n - (k + 1) + 1) : b[i] = q[k + 1 + i - 1]
    <3> DEFINE first == k + 1
    <3> HIDE DEF n, first
    <3>1. /\ SubSeq(q, first, n) \in Seq(Packets)
          /\ Len(SubSeq(q, first, n)) = IF first <= n THEN n - first + 1 ELSE 0
          /\ \A i \in 1..(n - first + 1) : SubSeq(q, first, n)[i] = q[first + i - 1]
      <4>1. first \in Int /\ \A j \in first..n : q[j] \in Packets  BY <2>1, <2>2 DEF first
      <4> QED  BY <2>2, <4>1, SubSeqProperties
    <3> QED  BY <3>1 DEF first
  <2> HIDE DEF b
  <2>4. Len(b) = n - k
    <3>1. Len(b) = IF k + 1 <= n THEN n - (k + 1) + 1 ELSE 0  BY <2>3
    <3>2. n \in Nat /\ k \in 0..n  BY <1>1
    <3> HIDE DEF n
    <3> QED  BY <3>1, <3>2
  <2>5. ASSUME NEW i \in 1..(n - k) PROVE b[i] = q[k + i]
    <3>1. i \in 1..(n - (k + 1) + 1) /\ k + 1 + i - 1 = k + i  BY <1>1
    <3> QED  BY <2>3, <3>1
  <2> QED  BY <2>3, <2>4, <2>5
<1>6. a \in Seq(Packets) /\ Len(a) = k /\ \A i \in 1..k : a[i] = q[i]
  <2>1. \A j \in 1..k : q[j] \in Packets  BY <1>1
  <2>2. /\ a \in Seq(Packets)
        /\ Len(a) = IF 1 <= k THEN k - 1 + 1 ELSE 0
        /\ \A i \in 1..(k - 1 + 1) : a[i] = q[1 + i - 1]
    BY <2>1, SubSeqProperties
  <2> HIDE DEF a
  <2>3. Len(a) = k  BY <1>1, <2>2
  <2>4. ASSUME NEW i \in 1..k PROVE a[i] = q[i]
    <3>1. i \in 1..(k - 1 + 1) /\ 1 + i - 1 = i  BY <1>1
    <3> QED  BY <2>2, <3>1
  <2> QED  BY <2>2, <2>3, <2>4
<1> HIDE DEF a, b
<1>7. to \in Nat /\ d <= to /\ to <= Min2(r, Total)
  <2>1. CASE k = 0
    BY <2>1
  <2>2. CASE k # 0
    <3>1. k \in 1..n /\ k \in 1..k  BY <1>1, <2>2
    <3>2. End(q[k]) <= r /\ End(q[k]) <= Total /\ End(q[k]) \in Nat
          /\ d <= q[k].seq /\ q[k].seq < End(q[k]) /\ q[k].seq \in Nat
      BY <1>1, <1>3, <3>1
    <3>3. to = End(q[k])  BY <2>2
    <3> QED  BY <1>4, <3>2, <3>3 DEF Min2
  <2> QED  BY <2>1, <2>2
<1>8. \A i \in 1..k : End(q[i]) <= to
  <2> SUFFICES ASSUME NEW i \in 1..k PROVE End(q[i]) <= to  OBVIOUS
  <2>1. i \in 1..n /\ k \in 1..n /\ k # 0 /\ to = End(q[k])  BY <1>1
  <2>2. i = k \/ End(q[i]) <= q[k].seq  BY <1>2, <2>1
  <2>3. /\ End(q[i]) \in Nat /\ End(q[k]) \in Nat /\ q[k].seq \in Nat /\ q[k].seq < End(q[k])
    BY <1>1, <2>1
  <2> QED  BY <2>1, <2>2, <2>3
<1>9. \A i \in 1..(n - k) : k + i \in 1..n /\ b[i] = q[k + i] /\ to <= q[k + i].seq
  <2> SUFFICES ASSUME NEW i \in 1..(n - k)
               PROVE  k + i \in 1..n /\ b[i] = q[k + i] /\ to <= q[k + i].seq
    OBVIOUS
  <2>1. k + i \in 1..n /\ b[i] = q[k + i]  BY <1>1, <1>5
  <2>2. CASE k = 0
    <3>1. d <= q[k + i].seq /\ to = d  BY <1>1, <2>1, <2>2
    <3> QED  BY <2>1, <3>1
  <2>3. CASE k # 0
    <3>1. k \in 1..n /\ k < k + i /\ to = End(q[k])  BY <1>1, <2>3
    <3>2. End(q[k]) <= q[k + i].seq  BY <1>2, <2>1, <3>1
    <3> QED  BY <2>1, <3>1, <3>2
  <2> QED  BY <2>2, <2>3
<1>10. DOMAIN b = 1..(n - k)  BY <1>5, LenProperties
<1>11. Apart(b, to, e)
  <2>1. \A i \in DOMAIN b : Whole(b[i]) /\ b[i].seq >= to /\ End(b[i]) <= e
    <3> SUFFICES ASSUME NEW i \in 1..(n - k)
                 PROVE  Whole(b[i]) /\ b[i].seq >= to /\ End(b[i]) <= e
      BY <1>10
    <3>1. k + i \in 1..n /\ b[i] = q[k + i] /\ to <= q[k + i].seq  BY <1>9
    <3>2. Whole(q[k + i]) /\ End(q[k + i]) <= e /\ q[k + i].seq \in Nat  BY <1>1, <3>1
    <3> QED  BY <1>7, <3>1, <3>2
  <2>2. \A i, j \in DOMAIN b : i < j => End(b[i]) <= b[j].seq
    <3> SUFFICES ASSUME NEW i \in 1..(n - k), NEW j \in 1..(n - k), i < j
                 PROVE  End(b[i]) <= b[j].seq
      BY <1>10
    <3>1. /\ k + i \in 1..n /\ b[i] = q[k + i] /\ k + j \in 1..n /\ b[j] = q[k + j]
      BY <1>9
    <3>2. k + i < k + j  BY <1>1
    <3>3. End(q[k + i]) <= q[k + j].seq  BY <1>2, <3>1, <3>2
    <3> QED  BY <3>1, <3>3
  <2> QED  BY <2>1, <2>2 DEF Apart
<1>12. ReadyUpTo(b, to, r)
  <2>1. \A i \in DOMAIN b : /\ b[i].ready = (End(b[i]) <= r)
                            /\ b[i].ready => b[i].seq = Before(b, to, i)
    <3> SUFFICES ASSUME NEW i \in 1..(n - k)
                 PROVE  /\ b[i].ready = (End(b[i]) <= r)
                        /\ b[i].ready => b[i].seq = Before(b, to, i)
      BY <1>10
    <3> DEFINE j == k + i
    <3>1. j \in 1..n /\ b[i] = q[j]  BY <1>9
    <3>2. j = 1 <=> k = 0 /\ i = 1  BY <1>1
    <3>3. i # 1 => i - 1 \in 1..(n - k) /\ k + (i - 1) = j - 1  BY <1>1
    <3>4. i = 1 => k = j - 1  BY <1>1
    <3> HIDE DEF j
    <3>5. Before(b, to, i) = Before(q, d, j)
      <4>1. CASE i = 1
        <5>1. CASE k = 0
          BY <3>2, <4>1, <5>1 DEF Before
        <5>2. CASE k # 0
          BY <3>2, <3>4, <4>1, <5>2 DEF Before
        <5> QED  BY <5>1, <5>2
      <4>2. CASE i # 1
        <5>1. b[i - 1] = q[j - 1]
          <6>1. b[i - 1] = q[k + (i - 1)]  BY <1>9, <3>3, <4>2
          <6> QED  BY <3>3, <4>2, <6>1
        <5> QED  BY <3>2, <4>2, <5>1 DEF Before
      <4> QED  BY <4>1, <4>2
    <3> QED  BY <1>3, <3>1, <3>5
  <2>2. ASSUME Min2(r, Total) > to PROVE \E i \in DOMAIN b : End(b[i]) = Min2(r, Total)
    <3>1. Min2(r, Total) > d  BY <1>4, <1>7, <2>2
    <3>2. PICK j \in 1..n : End(q[j]) = Min2(r, Total)
      BY <1>1, <3>1 DEF InOrder, ReadyUpTo
    <3>3. ~(j \in 1..k)  BY <1>4, <1>7, <1>8, <2>2, <3>2
    <3>4. j - k \in 1..(n - k) /\ k + (j - k) = j  BY <1>1, <3>3
    <3>5. b[j - k] = q[j]  BY <1>9, <3>4
    <3> QED  BY <1>10, <3>2, <3>4, <3>5
  <2> QED  BY <2>1, <2>2 DEF ReadyUpTo
<1>13. Gap(b, r)  BY <1>3, <1>9, <1>10 DEF Gap
<1>14. Data(a) = Bytes(d, to)
  <2>1. DOMAIN a = 1..k  BY <1>6, LenProperties
  <2>2. ASSUME NEW i \in 1..k PROVE Whole(a[i]) /\ a[i].seq = Before(a, d, i) /\ d <= a[i].seq
    <3>1. i \in 1..n /\ a[i] = q[i] /\ q[i].ready  BY <1>1, <1>6
    <3>2. q[i].seq = Before(q, d, i)  BY <1>3, <3>1
    <3>3. Before(a, d, i) = Before(q, d, i)
      <4>1. i # 1 => a[i - 1] = q[i - 1]  BY <1>6
      <4> QED  BY <4>1 DEF Before
    <3> QED  BY <1>1, <3>1, <3>2, <3>3
  <2>3. Data(a) = IF a = <<>> THEN <<>> ELSE Bytes(d, End(a[Len(a)]))
    BY <1>6, <2>1, <2>2, DataIsPiece
  <2>4. a = <<>> <=> k = 0  BY <1>6, EmptySeq
  <2>5. CASE k = 0
    <3>1. Bytes(d, d) \in Seq(Nat) /\ Len(Bytes(d, d)) = d - d  BY BytesPiece
    <3>2. Bytes(d, d) = <<>>
      <4>1. Len(Bytes(d, d)) = 0  BY <3>1
      <4> QED  BY <3>1, <4>1, EmptySeq
    <3> QED  BY <2>3, <2>4, <2>5, <3>2
  <2>6. CASE k # 0
    <3>1. a[Len(a)] = q[k] /\ to = End(q[k])  BY <1>1, <1>6, <2>6
    <3> QED  BY <2>3, <2>4, <2>6, <3>1
  <2> QED  BY <2>5, <2>6
<1> QED  BY <1>5, <1>7, <1>11, <1>12, <1>13, <1>14 DEF a, b, InOrder

-----------------------------------------------------------------------------
(* Acknowledgements *)

\* Acknowledged up to q, with the window of r: the edge on the wire does not recede and
\* promises no more than the free buffer.
Answered(q, r) ==
    /\ rcv' \in Windows /\ rcv'.seq = q /\ rcv'.win = r.win
    /\ r.sent <= rcv'.sent /\ rcv'.sent <= r.win
    /\ ack' \subseteq Acks /\ \A a \in ack' : a \in ack \/ a.edge <= q + r.win

\* What is advertised lies between the last offer and the free buffer.
LEMMA AdvertisedBounds ==
    ASSUME cap \in Nat, NEW r \in Windows, r.sent <= r.win
    PROVE  Advertised(r) \in Nat /\ r.sent <= Advertised(r) /\ Advertised(r) <= r.win
<1>1. r.win \in Nat /\ r.sent \in Nat  BY DEF Windows
<1>2. Capped(r.win) \in Nat  BY <1>1 DEF Capped, Min2
<1>3. Open(r) \in Nat /\ r.sent <= Open(r) /\ Open(r) <= r.win
  BY <1>1, <1>2 DEF Open, Min2, Max2
<1>4. Advertised(r) = Open(r) \/ Advertised(r) = Min2(Open(r), r.sent)
  BY Zenon DEF Advertised
<1> QED  BY <1>1, <1>3, <1>4 DEF Min2

\* One call of _nx_tcp_packet_send_ack, or none
LEMMA AnswerSent ==
    ASSUME cap \in Nat, ack \subseteq Acks, NEW r \in Windows, r.sent <= r.win,
           SendAck(r) \/ NoAck(r)
    PROVE  Answered(r.seq, r)
<1>1. /\ r.seq \in Nat /\ r.win \in Nat /\ r.sent \in Nat
      /\ Advertised(r) \in Nat /\ r.sent <= Advertised(r) /\ Advertised(r) <= r.win
  BY AdvertisedBounds DEF Windows
<1>2. CASE rcv' = AckSent(r) /\ ack' = AckMessage(r)
  <2> DEFINE m == [seq |-> r.seq, edge |-> r.seq + Advertised(r)]
  <2>1. m \in Acks /\ m.edge <= r.seq + r.win  BY <1>1 DEF Acks
  <2>2. ack' = {m}  BY <1>2 DEF AckMessage
  <2> HIDE DEF m
  <2>3. /\ rcv' \in Windows /\ rcv'.seq = r.seq /\ rcv'.win = r.win
        /\ rcv'.sent = Advertised(r)
    BY <1>1, <1>2 DEF AckSent, Windows
  <2> QED  BY <1>1, <2>1, <2>2, <2>3 DEF Answered
<1>3. CASE rcv' = r /\ ack' = ack
  BY <1>1, <1>3 DEF Answered
<1> QED  BY <1>2, <1>3 DEF SendAck, NoAck

\* The end of data_check and the FIN
LEMMA ConcludesProperties ==
    ASSUME cap \in Nat, ack \subseteq Acks, NEW r \in Windows, r.sent <= r.win,
           NEW need \in BOOLEAN, NEW f, f \subseteq {Total}, NEW ws,
           Concludes(r, need, f, ws)
    PROVE  \/ Answered(r.seq, r) /\ waiters' = ws /\ UNCHANGED <<state, ended>>
           \/ /\ r.seq = Total /\ Answered(Total + 1, r) /\ state' = "CLOSE_WAIT"
              /\ waiters' = <<>> /\ ended' = (ended \/ ws # <<>>)
<1>1. r.seq \in Nat /\ r.win \in Nat /\ r.sent \in Nat  BY DEF Windows
<1>2. CASE f # {r.seq}
  <2>1. (SendAck(r) \/ NoAck(r)) /\ waiters' = ws /\ UNCHANGED <<state, ended>>
    BY Zenon, <1>2 DEF Concludes
  <2>2. Answered(r.seq, r)  BY <2>1, AnswerSent
  <2> QED  BY <2>1, <2>2
<1>3. CASE f = {r.seq}
  <2>1. r.seq = Total  BY <1>3
  <2>2. /\ state' = "CLOSE_WAIT" /\ waiters' = <<>> /\ ended' = (ended \/ ws # <<>>)
        /\ \/ SendAck([r EXCEPT !.seq = @ + 1])
           \/ /\ rcv' = [AckSent(r) EXCEPT !.seq = @ + 1]
              /\ ack' = AckMessage(r)
    BY Zenon, <1>3 DEF Concludes
  <2>3. CASE SendAck([r EXCEPT !.seq = @ + 1])
    <3>0. [r EXCEPT !.seq = @ + 1] \in Windows  BY <1>1 DEF Windows
    <3>1. PICK u \in Windows : u = [r EXCEPT !.seq = @ + 1]  BY <3>0
    <3>2. u.seq = Total + 1 /\ u.win = r.win /\ u.sent = r.sent  BY <2>1, <3>1 DEF Windows
    <3>3. SendAck(u)  BY <2>3, <3>1
    <3>4. u.sent <= u.win  BY <3>2
    <3>5. Answered(u.seq, u)  BY <3>3, <3>4, AnswerSent
    <3>6. Answered(Total + 1, r)  BY <3>2, <3>5 DEF Answered
    <3> QED  BY <2>1, <2>2, <3>6
  <2>4. CASE /\ rcv' = [AckSent(r) EXCEPT !.seq = @ + 1]
             /\ ack' = AckMessage(r)
    <3>1. /\ Advertised(r) \in Nat /\ r.sent <= Advertised(r) /\ Advertised(r) <= r.win
      BY AdvertisedBounds
    <3>2. /\ rcv' \in Windows /\ rcv'.seq = Total + 1 /\ rcv'.win = r.win
          /\ rcv'.sent = Advertised(r)
      <4> DEFINE v == AckSent(r)
      <4>1. v \in Windows /\ v.seq = Total /\ v.win = r.win /\ v.sent = Advertised(r)
        BY <1>1, <2>1, <3>1 DEF AckSent, Windows
      <4>2. rcv' = [v EXCEPT !.seq = @ + 1]  BY <2>4
      <4> HIDE DEF v
      <4>3. v.seq + 1 \in Nat  BY <1>1, <2>1, <4>1
      <4> QED  BY <4>1, <4>2, <4>3 DEF Windows
    <3> DEFINE m == [seq |-> r.seq, edge |-> r.seq + Advertised(r)]
    <3>3. m \in Acks /\ m.edge <= Total + 1 + r.win  BY <1>1, <2>1, <3>1 DEF Acks
    <3>4. ack' = {m}  BY <2>4 DEF AckMessage
    <3> HIDE DEF m
    <3>5. Answered(Total + 1, r)  BY <3>1, <3>2, <3>3, <3>4 DEF Answered
    <3> QED  BY <2>1, <2>2, <3>5
  <2> QED  BY <2>2, <2>3, <2>4
<1> QED  BY <1>2, <1>3

\* When all of the stream has come, taking the FIN leaves the queue in order.
LEMMA OrderAfterFin ==
    ASSUME NEW q \in Seq(Packets), NEW d \in Nat, NEW e \in Nat, InOrder(q, d, Total, e)
    PROVE  InOrder(q, d, Total + 1, e + 1)
<1>1. /\ Len(q) \in Nat /\ DOMAIN q = 1..Len(q) /\ Total \in Nat
      /\ \A i \in 1..Len(q) : /\ End(q[i]) \in Nat /\ Whole(q[i]) /\ End(q[i]) <= Total
                              /\ End(q[i]) <= e
  BY QueueNumbers, ReceiverAssumption DEF InOrder, Apart, Whole
<1>2. Min2(Total + 1, Total) = Total /\ Min2(Total, Total) = Total  BY <1>1 DEF Min2
<1>3. \A i \in DOMAIN q : q[i].ready = (End(q[i]) <= Total)  BY DEF InOrder, ReadyUpTo
<1>4. \A i \in DOMAIN q : q[i].ready /\ q[i].ready = (End(q[i]) <= Total + 1)
  <2> SUFFICES ASSUME NEW i \in DOMAIN q
               PROVE  q[i].ready /\ q[i].ready = (End(q[i]) <= Total + 1)
    OBVIOUS
  <2>1. End(q[i]) \in Nat /\ End(q[i]) <= Total  BY <1>1
  <2>2. q[i].ready  BY <1>3, <2>1
  <2>3. End(q[i]) <= Total + 1  BY <1>1, <2>1
  <2>4. q[i].ready = TRUE
    <3>1. q[i].ready \in BOOLEAN  BY <1>1, QueueNumbers
    <3> QED  BY <2>2, <3>1
  <2> QED  BY <2>2, <2>3, <2>4
<1>5. \A i \in DOMAIN q : End(q[i]) <= e + 1
  <2> SUFFICES ASSUME NEW i \in DOMAIN q PROVE End(q[i]) <= e + 1  OBVIOUS
  <2>1. End(q[i]) \in Nat /\ End(q[i]) <= e  BY <1>1
  <2> QED  BY <2>1
<1>6. Apart(q, d, e + 1)  BY <1>5 DEF InOrder, Apart
<1>7. ReadyUpTo(q, d, Total + 1)  BY <1>2, <1>4 DEF InOrder, ReadyUpTo
<1>8. Gap(q, Total + 1)  BY <1>4 DEF Gap
<1> QED  BY <1>6, <1>7, <1>8 DEF InOrder

-----------------------------------------------------------------------------
(* What every step keeps *)

\* The invariant, the edge on the wire, and the promise of ByteStream
Kept ==
    /\ IInv'
    /\ rcv'.seq + rcv'.sent >= rcv.seq + rcv.sent
    /\ [Stream!Next]_<<delivered, ended>>

\* With an answer the edges move on together.
LEMMA AnsweredEdges ==
    ASSUME rcv \in Windows, ack \subseteq Acks, peer \in [una : Nat, edge : Nat], Edges,
           NEW r \in Windows, NEW q \in Nat, Answered(q, r), r.seq <= q, peer' = peer,
           rcv.seq + rcv.sent <= r.seq + r.sent, rcv.seq + rcv.win <= r.seq + r.win
    PROVE  /\ rcv' \in Windows /\ rcv'.seq = q /\ rcv'.win = r.win /\ ack' \subseteq Acks
           /\ rcv'.seq + rcv'.sent >= rcv.seq + rcv.sent
           /\ Edges'
<1>1. /\ r.seq \in Nat /\ r.win \in Nat /\ r.sent \in Nat
      /\ rcv.seq \in Nat /\ rcv.win \in Nat /\ rcv.sent \in Nat
  BY DEF Windows
<1>2. /\ rcv' \in Windows /\ rcv'.seq = q /\ rcv'.win = r.win /\ rcv'.sent \in Nat
      /\ r.sent <= rcv'.sent /\ rcv'.sent <= r.win
      /\ ack' \subseteq Acks /\ \A a \in ack' : a \in ack \/ a.edge <= q + r.win
  BY DEF Answered, Windows
<1>3. rcv'.seq + rcv'.sent >= rcv.seq + rcv.sent
  <2>1. rcv'.seq = q /\ rcv'.sent \in Nat /\ r.sent <= rcv'.sent  BY <1>2
  <2> QED  BY <1>1, <2>1
<1>4. ASSUME NEW w \in Nat, w <= rcv.seq + rcv.win PROVE w <= rcv'.seq + rcv'.win
  <2>1. rcv'.seq = q /\ rcv'.win = r.win  BY <1>2
  <2> QED  BY <1>1, <1>4, <2>1
<1>5. peer'.edge <= rcv'.seq + rcv'.win
  <2>1. peer.edge \in Nat /\ peer.edge <= rcv.seq + rcv.win  BY DEF Edges
  <2> QED  BY <1>4, <2>1
<1>6. \A a \in ack' : a.edge <= rcv'.seq + rcv'.win
  <2> SUFFICES ASSUME NEW a \in ack' PROVE a.edge <= rcv'.seq + rcv'.win  OBVIOUS
  <2>1. a.edge \in Nat  BY <1>2 DEF Acks
  <2>2. CASE a \in ack
    <3>1. a.edge <= rcv.seq + rcv.win  BY <2>2 DEF Edges
    <3> QED  BY <1>4, <2>1, <3>1
  <2>3. CASE a.edge <= q + r.win
    BY <1>2, <2>3
  <2> QED  BY <1>2, <2>2, <2>3
<1> QED  BY <1>2, <1>3, <1>5, <1>6 DEF Edges

\* More bytes of the stream, its end, or neither, is a step of ByteStream.
LEMMA StreamStep ==
    ASSUME NEW d \in Nat, NEW to \in Nat, delivered = Bytes(0, d), delivered' = Bytes(0, to),
           d <= to, to <= Total, ended \in BOOLEAN, ended' \in BOOLEAN,
           ended' => to = Total, ended => ended' /\ d = Total
    PROVE  [Stream!Next]_<<delivered, ended>>
<1>1. \A n \in Nat : Stream!FirstBytes(n) = Bytes(0, n)
  <2> SUFFICES ASSUME NEW n \in Nat PROVE Stream!FirstBytes(n) = Bytes(0, n)  OBVIOUS
  <2>1. 1..(n - 0) = 1..n /\ \A i \in 1..n : 0 + i - 1 = i - 1  OBVIOUS
  <2>2. [i \in 1..n |-> i - 1] = [i \in 1..(n - 0) |-> 0 + i - 1]  BY <2>1
  <2> QED  BY <2>2 DEF Stream!FirstBytes, Bytes
<1>2. CASE ended' /\ ~ended
  <2>1. delivered' = Stream!FirstBytes(Total)  BY <1>1, <1>2
  <2>2. Stream!End  BY <1>2, <2>1 DEF Stream!End
  <2> QED  BY <2>2 DEF Stream!Next
<1>3. CASE ended' = ended
  <2>1. CASE to = d
    BY <1>3, <2>1
  <2>2. CASE to # d
    <3>1. ~ended  BY <2>2
    <3>2. Len(delivered) = d
      <4>1. Len(Bytes(0, d)) = d - 0  BY BytesPiece
      <4> QED  BY <4>1
    <3>3. to \in Len(delivered) + 1..Total /\ delivered' = Stream!FirstBytes(to)
      BY <1>1, <2>2, <3>2, ReceiverAssumption
    <3>4. Stream!Deliver  BY Zenon, <1>3, <3>1, <3>3 DEF Stream!Deliver
    <3> QED  BY <3>4 DEF Stream!Next
  <2> QED  BY <2>1, <2>2
<1> QED  BY <1>2, <1>3

\* An arrival in ESTABLISHED: r and queue' are what the handler has made of the window
\* and the queue, the first to bytes are with the readers, ws still wait; then the
\* handler concludes.
LEMMA Conclusion ==
    ASSUME IInv, state = "ESTABLISHED",
           NEW r \in Windows, NEW to \in Nat, NEW need \in BOOLEAN, NEW f, f \subseteq {Total},
           NEW ws \in Seq(Threads),
           Concludes(r, need, f, ws), fin' = f, cap' = cap, peer' = peer,
           queue' \in Seq(Packets), InOrder(queue', to, r.seq, r.seq + r.win),
           delivered' = Bytes(0, to), Len(delivered) <= to, to <= r.seq, r.seq <= Total,
           r.win = WindowDefault - (r.seq - to), r.sent <= r.win,
           rcv.seq + rcv.sent <= r.seq + r.sent, rcv.seq + rcv.win <= r.seq + r.win,
           ws # <<>> /\ queue' # <<>> => ~queue'[1].ready
    PROVE  Kept
<1>1. /\ rcv \in Windows /\ cap \in Caps /\ ack \subseteq Acks /\ peer \in [una : Nat, edge : Nat]
      /\ cap \in Nat /\ Total \in Nat /\ WindowDefault \in Nat
      /\ delivered = Bytes(0, Len(delivered)) /\ Len(delivered) \in Nat
      /\ ended \in BOOLEAN /\ ~ended
      /\ rcv.sent <= rcv.win /\ peer.edge <= rcv.seq + rcv.win
      /\ \A a \in ack : a.edge <= rcv.seq + rcv.win
  BY ReceiverAssumption DEF IInv, SocketTypes, Progress, Edges
<1>2. r.seq \in Nat /\ r.win \in Nat /\ r.sent \in Nat  BY DEF Windows
<1>3. rcv.seq \in Nat /\ rcv.win \in Nat /\ rcv.sent \in Nat  BY <1>1 DEF Windows
<1>4. Len(delivered') = to
  <2>1. Len(Bytes(0, to)) = to - 0  BY BytesPiece
  <2> QED  BY <2>1
<1>5. \/ Answered(r.seq, r) /\ waiters' = ws /\ UNCHANGED <<state, ended>>
      \/ /\ r.seq = Total /\ Answered(Total + 1, r) /\ state' = "CLOSE_WAIT"
         /\ waiters' = <<>> /\ ended' = (ended \/ ws # <<>>)
  BY <1>1, ConcludesProperties
<1>6. ASSUME NEW q \in Nat, Answered(q, r), r.seq <= q
      PROVE  /\ rcv' \in Windows /\ rcv'.seq = q /\ rcv'.win = r.win /\ ack' \subseteq Acks
             /\ rcv'.seq + rcv'.sent >= rcv.seq + rcv.sent
             /\ Edges'
  BY <1>1, <1>6, AnsweredEdges DEF IInv
<1>7. CASE Answered(r.seq, r) /\ waiters' = ws /\ UNCHANGED <<state, ended>>
  <2>1. /\ rcv' \in Windows /\ rcv'.seq = r.seq /\ rcv'.win = r.win /\ ack' \subseteq Acks
        /\ rcv'.seq + rcv'.sent >= rcv.seq + rcv.sent /\ Edges'
    BY <1>2, <1>6, <1>7
  <2>2. SocketTypes'  BY <1>1, <1>7, <2>1 DEF SocketTypes
  <2>3. Min2(r.seq, Total) = r.seq  BY <1>1, <1>2 DEF Min2
  <2>4. Progress'  BY <1>1, <1>2, <1>4, <1>7, <2>1, <2>3 DEF Progress, Accepted
  <2>5. WindowIsFree'  BY <1>4, <2>1, <2>3 DEF WindowIsFree, Accepted
  <2>6. NoReaderBesidesData'  BY <1>7 DEF NoReaderBesidesData
  <2>7. InOrder(queue, Len(delivered), rcv.seq, rcv.seq + rcv.win)'  BY <1>4, <2>1
  <2>8. [Stream!Next]_<<delivered, ended>>
    <3>1. to <= Total /\ ended' = ended  BY <1>1, <1>2, <1>7
    <3> QED  BY <1>1, <3>1, StreamStep
  <2> QED  BY <2>1, <2>2, <2>4, <2>5, <2>6, <2>7, <2>8 DEF Kept, IInv
<1>8. CASE /\ r.seq = Total /\ Answered(Total + 1, r) /\ state' = "CLOSE_WAIT"
           /\ waiters' = <<>> /\ ended' = (ended \/ ws # <<>>)
  <2>1. /\ rcv' \in Windows /\ rcv'.seq = Total + 1 /\ rcv'.win = r.win /\ ack' \subseteq Acks
        /\ rcv'.seq + rcv'.sent >= rcv.seq + rcv.sent /\ Edges'
    <3>1. Total + 1 \in Nat /\ r.seq <= Total + 1  BY <1>1, <1>8
    <3> QED  BY <1>6, <1>8, <3>1
  <2>2. <<>> \in Seq(Threads)  OBVIOUS
  <2>3. SocketTypes'  BY <1>1, <1>8, <2>1, <2>2 DEF SocketTypes
  <2>4. Min2(Total + 1, Total) = Total  BY <1>1 DEF Min2
\* A reader that still waits has nothing to read, so all is delivered.
  <2>5. ws # <<>> => to = Total
    <3> SUFFICES ASSUME ws # <<>>, to # Total PROVE FALSE  OBVIOUS
    <3>1. InOrder(queue', to, Total, Total + r.win)  BY <1>8
    <3>2. Min2(Total, Total) = Total /\ Total > to  BY <1>1, <1>8 DEF Min2
    <3>3. PICK i \in DOMAIN queue' : End(queue'[i]) = Total
      BY <3>1, <3>2 DEF InOrder, ReadyUpTo
    <3>4. Len(queue') \in Nat /\ DOMAIN queue' = 1..Len(queue')  BY LenProperties
    <3>5. 1 \in DOMAIN queue' /\ queue' # <<>>  BY <3>3, <3>4, EmptySeq
    <3>6. End(queue'[1]) <= Total  BY <3>1, <3>5 DEF InOrder, Apart, Whole
    <3>7. queue'[1].ready  BY <3>1, <3>5, <3>6 DEF InOrder, ReadyUpTo
    <3> QED  BY <3>5, <3>7
  <2>6. ended' \in BOOLEAN /\ (ended' => to = Total)
    <3>1. ended' = (ws # <<>>)  BY Zenon, <1>1, <1>8
    <3>2. (ws # <<>>) \in BOOLEAN  OBVIOUS
    <3>3. ended' \in BOOLEAN  BY Zenon, <3>1, <3>2
    <3> QED  BY <2>5, <3>1, <3>3
  <2>7. Progress'  BY <1>1, <1>2, <1>4, <1>8, <2>1, <2>4, <2>6 DEF Progress, Accepted
  <2>8. WindowIsFree'  BY <1>4, <1>8, <2>1, <2>4 DEF WindowIsFree, Accepted
  <2>9. NoReaderBesidesData'  BY <1>8 DEF NoReaderBesidesData
  <2>10. InOrder(queue, Len(delivered), rcv.seq, rcv.seq + rcv.win)'
    <3> DEFINE w == r.win
    <3>1. Total + w \in Nat /\ Total + 1 + w = Total + w + 1
      <4>1. Total \in Nat /\ w \in Nat  BY <1>1, <1>2
      <4> HIDE DEF w
      <4> QED  BY <4>1
    <3>2. InOrder(queue', to, Total, Total + r.win)  BY <1>8
    <3>3. InOrder(queue', to, Total + 1, Total + r.win + 1)  BY <3>1, <3>2, OrderAfterFin
    <3>4. rcv'.seq + rcv'.win = Total + r.win + 1  BY <2>1, <3>1
    <3> QED  BY <1>4, <2>1, <3>3, <3>4
  <2>11. [Stream!Next]_<<delivered, ended>>
    <3>1. to <= Total  BY <1>1, <1>2
    <3> QED  BY <1>1, <2>6, <3>1, StreamStep
  <2> QED  BY <2>1, <2>3, <2>7, <2>8, <2>9, <2>10, <2>11 DEF Kept, IInv
<1> QED  BY <1>5, <1>7, <1>8

\* More room only relaxes the bound on the ends.
LEMMA OrderWithRoom ==
    ASSUME NEW q \in Seq(Packets), NEW d, NEW r, NEW e \in Nat, NEW f \in Nat, e <= f,
           InOrder(q, d, r, e)
    PROVE  InOrder(q, d, r, f)
<1>1. \A i \in DOMAIN q : End(q[i]) <= f
  <2> SUFFICES ASSUME NEW i \in DOMAIN q PROVE End(q[i]) <= f  OBVIOUS
  <2>1. End(q[i]) \in Nat /\ End(q[i]) <= e  BY QueueNumbers DEF InOrder, Apart
  <2> QED  BY <2>1
<1> QED  BY <1>1 DEF InOrder, Apart

\* Every other step: r is what a reader makes of the window, the first to bytes are
\* with the readers.
LEMMA Continuation ==
    ASSUME IInv, NEW r \in Windows, NEW to \in Nat,
           r.seq = rcv.seq, r.sent = rcv.sent, rcv.win <= r.win,
           Answered(r.seq, r), r.win = WindowDefault - (Accepted - to),
           queue' \in Seq(Packets), InOrder(queue', to, r.seq, r.seq + r.win),
           delivered' = Bytes(0, to), Len(delivered) <= to, to <= Accepted,
           waiters' \in Seq(Threads), NoReaderBesidesData', state' = state, fin' = fin,
           cap' \in Caps, peer' \in [una : Nat, edge : Nat], peer'.edge <= r.seq + r.win,
           ended' \in BOOLEAN, ended => ended', ended' => state = "CLOSE_WAIT" /\ to = Total
    PROVE  Kept
<1>1. /\ rcv \in Windows /\ fin \subseteq {Total} /\ ack \subseteq Acks /\ Total \in Nat
      /\ delivered = Bytes(0, Len(delivered)) /\ Len(delivered) \in Nat
      /\ ended \in BOOLEAN /\ (ended => Len(delivered) = Total)
      /\ state \in {"ESTABLISHED", "CLOSE_WAIT"}
      /\ state = "ESTABLISHED" => rcv.seq <= Total
      /\ state = "CLOSE_WAIT" => rcv.seq = Total + 1
      /\ \A a \in ack : a.edge <= rcv.seq + rcv.win
  BY ReceiverAssumption DEF IInv, SocketTypes, Progress, Edges
<1>2. /\ r.seq \in Nat /\ r.win \in Nat /\ r.sent \in Nat
      /\ rcv.seq \in Nat /\ rcv.win \in Nat /\ rcv.sent \in Nat
  BY <1>1 DEF Windows
<1>3. /\ rcv' \in Windows /\ rcv'.seq = rcv.seq /\ rcv'.win = r.win /\ rcv'.sent \in Nat
      /\ rcv.sent <= rcv'.sent /\ rcv'.sent <= r.win
      /\ ack' \subseteq Acks /\ \A a \in ack' : a \in ack \/ a.edge <= rcv.seq + r.win
  BY DEF Answered, Windows
<1>4. Len(delivered') = to
  <2>1. 0 \in Nat /\ 0 <= to  OBVIOUS
  <2>2. Len(Bytes(0, to)) = to - 0  BY <2>1, BytesPiece
  <2> QED  BY <2>2
<1>5. Accepted' = Accepted /\ Accepted <= Total
  BY <1>1, <1>2, <1>3 DEF Accepted, Min2
<1>6. SocketTypes'  BY <1>1, <1>3 DEF SocketTypes
<1>7. Progress'  BY <1>1, <1>3, <1>4, <1>5 DEF Progress
<1>8. InOrder(queue, Len(delivered), rcv.seq, rcv.seq + rcv.win)'  BY <1>3, <1>4
<1>9. WindowIsFree'  BY <1>3, <1>4, <1>5 DEF WindowIsFree
<1>10. \A a \in ack' : a.edge <= rcv.seq + r.win
  <2> SUFFICES ASSUME NEW a \in ack' PROVE a.edge <= rcv.seq + r.win  OBVIOUS
  <2>1. a.edge \in Nat  BY <1>3 DEF Acks
  <2>2. CASE a \in ack
    <3>1. a.edge <= rcv.seq + rcv.win  BY <1>1, <2>2
    <3> QED  BY <1>2, <2>1, <3>1
  <2> QED  BY <1>3, <2>2
<1>11. Edges'  BY <1>3, <1>10 DEF Edges
<1>12. rcv'.seq + rcv'.sent >= rcv.seq + rcv.sent
  <2>1. rcv'.seq = rcv.seq /\ rcv.sent <= rcv'.sent /\ rcv'.sent \in Nat  BY <1>3
  <2> QED  BY <1>2, <2>1
<1>13. [Stream!Next]_<<delivered, ended>>
  <2>1. to <= Total
    <3>1. Accepted \in Nat  BY <1>1, <1>2 DEF Accepted, Min2
    <3> QED  BY <1>1, <1>5, <3>1
  <2> QED  BY <1>1, <2>1, StreamStep
<1> QED  BY <1>6, <1>7, <1>8, <1>9, <1>11, <1>12, <1>13 DEF Kept, IInv

\* A step that leaves the queue, the readers and the window alone
LEMMA AnswerKept ==
    ASSUME IInv, Answered(rcv.seq, rcv),
           UNCHANGED <<state, fin, queue, delivered, ended>>,
           waiters' \in Seq(Threads), NoReaderBesidesData',
           cap' \in Caps, peer' \in [una : Nat, edge : Nat], peer'.edge <= rcv.seq + rcv.win
    PROVE  Kept
<1>1. /\ rcv \in Windows /\ queue \in Seq(Packets) /\ Len(delivered) \in Nat
      /\ delivered = Bytes(0, Len(delivered)) /\ Len(delivered) <= Accepted
      /\ ended \in BOOLEAN /\ (ended => state = "CLOSE_WAIT" /\ Len(delivered) = Total)
      /\ InOrder(queue, Len(delivered), rcv.seq, rcv.seq + rcv.win)
      /\ rcv.win = WindowDefault - (Accepted - Len(delivered))
  BY DEF IInv, SocketTypes, Progress, WindowIsFree
<1>2. PICK r \in Windows, to \in Nat : r = rcv /\ to = Len(delivered)  BY <1>1
<1>3. rcv.win <= r.win /\ Len(delivered) <= to
  <2>1. r.win \in Nat  BY DEF Windows
  <2> QED  BY <1>2, <2>1
<1>4. /\ Answered(r.seq, r) /\ r.win = WindowDefault - (Accepted - to)
      /\ queue' \in Seq(Packets) /\ InOrder(queue', to, r.seq, r.seq + r.win)
      /\ delivered' = Bytes(0, to) /\ to <= Accepted /\ peer'.edge <= r.seq + r.win
      /\ ended' \in BOOLEAN /\ (ended => ended')
      /\ ended' => state = "CLOSE_WAIT" /\ to = Total
  BY <1>1, <1>2
<1> QED  BY <1>2, <1>3, <1>4, Continuation

-----------------------------------------------------------------------------
(* The actions *)

\* What the actions use of the invariant
LEMMA Facts ==
    ASSUME IInv
    PROVE  /\ rcv \in Windows /\ rcv.seq \in Nat /\ rcv.win \in Nat /\ rcv.sent \in Nat
           /\ rcv.sent <= rcv.win /\ cap \in Caps /\ cap \in Nat /\ ack \subseteq Acks
           /\ fin \subseteq {Total} /\ Total \in Nat /\ WindowDefault \in Nat
           /\ queue \in Seq(Packets) /\ waiters \in Seq(Threads)
           /\ peer \in [una : Nat, edge : Nat] /\ peer.una \in Nat /\ peer.edge \in Nat
           /\ peer.edge <= rcv.seq + rcv.win
           /\ Len(delivered) \in Nat /\ delivered = Bytes(0, Len(delivered))
           /\ Len(delivered) <= Accepted /\ Accepted \in Nat /\ Accepted <= Total
           /\ Accepted = Min2(rcv.seq, Total) /\ Accepted <= rcv.seq
           /\ InOrder(queue, Len(delivered), rcv.seq, rcv.seq + rcv.win)
           /\ rcv.win = WindowDefault - (Accepted - Len(delivered))
           /\ NoReaderBesidesData
<1>1. /\ rcv \in Windows /\ cap \in Caps /\ ack \subseteq Acks
      /\ fin \subseteq {Total} /\ queue \in Seq(Packets) /\ waiters \in Seq(Threads)
      /\ peer \in [una : Nat, edge : Nat]
  BY DEF IInv, SocketTypes
<1>2. /\ rcv.seq \in Nat /\ rcv.win \in Nat /\ rcv.sent \in Nat
      /\ peer.una \in Nat /\ peer.edge \in Nat
  BY <1>1 DEF Windows
<1>3. cap \in Nat /\ Total \in Nat /\ WindowDefault \in Nat  BY <1>1, ReceiverAssumption
<1>4. Accepted \in Nat /\ Accepted <= Total /\ Accepted <= rcv.seq
  BY <1>2, <1>3 DEF Accepted, Min2
<1> QED
  BY <1>1, <1>2, <1>3, <1>4 DEF IInv, Progress, Edges, WindowIsFree, Accepted

\* An acknowledgement, or none, and nothing else
LEMMA OnlyAnswers ==
    ASSUME IInv, SendAck(rcv) \/ NoAck(rcv),
           UNCHANGED <<state, cap, fin, queue, readerVars, peer>>
    PROVE  Kept
<1>1. Answered(rcv.seq, rcv)  BY Facts, AnswerSent
<1>2. UNCHANGED <<state, fin, queue, delivered, ended, waiters, cap, peer>>  BY DEF readerVars
<1>3. NoReaderBesidesData'  BY <1>2, Facts DEF NoReaderBesidesData
<1>4. peer'.edge <= rcv.seq + rcv.win  BY <1>2, Facts
<1> QED  BY <1>1, <1>2, <1>3, <1>4, Facts, AnswerKept

\* A segment outside of the window is answered or not.
LEMMA OutsideKept ==
    ASSUME IInv, NEW s \in PeerSegments, ArrivesOutside(s)
    PROVE  Kept
<1>1. /\ SendAck(rcv) \/ NoAck(rcv)
      /\ UNCHANGED <<state, cap, fin, queue, readerVars, peer>>
  BY Zenon DEF ArrivesOutside
<1> QED  BY <1>1, OnlyAnswers

\* The delayed acknowledgement of the fast periodic timer
LEMMA DelayedAckKept == ASSUME IInv, DelayedAck PROVE Kept
BY Zenon, OnlyAnswers DEF DelayedAck

\* The acknowledgement at the end of a receive pass
LEMMA PassCompletesKept == ASSUME IInv, PassCompletes PROVE Kept
BY Zenon, OnlyAnswers DEF PassCompletes

\* A data segment carries the acknowledgement.
LEMMA DataCarriesAckKept == ASSUME IInv, DataCarriesAck PROVE Kept
BY Zenon, OnlyAnswers DEF DataCarriesAck, SendAck

\* A new cap: what is on the wire stays.
LEMMA CapChangesKept ==
    ASSUME IInv, CapChanges
    PROVE  Kept
<1>1. NoAck(rcv) /\ cap' \in Caps
      /\ UNCHANGED <<state, fin, queue, delivered, ended, waiters, peer>>
  BY DEF CapChanges, NoAck, readerVars
<1>2. Answered(rcv.seq, rcv)  BY <1>1, Facts, AnswerSent
<1>3. NoReaderBesidesData'  BY <1>1, Facts DEF NoReaderBesidesData
<1>4. peer'.edge <= rcv.seq + rcv.win  BY <1>1, Facts
<1> QED  BY <1>1, <1>2, <1>3, <1>4, Facts, AnswerKept

\* An acknowledgement is lost.
LEMMA NetworkLosesKept ==
    ASSUME IInv, NetworkLoses
    PROVE  Kept
<1>1. ack' = {} /\ rcv' = rcv
      /\ UNCHANGED <<state, cap, fin, queue, delivered, ended, waiters, peer>>
  BY DEF NetworkLoses, readerVars
<1>2. Answered(rcv.seq, rcv)  BY <1>1, Facts DEF Answered
<1>3. NoReaderBesidesData'  BY <1>1, Facts DEF NoReaderBesidesData
<1>4. peer'.edge <= rcv.seq + rcv.win  BY <1>1, Facts
<1> QED  BY <1>1, <1>2, <1>3, <1>4, Facts, AnswerKept

\* The peer takes the furthest edge, which the buffer still has.
LEMMA PeerHearsKept ==
    ASSUME IInv, PeerHears
    PROVE  Kept
<1>1. ack' = {} /\ rcv' = rcv
      /\ UNCHANGED <<state, cap, fin, queue, delivered, ended, waiters>>
  BY DEF PeerHears, readerVars
<1>2. PICK a \in ack : peer' = [una |-> Max2(peer.una, a.seq), edge |-> Max2(peer.edge, a.edge)]
  BY DEF PeerHears
<1>3. a.seq \in Nat /\ a.edge \in Nat /\ a.edge <= rcv.seq + rcv.win
  BY Facts DEF Acks, IInv, Edges
<1>4. peer' \in [una : Nat, edge : Nat] /\ peer'.edge <= rcv.seq + rcv.win
  <2>1. Max2(peer.una, a.seq) \in Nat  BY <1>3, Facts DEF Max2
  <2>2. Max2(peer.edge, a.edge) \in Nat /\ Max2(peer.edge, a.edge) <= rcv.seq + rcv.win
    BY <1>3, Facts DEF Max2
  <2> QED  BY <1>2, <2>1, <2>2
<1>5. Answered(rcv.seq, rcv)  BY <1>1, Facts DEF Answered
<1>6. NoReaderBesidesData'  BY <1>1, Facts DEF NoReaderBesidesData
<1> QED  BY <1>1, <1>4, <1>5, <1>6, Facts, AnswerKept

\* In CLOSE_WAIT every packet of the queue is READY.
LEMMA AllReady ==
    ASSUME IInv, state # "ESTABLISHED", queue # <<>>
    PROVE  queue[1].ready
<1>1. rcv.seq = Total + 1 /\ Total \in Nat  BY Facts DEF IInv, Progress
<1>2. 1 \in DOMAIN queue /\ End(queue[1]) \in Nat
  <2>1. Len(queue) \in Nat /\ DOMAIN queue = 1..Len(queue) /\ Len(queue) # 0
    BY Facts, QueueNumbers, EmptySeq
  <2>2. 1 \in 1..Len(queue)  BY <2>1
  <2> QED  BY <2>1, <2>2, Facts, QueueNumbers
<1>3. End(queue[1]) <= Total  BY <1>2, Facts DEF InOrder, Apart, Whole
<1>4. End(queue[1]) <= rcv.seq  BY <1>1, <1>2, <1>3
<1> QED  BY <1>2, <1>4, Facts DEF InOrder, ReadyUpTo

\* A reader suspends: nothing is READY, so the connection is still open.
LEMMA ReceiveWaitsKept ==
    ASSUME IInv, NEW t \in Threads, ReceiveWaits(t)
    PROVE  Kept
<1>1. /\ IF queue = <<>> THEN state = "ESTABLISHED" ELSE ~queue[1].ready
      /\ waiters' = Append(waiters, t) /\ NoAck(rcv)
      /\ UNCHANGED <<state, cap, fin, queue, delivered, ended, peer>>
  BY DEF ReceiveWaits, NoAck
<1>2. waiters' \in Seq(Threads)  BY <1>1, Facts, AppendProperties
<1>3. NoReaderBesidesData'
  <2>1. state = "ESTABLISHED"  BY <1>1, AllReady
  <2> QED  BY <1>1, <2>1 DEF NoReaderBesidesData
<1>4. Answered(rcv.seq, rcv)  BY <1>1, Facts, AnswerSent
<1>5. peer'.edge <= rcv.seq + rcv.win  BY <1>1, Facts
<1> QED  BY <1>1, <1>2, <1>3, <1>4, <1>5, Facts, AnswerKept

\* A wait times out: fewer readers wait.
LEMMA WaitTimesOutKept ==
    ASSUME IInv, WaitTimesOut
    PROVE  Kept
<1>1. PICK i \in DOMAIN waiters :
         waiters' = SubSeq(waiters, i + 1, Len(waiters)) \o SubSeq(waiters, 1, i - 1)
  BY DEF WaitTimesOut
<1>2. NoAck(rcv) /\ UNCHANGED <<state, cap, fin, queue, delivered, ended, peer>>
  BY DEF WaitTimesOut, NoAck
<1>3. /\ Len(waiters) \in Nat /\ i \in 1..Len(waiters) /\ waiters # <<>>
      /\ \A k \in 1..Len(waiters) : waiters[k] \in Threads
  BY Facts, LenProperties, ElementOfSeq, EmptySeq, SMTT(30)
<1>4. waiters' \in Seq(Threads)
  <2> DEFINE a == SubSeq(waiters, i + 1, Len(waiters))
             b == SubSeq(waiters, 1, i - 1)
  <2>1. \A k \in (i + 1)..Len(waiters) : waiters[k] \in Threads  BY <1>3
  <2>2. a \in Seq(Threads)  BY <1>3, <2>1, SubSeqProperties
  <2>3. \A k \in 1..(i - 1) : waiters[k] \in Threads  BY <1>3
  <2>4. b \in Seq(Threads)  BY <1>3, <2>3, SubSeqProperties
  <2>5. waiters' = a \o b  BY <1>1
  <2> HIDE DEF a, b
  <2> QED  BY <2>2, <2>4, <2>5, ConcatProperties
<1>5. NoReaderBesidesData'  BY <1>2, <1>3, Facts DEF NoReaderBesidesData
<1>6. Answered(rcv.seq, rcv)  BY <1>2, Facts, AnswerSent
<1>7. peer'.edge <= rcv.seq + rcv.win  BY <1>2, Facts
<1> QED  BY <1>2, <1>4, <1>5, <1>6, <1>7, Facts, AnswerKept

\* NX_NOT_CONNECTED with an empty queue: all of the stream has been read.
LEMMA ReceiveEndsKept ==
    ASSUME IInv, NEW t \in Threads, ReceiveEnds(t)
    PROVE  Kept
<1>1. /\ queue = <<>> /\ state = "CLOSE_WAIT" /\ ended' = TRUE /\ NoAck(rcv)
      /\ UNCHANGED <<state, cap, fin, queue, delivered, waiters, peer>>
  BY DEF ReceiveEnds, NoAck
<1>2. rcv.seq = Total + 1  BY <1>1 DEF IInv, Progress
<1>3. Len(delivered) = Total
  <2>1. \A i \in DOMAIN queue : FALSE
    <3>1. DOMAIN queue = 1..Len(queue) /\ Len(queue) = 0  BY <1>1, Facts, LenProperties, EmptySeq
    <3> QED  BY <3>1
  <2>2. ~(Accepted > Len(delivered))
    BY <2>1, Facts DEF InOrder, ReadyUpTo
  <2>3. Accepted = Total  BY <1>2, Facts DEF Min2
  <2> QED  BY <2>2, <2>3, Facts
<1>4. Answered(rcv.seq, rcv)  BY <1>1, Facts, AnswerSent
<1>5. PICK r \in Windows, to \in Nat : r = rcv /\ to = Len(delivered)  BY Facts
<1>6. rcv.win <= r.win /\ Len(delivered) <= to
  <2>1. r.win \in Nat  BY DEF Windows
  <2> QED  BY <1>5, <2>1
<1>7. /\ r.seq = rcv.seq /\ r.sent = rcv.sent
      /\ Answered(r.seq, r) /\ r.win = WindowDefault - (Accepted - to)
      /\ queue' \in Seq(Packets) /\ InOrder(queue', to, r.seq, r.seq + r.win)
      /\ delivered' = Bytes(0, to) /\ to <= Accepted
      /\ peer' \in [una : Nat, edge : Nat] /\ peer'.edge <= r.seq + r.win
      /\ waiters' \in Seq(Threads) /\ cap' \in Caps /\ state' = state /\ fin' = fin
  BY <1>1, <1>4, <1>5, Facts
<1>8. NoReaderBesidesData'  BY <1>1, Facts DEF NoReaderBesidesData
<1>9. ended' \in BOOLEAN /\ (ended => ended') /\ (ended' => state = "CLOSE_WAIT" /\ to = Total)
  BY <1>1, <1>3, <1>5
<1> QED  BY <1>6, <1>7, <1>8, <1>9, Continuation

\* A segment that changes neither queue nor window, but may bring the FIN
LEMMA NothingQueued ==
    ASSUME IInv, state = "ESTABLISHED", NEW need \in BOOLEAN, NEW f, f \subseteq {Total},
           Concludes(rcv, need, f, waiters), fin' = f, UNCHANGED <<cap, queue, delivered, peer>>
    PROVE  Kept
<1>1. rcv.seq <= Total /\ Accepted = rcv.seq
  <2>1. rcv.seq <= Total  BY DEF IInv, Progress
  <2> QED  BY <2>1, Facts DEF Min2
<1>2. PICK r \in Windows, to \in Nat : r = rcv /\ to = Len(delivered)  BY Facts
<1>3. PICK ws \in Seq(Threads) : ws = waiters  BY Facts
<1>4. /\ Concludes(r, need, f, ws) /\ fin' = f /\ cap' = cap /\ peer' = peer
      /\ queue' \in Seq(Packets) /\ InOrder(queue', to, r.seq, r.seq + r.win)
      /\ delivered' = Bytes(0, to) /\ to <= r.seq /\ r.seq <= Total
      /\ r.win = WindowDefault - (r.seq - to) /\ r.sent <= r.win
  BY <1>1, <1>2, <1>3, Facts
<1>5. /\ Len(delivered) <= to /\ rcv.seq + rcv.sent <= r.seq + r.sent
      /\ rcv.seq + rcv.win <= r.seq + r.win
  <2>1. r.seq \in Nat /\ r.win \in Nat /\ r.sent \in Nat  BY DEF Windows
  <2> QED  BY <1>2, <2>1
<1>6. ws # <<>> /\ queue' # <<>> => ~queue'[1].ready
  BY <1>3, Facts DEF NoReaderBesidesData
<1> QED  BY <1>4, <1>5, <1>6, Conclusion

\* A segment without data
LEMMA EmptyArrivesKept ==
    ASSUME IInv, NEW s \in PeerSegments, EmptyArrives(s)
    PROVE  Kept
<1> DEFINE f == FinOf(s, s)
           need == queue = <<>> /\ rcv.seq \notin {s.seq, s.seq + 1}
<1>1. /\ state = "ESTABLISHED" /\ fin' = f /\ Concludes(rcv, need, f, waiters)
      /\ UNCHANGED <<cap, queue, delivered, peer>>
  BY Zenon DEF EmptyArrives
<1>2. f \subseteq {Total}
  <2>1. s.fin => End(s) = Total  BY Facts, SegmentFacts
  <2>2. (f = {End(s)} /\ s.fin) \/ f = fin  BY Zenon DEF FinOf
  <2> QED  BY <2>1, <2>2, Facts
<1>3. need \in BOOLEAN  OBVIOUS
<1> HIDE DEF f, need
<1> QED  BY <1>1, <1>2, <1>3, NothingQueued

\* The FIN of a segment with data is at the end of the stream, within the window or not.
LEMMA TrimmedFin ==
    ASSUME IInv, NEW s \in PeerSegments, s.data # <<>>, InWindow(s)
    PROVE  FinOf(s, Trimmed(s)) \subseteq {Total}
<1>1. (FinOf(s, Trimmed(s)) = {End(Trimmed(s))} /\ s.fin) \/ FinOf(s, Trimmed(s)) = fin
  BY Zenon DEF FinOf
<1>2. ASSUME s.fin PROVE End(Trimmed(s)) = Total
  <2>1. End(s) = Total /\ Total <= peer.edge  BY <1>2, Facts, SegmentFacts
  <2>2. End(Trimmed(s)) = Min2(End(s), rcv.seq + rcv.win)  BY Facts, TrimmedProperties
  <2>3. Total <= rcv.seq + rcv.win /\ Total \in Nat /\ rcv.seq + rcv.win \in Nat  BY <2>1, Facts, SMTT(30)
  <2> QED  BY <2>1, <2>2, <2>3 DEF Min2
<1> QED  BY <1>1, <1>2, Facts

\* A segment of which all is queued already
LEMMA DuplicateArrivesKept ==
    ASSUME IInv, NEW s \in PeerSegments, DuplicateArrives(s)
    PROVE  Kept
<1> DEFINE f == FinOf(s, Trimmed(s))
<1>1. /\ state = "ESTABLISHED" /\ s.data # <<>> /\ InWindow(s)
      /\ fin' = f /\ Concludes(rcv, TRUE, f, waiters)
      /\ UNCHANGED <<cap, queue, delivered, peer>>
  BY Zenon DEF DuplicateArrives
<1>2. f \subseteq {Total}  BY <1>1, TrimmedFin
<1>3. PICK need \in BOOLEAN : need = TRUE  OBVIOUS
<1>4. Concludes(rcv, need, f, waiters)  BY <1>1, <1>3
<1> HIDE DEF f
<1> QED  BY <1>1, <1>2, <1>4, NothingQueued

\* A reader takes the READY packet at the head; with the last one the window is whole.
LEMMA ReceiveKept ==
    ASSUME IInv, NEW t \in Threads, Receive(t)
    PROVE  Kept
<1> DEFINE d == Len(delivered)
           e == rcv.seq + rcv.win
           u == [rcv EXCEPT !.win = IF Len(queue) = 1 THEN WindowDefault
                                    ELSE @ + Len(queue[1].data)]
<1>1. /\ queue # <<>> /\ queue[1].ready /\ queue' = Tail(queue)
      /\ delivered' = delivered \o queue[1].data
      /\ SendAck(u) \/ NoAck(u)
      /\ UNCHANGED <<state, cap, fin, waiters, ended, peer>>
  BY Zenon DEF Receive
<1>2. /\ Len(queue) \in Nat /\ DOMAIN queue = 1..Len(queue) /\ Len(queue) # 0
      /\ 1 \in DOMAIN queue /\ queue[1] \in Packets
  <2>1. /\ Len(queue) \in Nat /\ DOMAIN queue = 1..Len(queue) /\ Len(queue) # 0
    BY <1>1, Facts, QueueNumbers, EmptySeq
  <2>2. 1 \in DOMAIN queue  BY <2>1
  <2> QED  BY <2>1, <2>2, Facts, ElementOfSeq
<1>3. PICK to \in Nat : to = End(queue[1])  BY <1>2, PacketFacts
<1>4. d \in Nat /\ e \in Nat /\ rcv.seq \in Nat /\ d <= Min2(rcv.seq, Total)
  BY Facts, SMTT(30)
<1>5. InOrder(queue, d, rcv.seq, e)  BY Facts
\* The head is the piece that follows on what the readers have.
<1>6. /\ queue[1].data = Bytes(d, to) /\ Len(queue[1].data) = to - d /\ d <= to
  <2>1. queue[1].seq = d
    BY <1>1, <1>2, <1>5 DEF InOrder, ReadyUpTo, Before
  <2>2. queue[1].data = Bytes(queue[1].seq, End(queue[1]))
    BY <1>2, <1>5 DEF InOrder, Apart, Whole
  <2> QED  BY <1>2, <1>3, <2>1, <2>2, PacketFacts
<1>7. /\ Tail(queue) \in Seq(Packets) /\ InOrder(Tail(queue), to, rcv.seq, e)
      /\ to <= Min2(rcv.seq, Total) /\ Len(Tail(queue)) = Len(queue) - 1
  <2>1. Tail(queue) = SubSeq(queue, 2, Len(queue))  BY <1>1, Facts, TailIsSubSeq
  <2>2. PICK k \in 0..Len(queue) : k = 1  BY <1>2
  <2>3. \A i \in 1..k : queue[i].ready
    <3>1. \A i \in 1..k : i = 1  BY <2>2
    <3> QED  BY <1>1, <3>1
  <2>4. to = IF k = 0 THEN d ELSE End(queue[k])  BY <1>3, <2>2
  <2> HIDE DEF d, e
  <2>5. /\ SubSeq(queue, k + 1, Len(queue)) \in Seq(Packets)
        /\ Len(SubSeq(queue, k + 1, Len(queue))) = Len(queue) - k
        /\ InOrder(SubSeq(queue, k + 1, Len(queue)), to, rcv.seq, e)
        /\ to <= Min2(rcv.seq, Total)
    <3>1. queue \in Seq(Packets) /\ rcv.seq \in Nat  BY Facts
    <3>2. d \in Nat /\ e \in Nat /\ d <= Min2(rcv.seq, Total)  BY <1>4
    <3>3. k \in 0..Len(queue)  OBVIOUS
    <3> QED  BY Zenon, <1>5, <2>3, <2>4, <3>1, <3>2, <3>3, ServedOrder
  <2>6. k + 1 = 2  BY <2>2
  <2> QED  BY <2>1, <2>2, <2>5, <2>6
\* After the last packet nothing that has been accepted is left.
<1>8. Len(queue) = 1 => to = Accepted
  <2> SUFFICES ASSUME Len(queue) = 1, to # Accepted PROVE FALSE  OBVIOUS
  <2>1. Accepted = Min2(rcv.seq, Total) /\ Accepted \in Nat  BY Facts
  <2>2. Accepted > to  BY <1>7, <2>1
  <2>3. PICK i \in DOMAIN Tail(queue) : TRUE
    BY <1>7, <2>1, <2>2 DEF InOrder, ReadyUpTo
  <2>4. DOMAIN Tail(queue) = 1..Len(Tail(queue))  BY <1>7, LenProperties
  <2>5. Len(queue) - 1 = 0  OBVIOUS
  <2>6. Len(Tail(queue)) = 0  BY Zenon, <1>7, <2>5
  <2>7. i \in 1..0  BY Zenon, <2>3, <2>4, <2>6
  <2> QED  BY <2>7
<1>9. /\ u \in Windows /\ u.seq = rcv.seq /\ u.sent = rcv.sent /\ rcv.win <= u.win
      /\ u.win = WindowDefault - (Accepted - to)
  <2> DEFINE w == IF Len(queue) = 1 THEN WindowDefault ELSE rcv.win + Len(queue[1].data)
  <2>1. /\ rcv.win \in Nat /\ rcv.win = WindowDefault - (Accepted - d)
        /\ Accepted \in Nat /\ WindowDefault \in Nat
    BY Facts
  <2>2. to <= Accepted  BY <1>7, Facts
  <2>3. w \in Nat /\ rcv.win <= w /\ w = WindowDefault - (Accepted - to)
    <3>1. CASE Len(queue) = 1
      <4>1. w = WindowDefault /\ to = Accepted  BY <1>8, <3>1
      <4>2. d <= Accepted  BY <1>6, <2>2, <1>4, <2>1
      <4> HIDE DEF w, d
      <4> QED  BY <4>1, <4>2, <2>1, <1>4
    <3>2. CASE Len(queue) # 1
      <4>1. w = rcv.win + (to - d)  BY <1>6, <3>2
      <4> HIDE DEF w, d
      <4> QED  BY <4>1, <1>4, <1>6, <2>1, <2>2
    <3> QED  BY <3>1, <3>2
  <2>4. u = [rcv EXCEPT !.win = w]  OBVIOUS
  <2> HIDE DEF w
  <2>5. rcv \in Windows  BY Facts
  <2> QED  BY <2>3, <2>4, <2>5 DEF Windows
<1> HIDE DEF u
<1>10. PICK r \in Windows : r = u  BY <1>9
<1>11. r.sent <= r.win
  <2>1. r.win \in Nat /\ r.sent \in Nat  BY DEF Windows
  <2> QED  BY <1>9, <1>10, <2>1, Facts, SMTT(30)
<1>12. Answered(r.seq, r)
  <2>1. SendAck(r) \/ NoAck(r)  BY <1>1, <1>10
  <2> QED  BY <1>11, <2>1, Facts, AnswerSent
<1>13. InOrder(queue', to, r.seq, r.seq + r.win) /\ peer'.edge <= r.seq + r.win
  <2>1. r.win \in Nat /\ r.seq = rcv.seq /\ rcv.win <= r.win  BY <1>9, <1>10 DEF Windows
  <2>2. PICK f \in Nat : f = r.seq + r.win  BY <1>4, <2>1
  <2>3. e <= f
    <3>1. rcv.win \in Nat /\ rcv.seq \in Nat  BY Facts
    <3> QED  BY <2>1, <2>2, <3>1
  <2>4. peer'.edge <= f  BY <1>1, <2>3, <1>4, Facts
  <2> HIDE DEF e, d
  <2>5. InOrder(Tail(queue), to, rcv.seq, f)  BY <1>4, <1>7, <2>3, OrderWithRoom
  <2> QED  BY <1>1, <2>1, <2>2, <2>4, <2>5
<1>14. delivered' = Bytes(0, to)
  <2>1. 0 \in Nat /\ 0 <= d  BY <1>4
  <2>2. delivered = Bytes(0, d)  BY Facts
  <2> HIDE DEF d
  <2>3. Bytes(0, d) \o Bytes(d, to) = Bytes(0, to)  BY <1>4, <1>6, <2>1, BytesJoin
  <2> QED  BY <1>1, <1>6, <2>2, <2>3
<1>15. NoReaderBesidesData'
  <2>1. waiters = <<>>  BY <1>1, Facts DEF NoReaderBesidesData
  <2> QED  BY <1>1, <2>1 DEF NoReaderBesidesData
\* As long as one packet is in the queue, the end has been told to none.
<1>16. ended' \in BOOLEAN /\ (ended => ended') /\ (ended' => state = "CLOSE_WAIT" /\ to = Total)
  <2>1. ended \in BOOLEAN /\ (ended => state = "CLOSE_WAIT" /\ d = Total)
    BY DEF IInv, Progress
  <2>2. to <= Total  BY <1>7, Facts
  <2>3. d = Total => to = Total  BY <1>4, <1>6, <2>2, Facts
  <2> QED  BY <1>1, <2>1, <2>3
<1>17. /\ r.seq = rcv.seq /\ r.sent = rcv.sent /\ rcv.win <= r.win
       /\ r.win = WindowDefault - (Accepted - to) /\ queue' \in Seq(Packets)
       /\ Len(delivered) <= to /\ to <= Accepted /\ waiters' \in Seq(Threads)
       /\ state' = state /\ fin' = fin /\ cap' \in Caps /\ peer' \in [una : Nat, edge : Nat]
  BY <1>1, <1>6, <1>7, <1>9, <1>10, Facts
<1> HIDE DEF d, e
<1> QED  BY <1>12, <1>13, <1>14, <1>15, <1>16, <1>17, Continuation

\* The offer shrinks with what has come, and stays within the free buffer.
LEMMA OfferMoved ==
    ASSUME NEW sent \in Nat, NEW win \in Nat, sent <= win, NEW moved \in Nat, moved <= win
    PROVE  /\ Less(sent, moved) \in Nat /\ sent <= moved + Less(sent, moved)
           /\ Less(sent, moved) <= win - moved
<1>1. CASE sent > moved
  <2>1. Less(sent, moved) = sent - moved  BY <1>1 DEF Less
  <2> QED  BY <1>1, <2>1
<1>2. CASE ~(sent > moved)
  <2>1. Less(sent, moved) = 0  BY <1>2 DEF Less
  <2> QED  BY <1>2, <2>1
<1> QED  BY <1>1, <1>2

\* The numbers of the window: seq, free buffer and offer, all but d bytes being free,
\* once moved bytes have come and the readers have the first to
LEMMA NumbersMoved ==
    ASSUME NEW seq \in Nat, NEW win \in Nat, NEW sent \in Nat, NEW moved \in Nat,
           NEW less \in Nat, moved <= win, sent <= moved + less, less <= win - moved,
           NEW d \in Nat, NEW to \in Nat, d <= to, NEW size \in Nat,
           win = size - (seq - d)
    PROVE  /\ win - moved \in Nat /\ win - moved + (to - d) \in Nat
           /\ less <= win - moved + (to - d)
           /\ win - moved + (to - d) = size - ((seq + moved) - to)
           /\ seq + sent <= seq + moved + less
           /\ seq + win <= seq + moved + (win - moved + (to - d))
OBVIOUS

\* The window after the sequence has moved on and to - d bytes went to readers
LEMMA WindowMoved ==
    ASSUME rcv \in Windows, rcv.sent <= rcv.win, NEW moved \in Nat, moved <= rcv.win,
           NEW bytes, NEW d \in Nat, NEW to \in Nat, d <= to, Len(bytes) = to - d,
           WindowDefault \in Nat, rcv.win = WindowDefault - (rcv.seq - d)
    PROVE  LET r == HandedOff(Consume(rcv, moved), bytes)
           IN  /\ r \in Windows /\ r.seq = rcv.seq + moved /\ r.sent <= r.win
               /\ r.win = WindowDefault - (r.seq - to)
               /\ rcv.seq + rcv.sent <= r.seq + r.sent
               /\ rcv.seq + rcv.win <= r.seq + r.win
<1> DEFINE less == Less(rcv.sent, moved)
           w == rcv.win - moved + (to - d)
           c == Consume(rcv, moved)
           r == HandedOff(c, bytes)
<1>1. rcv.seq \in Nat /\ rcv.win \in Nat /\ rcv.sent \in Nat /\ rcv.acked \in Nat
  BY DEF Windows
<1>2. less \in Nat /\ rcv.sent <= moved + less /\ less <= rcv.win - moved
  BY <1>1, OfferMoved
<1> HIDE DEF less
<1>3. /\ rcv.win - moved \in Nat /\ w \in Nat /\ less <= w
      /\ w = WindowDefault - ((rcv.seq + moved) - to)
      /\ rcv.seq + rcv.sent <= rcv.seq + moved + less
      /\ rcv.seq + rcv.win <= rcv.seq + moved + w
  <2>1. PICK seq \in Nat, win \in Nat, sent \in Nat :
           seq = rcv.seq /\ win = rcv.win /\ sent = rcv.sent
    BY <1>1
  <2>2. moved <= win /\ sent <= moved + less /\ less <= win - moved
        /\ win = WindowDefault - (seq - d) /\ less \in Nat
    BY <1>2, <2>1
  <2>3. /\ win - moved \in Nat /\ win - moved + (to - d) \in Nat
        /\ less <= win - moved + (to - d)
        /\ win - moved + (to - d) = WindowDefault - ((seq + moved) - to)
        /\ seq + sent <= seq + moved + less
        /\ seq + win <= seq + moved + (win - moved + (to - d))
    BY <2>2, NumbersMoved
  <2> QED  BY <2>1, <2>3
<1>4. /\ c \in Windows /\ c.seq = rcv.seq + moved /\ c.win = rcv.win - moved /\ c.sent = less
  <2>1. c = [rcv EXCEPT !.seq = @ + moved, !.win = @ - moved, !.sent = less]
    BY DEF c, less, Consume
  <2>2. rcv.seq + moved \in Nat
    <3>1. rcv.seq \in Nat  BY <1>1
    <3> QED  BY <3>1
  <2> HIDE DEF c
  <2> QED  BY <1>2, <1>3, <2>1, <2>2 DEF Windows
<1>5. c.win + Len(bytes) = w  BY <1>4
<1> HIDE DEF c, w
<1>6. r \in Windows /\ r.seq = rcv.seq + moved /\ r.win = w /\ r.sent = less
  <2>1. r = [c EXCEPT !.win = w]  BY <1>5 DEF r, HandedOff
  <2> HIDE DEF r
  <2> QED  BY <1>3, <1>4, <2>1 DEF Windows
<1> HIDE DEF r
<1>7. r.sent <= r.win  BY <1>3, <1>6
<1>8. r.win = WindowDefault - (r.seq - to)
  <2>1. r.win = WindowDefault - ((rcv.seq + moved) - to)  BY Zenon, <1>3, <1>6
  <2>2. r.seq = rcv.seq + moved  BY <1>6
  <2> QED  BY Zenon, <2>1, <2>2
<1>9. rcv.seq + rcv.sent <= r.seq + r.sent  BY Zenon, <1>3, <1>6
<1>10. rcv.seq + rcv.win <= r.seq + r.win  BY Zenon, <1>3, <1>6
<1> QED  BY <1>6, <1>7, <1>8, <1>9, <1>10 DEF r, c

\* The packets p of a segment and q of the queue with it, of which n are contiguous
LEMMA DataArrivesKept ==
    ASSUME IInv, NEW s \in PeerSegments, DataArrives(s)
    PROVE  Kept
<1> DEFINE d == Len(delivered)
           e == rcv.seq + rcv.win
           f == FinOf(s, Trimmed(s))
<1>1. /\ state = "ESTABLISHED" /\ s.data # <<>> /\ InWindow(s) /\ cap' = cap /\ peer' = peer
  BY DEF DataArrives
<1>2. PICK p \in {Trimmed(s)}, early \in BOOLEAN :
         /\ ~Covered(p) /\ fin' = FinOf(s, p)
         /\ \E q \in {Inserted(p)} : \E n \in {Contiguous(q)} :
               Queued(q, n, Served(n), p.seq > rcv.seq, FinOf(s, p), early)
  BY Zenon DEF DataArrives
<1>3. PICK q, n : /\ q = Inserted(p) /\ n = Contiguous(q)
                  /\ Queued(q, n, Served(n), p.seq > rcv.seq, FinOf(s, p), early)
  BY <1>2
<1>4. PICK k : k = Served(n)  OBVIOUS
<1>5. Queued(q, n, k, p.seq > rcv.seq, f, early)  BY <1>2, <1>3, <1>4
<1>6. PICK ready, r :
         /\ ready = MarkReady(q, n)
         /\ r = HandedOff(Consume(rcv, IF n = 0 THEN 0 ELSE Less(End(q[n]), rcv.seq)),
                          Data(SubSeq(ready, 1, k)))
         /\ queue' = SubSeq(ready, k + 1, Len(q))
         /\ delivered' = delivered \o Data(SubSeq(ready, 1, k))
         /\ Concludes(r, \/ p.seq > rcv.seq
                         \/ /\ \/ r.sent > Open(r) \/ Open(r) - r.sent >= Capped(WindowDefault) \div 2
                               \/ early /\ r.seq # rcv.seq
                            /\ r.seq # r.acked \/ Advertised(r) # r.sent,
                      f, SubSeq(waiters, k + 1, Len(waiters)))
  BY Zenon, <1>5 DEF Queued
<1>7. \E need \in BOOLEAN : Concludes(r, need, f, SubSeq(waiters, k + 1, Len(waiters)))
  <2> DEFINE need == \/ p.seq > rcv.seq
                     \/ /\ \/ r.sent > Open(r) \/ Open(r) - r.sent >= Capped(WindowDefault) \div 2
                           \/ early /\ r.seq # rcv.seq
                        /\ r.seq # r.acked \/ Advertised(r) # r.sent
  <2>1. Concludes(r, need, f, SubSeq(waiters, k + 1, Len(waiters)))  BY Zenon, <1>6
  <2>2. need \in BOOLEAN  BY Zenon
  <2> HIDE DEF need
  <2> QED  BY <2>1, <2>2
<1>8. /\ rcv \in Windows /\ rcv.seq \in Nat /\ rcv.win \in Nat /\ Total \in Nat
      /\ d \in Nat /\ d <= rcv.seq /\ rcv.seq <= Total /\ e \in Nat /\ rcv.seq <= e
      /\ queue \in Seq(Packets) /\ InOrder(queue, d, rcv.seq, e)
      /\ WindowDefault \in Nat /\ rcv.win = WindowDefault - (rcv.seq - d)
      /\ rcv.sent <= rcv.win
  <2>1. rcv.seq <= Total  BY <1>1 DEF IInv, Progress
  <2>2. rcv.seq \in Nat /\ rcv.win \in Nat /\ Total \in Nat  BY Facts
  <2>3. Accepted = rcv.seq  BY <2>1, <2>2, Facts DEF Min2
  <2>4. e \in Nat /\ rcv.seq <= e  BY <2>2
  <2> QED  BY <2>1, <2>2, <2>3, <2>4, Facts
<1>9. /\ p \in Packets /\ Whole(p) /\ ~p.ready /\ rcv.seq <= p.seq /\ End(p) <= e
  <2>1. /\ Trimmed(s) \in Packets /\ Whole(Trimmed(s)) /\ ~Trimmed(s).ready
        /\ Trimmed(s).seq = Max2(s.seq, rcv.seq) /\ End(Trimmed(s)) = Min2(End(s), e)
    BY <1>1, Facts, TrimmedProperties
  <2>2. s.seq \in Nat /\ End(s) \in Nat  BY Facts, SegmentFacts
  <2>3. rcv.seq <= Max2(s.seq, rcv.seq) /\ Min2(End(s), e) <= e
    <3>1. rcv.seq \in Nat /\ e \in Nat  BY <1>8
    <3> HIDE DEF e
    <3> QED  BY <2>2, <3>1 DEF Max2, Min2
  <2>4. p = Trimmed(s)  BY <1>2
  <2> QED  BY Zenon, <2>1, <2>3, <2>4
<1>10. f \subseteq {Total} /\ fin' = f  BY <1>1, <1>2, TrimmedFin
<1> HIDE DEF d, e, f
\* The walk
<1>11. /\ q \in Seq(Packets) /\ q # <<>> /\ Apart(q, d, e) /\ ReadyUpTo(q, d, rcv.seq)
       /\ \A i \in DOMAIN q : ~q[i].ready =>
             rcv.seq < q[i].seq \/ (q[i].seq = rcv.seq /\ Before(q, d, i) = rcv.seq)
  <2>1. q = Inserted(p)  BY <1>3
  <2> QED  BY <1>2, <1>8, <1>9, <2>1, InsertedOrder, SMTT(30)
\* The READY loop
<1>12. PICK moved, next :
          /\ moved = IF n = 0 THEN 0 ELSE Less(End(q[n]), rcv.seq)
          /\ next = rcv.seq + moved
  OBVIOUS
<1>13. /\ n \in 0..Len(q) /\ next \in Nat /\ rcv.seq <= next /\ next <= Total /\ next <= e
       /\ ready \in Seq(Packets) /\ Len(ready) = Len(q) /\ InOrder(ready, d, next, e)
       /\ \A i \in 1..Len(q) : ready[i].ready = (i <= n)
  <2>1. next = rcv.seq + IF n = 0 THEN 0 ELSE Less(End(q[n]), rcv.seq)  BY <1>12
  <2>2. n = Contiguous(q) /\ ready = MarkReady(q, n)  BY <1>3, <1>6
  <2>3. d \in Nat /\ e \in Nat /\ rcv.seq \in Nat /\ rcv.seq <= Total /\ rcv.seq <= e
    BY <1>8
  <2>4. /\ n \in 0..Len(q) /\ next \in Nat /\ rcv.seq <= next /\ next <= Total
        /\ (rcv.seq <= e => next <= e)
        /\ MarkReady(q, n) \in Seq(Packets) /\ Len(MarkReady(q, n)) = Len(q)
        /\ InOrder(MarkReady(q, n), d, next, e)
        /\ \A i \in 1..Len(q) : MarkReady(q, n)[i].ready = (i <= n)
    BY <1>11, <2>1, <2>2, <2>3, MarkedOrder, SMTT(30)
  <2> QED  BY Zenon, <2>2, <2>3, <2>4
\* The hand-off
<1>14. k \in 0..n /\ k <= Len(waiters) /\ (k < Len(waiters) => k = n)
  <2>1. k = Min2(n, Len(waiters))  BY <1>4 DEF Served
  <2>2. Len(waiters) \in Nat  BY Facts, LenProperties
  <2>3. n \in Nat  BY <1>13
  <2> QED  BY <2>1, <2>2, <2>3 DEF Min2
<1>15. PICK to : to = IF k = 0 THEN d ELSE End(ready[k])  OBVIOUS
<1>16. /\ SubSeq(ready, k + 1, Len(ready)) \in Seq(Packets)
       /\ Len(SubSeq(ready, k + 1, Len(ready))) = Len(ready) - k
       /\ \A i \in 1..(Len(ready) - k) : SubSeq(ready, k + 1, Len(ready))[i] = ready[k + i]
       /\ InOrder(SubSeq(ready, k + 1, Len(ready)), to, next, e)
       /\ to \in Nat /\ d <= to /\ to <= Min2(next, Total)
       /\ Data(SubSeq(ready, 1, k)) = Bytes(d, to)
  <2>1. d \in Nat /\ e \in Nat /\ next \in Nat /\ ready \in Seq(Packets)  BY <1>8, <1>13
  <2>2. Min2(next, Total) = next /\ d <= next
    <3>1. rcv.seq \in Nat /\ Total \in Nat /\ rcv.seq <= next /\ next <= Total /\ d <= rcv.seq
      BY <1>8, <1>13
    <3> QED  BY <2>1, <3>1 DEF Min2
  <2>3. k \in 0..Len(ready)  BY <1>13, <1>14
  <2>4. \A i \in 1..k : ready[i].ready
    <3>1. \A i \in 1..k : i \in 1..Len(q) /\ i <= n  BY <1>13, <1>14
    <3> QED  BY <1>13, <3>1
  <2>5. d <= Min2(next, Total) /\ InOrder(ready, d, next, e)  BY <1>13, <2>2
  <2> QED  BY SMTT(30), <1>15, <2>1, <2>3, <2>4, <2>5, ServedOrder
<1>17. to <= next /\ Len(Bytes(d, to)) = to - d
  <2>1. next \in Nat /\ Total \in Nat /\ next <= Total  BY <1>8, <1>13
  <2>2. Min2(next, Total) = next  BY <2>1 DEF Min2
  <2>3. d \in Nat  BY <1>8
  <2> QED  BY <1>16, <2>2, <2>3, BytesPiece
<1>18. /\ r \in Windows /\ r.seq = next /\ r.sent <= r.win
       /\ r.win = WindowDefault - (r.seq - to)
       /\ rcv.seq + rcv.sent <= r.seq + r.sent /\ rcv.seq + rcv.win <= r.seq + r.win
  <2>1. moved \in Nat /\ moved <= rcv.win
    <3>1. moved = 0 \/ moved = Less(End(q[n]), rcv.seq)  BY <1>12
    <3>2. n # 0 => End(q[n]) \in Nat
      <4>1. n # 0 => n \in 1..Len(q)  BY <1>13
      <4> QED  BY <1>11, <4>1, QueueNumbers
    <3>3. n # 0 => Less(End(q[n]), rcv.seq) \in Nat  BY <1>8, <3>2 DEF Less
    <3>4. moved \in Nat  BY <1>12, <3>3
    <3>5. rcv.seq + moved <= rcv.seq + rcv.win  BY <1>12, <1>13 DEF e
    <3> QED  BY <1>8, <3>4, <3>5
  <2> DEFINE bytes == Data(SubSeq(ready, 1, k))
  <2>2. Len(bytes) = to - d  BY <1>16, <1>17
  <2>3. r = HandedOff(Consume(rcv, moved), bytes)  BY <1>6, <1>12
  <2> HIDE DEF bytes
  <2>4. /\ rcv \in Windows /\ rcv.sent <= rcv.win /\ d \in Nat /\ to \in Nat /\ d <= to
        /\ WindowDefault \in Nat /\ rcv.win = WindowDefault - (rcv.seq - d)
    BY <1>8, <1>16
  <2> QED  BY <1>12, <2>1, <2>2, <2>3, <2>4, WindowMoved, SMTT(30)
<1>19. PICK ws \in Seq(Threads) : ws = SubSeq(waiters, k + 1, Len(waiters))
  <2>1. Len(waiters) \in Nat /\ \A i \in 1..Len(waiters) : waiters[i] \in Threads
    BY Facts, LenProperties, ElementOfSeq
  <2>2. k + 1 \in Nat /\ \A i \in (k + 1)..Len(waiters) : waiters[i] \in Threads
    BY <1>13, <1>14, <2>1
  <2>3. PICK m \in Nat : m = k + 1  BY <2>2
  <2>4. \A i \in m..Len(waiters) : waiters[i] \in Threads  BY <2>2, <2>3
  <2>5. SubSeq(waiters, m, Len(waiters)) \in Seq(Threads)  BY <2>1, <2>4, SubSeqProperties
  <2> QED  BY <2>3, <2>5
<1>20. queue' = SubSeq(ready, k + 1, Len(ready)) /\ queue' \in Seq(Packets)
  BY <1>6, <1>13, <1>16
\* A reader that still waits has seen every contiguous packet go to another.
<1>21. ws # <<>> /\ queue' # <<>> => ~queue'[1].ready
  <2> SUFFICES ASSUME ws # <<>>, queue' # <<>> PROVE ~queue'[1].ready  OBVIOUS
  <2>1. Len(waiters) \in Nat  BY Facts, LenProperties
  <2>2. k < Len(waiters)
    <3> SUFFICES ASSUME ~(k < Len(waiters)) PROVE FALSE  OBVIOUS
    <3>1. k + 1 > Len(waiters) /\ k + 1 \in Nat  BY <1>13, <1>14, <2>1
    <3>2. ws = <<>>
      <4>1. \A i \in (k + 1)..Len(waiters) : waiters[i] \in Threads  BY <3>1, <2>1
      <4>2. Len(ws) = 0  BY <1>19, <2>1, <3>1, <4>1, SubSeqProperties
      <4> QED  BY <4>2, EmptySeq
    <3> QED  BY <3>2
  <2>3. k = n  BY <1>14, <2>2
  <2>4. Len(queue') = Len(q) - k /\ Len(queue') # 0
    BY <1>13, <1>16, <1>20, EmptySeq
  <2>5. Len(q) \in Nat  BY <1>11, LenProperties
  <2>6. 1 \in 1..(Len(ready) - k) /\ k + 1 \in 1..Len(q)  BY <1>13, <1>14, <2>4, <2>5
  <2>7. queue'[1] = ready[k + 1]  BY <1>16, <1>20, <2>6
  <2>8. ready[k + 1].ready = (k + 1 <= n)  BY <1>13, <2>6
  <2>9. ~(k + 1 <= n)  BY <1>13, <2>3
  <2> QED  BY <2>7, <2>8, <2>9
<1>22. delivered' = Bytes(0, to)
  <2>1. 0 \in Nat /\ 0 <= d /\ d \in Nat /\ to \in Nat /\ d <= to  BY <1>8, <1>16
  <2>2. delivered = Bytes(0, d)  BY Facts DEF d
  <2>3. Bytes(0, d) \o Bytes(d, to) = Bytes(0, to)  BY <2>1, BytesJoin
  <2> QED  BY Zenon, <1>6, <1>16, <2>2, <2>3
<1>23. InOrder(queue', to, r.seq, r.seq + r.win)
  <2>1. r.seq \in Nat /\ r.win \in Nat  BY <1>18 DEF Windows
  <2>2. PICK b \in Nat : b = r.seq + r.win  BY <2>1
  <2>3. e \in Nat /\ e <= b  BY <1>8, <1>18, <2>2 DEF e
  <2>4. InOrder(queue', to, next, e)  BY <1>16, <1>20
  <2>5. InOrder(queue', to, next, b)  BY <1>20, <2>3, <2>4, OrderWithRoom
  <2> QED  BY <1>18, <2>2, <2>5
<1>24. PICK need \in BOOLEAN : Concludes(r, need, f, ws)
  BY <1>7, <1>19
<1>25. /\ state = "ESTABLISHED" /\ cap' = cap /\ peer' = peer
       /\ Len(delivered) <= to /\ to <= r.seq /\ r.seq <= Total
  BY <1>1, <1>13, <1>16, <1>17, <1>18 DEF d
<1> QED
  BY <1>10, <1>16, <1>18, <1>20, <1>21, <1>22, <1>23, <1>24, <1>25, Conclusion

-----------------------------------------------------------------------------
(* The theorems *)

\* The state in which connection establishment leaves the socket
LEMMA InitIInv == Init => IInv
<1> SUFFICES ASSUME Init PROVE IInv  OBVIOUS
<1>1. /\ state = "ESTABLISHED" /\ cap \in Caps /\ fin = {} /\ queue = <<>> /\ waiters = <<>>
      /\ delivered = <<>> /\ ended = FALSE /\ ack = {}
      /\ rcv = [seq |-> 0, win |-> WindowDefault, sent |-> Capped(WindowDefault), acked |-> 0]
      /\ peer = [una |-> 0, edge |-> rcv.sent]
  BY DEF Init
<1>2. cap \in Nat /\ WindowDefault \in Nat /\ Total \in Nat  BY <1>1, ReceiverAssumption
<1>3. Capped(WindowDefault) \in Nat /\ Capped(WindowDefault) <= WindowDefault
  BY <1>2 DEF Capped, Min2
<1>4. /\ rcv \in Windows /\ rcv.seq = 0 /\ rcv.win = WindowDefault /\ rcv.sent \in Nat
      /\ rcv.sent <= rcv.win
  BY <1>1, <1>2, <1>3 DEF Windows
<1>5. Len(delivered) = 0 /\ delivered = Bytes(0, 0) /\ Bytes(0, Len(delivered)) = Bytes(0, 0)
  <2>1. Len(delivered) = 0  BY <1>1
  <2>2. Len(Bytes(0, 0)) = 0 - 0 /\ Bytes(0, 0) \in Seq(Nat)  BY BytesPiece
  <2>3. Bytes(0, 0) = <<>>
    <3>1. Len(Bytes(0, 0)) = 0  BY <2>2
    <3> QED  BY <2>2, <3>1, EmptySeq
  <2> QED  BY <1>1, <2>1, <2>3
<1>6. Accepted = 0  BY <1>2, <1>4 DEF Accepted, Min2
<1>7. SocketTypes
  <2>1. <<>> \in Seq(Packets) /\ <<>> \in Seq(Threads)  OBVIOUS
  <2> QED  BY <1>1, <1>4, <2>1 DEF SocketTypes
<1>8. Progress
  <2>1. Len(delivered) \in Nat /\ Len(delivered) <= Accepted  BY <1>5, <1>6
  <2>2. rcv.seq <= Total  BY <1>2, <1>4
  <2>3. delivered = Bytes(0, Len(delivered))  BY <1>5
  <2> QED  BY <1>1, <2>1, <2>2, <2>3 DEF Progress
<1>9. InOrder(queue, Len(delivered), rcv.seq, rcv.seq + rcv.win)
  <2>1. DOMAIN queue = {}  BY <1>1
  <2>2. ~(Min2(rcv.seq, Total) > Len(delivered))  BY <1>2, <1>4, <1>5 DEF Min2
  <2> QED  BY <2>1, <2>2 DEF InOrder, Apart, ReadyUpTo, Gap
<1>10. WindowIsFree  BY <1>2, <1>4, <1>5, <1>6 DEF WindowIsFree
<1>11. Edges
  <2>1. peer.edge = rcv.sent  BY <1>1
  <2>2. rcv.sent <= rcv.seq + rcv.win  BY <1>2, <1>4
  <2> QED  BY <1>1, <1>4, <2>1, <2>2 DEF Edges
<1>12. NoReaderBesidesData  BY <1>1 DEF NoReaderBesidesData
<1> QED  BY <1>7, <1>8, <1>9, <1>10, <1>11, <1>12 DEF IInv

\* Every step, one action at a time
LEMMA NextKept == IInv /\ [Next]_vars => Kept
<1> SUFFICES ASSUME IInv, [Next]_vars PROVE Kept  OBVIOUS
<1>1. ASSUME NEW s \in PeerSegments, Arrives(s) PROVE Kept
  BY <1>1, OutsideKept, EmptyArrivesKept, DuplicateArrivesKept, DataArrivesKept DEF Arrives
<1>2. ASSUME NEW t \in Threads, Receive(t) \/ ReceiveWaits(t) \/ ReceiveEnds(t) PROVE Kept
  BY <1>2, ReceiveKept, ReceiveWaitsKept, ReceiveEndsKept
<1>3. CASE WaitTimesOut  BY <1>3, WaitTimesOutKept
<1>4. CASE DelayedAck  BY <1>4, DelayedAckKept
<1>5. CASE PassCompletes  BY <1>5, PassCompletesKept
<1>6. CASE DataCarriesAck  BY <1>6, DataCarriesAckKept
<1>7. CASE CapChanges  BY <1>7, CapChangesKept
<1>8. CASE PeerHears  BY <1>8, PeerHearsKept
<1>9. CASE NetworkLoses  BY <1>9, NetworkLosesKept
<1>10. CASE UNCHANGED vars
  <2>1. NoAck(rcv) /\ UNCHANGED <<state, cap, fin, queue, readerVars, peer>>
    BY <1>10 DEF vars, NoAck, readerVars
  <2> QED  BY <2>1, OnlyAnswers
<1> QED
  BY <1>1, <1>2, <1>3, <1>4, <1>5, <1>6, <1>7, <1>8, <1>9, <1>10 DEF Next

\* The inductive invariant holds in every reachable state.
THEOREM Invariant == Spec => []IInv
<1>1. IInv /\ [Next]_vars => IInv'  BY NextKept DEF Kept
<1> QED  BY InitIInv, <1>1, PTL DEF Spec

\* The receive queue is cut from the stream without overlap, and READY up to rx_sequence
\* and no further, whatever the segments overlap with (the walk of data_check).
THEOREM QueueInOrderHolds == Spec => []QueueInOrder
<1>1. IInv => QueueInOrder
  <2> SUFFICES ASSUME IInv PROVE QueueInOrder  OBVIOUS
  <2> DEFINE d == Len(delivered)
  <2>1. InOrder(queue, d, rcv.seq, rcv.seq + rcv.win) /\ queue \in Seq(Packets)  BY Facts
  <2>2. Len(queue) \in Nat /\ DOMAIN queue = 1..Len(queue)  BY <2>1, LenProperties
  <2>3. Accepted > d => \E i \in DOMAIN queue : End(queue[i]) = Accepted
    BY <2>1 DEF InOrder, ReadyUpTo, Accepted
  <2>4. ASSUME NEW i \in DOMAIN queue
        PROVE  /\ queue[i].data # <<>> /\ queue[i].data = Bytes(queue[i].seq, End(queue[i]))
               /\ queue[i].seq >= Before(queue, d, i)
               /\ queue[i].ready = (End(queue[i]) <= rcv.seq)
               /\ queue[i].ready => queue[i].seq = Before(queue, d, i)
               /\ ~queue[i].ready => queue[i].seq > rcv.seq
    <3>1. /\ Whole(queue[i]) /\ queue[i].seq >= d
          /\ queue[i].ready = (End(queue[i]) <= rcv.seq)
          /\ queue[i].ready => queue[i].seq = Before(queue, d, i)
          /\ ~queue[i].ready => queue[i].seq > rcv.seq
      BY Zenon, <2>1 DEF InOrder, Apart, ReadyUpTo, Gap
    <3>2. CASE i = 1
      BY <3>1, <3>2 DEF Before, Whole
    <3>3. CASE i # 1
      <4>1. i - 1 \in DOMAIN queue /\ i - 1 < i  BY <2>2, <3>3
      <4>2. End(queue[i - 1]) <= queue[i].seq
        BY <2>1, <4>1 DEF InOrder, Apart
      <4>3. End(queue[i - 1]) \in Nat /\ queue[i].seq \in Nat  BY <2>1, <4>1, QueueNumbers
      <4>4. queue[i].seq >= Before(queue, d, i)  BY <3>3, <4>2, <4>3 DEF Before
      <4> QED  BY <3>1, <4>4 DEF Whole
    <3> QED  BY <3>2, <3>3
  <2> QED  BY <2>3, <2>4 DEF QueueInOrder, Before
<1> QED  BY <1>1, Invariant, PTL

\* rx_window_current is the buffer less what no reader has yet, through arrivals,
\* hand-offs and reads: it can always open fully again.
THEOREM WindowIsFreeHolds == Spec => []WindowIsFree
<1>1. IInv => WindowIsFree  BY DEF IInv
<1> QED  BY <1>1, Invariant, PTL

\* What the peer was allowed to send still fits in the buffer (data_check's trim, the
\* subtraction from rx_window_last_sent).
THEOREM PromiseKeptHolds == Spec => []PromiseKept
<1>1. IInv => PromiseKept
  BY Facts DEF PromiseKept, IInv, Edges, InOrder, Apart
<1> QED  BY <1>1, Invariant, PTL

\* No thread stays suspended in nx_tcp_socket_receive beside a READY packet or a peer
\* that has closed.
THEOREM NoReaderBesidesDataHolds == Spec => []NoReaderBesidesData
<1>1. IInv => NoReaderBesidesData  BY DEF IInv
<1> QED  BY <1>1, Invariant, PTL

\* No step pulls the right edge back: neither the cap, nor a window below the floor, nor
\* an acknowledgement that gets no packet (_nx_tcp_socket_rx_window_open).
THEOREM EdgeNeverRecedesHolds == Spec => EdgeNeverRecedes
<1>1. IInv /\ [Next]_vars => [rcv'.seq + rcv'.sent >= rcv.seq + rcv.sent]_vars
  BY NextKept DEF Kept
<1> QED  BY <1>1, Invariant, PTL DEF Spec, EdgeNeverRecedes

\* The receiving half implements ByteStream: every step delivers more bytes of the peer's
\* stream, ends it after the last, or is a stutter (data_check, nx_tcp_socket_receive).
THEOREM StreamKeptHolds == Spec => StreamKept
<1>1. Init => Stream!Init  BY DEF Init, Stream!Init
<1>2. IInv /\ [Next]_vars => [Stream!Next]_Stream!streamVars
  BY NextKept DEF Kept, Stream!streamVars
<1> QED  BY <1>1, <1>2, Invariant, PTL DEF Spec, StreamKept, Stream!Spec

=============================================================================
