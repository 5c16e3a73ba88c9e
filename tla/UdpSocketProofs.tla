--------------------------- MODULE UdpSocketProofs ---------------------------
(***************************************************************************)
(* Proofs about UdpSocket for any threads, any sockets, whichever of them    *)
(* share the port, and any queue, with receive and the timeouts between any  *)
(* two steps of a handler and any number of threads in bind, for an          *)
(* application that breaks none of the rules (Careless = {}).                *)
(*                                                                           *)
(* The inductive invariant IInv says that the threads suspended in receive   *)
(* on a socket form one cycle of the links (Cycle), into which the socket    *)
(* points, or which is in unbind's hands; that those suspended in bind form  *)
(* the cycles H[s] of the sockets that have the port or are giving it up,    *)
(* where a thread whose clean-up may yet run is the one pointed at and knows *)
(* by whom; and what the handler that holds the mutex has left to do.        *)
(***************************************************************************)
EXTENDS UdpSocket, Lists, FiniteSetTheorems

\* The links nx and pv of the threads of R are each other's inverse and form a
\* single cycle: what is closed under them, and not empty, is all of R.
Cycle(R, nx, pv) ==
    /\ \A t \in R : nx[t] \in R /\ pv[t] \in R /\ pv[nx[t]] = t /\ nx[pv[t]] = t
    /\ \A X \in SUBSET R : X # {} /\ (\A x \in X : nx[x] \in X) => X = R

\* The threads R wait in a ring into which h points.
RingOf(R, h, nx, pv) ==
    /\ h = None <=> R = {}
    /\ h # None => h \in R
    /\ Cycle(R, nx, pv)

\* What Link and Unlink do to the links.
IsLink(h, t, nx, pv, nx2, pv2) ==
    /\ nx2 = IF h = None THEN [nx EXCEPT ![t] = t] ELSE [nx EXCEPT ![t] = h, ![pv[h]] = t]
    /\ pv2 = IF h = None THEN [pv EXCEPT ![t] = t] ELSE [pv EXCEPT ![t] = pv[h], ![h] = t]

IsUnlink(t, nx, pv, nx2, pv2) ==
    /\ nx2 = IF nx[t] = t THEN nx ELSE [nx EXCEPT ![pv[t]] = nx[t]]
    /\ pv2 = IF nx[t] = t THEN pv ELSE [pv EXCEPT ![nx[t]] = pv[t]]

Records == [call : {"none", "bind", "receive"}, cleanup : BOOLEAN, block : Sockets \cup {None},
            wait : {"timed", "forever", "behind"}]

Giving == {"flush", "list", "clear", "resume", "wake", "counted", "hand over"}

Handlers == [by : Threads \cup {None}, sock : Sockets \cup {None},
             at : Giving \cup {"none", "cancel", "deliver", "error", "lift"},
             cursor : Threads \cup {None}, pos : Nat]

\* The threads that wait in receive, by socket.
Receiving(th) == [s \in Sockets |-> {t \in Threads : th[t].call = "receive" /\ th[t].block = s}]

TypeInv ==
    /\ table \in Seq(Sockets) /\ IsInjective(table)
    /\ queue \in [Sockets -> Nat] /\ error \in [Sockets -> BOOLEAN]
    /\ readers \in [Sockets -> Threads \cup {None}] /\ count \in [Sockets -> Int]
    /\ binders \in [Sockets -> Threads \cup {None}]
    /\ owner \in [Sockets -> Sockets \cup {None}]
    /\ binding \in [Sockets -> Threads \cup {None}]
    /\ next \in [Threads -> Threads] /\ prev \in [Threads -> Threads]
    /\ thread \in [Threads -> Records]
    /\ busy \in Handlers

\* A suspended thread has its clean-up to come, and is suspended for a socket.
AllFit(th) == \A t \in Threads : th[t].call # "none" => th[t].cleanup /\ th[t].block \in Sockets

\* Socket s is being unbound; its readers are no longer on its list.
Unbinding(b, s) == b.sock = s /\ b.at \in Giving
Taken(b, s) == b.sock = s /\ b.at \in {"resume", "wake", "counted"}
Uncounted(b, s) == IF b.sock = s /\ b.at = "counted" THEN 1 ELSE 0

\* The threads W[s] wait on s in a ring, and are counted.
ReadersKept(W, rd, ct, nx, pv, b) ==
    \A s \in Sockets :
        /\ IF Taken(b, s) THEN rd[s] = None /\ W[s] \subseteq {b.cursor} /\ Cycle(W[s], nx, pv)
                          ELSE RingOf(W[s], rd[s], nx, pv)
        /\ ct[s] = Cardinality(W[s]) + Uncounted(b, s)

\* The sockets that have the port or are giving it up.
Holders(T, b) == {s \in Sockets : s \in T \/ Unbinding(b, s)}

\* The threads H[s] wait in bind in a ring of a holder s, each for a socket of its own.
BindersKept(H, th, bd, ow, bi, nx, pv, P) ==
    /\ \A s \in Sockets :
          /\ RingOf(H[s], bd[s], nx, pv)
          /\ H[s] # {} => s \in P
          /\ \A t \in H[s] : /\ th[t].call = "bind"
                             /\ th[t].wait # "behind" => bd[s] = t /\ ow[th[t].block] = s
          /\ \A r \in Sockets : s # r => H[s] \cap H[r] = {}
    /\ \A t \in Threads : th[t].call = "bind" =>
          /\ \E s \in Sockets : t \in H[s]
          /\ th[t].block \notin P /\ bi[th[t].block] = t
    /\ \A s \in Sockets : bi[s] # None => th[bi[s]].call = "bind" /\ th[bi[s]].block = s

Lines == [Sockets -> SUBSET Threads]

\* Where threads wait there is nothing they wait for, and the socket is bound or
\* its unbind goes on.
NothingThere(W, T, q, er, b) ==
    \A s \in Sockets : W[s] # {} =>
        /\ s \in T \/ Unbinding(b, s)
        /\ q[s] = 0
        /\ er[s] => b.sock = s /\ b.at \in {"error", "lift"}

\* Who holds the mutex, and in the midst of what.
BusyFits(b, T, th, W, rd) ==
    \/ b = Nobody
    \/ b.at = "cancel" /\ b.cursor \in Threads /\ th[b.cursor].call = "bind" /\ th[b.cursor].wait = "forever"
    \/ /\ b.sock \in Sockets /\ b.sock \notin T /\ b.at \in Giving
       /\ \A u \in W[b.sock] : W[b.sock] = {u} /\ th[u].wait = "forever"
       /\ b.at = "clear" => b.cursor = rd[b.sock]
       /\ b.at = "wake" => W[b.sock] = {b.cursor}
       /\ b.at \in {"counted", "hand over"} => W[b.sock] = {}
    \/ b.at = "deliver" /\ T # {} /\ b.pos # 0
    \/ b.at \in {"error", "lift"} /\ b.sock \in T

IInv ==
    /\ TypeInv
    /\ AllFit(thread)
    /\ ReadersKept(Receiving(thread), readers, count, next, prev, busy)
    /\ \E H \in Lines : BindersKept(H, thread, binders, owner, binding, next, prev,
                                    Holders(Range(table), busy))
    /\ NothingThere(Receiving(thread), Range(table), queue, error, busy)
    /\ BusyFits(busy, Range(table), thread, Receiving(thread), readers)

-----------------------------------------------------------------------------
(* Rings *)

\* A cycle is a matter of its own links.
LEMMA CycleKept ==
    ASSUME NEW R, NEW nx, NEW pv, NEW nx2, NEW pv2, Cycle(R, nx, pv),
           \A t \in R : nx2[t] = nx[t] /\ pv2[t] = pv[t]
    PROVE  Cycle(R, nx2, pv2)
BY DEF Cycle

\* A thread linked to itself is a cycle.
LEMMA CycleOfOne ==
    ASSUME NEW t, NEW nx, NEW pv, nx[t] = t, pv[t] = t
    PROVE  Cycle({t}, nx, pv)
BY DEF Cycle

\* A thread linked before another becomes one of its cycle, and no link of a
\* thread outside it is touched.
LEMMA CycleJoined ==
    ASSUME NEW R, R \subseteq Threads, NEW h \in R, NEW t \in Threads, t \notin R,
           NEW nx \in [Threads -> Threads], NEW pv \in [Threads -> Threads], NEW nx2, NEW pv2,
           h # None, Cycle(R, nx, pv), IsLink(h, t, nx, pv, nx2, pv2)
    PROVE  /\ Cycle(R \cup {t}, nx2, pv2)
           /\ \A u \in Threads : u \notin R \cup {t} => nx2[u] = nx[u] /\ pv2[u] = pv[u]
<1> DEFINE l == pv[h]
           Q == R \cup {t}
<1>1. l \in R /\ l \in Threads /\ h \in Threads /\ nx[l] = h  BY DEF Cycle
<1>2. /\ nx2[t] = h /\ nx2[l] = t
      /\ \A u \in Threads : u # t /\ u # l => nx2[u] = nx[u]
      /\ pv2[t] = l /\ pv2[h] = t
      /\ \A u \in Threads : u # t /\ u # h => pv2[u] = pv[u]
  BY <1>1 DEF IsLink
<1>3. ASSUME NEW u \in Q
      PROVE  nx2[u] \in Q /\ pv2[u] \in Q /\ pv2[nx2[u]] = u /\ nx2[pv2[u]] = u
  <2>1. CASE u = t  BY <1>1, <1>2, <2>1
  <2>2. CASE u # t
    <3>1. u \in R /\ nx[u] \in R /\ pv[u] \in R /\ pv[nx[u]] = u /\ nx[pv[u]] = u
      BY <2>2 DEF Cycle
    <3>2. nx2[u] \in Q /\ pv2[nx2[u]] = u
      <4>1. CASE u = l  BY <1>1, <1>2, <4>1
      <4>2. CASE u # l
        <5>1. nx2[u] = nx[u]  BY <1>2, <2>2, <3>1, <4>2
        <5>2. nx[u] # h  BY <3>1, <4>2
        <5>3. nx[u] # t /\ nx[u] \in Threads  BY <3>1
        <5> QED  BY <1>2, <3>1, <5>1, <5>2, <5>3
      <4> QED  BY <4>1, <4>2
    <3>3. pv2[u] \in Q /\ nx2[pv2[u]] = u
      <4>1. CASE u = h  BY <1>1, <1>2, <4>1
      <4>2. CASE u # h
        <5>1. pv2[u] = pv[u]  BY <1>2, <2>2, <3>1, <4>2
        <5>2. pv[u] # l  BY <1>1, <3>1, <4>2
        <5>3. pv[u] # t /\ pv[u] \in Threads  BY <3>1
        <5> QED  BY <1>2, <3>1, <5>1, <5>2, <5>3
      <4> QED  BY <4>1, <4>2
    <3> QED  BY <3>2, <3>3
  <2> QED  BY <2>1, <2>2
<1>4. ASSUME NEW X \in SUBSET Q, X # {}, \A x \in X : nx2[x] \in X
      PROVE  X = Q
  <2> DEFINE Y == X \ {t}
  <2>1. Y \in SUBSET R  OBVIOUS
  <2>2. ASSUME NEW x \in Y PROVE nx[x] \in Y \/ (x = l /\ t \in X)
    <3>1. x \in R /\ x \in Threads /\ nx[x] \in R  BY <2>1 DEF Cycle
    <3> QED  BY <1>2, <1>4, <3>1
  <2>3. CASE t \in X
    <3>1. h \in Y  BY <1>2, <1>4, <2>3
    <3>2. \A x \in Y : nx[x] \in Y  BY <1>1, <2>2, <3>1
    <3>3. Y = R  BY <2>1, <3>1, <3>2 DEF Cycle
    <3> QED  BY <2>3, <3>3
  <2>4. CASE t \notin X
    <3>1. Y # {} /\ \A x \in Y : nx[x] \in Y  BY <1>4, <2>2, <2>4
    <3>2. Y = R  BY <2>1, <3>1 DEF Cycle
    <3>3. l \in X  BY <1>1, <3>2
    <3> QED  BY <1>2, <1>4, <2>4, <3>3
  <2> QED  BY <2>3, <2>4
<1>5. Cycle(Q, nx2, pv2)
  <2> HIDE DEF Q
  <2> QED  BY <1>3, <1>4 DEF Cycle
<1> QED  BY <1>1, <1>2, <1>5

\* What a list points at when a thread leaves its ring: nothing if it was alone,
\* else one of the others.
LEMMA AfterOf ==
    ASSUME NEW R, NEW u \in R, NEW nx, NEW pv, Cycle(R, nx, pv)
    PROVE  /\ nx[u] = u => R = {u}
           /\ nx[u] # u => nx[u] \in R \ {u}
<1>1. ASSUME nx[u] = u PROVE R = {u}
  <2>1. {u} \in SUBSET R /\ {u} # {} /\ \A x \in {u} : nx[x] \in {u}  BY <1>1
  <2> QED  BY <2>1 DEF Cycle
<1> QED  BY <1>1 DEF Cycle

\* A thread that leaves its ring leaves a cycle of the others.
LEMMA CycleLeft ==
    ASSUME NEW R, R \subseteq Threads, NEW u \in R,
           NEW nx \in [Threads -> Threads], NEW pv \in [Threads -> Threads], NEW nx2, NEW pv2,
           Cycle(R, nx, pv), IsUnlink(u, nx, pv, nx2, pv2)
    PROVE  Cycle(R \ {u}, nx2, pv2)
<1> DEFINE Q == R \ {u}
<1>1. \A t \in R : t \in Threads /\ nx[t] \in R /\ pv[t] \in R /\ pv[nx[t]] = t /\ nx[pv[t]] = t
  BY DEF Cycle
<1>2. CASE nx[u] = u
  <2>1. Q = {}  BY <1>2, AfterOf
  <2>2. nx2 = nx /\ pv2 = pv  BY <1>2 DEF IsUnlink
  <2> QED  BY <2>1, <2>2 DEF Cycle
<1>3. CASE nx[u] # u
  <2>1. u \in Threads /\ pv[u] \in R /\ nx[u] \in R /\ pv[u] \in Threads /\ nx[u] \in Threads  BY <1>1
  <2>2. \A t \in R : /\ nx2[t] = IF pv[u] = t THEN nx[u] ELSE nx[t]
                     /\ pv2[t] = IF nx[u] = t THEN pv[u] ELSE pv[t]
    BY <1>1, <1>3, <2>1 DEF IsUnlink
  <2>3. ASSUME NEW t \in Q
        PROVE  nx2[t] \in Q /\ pv2[t] \in Q /\ pv2[nx2[t]] = t /\ nx2[pv2[t]] = t
    <3>1. t \in R /\ t # u  OBVIOUS
    <3>2. nx2[t] \in Q /\ pv2[nx2[t]] = t
      <4>1. CASE pv[u] = t
        <5>1. nx2[t] = nx[u] /\ nx[u] \in R  BY <1>1, <2>2, <3>1, <4>1
        <5>2. nx[u] # u  BY <1>1, <3>1, <4>1
        <5> QED  BY <2>2, <4>1, <5>1, <5>2
      <4>2. CASE pv[u] # t
        <5>1. nx2[t] = nx[t] /\ nx[t] \in R  BY <1>1, <2>2, <3>1, <4>2
        <5>2. nx[t] # u /\ nx[t] # nx[u]  BY <1>1, <3>1, <4>2
        <5> QED  BY <1>1, <2>2, <5>1, <5>2
      <4> QED  BY <4>1, <4>2
    <3>3. pv2[t] \in Q /\ nx2[pv2[t]] = t
      <4>1. CASE nx[u] = t
        <5>1. pv2[t] = pv[u] /\ pv[u] \in R  BY <1>1, <2>2, <3>1, <4>1
        <5>2. pv[u] # u  BY <1>1, <3>1, <4>1
        <5> QED  BY <2>2, <4>1, <5>1, <5>2
      <4>2. CASE nx[u] # t
        <5>1. pv2[t] = pv[t] /\ pv[t] \in R  BY <1>1, <2>2, <3>1, <4>2
        <5>2. pv[t] # u /\ pv[t] # pv[u]  BY <1>1, <3>1, <4>2
        <5> QED  BY <1>1, <2>2, <5>1, <5>2
      <4> QED  BY <4>1, <4>2
    <3> QED  BY <3>2, <3>3
  <2>4. ASSUME NEW X \in SUBSET Q, X # {}, \A x \in X : nx2[x] \in X
        PROVE  X = Q
    <3>1. X \in SUBSET R /\ u \notin X  OBVIOUS
    <3>2. CASE pv[u] \in X
      <4>1. nx[u] \in X  BY <2>2, <2>4, <3>1, <3>2
      <4>2. \A x \in X \cup {u} : nx[x] \in X \cup {u}
        <5> SUFFICES ASSUME NEW x \in X, x # u PROVE nx[x] \in X \cup {u}  BY <3>1, <4>1
        <5>1. x \in R  BY <3>1
        <5>2. CASE pv[u] = x  BY <1>1, <5>2
        <5>3. CASE pv[u] # x  BY <2>2, <2>4, <5>1, <5>3
        <5> QED  BY <5>2, <5>3
      <4>3. X \cup {u} \in SUBSET R /\ X \cup {u} # {}  BY <3>1
      <4>4. X \cup {u} = R  BY <4>2, <4>3 DEF Cycle
      <4> QED  BY <3>1, <4>4
    <3>3. CASE pv[u] \notin X
      <4>1. \A x \in X : nx[x] \in X  BY <2>2, <2>4, <3>1, <3>3
      <4>2. X = R  BY <2>4, <3>1, <4>1 DEF Cycle
      <4> QED  BY <3>1, <4>2
    <3> QED  BY <3>2, <3>3
  <2> HIDE DEF Q
  <2>5. Cycle(Q, nx2, pv2)  BY <2>3, <2>4 DEF Cycle
  <2> QED  BY <2>5 DEF Q
<1> QED  BY <1>2, <1>3

\* The walk of Ring(h) does its recursion, and meets the cycle h is in: all of it,
\* since among one more steps than there are threads two are at the same.
LEMMA RingIs ==
    ASSUME IsFiniteSet(Threads), next \in [Threads -> Threads], None \notin Threads,
           NEW R, R \subseteq Threads, NEW h \in R, Cycle(R, next, prev)
    PROVE  Ring(h) = R
<1> DEFINE N == Cardinality(Threads)
           Obeys(f) == f = [k \in 0..N |-> IF k = 0 THEN h ELSE next[f[k - 1]]]
           Upto(n, f) == /\ f \in [0..n -> R] /\ f[0] = h
                         /\ \A k \in 1..n : f[k] = next[f[k - 1]]
           w == CHOOSE f : Obeys(f)
<1>1. N \in Nat  BY FS_CardinalityType
<1>2. \A t \in R : next[t] \in R  BY DEF Cycle
<1>3. \E f : Upto(N, f)
  <2> DEFINE Bad == {n \in 0..N : ~\E f : Upto(n, f)}
  <2> SUFFICES ASSUME Bad # {} PROVE FALSE  BY <1>1
  <2>1. Bad \subseteq Nat  OBVIOUS
  <2> HIDE DEF Upto, N
  <2>2. PICK m \in Bad : \A j \in Bad : m <= j  BY <2>1, FirstExists
  <2>3. m \in 0..N /\ ~\E f : Upto(m, f)  BY <2>2
  <2>4. CASE m = 0
    <3>1. Upto(0, [k \in 0..0 |-> h])  BY DEF Upto
    <3> QED  BY <2>3, <2>4, <3>1
  <2>5. CASE m # 0
    <3>1. m - 1 \in 0..N /\ m - 1 \notin Bad  BY <1>1, <2>2, <2>3, <2>5
    <3>2. PICK f : Upto(m - 1, f)  BY <3>1
    <3> DEFINE g == [k \in 0..m |-> IF k = m THEN next[f[m - 1]] ELSE f[k]]
    <3>3. /\ \A k \in 0..(m - 1) : f[k] \in R
          /\ f[0] = h /\ \A k \in 1..(m - 1) : f[k] = next[f[k - 1]]
      BY <3>2 DEF Upto
    <3>4. m \in Nat /\ m - 1 \in 0..(m - 1) /\ 0 \in 0..m  BY <1>1, <2>3, <2>5
    <3>5. g \in [0..m -> R]  BY <1>2, <3>3, <3>4
    <3>6. g[0] = h  BY <2>5, <3>3, <3>4
    <3>7. \A k \in 1..m : g[k] = next[g[k - 1]]
      <4> SUFFICES ASSUME NEW k \in 1..m PROVE g[k] = next[g[k - 1]]  OBVIOUS
      <4>1. k \in 0..m /\ k - 1 \in 0..m /\ k - 1 # m  BY <3>4
      <4>2. CASE k = m  BY <4>1, <4>2
      <4>3. CASE k # m
        <5>1. k \in 1..(m - 1)  BY <3>4, <4>3
        <5> QED  BY <3>3, <4>1, <4>3, <5>1
      <4> QED  BY <4>2, <4>3
    <3> HIDE DEF g
    <3>8. Upto(m, g)  BY <3>5, <3>6, <3>7 DEF Upto
    <3> QED  BY <2>3, <3>8
  <2> QED  BY <2>4, <2>5
<1>4. PICK f : Upto(N, f)  BY <1>3
<1>5. Obeys(f)
  <2> HIDE DEF N
  <2>1. f = [k \in 0..N |-> f[k]]  BY <1>4
  <2>2. \A k \in 0..N : f[k] = IF k = 0 THEN h ELSE next[f[k - 1]]  BY <1>1, <1>4
  <2> QED  BY <2>1, <2>2
<1>6. Obeys(w)
  <2> HIDE DEF Obeys
  <2> QED  BY <1>5
<1>7. Ring(h) = {w[k] : k \in 0..N}
  <2>1. h # None  OBVIOUS
  <2> QED  BY <2>1 DEF Ring, w
<1> HIDE DEF w, N
<1>8. w[0] = h /\ \A k \in 1..N : w[k] = next[w[k - 1]]
  <2>1. 0 \in 0..N /\ \A k \in 1..N : k \in 0..N /\ k # 0  BY <1>1
  <2> QED  BY <1>6, <2>1
<1>9. \A k \in 0..N : w[k] \in R
  <2> DEFINE Bad == {k \in 0..N : w[k] \notin R}
  <2> SUFFICES ASSUME Bad # {} PROVE FALSE  OBVIOUS
  <2>1. Bad \subseteq Nat  OBVIOUS
  <2>2. PICK m \in Bad : \A j \in Bad : m <= j  BY <2>1, FirstExists
  <2>3. m # 0  BY <1>8, <2>2
  <2>4. m - 1 \in 0..N /\ m - 1 \notin Bad /\ m \in 1..N  BY <1>1, <2>2, <2>3
  <2> QED  BY <1>2, <1>8, <2>2, <2>4
<1>10. PICK i \in 0..N, j \in 0..N : i < j /\ w[i] = w[j]
  <2> DEFINE S == 0..N
             v == [k \in S |-> w[k]]
  <2>1. IsFiniteSet(S) /\ Cardinality(S) = N + 1
    <3>1. 0 \in Int /\ N \in Int /\ ~(0 > N) /\ N - 0 + 1 = N + 1  BY <1>1
    <3>2. IsFiniteSet(0..N) /\ Cardinality(0..N) = IF 0 > N THEN 0 ELSE N - 0 + 1
      BY <3>1, FS_Interval
    <3> QED  BY <3>1, <3>2
  <2>2. v \in [S -> Threads]  BY <1>9
  <2>3. N < N + 1 /\ N = Cardinality(Threads)  BY <1>1 DEF N
  <2> HIDE DEF S, v
  <2>4. \E x, y \in S : x # y /\ v[x] = v[y]  BY <2>1, <2>2, <2>3, FS_PigeonHole
  <2>5. PICK x \in 0..N, y \in 0..N : x # y /\ w[x] = w[y]  BY <2>4 DEF S, v
  <2>6. x < y \/ y < x  BY <1>1, <2>5
  <2> QED  BY <2>5, <2>6
<1>11. {w[k] : k \in 0..(j - 1)} = R
  <2> DEFINE X == {w[k] : k \in 0..(j - 1)}
  <2>1. i \in Nat /\ j \in Nat /\ N \in Nat /\ j <= N /\ i < j  BY <1>1, <1>10
  <2>2. X \in SUBSET R /\ X # {}
    <3>1. 0 \in 0..(j - 1) /\ \A k \in 0..(j - 1) : k \in 0..N  BY <2>1
    <3> QED  BY <1>9, <3>1
  <2>3. ASSUME NEW k \in 0..(j - 1) PROVE next[w[k]] \in X
    <3>1. k + 1 \in 1..N /\ (k + 1) - 1 = k /\ k \in Nat  BY <2>1
    <3>2. next[w[k]] = w[k + 1]  BY <1>8, <3>1
    <3>3. CASE k + 1 = j
      <4>1. i \in 0..(j - 1) /\ next[w[k]] = w[i]  BY <1>10, <2>1, <3>2, <3>3
      <4> QED  BY <4>1
    <3>4. CASE k + 1 # j
      <4>1. k + 1 \in 0..(j - 1)  BY <2>1, <3>1, <3>4
      <4> QED  BY <3>2, <4>1
    <3> QED  BY <3>3, <3>4
  <2>4. \A x \in X : next[x] \in X  BY <2>3
  <2> HIDE DEF X
  <2>5. X = R  BY <2>2, <2>4 DEF Cycle
  <2> QED  BY <2>5 DEF X
<1>12. R \subseteq {w[k] : k \in 0..N}
  <2>1. \A k \in 0..(j - 1) : k \in 0..N  BY <1>1, <1>10
  <2> QED  BY <1>11, <2>1
<1> QED  BY <1>7, <1>9, <1>12

\* A thread joins a ring, or starts one, and touches no link of a thread outside it.
LEMMA RingJoined ==
    ASSUME NEW R, R \subseteq Threads, NEW h, NEW t \in Threads, t \notin R,
           NEW nx \in [Threads -> Threads], NEW pv \in [Threads -> Threads], NEW nx2, NEW pv2,
           RingOf(R, h, nx, pv), IsLink(h, t, nx, pv, nx2, pv2)
    PROVE  /\ RingOf(R \cup {t}, IF h = None THEN t ELSE h, nx2, pv2)
           /\ \A u \in Threads : u # t /\ u \notin R => nx2[u] = nx[u] /\ pv2[u] = pv[u]
           /\ nx2 \in [Threads -> Threads] /\ pv2 \in [Threads -> Threads]
<1> USE UdpAssumption DEF UdpAssumption
<1>1. CASE h = None
  <2>1. R = {}  BY <1>1 DEF RingOf
  <2>2. /\ nx2[t] = t /\ pv2[t] = t /\ \A u \in Threads : u # t => nx2[u] = nx[u] /\ pv2[u] = pv[u]
        /\ nx2 \in [Threads -> Threads] /\ pv2 \in [Threads -> Threads]
    BY <1>1 DEF IsLink
  <2>3. Cycle({t}, nx2, pv2)  BY <2>2, CycleOfOne
  <2>4. t # None /\ R \cup {t} = {t}  BY <2>1
  <2> QED  BY <1>1, <2>2, <2>3, <2>4 DEF RingOf
<1>2. CASE h # None
  <2>1. h \in R /\ Cycle(R, nx, pv)  BY <1>2 DEF RingOf
  <2>2. /\ Cycle(R \cup {t}, nx2, pv2)
        /\ \A u \in Threads : u \notin R \cup {t} => nx2[u] = nx[u] /\ pv2[u] = pv[u]
    BY <1>2, <2>1, CycleJoined
  <2>3. nx2 \in [Threads -> Threads] /\ pv2 \in [Threads -> Threads]  BY <2>1 DEF IsLink, Cycle
  <2> QED  BY <1>2, <2>1, <2>2, <2>3 DEF RingOf
<1> QED  BY <1>1, <1>2

\* A thread leaves its ring, whichever of its threads h is.
LEMMA RingLeft ==
    ASSUME NEW R, R \subseteq Threads, NEW h, NEW u \in R, NEW c,
           NEW nx \in [Threads -> Threads], NEW pv \in [Threads -> Threads], NEW nx2, NEW pv2,
           RingOf(R, h, nx, pv), IsUnlink(u, nx, pv, nx2, pv2),
           c = IF nx[u] = u THEN None ELSE nx[u]
    PROVE  /\ RingOf(R \ {u}, c, nx2, pv2)
           /\ nx2 \in [Threads -> Threads] /\ pv2 \in [Threads -> Threads]
<1>1. Cycle(R, nx, pv) /\ None \notin R  BY UdpAssumption DEF UdpAssumption, RingOf
<1>2. Cycle(R \ {u}, nx2, pv2)  BY <1>1, CycleLeft
<1>3. /\ nx[u] = u => R = {u}
      /\ nx[u] # u => nx[u] \in R \ {u}
  BY <1>1, AfterOf
<1>4. nx2 \in [Threads -> Threads] /\ pv2 \in [Threads -> Threads]
  BY <1>1 DEF IsUnlink, Cycle
<1>5. RingOf(R \ {u}, c, nx2, pv2)
  <2>1. CASE nx[u] = u
    <3>1. R \ {u} = {}  BY <1>3, <2>1
    <3> QED  BY <1>2, <2>1, <3>1 DEF RingOf
  <2>2. CASE nx[u] # u
    <3>1. nx[u] \in R \ {u} /\ nx[u] # None  BY <1>1, <1>3, <2>2
    <3> QED  BY <1>2, <2>2, <3>1 DEF RingOf
  <2> QED  BY <2>1, <2>2
<1> QED  BY <1>4, <1>5

\* A ring is a matter of its own links.
LEMMA RingSame ==
    ASSUME NEW R, NEW h, NEW nx, NEW pv, NEW nx2, NEW pv2, RingOf(R, h, nx, pv),
           \A t \in R : nx2[t] = nx[t] /\ pv2[t] = pv[t]
    PROVE  RingOf(R, h, nx2, pv2)
BY CycleKept DEF RingOf

\* Who waits in receive, by socket.
LEMMA Readers ==
    ASSUME NEW th
    PROVE  /\ Receiving(th) \in Lines
           /\ \A s \in Sockets, t \in Threads :
                t \in Receiving(th)[s] <=> th[t].call = "receive" /\ th[t].block = s
           /\ \A s, r \in Sockets : s # r => Receiving(th)[s] \cap Receiving(th)[r] = {}
           /\ \A s \in Sockets : IsFiniteSet(Receiving(th)[s])
<1>1. Receiving(th) \in Lines  BY DEF Receiving, Lines
<1>2. \A s \in Sockets, t \in Threads :
         t \in Receiving(th)[s] <=> th[t].call = "receive" /\ th[t].block = s
  BY DEF Receiving
<1>3. \A s \in Sockets : Receiving(th)[s] \subseteq Threads  BY <1>1 DEF Lines
<1>4. \A s \in Sockets : IsFiniteSet(Receiving(th)[s])
  BY <1>3, FS_Subset, UdpAssumption DEF UdpAssumption
<1>5. \A s, r \in Sockets : s # r => Receiving(th)[s] \cap Receiving(th)[r] = {}
  BY <1>2, <1>3
<1> QED  BY <1>1, <1>2, <1>4, <1>5

\* A thread that suspends in receive joins those of its socket, and one that
\* suspends in bind none.
LEMMA Suspended ==
    ASSUME TypeInv, AllFit(thread), NEW t \in Threads, NEW s \in Sockets, Running(t),
           NEW call \in {"bind", "receive"}, NEW wait \in {"timed", "forever", "behind"},
           Suspend(t, call, s, wait)
    PROVE  /\ thread' \in [Threads -> Records] /\ AllFit(thread')
           /\ thread'[t].call = call /\ thread'[t].block = s /\ thread'[t].wait = wait
           /\ \A u \in Threads : u # t => thread'[u] = thread[u]
           /\ \A r \in Sockets : t \notin Receiving(thread)[r]
           /\ call = "bind" => Receiving(thread') = Receiving(thread)
           /\ call = "receive" => Receiving(thread') =
                  [Receiving(thread) EXCEPT ![s] = Receiving(thread)[s] \cup {t}]
<1> DEFINE y == [call |-> call, cleanup |-> TRUE, block |-> s, wait |-> wait]
<1>1. thread \in [Threads -> Records]  BY DEF TypeInv
<1>2. /\ y \in Records /\ y.call = call /\ y.block = s /\ y.wait = wait /\ y.cleanup
      /\ thread' = [thread EXCEPT ![t] = y]
  BY DEF Records, Suspend
<1> HIDE DEF y
<1>3. thread'[t] = y /\ \A u \in Threads : u # t => thread'[u] = thread[u]  BY <1>1, <1>2
<1>4. thread' \in [Threads -> Records]  BY <1>1, <1>2
<1>5. AllFit(thread')  BY <1>2, <1>3 DEF AllFit
<1>6. \A r \in Sockets : t \notin Receiving(thread)[r]  BY Readers DEF Running
<1>7. /\ Receiving(thread) \in [Sockets -> SUBSET Threads]
      /\ Receiving(thread') \in [Sockets -> SUBSET Threads]
  BY Readers DEF Lines
<1>8. ASSUME call = "bind" PROVE Receiving(thread') = Receiving(thread)
  <2>1. \A r \in Sockets, u \in Threads : u \in Receiving(thread')[r] <=> u \in Receiving(thread)[r]
    <3> SUFFICES ASSUME NEW r \in Sockets, NEW u \in Threads
                 PROVE  u \in Receiving(thread')[r] <=> u \in Receiving(thread)[r]
      OBVIOUS
    <3>1. u \in Receiving(thread')[r] <=> thread'[u].call = "receive" /\ thread'[u].block = r
      BY Readers
    <3>2. u \in Receiving(thread)[r] <=> thread[u].call = "receive" /\ thread[u].block = r
      BY Readers
    <3> QED  BY <1>2, <1>3, <1>6, <1>8, <3>1, <3>2
  <2>2. \A r \in Sockets : Receiving(thread')[r] = Receiving(thread)[r]  BY <1>7, <2>1
  <2> QED  BY <1>7, <2>2
<1>9. ASSUME call = "receive"
      PROVE  Receiving(thread') = [Receiving(thread) EXCEPT ![s] = Receiving(thread)[s] \cup {t}]
  <2>1. \A r \in Sockets, u \in Threads :
            u \in Receiving(thread')[r] <=> u \in Receiving(thread)[r] \/ (r = s /\ u = t)
    <3> SUFFICES ASSUME NEW r \in Sockets, NEW u \in Threads
                 PROVE  u \in Receiving(thread')[r] <=> u \in Receiving(thread)[r] \/ (r = s /\ u = t)
      OBVIOUS
    <3>1. u \in Receiving(thread')[r] <=> thread'[u].call = "receive" /\ thread'[u].block = r
      BY Readers
    <3>2. u \in Receiving(thread)[r] <=> thread[u].call = "receive" /\ thread[u].block = r
      BY Readers
    <3> QED  BY <1>2, <1>3, <1>6, <1>9, <3>1, <3>2
  <2>2. \A r \in Sockets : Receiving(thread')[r] =
                             IF r = s THEN Receiving(thread)[s] \cup {t} ELSE Receiving(thread)[r]
    BY <1>7, <2>1
  <2> QED  BY <1>7, <2>2
<1> QED  BY <1>2, <1>3, <1>4, <1>5, <1>6, <1>8, <1>9

\* A thread that is resumed leaves those of its socket, if it waited in receive.
LEMMA Resumed ==
    ASSUME TypeInv, AllFit(thread), NEW t \in Threads, Resume(t)
    PROVE  /\ thread' \in [Threads -> Records] /\ AllFit(thread')
           /\ thread'[t].call = "none"
           /\ \A u \in Threads : u # t => thread'[u] = thread[u]
           /\ thread[t].call # "receive" => Receiving(thread') = Receiving(thread)
           /\ \A s \in Sockets : t \in Receiving(thread)[s] => Receiving(thread') =
                  [Receiving(thread) EXCEPT ![s] = Receiving(thread)[s] \ {t}]
<1>1. thread \in [Threads -> Records]  BY DEF TypeInv
<1>2. Idle \in Records /\ Idle.call = "none"
  <2>1. None \in Sockets \cup {None}  OBVIOUS
  <2> QED  BY <2>1 DEF Idle, Records
<1>3. thread'[t] = Idle /\ \A u \in Threads : u # t => thread'[u] = thread[u]
  BY <1>1 DEF Resume
<1>4. thread' \in [Threads -> Records]  BY <1>1, <1>2 DEF Resume
<1>5. AllFit(thread')  BY <1>2, <1>3 DEF AllFit
<1>6. /\ Receiving(thread) \in [Sockets -> SUBSET Threads]
      /\ Receiving(thread') \in [Sockets -> SUBSET Threads]
  BY Readers DEF Lines
<1>7. \A r \in Sockets, u \in Threads :
          u \in Receiving(thread')[r] <=> u \in Receiving(thread)[r] /\ u # t
  BY <1>2, <1>3, Readers
<1>8. ASSUME thread[t].call # "receive" PROVE Receiving(thread') = Receiving(thread)
  <2>1. \A r \in Sockets : t \notin Receiving(thread)[r]  BY <1>8, Readers
  <2>2. \A r \in Sockets : Receiving(thread')[r] = Receiving(thread)[r]  BY <1>6, <1>7, <2>1
  <2> QED  BY <1>6, <2>2
<1>9. ASSUME NEW s \in Sockets, t \in Receiving(thread)[s]
      PROVE  Receiving(thread') = [Receiving(thread) EXCEPT ![s] = Receiving(thread)[s] \ {t}]
  <2>1. \A r \in Sockets : r # s => t \notin Receiving(thread)[r]  BY <1>9, Readers
  <2>2. \A r \in Sockets : Receiving(thread')[r] =
                             IF r = s THEN Receiving(thread)[s] \ {t} ELSE Receiving(thread)[r]
    BY <1>6, <1>7, <2>1
  <2> QED  BY <1>6, <2>2
<1> QED  BY <1>2, <1>3, <1>4, <1>5, <1>8, <1>9

\* The handler that holds the mutex does as much to the readers as before.
SameWalk(b, b2) ==
    \A s \in Sockets : /\ Taken(b2, s) <=> Taken(b, s)
                       /\ Taken(b, s) => b2.cursor = b.cursor
                       /\ Uncounted(b2, s) = Uncounted(b, s)

\* The readers' rings are a matter of their own links.
LEMMA ReadersSame ==
    ASSUME NEW W \in Lines, NEW rd, NEW ct, NEW nx, NEW pv, NEW b, ReadersKept(W, rd, ct, nx, pv, b),
           NEW nx2, NEW pv2, \A s \in Sockets : \A t \in W[s] : nx2[t] = nx[t] /\ pv2[t] = pv[t],
           NEW b2, SameWalk(b, b2)
    PROVE  ReadersKept(W, rd, ct, nx2, pv2, b2)
<1> SUFFICES ASSUME NEW s \in Sockets
             PROVE  /\ IF Taken(b2, s) THEN rd[s] = None /\ W[s] \subseteq {b2.cursor} /\ Cycle(W[s], nx2, pv2)
                                       ELSE RingOf(W[s], rd[s], nx2, pv2)
                    /\ ct[s] = Cardinality(W[s]) + Uncounted(b2, s)
  BY DEF ReadersKept
<1>1. ct[s] = Cardinality(W[s]) + Uncounted(b2, s)  BY DEF ReadersKept, SameWalk
<1>2. CASE Taken(b2, s)
  <2>1. Taken(b, s) /\ b2.cursor = b.cursor  BY <1>2 DEF SameWalk
  <2>2. rd[s] = None /\ W[s] \subseteq {b2.cursor} /\ Cycle(W[s], nx, pv)  BY <2>1 DEF ReadersKept
  <2>3. Cycle(W[s], nx2, pv2)  BY <2>2, CycleKept
  <2> QED  BY <1>1, <1>2, <2>2, <2>3
<1>3. CASE ~Taken(b2, s)
  <2>1. RingOf(W[s], rd[s], nx, pv)  BY <1>3 DEF ReadersKept, SameWalk
  <2>2. RingOf(W[s], rd[s], nx2, pv2)  BY <2>1, RingSame
  <2> QED  BY <1>1, <1>3, <2>2
<1> QED  BY <1>2, <1>3

\* What the readers do is none of the binders' business.
LEMMA BindersSame ==
    ASSUME NEW H \in Lines, NEW th, NEW bd, NEW ow, NEW bi, NEW nx, NEW pv, NEW P,
           BindersKept(H, th, bd, ow, bi, nx, pv, P),
           bi \in [Sockets -> Threads \cup {None}],
           NEW th2, NEW nx2, NEW pv2, NEW P2,
           \A t \in Threads : th[t].call = "bind" \/ th2[t].call = "bind" => th2[t] = th[t],
           \A t \in Threads : th[t].call = "bind" => nx2[t] = nx[t] /\ pv2[t] = pv[t],
           \A s \in Sockets : H[s] # {} => s \in P2,
           \A t \in Threads : th[t].call = "bind" => th[t].block \notin P2
    PROVE  BindersKept(H, th2, bd, ow, bi, nx2, pv2, P2)
<1> USE UdpAssumption DEF UdpAssumption
<1>1. ASSUME NEW s \in Sockets
      PROVE  /\ RingOf(H[s], bd[s], nx2, pv2)
             /\ H[s] # {} => s \in P2
             /\ \A t \in H[s] : /\ th2[t].call = "bind"
                                /\ th2[t].wait # "behind" => bd[s] = t /\ ow[th2[t].block] = s
             /\ \A r \in Sockets : s # r => H[s] \cap H[r] = {}
  <2>1. \A t \in H[s] : t \in Threads /\ th[t].call = "bind"  BY DEF Lines, BindersKept
  <2>2. RingOf(H[s], bd[s], nx2, pv2)
    <3>1. RingOf(H[s], bd[s], nx, pv)  BY DEF BindersKept
    <3> QED  BY <2>1, <3>1, RingSame
  <2>3. \A t \in H[s] : th2[t] = th[t]  BY <2>1
  <2> QED  BY <2>1, <2>2, <2>3 DEF BindersKept
<1>2. ASSUME NEW t \in Threads, th2[t].call = "bind"
      PROVE  /\ \E s \in Sockets : t \in H[s]
             /\ th2[t].block \notin P2 /\ bi[th2[t].block] = t
  <2>1. th2[t] = th[t] /\ th[t].call = "bind"  BY <1>2
  <2> QED  BY <2>1 DEF BindersKept
<1>3. ASSUME NEW s \in Sockets, bi[s] # None PROVE th2[bi[s]].call = "bind" /\ th2[bi[s]].block = s
  <2>1. bi[s] \in Threads /\ th[bi[s]].call = "bind" /\ th[bi[s]].block = s  BY <1>3 DEF BindersKept
  <2> QED  BY <2>1
<1> QED  BY <1>1, <1>2, <1>3 DEF BindersKept

LEMMA NobodyIs ==
    /\ Nobody \in Handlers /\ Nobody.at = "none" /\ Nobody.sock = None
    /\ \A s \in Sockets : ~Taken(Nobody, s) /\ ~Unbinding(Nobody, s) /\ Uncounted(Nobody, s) = 0
<1>1. Nobody.at = "none" /\ Nobody.sock = None /\ Nobody.by = None /\ Nobody.cursor = None
  BY DEF Nobody
<1>2. Nobody \in Handlers  BY DEF Nobody, Handlers
<1> QED  BY <1>1, <1>2 DEF Taken, Unbinding, Uncounted, Giving

\* What a step that touches neither threads nor lists leaves as it was.
LEMMA Stands ==
    ASSUME IInv, UNCHANGED <<readers, count, binders, owner, binding, next, prev, thread>>,
           SameWalk(busy, busy'), Holders(Range(table'), busy') = Holders(Range(table), busy)
    PROVE  /\ AllFit(thread')
           /\ ReadersKept(Receiving(thread'), readers', count', next', prev', busy')
           /\ \E H \in Lines : BindersKept(H, thread', binders', owner', binding', next', prev',
                                           Holders(Range(table'), busy'))
<1>1. ReadersKept(Receiving(thread), readers, count, next, prev, busy)  BY DEF IInv
<1>2. Receiving(thread) \in Lines  BY Readers
<1>3. ReadersKept(Receiving(thread), readers, count, next, prev, busy')
  BY <1>1, <1>2, ReadersSame
<1> QED  BY <1>3 DEF IInv

-----------------------------------------------------------------------------
(* bind *)

\* nx_udp_socket_bind keeps the invariant, with the port available
LEMMA BindNowKeeps ==
    ASSUME IInv, NEW t \in Threads, NEW s \in Sockets, BindNow(t, s)
    PROVE  IInv'
<1>1. busy = Nobody /\ busy' = busy  BY DEF BindNow, MutexFree
<1>2. /\ table' \in Seq(Sockets) /\ IsInjective(table')
      /\ Range(table') = Range(table) \cup {s}
  <2>1. table \in Seq(Sockets) /\ IsInjective(table) /\ s \notin Range(table)
    BY DEF IInv, TypeInv, BindNow
  <2>2. CASE s \in First
    <3>1. table' = <<s>> \o table  BY <2>2 DEF BindNow
    <3>2. <<s>> \in Seq(Sockets) /\ Range(<<s>>) = {s} /\ IsInjective(<<s>>)  BY Single
    <3>3. /\ <<s>> \o table \in Seq(Sockets)
          /\ Range(<<s>> \o table) = Range(<<s>>) \cup Range(table)
          /\ IsInjective(<<s>> \o table)
                <=> IsInjective(<<s>>) /\ IsInjective(table) /\ Range(<<s>>) \cap Range(table) = {}
      BY <2>1, <3>2, Joined
    <3> QED  BY <2>1, <3>1, <3>2, <3>3
  <2>3. CASE s \notin First
    <3>1. table' = Append(table, s)  BY <2>3 DEF BindNow
    <3> QED  BY <2>1, <3>1, Appended
  <2> QED  BY <2>2, <2>3
<1>3. UNCHANGED <<queue, error, readers, count, binders, owner, binding, next, prev, thread>>
  BY DEF BindNow, readVars, bindVars, ringVars
<1>4. TypeInv'  BY <1>1, <1>2, <1>3 DEF IInv, TypeInv
<1>5. ASSUME NEW H \in Lines, BindersKept(H, thread, binders, owner, binding, next, prev,
                                          Holders(Range(table), busy))
      PROVE  BindersKept(H, thread, binders, owner, binding, next, prev, Holders(Range(table'), busy))
  <2>1. \A u \in Threads : thread[u].call = "bind" =>
             thread[u].block # s /\ thread[u].block \notin Holders(Range(table), busy)
    <3>1. binding[s] = None /\ None \notin Threads  BY UdpAssumption DEF BindNow, UdpAssumption
    <3> QED  BY <1>5, <3>1 DEF BindersKept
  <2>2. Holders(Range(table'), busy) = Holders(Range(table), busy) \cup {s}  BY <1>2 DEF Holders
  <2>3. \A r \in Sockets : H[r] # {} => r \in Holders(Range(table'), busy)
    BY <1>5, <2>2 DEF BindersKept
  <2>4. \A u \in Threads : thread[u].call = "bind" => thread[u].block \notin Holders(Range(table'), busy)
    BY <2>1, <2>2
  <2>5. binding \in [Sockets -> Threads \cup {None}]  BY DEF IInv, TypeInv
  <2> QED  BY <1>5, <2>3, <2>4, <2>5, BindersSame
<1>6. \E H \in Lines : BindersKept(H, thread', binders', owner', binding', next', prev',
                                   Holders(Range(table'), busy'))
  BY <1>1, <1>3, <1>5 DEF IInv
<1>7. NothingThere(Receiving(thread'), Range(table'), queue', error', busy')
  BY <1>1, <1>2, <1>3 DEF IInv, NothingThere
<1>8. ReadersKept(Receiving(thread'), readers', count', next', prev', busy') /\ AllFit(thread')
  BY <1>1, <1>3 DEF IInv
<1>9. BusyFits(busy', Range(table'), thread', Receiving(thread'), readers')
  BY <1>1 DEF BusyFits
<1> QED  BY <1>4, <1>6, <1>7, <1>8, <1>9 DEF IInv

\* and when the caller suspends for the port: it joins those that wait for the same.
LEMMA BindWaitsKeeps ==
    ASSUME Careless = {}, IInv, NEW t \in Threads, NEW s \in Sockets, BindWaits(t, s)
    PROVE  IInv'
<1> USE UdpAssumption DEF UdpAssumption
<1> DEFINE h == Head(table)
           P == Holders(Range(table), busy)
<1>1. busy = Nobody /\ busy' = busy  BY DEF BindWaits, MutexFree
<1>2. h \in Sockets /\ h \in Range(table) /\ h # None
  <2>1. table \in Seq(Sockets) /\ table # <<>>  BY DEF IInv, TypeInv, BindWaits, Available
  <2> QED  BY <2>1, HeadTaken
<1>3. PICK wait : /\ wait \in {"timed", "forever", "behind"} /\ Suspend(t, "bind", s, wait)
                  /\ binders[h] # None => wait = "behind"
  <2>1. WaitsOn(h) \subseteq {"timed", "forever", "behind"}
        /\ (binders[h] # None => WaitsOn(h) = {"behind"})
    BY DEF WaitsOn, Keeps
  <2> QED  BY <2>1 DEF BindWaits
<1> HIDE DEF h
<1>4. /\ owner' = [owner EXCEPT ![s] = h] /\ binding' = [binding EXCEPT ![s] = t]
      /\ binders' = IF binders[h] = None THEN [binders EXCEPT ![h] = t] ELSE binders
      /\ Link(binders[h], t)
      /\ UNCHANGED <<table, queue, error, readers, count, busy>>
      /\ Running(t) /\ s \notin Range(table) /\ binding[s] = None
  BY DEF BindWaits, readVars, h
<1>5. /\ thread' \in [Threads -> Records] /\ AllFit(thread')
      /\ thread'[t].call = "bind" /\ thread'[t].block = s /\ thread'[t].wait = wait
      /\ \A u \in Threads : u # t => thread'[u] = thread[u]
      /\ \A r \in Sockets : t \notin Receiving(thread)[r]
      /\ Receiving(thread') = Receiving(thread)
  BY <1>3, <1>4, Suspended DEF IInv
<1>6. PICK H \in Lines : BindersKept(H, thread, binders, owner, binding, next, prev, P)
  BY DEF IInv
<1> DEFINE R == H[h]
           c == binders[h]
           G == [H EXCEPT ![h] = R \cup {t}]
<1>7. /\ R \subseteq Threads /\ t \notin R /\ RingOf(R, c, next, prev)
      /\ \A r \in Sockets : t \notin H[r]
  <2>1. thread[t].call # "bind"  BY <1>4 DEF Running
  <2> QED  BY <1>2, <1>6, <2>1 DEF BindersKept, Lines
<1>8. next \in [Threads -> Threads] /\ prev \in [Threads -> Threads]  BY DEF IInv, TypeInv
<1>9. /\ RingOf(R \cup {t}, IF c = None THEN t ELSE c, next', prev')
      /\ \A u \in Threads : u # t /\ u \notin R => next'[u] = next[u] /\ prev'[u] = prev[u]
      /\ next' \in [Threads -> Threads] /\ prev' \in [Threads -> Threads]
  <2>1. IsLink(c, t, next, prev, next', prev')  BY <1>4 DEF Link, IsLink
  <2> HIDE DEF R, c
  <2> QED  BY <1>7, <1>8, <2>1, RingJoined
<1>10. TypeInv'
  <2>1. binders' \in [Sockets -> Threads \cup {None}]  BY <1>2, <1>4 DEF IInv, TypeInv
  <2> QED  BY <1>2, <1>4, <1>5, <1>9, <2>1 DEF IInv, TypeInv
<1>11. ReadersKept(Receiving(thread'), readers', count', next', prev', busy')
  <2>1. \A r \in Sockets : \A u \in Receiving(thread)[r] : next'[u] = next[u] /\ prev'[u] = prev[u]
    <3>1. \A r \in Sockets : \A u \in Receiving(thread)[r] : u \in Threads /\ thread[u].call = "receive"
      BY Readers DEF Lines
    <3>2. \A u \in R : thread[u].call = "bind"  BY <1>2, <1>6 DEF BindersKept
    <3> QED  BY <1>5, <1>9, <3>1, <3>2
  <2>2. ReadersKept(Receiving(thread), readers, count, next, prev, busy)  BY DEF IInv
  <2>3. SameWalk(busy, busy) /\ Receiving(thread) \in Lines  BY Readers DEF SameWalk
  <2>4. ReadersKept(Receiving(thread), readers, count, next', prev', busy)
    BY <2>1, <2>2, <2>3, ReadersSame
  <2> QED  BY <1>4, <1>5, <2>4
<1>12. G \in Lines /\ BindersKept(G, thread', binders', owner', binding', next', prev', P)
  <2>1. G \in Lines /\ G[h] = R \cup {t} /\ \A r \in Sockets : r # h => G[r] = H[r]
    BY <1>2, <1>7 DEF Lines
  <2>2. /\ binders'[h] = (IF c = None THEN t ELSE c) /\ \A r \in Sockets : r # h => binders'[r] = binders[r]
        /\ owner'[s] = h /\ \A r \in Sockets : r # s => owner'[r] = owner[r]
        /\ binding'[s] = t /\ \A r \in Sockets : r # s => binding'[r] = binding[r]
    BY <1>2, <1>4 DEF IInv, TypeInv
  <2>3. \A r \in Sockets : \A u \in H[r] :
           /\ u \in Threads /\ u # t /\ thread'[u] = thread[u] /\ thread[u].call = "bind"
           /\ thread[u].block \in Sockets /\ thread[u].block # s
    <3>1. \A r \in Sockets : \A u \in H[r] : u \in Threads /\ u # t /\ thread[u].call = "bind"
      BY <1>6, <1>7 DEF BindersKept, Lines
    <3>2. \A u \in Threads : thread[u].call = "bind" => thread[u].block \in Sockets /\ thread[u].block # s
      BY <1>4, <1>6 DEF BindersKept, IInv, AllFit
    <3> QED  BY <1>5, <3>1, <3>2
  <2> HIDE DEF G
  <2>4. ASSUME NEW r \in Sockets
        PROVE  /\ RingOf(G[r], binders'[r], next', prev')
               /\ G[r] # {} => r \in P
               /\ \A u \in G[r] : /\ thread'[u].call = "bind"
                                  /\ thread'[u].wait # "behind" =>
                                        binders'[r] = u /\ owner'[thread'[u].block] = r
               /\ \A q \in Sockets : r # q => G[r] \cap G[q] = {}
    <3>1. RingOf(G[r], binders'[r], next', prev')
      <4>1. CASE r = h  BY <1>9, <2>1, <2>2, <4>1
      <4>2. CASE r # h
        <5>1. H[r] \cap R = {} /\ RingOf(H[r], binders[r], next, prev)
          BY <1>2, <1>6, <4>2 DEF BindersKept
        <5>2. \A u \in H[r] : next'[u] = next[u] /\ prev'[u] = prev[u]  BY <1>9, <2>3, <5>1
        <5>3. RingOf(H[r], binders[r], next', prev')  BY <5>1, <5>2, RingSame
        <5> QED  BY <2>1, <2>2, <4>2, <5>3
      <4> QED  BY <4>1, <4>2
    <3>2. G[r] # {} => r \in P
      <4>1. h \in P  BY <1>2 DEF Holders
      <4> QED  BY <1>6, <2>1, <4>1 DEF BindersKept
    <3>3. ASSUME NEW u \in G[r]
          PROVE  /\ thread'[u].call = "bind"
                 /\ thread'[u].wait # "behind" => binders'[r] = u /\ owner'[thread'[u].block] = r
      <4>1. CASE u = t
        <5>1. r = h  BY <1>7, <2>1, <4>1, <3>3
        <5> QED  BY <1>3, <1>5, <2>2, <4>1, <5>1
      <4>2. CASE u # t
        <5>1. u \in H[r]  BY <2>1, <3>3, <4>2
        <5>2. thread[u].wait # "behind" => binders[r] = u /\ owner[thread[u].block] = r
          BY <1>6, <5>1 DEF BindersKept
        <5>3. u # None  BY <2>3, <5>1
        <5> QED  BY <2>2, <2>3, <5>1, <5>2, <5>3
      <4> QED  BY <4>1, <4>2
    <3>4. \A q \in Sockets : r # q => G[r] \cap G[q] = {}
      <4>1. \A q \in Sockets : r # q => H[r] \cap H[q] = {}  BY <1>6 DEF BindersKept
      <4> QED  BY <1>2, <1>7, <2>1, <4>1
    <3> QED  BY <3>1, <3>2, <3>3, <3>4
  <2>5. ASSUME NEW u \in Threads, thread'[u].call = "bind"
        PROVE  /\ \E r \in Sockets : u \in G[r]
               /\ thread'[u].block \notin P /\ binding'[thread'[u].block] = u
    <3>1. CASE u = t
      <4>1. s \notin P  BY <1>1, <1>4, NobodyIs DEF Holders
      <4> QED  BY <1>2, <1>5, <2>1, <2>2, <3>1, <4>1
    <3>2. CASE u # t
      <4>1. thread'[u] = thread[u] /\ thread[u].call = "bind"  BY <1>5, <2>5, <3>2
      <4>2. /\ thread[u].block \notin P /\ binding[thread[u].block] = u
        BY <1>6, <4>1 DEF BindersKept
      <4>3. PICK r \in Sockets : u \in H[r]  BY <1>6, <4>1 DEF BindersKept
      <4>4. u \in G[r]  BY <2>1, <4>3
      <4> QED  BY <2>2, <2>3, <4>1, <4>2, <4>3, <4>4
    <3> QED  BY <3>1, <3>2
  <2>6. ASSUME NEW r \in Sockets, binding'[r] # None
        PROVE  thread'[binding'[r]].call = "bind" /\ thread'[binding'[r]].block = r
    <3>1. CASE r = s  BY <1>5, <2>2, <3>1
    <3>2. CASE r # s
      <4>1. binding[r] \in Threads  BY <2>2, <2>6, <3>2 DEF IInv, TypeInv
      <4>2. thread[binding[r]].call = "bind" /\ thread[binding[r]].block = r
        BY <1>6, <2>2, <2>6, <3>2 DEF BindersKept
      <4>3. binding[r] # t  BY <1>4, <4>2 DEF Running
      <4> QED  BY <1>5, <2>2, <3>2, <4>1, <4>2, <4>3
    <3> QED  BY <3>1, <3>2
  <2>7. G \in Lines  BY <2>1
  <2> HIDE DEF P
  <2> QED  BY <2>4, <2>5, <2>6, <2>7 DEF BindersKept
<1>13. NothingThere(Receiving(thread'), Range(table'), queue', error', busy')
  BY <1>4, <1>5 DEF IInv
<1>14. BusyFits(busy', Range(table'), thread', Receiving(thread'), readers')
  BY <1>1 DEF BusyFits
<1>15. \E K \in Lines : BindersKept(K, thread', binders', owner', binding', next', prev',
                                    Holders(Range(table'), busy'))
  BY <1>4, <1>12
<1> QED  BY <1>5, <1>10, <1>11, <1>13, <1>14, <1>15 DEF IInv

\* A handler that is not in the midst of unbind leaves nothing half done.
LEMMA NotGiving ==
    ASSUME NEW b, b.at \notin Giving, NEW T
    PROVE  /\ SameWalk(b, Nobody) /\ SameWalk(Nobody, b)
           /\ Holders(T, b) = Holders(T, Nobody)
           /\ \A s \in Sockets : ~Taken(b, s) /\ ~Unbinding(b, s) /\ Uncounted(b, s) = 0
<1>1. \A s \in Sockets : ~Taken(b, s) /\ ~Unbinding(b, s) /\ Uncounted(b, s) = 0
  BY DEF Taken, Unbinding, Uncounted, Giving
<1> QED  BY <1>1, NobodyIs DEF SameWalk, Holders

\* The clean-up of a bind takes its thread, at which its list points, out of the ring.
LEMMA BindCleanupKeeps ==
    ASSUME IInv, NEW t \in Threads, thread[t].call = "bind", thread[t].wait # "behind", BindCleanup(t),
           busy' = busy \/ (busy.at = "cancel" /\ busy' = Nobody)
    PROVE  /\ TypeInv' /\ AllFit(thread')
           /\ ReadersKept(Receiving(thread'), readers', count', next', prev', busy')
           /\ \E H \in Lines : BindersKept(H, thread', binders', owner', binding', next', prev',
                                           Holders(Range(table'), busy'))
           /\ NothingThere(Receiving(thread'), Range(table'), queue', error', busy')
           /\ Receiving(thread') = Receiving(thread) /\ UNCHANGED <<table, readers>>
           /\ \A u \in Threads : u # t => thread'[u] = thread[u]
<1> USE UdpAssumption DEF UdpAssumption
<1> DEFINE P == Holders(Range(table), busy)
           s == thread[t].block
<1>1. PICK H \in Lines : BindersKept(H, thread, binders, owner, binding, next, prev, P)
  BY DEF IInv
<1>2. s \in Sockets /\ binding[s] = t  BY <1>1 DEF IInv, AllFit, BindersKept
<1>3. PICK h \in Sockets : t \in H[h]  BY <1>1 DEF BindersKept
<1> DEFINE R == H[h]
           c == IF next[t] = t THEN None ELSE next[t]
           G == [H EXCEPT ![h] = R \ {t}]
<1>4. /\ R \subseteq Threads /\ t \in R /\ RingOf(R, t, next, prev) /\ binders[h] = t /\ owner[s] = h
      /\ \A r \in Sockets : r # h => t \notin H[r]
      /\ \A u \in R : u # t => thread[u].wait = "behind"
  BY <1>1, <1>3 DEF BindersKept, Lines
<1>5. /\ binding' = [binding EXCEPT ![s] = None] /\ owner' = [owner EXCEPT ![s] = None]
      /\ binders' = [binders EXCEPT ![h] = c]
      /\ Unlink(t) /\ Resume(t)
      /\ UNCHANGED <<table, queue, error, readers, count>>
  BY <1>4 DEF BindCleanup, After, readVars
<1>6. /\ thread' \in [Threads -> Records] /\ AllFit(thread')
      /\ thread'[t].call = "none"
      /\ \A u \in Threads : u # t => thread'[u] = thread[u]
      /\ Receiving(thread') = Receiving(thread)
  <2>1. thread[t].call # "receive"  OBVIOUS
  <2> QED  BY <1>5, <2>1, Resumed DEF IInv
<1>7. next \in [Threads -> Threads] /\ prev \in [Threads -> Threads]  BY DEF IInv, TypeInv
<1>8. /\ RingOf(R \ {t}, c, next', prev')
      /\ \A u \in Threads : u \notin R => next'[u] = next[u] /\ prev'[u] = prev[u]
      /\ next' \in [Threads -> Threads] /\ prev' \in [Threads -> Threads]
  <2>1. IsUnlink(t, next, prev, next', prev')  BY <1>5 DEF Unlink, IsUnlink
  <2>2. c = IF next[t] = t THEN None ELSE next[t]  OBVIOUS
  <2>3. R \subseteq Threads /\ t \in R /\ RingOf(R, t, next, prev)  BY <1>4
  <2> HIDE DEF R, c
  <2>4. RingOf(R \ {t}, c, next', prev')  BY <1>7, <2>1, <2>2, <2>3, RingLeft
  <2>5. \A u \in Threads : u \notin R => next'[u] = next[u] /\ prev'[u] = prev[u]
    <3>1. next[t] \in R /\ prev[t] \in R  BY <2>3 DEF RingOf, Cycle
    <3> QED  BY <1>7, <2>1, <3>1 DEF IsUnlink
  <2>6. next' \in [Threads -> Threads] /\ prev' \in [Threads -> Threads]
    BY <1>7, <2>1, <2>2, <2>3, RingLeft
  <2> QED  BY <2>4, <2>5, <2>6
<1>9. /\ SameWalk(busy, busy') /\ Holders(Range(table'), busy') = P
      /\ busy' \in Handlers
      /\ \A r \in Sockets : (Unbinding(busy, r) => Unbinding(busy', r))
      /\ \A r \in Sockets : (busy.sock = r /\ busy.at \in {"error", "lift"}
                               => busy'.sock = r /\ busy'.at \in {"error", "lift"})
  <2>1. CASE busy' = busy  BY <1>5, <2>1 DEF SameWalk, IInv, TypeInv
  <2>2. CASE busy.at = "cancel" /\ busy' = Nobody
    <3>1. busy.at \notin Giving  BY <2>2 DEF Giving
    <3> QED  BY <1>5, <2>2, <3>1, NotGiving, NobodyIs
  <2> QED  BY <2>1, <2>2
<1>10. TypeInv'
  <2>1. c \in Threads \cup {None}  BY <1>7
  <2> QED  BY <1>5, <1>6, <1>8, <1>9, <2>1 DEF IInv, TypeInv
<1>11. ReadersKept(Receiving(thread'), readers', count', next', prev', busy')
  <2>1. \A r \in Sockets : \A u \in Receiving(thread)[r] : next'[u] = next[u] /\ prev'[u] = prev[u]
    <3>1. \A r \in Sockets : \A u \in Receiving(thread)[r] : u \in Threads /\ thread[u].call = "receive"
      BY Readers DEF Lines
    <3>2. \A u \in R : thread[u].call = "bind"  BY <1>1 DEF BindersKept
    <3> QED  BY <1>8, <3>1, <3>2
  <2>2. ReadersKept(Receiving(thread), readers, count, next, prev, busy)  BY DEF IInv
  <2>3. Receiving(thread) \in Lines  BY Readers
  <2>4. ReadersKept(Receiving(thread), readers, count, next', prev', busy')
    BY <1>9, <2>1, <2>2, <2>3, ReadersSame
  <2> QED  BY <1>5, <1>6, <2>4
<1>12. G \in Lines /\ BindersKept(G, thread', binders', owner', binding', next', prev', P)
  <2>1. G \in Lines /\ G[h] = R \ {t} /\ \A r \in Sockets : r # h => G[r] = H[r]
    BY <1>4 DEF Lines
  <2>2. /\ binders'[h] = c /\ \A r \in Sockets : r # h => binders'[r] = binders[r]
        /\ binding'[s] = None /\ \A r \in Sockets : r # s => binding'[r] = binding[r]
        /\ owner'[s] = None /\ \A r \in Sockets : r # s => owner'[r] = owner[r]
    BY <1>2, <1>5 DEF IInv, TypeInv
  <2>3. \A r \in Sockets : \A u \in G[r] :
           /\ u \in H[r] /\ u \in Threads /\ u # t /\ thread'[u] = thread[u] /\ thread[u].call = "bind"
           /\ thread[u].block \in Sockets /\ thread[u].block # s
    <3>1. \A r \in Sockets : \A u \in G[r] : u \in H[r] /\ u # t  BY <1>4, <2>1
    <3>2. \A r \in Sockets : \A u \in H[r] : u \in Threads /\ thread[u].call = "bind"
      BY <1>1 DEF BindersKept, Lines
    <3>3. \A u \in Threads : thread[u].call = "bind" /\ u # t =>
               thread[u].block \in Sockets /\ thread[u].block # s
      BY <1>1, <1>2 DEF BindersKept, IInv, AllFit
    <3> QED  BY <1>6, <3>1, <3>2, <3>3
  <2> HIDE DEF G, c
  <2>4. ASSUME NEW r \in Sockets
        PROVE  /\ RingOf(G[r], binders'[r], next', prev')
               /\ G[r] # {} => r \in P
               /\ \A u \in G[r] : /\ thread'[u].call = "bind"
                                  /\ thread'[u].wait # "behind" =>
                                        binders'[r] = u /\ owner'[thread'[u].block] = r
               /\ \A q \in Sockets : r # q => G[r] \cap G[q] = {}
    <3>1. RingOf(G[r], binders'[r], next', prev')
      <4>1. CASE r = h  BY <1>8, <2>1, <2>2, <4>1
      <4>2. CASE r # h
        <5>1. H[r] \cap R = {} /\ RingOf(H[r], binders[r], next, prev)
          BY <1>1, <4>2 DEF BindersKept
        <5>2. \A u \in H[r] : next'[u] = next[u] /\ prev'[u] = prev[u]
          BY <1>8, <2>1, <2>3, <4>2, <5>1
        <5>3. RingOf(H[r], binders[r], next', prev')  BY <5>1, <5>2, RingSame
        <5> QED  BY <2>1, <2>2, <4>2, <5>3
      <4> QED  BY <4>1, <4>2
    <3>2. G[r] # {} => r \in P
      <4>1. G[r] # {} => H[r] # {}  BY <2>3
      <4> QED  BY <1>1, <4>1 DEF BindersKept
    <3>3. ASSUME NEW u \in G[r]
          PROVE  /\ thread'[u].call = "bind"
                 /\ thread'[u].wait # "behind" => binders'[r] = u /\ owner'[thread'[u].block] = r
      <4>1. CASE r = h  BY <1>4, <2>3, <3>3, <4>1
      <4>2. CASE r # h
        <5>1. thread[u].wait # "behind" => binders[r] = u /\ owner[thread[u].block] = r
          BY <1>1, <2>3, <3>3 DEF BindersKept
        <5> QED  BY <2>2, <2>3, <3>3, <4>2, <5>1
      <4> QED  BY <4>1, <4>2
    <3>4. \A q \in Sockets : r # q => G[r] \cap G[q] = {}
      <4>1. \A q \in Sockets : r # q => H[r] \cap H[q] = {}  BY <1>1 DEF BindersKept
      <4> QED  BY <2>3, <4>1
    <3> QED  BY <3>1, <3>2, <3>3, <3>4
  <2>5. ASSUME NEW u \in Threads, thread'[u].call = "bind"
        PROVE  /\ \E r \in Sockets : u \in G[r]
               /\ thread'[u].block \notin P /\ binding'[thread'[u].block] = u
    <3>1. u # t /\ thread'[u] = thread[u] /\ thread[u].call = "bind"  BY <1>6, <2>5
    <3>2. thread[u].block \notin P /\ binding[thread[u].block] = u  BY <1>1, <3>1 DEF BindersKept
    <3>3. PICK r \in Sockets : u \in H[r]  BY <1>1, <3>1 DEF BindersKept
    <3>4. u \in G[r]  BY <2>1, <3>1, <3>3
    <3> QED  BY <2>2, <2>3, <3>1, <3>2, <3>3, <3>4
  <2>6. ASSUME NEW r \in Sockets, binding'[r] # None
        PROVE  thread'[binding'[r]].call = "bind" /\ thread'[binding'[r]].block = r
    <3>1. r # s /\ binding'[r] = binding[r]  BY <2>2, <2>6
    <3>2. binding[r] \in Threads  BY <2>6, <3>1 DEF IInv, TypeInv
    <3>3. thread[binding[r]].call = "bind" /\ thread[binding[r]].block = r
      BY <1>1, <2>6, <3>1 DEF BindersKept
    <3> QED  BY <1>6, <3>1, <3>2, <3>3
  <2>7. G \in Lines  BY <2>1
  <2> HIDE DEF P
  <2> QED  BY <2>4, <2>5, <2>6, <2>7 DEF BindersKept
<1>13. NothingThere(Receiving(thread'), Range(table'), queue', error', busy')
  BY <1>5, <1>6, <1>9 DEF IInv, NothingThere
<1>14. \E K \in Lines : BindersKept(K, thread', binders', owner', binding', next', prev',
                                    Holders(Range(table'), busy'))
  BY <1>9, <1>12
<1> QED  BY <1>5, <1>6, <1>10, <1>11, <1>13, <1>14

\* The timeout of a bind keeps it,
LEMMA BindTimeoutKeeps ==
    ASSUME IInv, NEW t \in Threads, BindTimeout(t)
    PROVE  IInv'
<1>1. thread[t].call = "bind" /\ thread[t].wait = "timed" /\ BindCleanup(t) /\ busy' = busy
  BY DEF BindTimeout, Expires
<1>2. /\ TypeInv' /\ AllFit(thread')
      /\ ReadersKept(Receiving(thread'), readers', count', next', prev', busy')
      /\ \E H \in Lines : BindersKept(H, thread', binders', owner', binding', next', prev',
                                      Holders(Range(table'), busy'))
      /\ NothingThere(Receiving(thread'), Range(table'), queue', error', busy')
      /\ Receiving(thread') = Receiving(thread) /\ UNCHANGED <<table, readers>>
      /\ \A u \in Threads : u # t => thread'[u] = thread[u]
  <2>1. thread[t].wait # "behind"  BY <1>1
  <2> QED  BY <1>1, <2>1, BindCleanupKeeps
<1>3. BusyFits(busy', Range(table'), thread', Receiving(thread'), readers')
  <2>1. BusyFits(busy, Range(table), thread, Receiving(thread), readers)  BY DEF IInv
  <2>2. \A s \in Sockets : \A u \in Receiving(thread)[s] : u \in Threads /\ u # t
    BY <1>1, Readers DEF Lines
  <2>3. thread[t].wait # "forever"  BY <1>1
  <2> QED  BY <1>1, <1>2, <2>1, <2>2, <2>3 DEF BusyFits
<1> QED  BY <1>2, <1>3 DEF IInv

\* the choice of a bind that is to be cancelled,
LEMMA UnbindWaitingKeeps ==
    ASSUME Careless = {}, IInv, NEW t \in Threads, NEW s \in Sockets, UnbindWaiting(t, s)
    PROVE  IInv'
<1> DEFINE u == binding[s]
<1>1. /\ busy = Nobody /\ busy' = [by |-> t, sock |-> s, at |-> "cancel", cursor |-> u, pos |-> 0]
      /\ UNCHANGED <<table, queue, error, readers, count, binders, owner, binding, next, prev, thread>>
      /\ u # None /\ thread[u].wait # "timed" /\ thread[u].wait # "behind"
  BY DEF UnbindWaiting, MutexFree, Keeps, readVars, bindVars, ringVars
<1>2. u \in Threads /\ thread[u].call = "bind" /\ thread[u].wait = "forever"
  <2>1. u \in Threads  BY <1>1 DEF IInv, TypeInv
  <2>2. thread[u].call = "bind"  BY <1>1 DEF IInv, BindersKept
  <2>3. thread[u].wait \in {"timed", "forever", "behind"}  BY <2>1 DEF IInv, TypeInv, Records
  <2> QED  BY <1>1, <2>1, <2>2, <2>3
<1>3. busy'.at = "cancel" /\ busy'.cursor = u  BY <1>1
<1>4. busy' \in Handlers  BY <1>1, <1>2 DEF Handlers
<1>5. busy'.at \notin Giving  BY <1>3 DEF Giving
<1>6. SameWalk(busy, busy') /\ Holders(Range(table'), busy') = Holders(Range(table), busy)
  BY <1>1, <1>5, NotGiving
<1>7. /\ AllFit(thread')
      /\ ReadersKept(Receiving(thread'), readers', count', next', prev', busy')
      /\ \E H \in Lines : BindersKept(H, thread', binders', owner', binding', next', prev',
                                      Holders(Range(table'), busy'))
  BY <1>1, <1>6, Stands
<1>8. TypeInv'  BY <1>1, <1>4 DEF IInv, TypeInv
<1>9. NothingThere(Receiving(thread'), Range(table'), queue', error', busy')
  BY <1>1, NobodyIs DEF IInv, NothingThere
<1>10. BusyFits(busy', Range(table'), thread', Receiving(thread'), readers')
  BY <1>1, <1>2, <1>3 DEF BusyFits
<1> QED  BY <1>7, <1>8, <1>9, <1>10 DEF IInv

\* and its clean-up.
LEMMA UnbindCancelKeeps ==
    ASSUME IInv, UnbindCancel
    PROVE  IInv'
<1> DEFINE t == busy.cursor
<1>1. busy.at = "cancel" /\ busy' = Nobody  BY DEF UnbindCancel
<1>2. t \in Threads /\ thread[t].call = "bind" /\ thread[t].wait = "forever"
  <2>1. busy # Nobody /\ busy.at \notin Giving  BY <1>1, NobodyIs DEF Giving
  <2> QED  BY <1>1, <2>1 DEF IInv, BusyFits
<1>3. BindCleanup(t)
  <2>1. thread[t].cleanup  BY <1>2 DEF IInv, AllFit
  <2> QED  BY <2>1 DEF UnbindCancel
<1>4. thread[t].wait # "behind"  BY <1>2
<1> HIDE DEF t
<1>5. /\ TypeInv' /\ AllFit(thread')
      /\ ReadersKept(Receiving(thread'), readers', count', next', prev', busy')
      /\ \E H \in Lines : BindersKept(H, thread', binders', owner', binding', next', prev',
                                      Holders(Range(table'), busy'))
      /\ NothingThere(Receiving(thread'), Range(table'), queue', error', busy')
  BY <1>1, <1>2, <1>3, <1>4, BindCleanupKeeps
<1>6. BusyFits(busy', Range(table'), thread', Receiving(thread'), readers')
  BY <1>1 DEF BusyFits
<1> QED  BY <1>5, <1>6 DEF IInv

\* The ring and the count of one socket change, the others' stay.
LEMMA ReadersBut ==
    ASSUME NEW W \in Lines, NEW rd, NEW ct, NEW nx, NEW pv, NEW b, ReadersKept(W, rd, ct, nx, pv, b),
           NEW W2, NEW rd2, NEW ct2, NEW nx2, NEW pv2, NEW b2, NEW s \in Sockets,
           \A r \in Sockets : r # s =>
               /\ W2[r] = W[r] /\ rd2[r] = rd[r] /\ ct2[r] = ct[r]
               /\ \A t \in W[r] : nx2[t] = nx[t] /\ pv2[t] = pv[t]
               /\ Taken(b2, r) <=> Taken(b, r)
               /\ Taken(b, r) => b2.cursor = b.cursor
               /\ Uncounted(b2, r) = Uncounted(b, r),
           IF Taken(b2, s) THEN rd2[s] = None /\ W2[s] \subseteq {b2.cursor} /\ Cycle(W2[s], nx2, pv2)
                           ELSE RingOf(W2[s], rd2[s], nx2, pv2),
           ct2[s] = Cardinality(W2[s]) + Uncounted(b2, s)
    PROVE  ReadersKept(W2, rd2, ct2, nx2, pv2, b2)
<1> SUFFICES ASSUME NEW r \in Sockets, r # s
             PROVE  /\ IF Taken(b2, r)
                         THEN rd2[r] = None /\ W2[r] \subseteq {b2.cursor} /\ Cycle(W2[r], nx2, pv2)
                         ELSE RingOf(W2[r], rd2[r], nx2, pv2)
                    /\ ct2[r] = Cardinality(W2[r]) + Uncounted(b2, r)
  BY DEF ReadersKept
<1>1. ct2[r] = Cardinality(W2[r]) + Uncounted(b2, r)  BY DEF ReadersKept
<1>2. CASE Taken(b2, r)
  <2>1. rd[r] = None /\ W[r] \subseteq {b.cursor} /\ Cycle(W[r], nx, pv)  BY <1>2 DEF ReadersKept
  <2>2. Cycle(W[r], nx2, pv2)  BY <2>1, CycleKept
  <2> QED  BY <1>1, <1>2, <2>1, <2>2
<1>3. CASE ~Taken(b2, r)
  <2>1. RingOf(W[r], rd[r], nx, pv)  BY <1>3 DEF ReadersKept
  <2>2. RingOf(W[r], rd[r], nx2, pv2)  BY <2>1, RingSame
  <2> QED  BY <1>1, <1>3, <2>2
<1> QED  BY <1>2, <1>3

\* Two handlers that are not in the midst of unbind are alike to readers and binders.
LEMMA Alike ==
    ASSUME NEW b, NEW c, b.at \notin Giving, c.at \notin Giving, NEW T
    PROVE  SameWalk(b, c) /\ Holders(T, b) = Holders(T, c)
<1>1. Holders(T, b) = Holders(T, Nobody) /\ Holders(T, c) = Holders(T, Nobody)  BY NotGiving
<1>2. \A s \in Sockets : /\ ~Taken(b, s) /\ Uncounted(b, s) = 0
                         /\ ~Taken(c, s) /\ Uncounted(c, s) = 0
  BY NotGiving
<1> QED  BY <1>1, <1>2 DEF SameWalk

\* A socket that has the port is not being unbound.
LEMMA BoundStays ==
    ASSUME IInv, NEW s \in Range(table)
    PROVE  ~Unbinding(busy, s) /\ ~Taken(busy, s)
<1>1. ASSUME busy.sock = s, busy.at \in Giving PROVE FALSE
  <2>1. busy # Nobody  BY <1>1, NobodyIs DEF Giving
  <2> QED  BY <1>1, <2>1 DEF IInv, BusyFits, Giving
<1> QED  BY <1>1 DEF Unbinding, Taken, Giving

\* What the handler is in the midst of is a matter of its own threads.
LEMMA FitsStill ==
    ASSUME NEW b, NEW T, NEW th, NEW W, NEW rd, BusyFits(b, T, th, W, rd),
           NEW th2, NEW W2, NEW rd2,
           b.at \in Giving /\ b.sock \in Sockets =>
               /\ W2[b.sock] = W[b.sock] /\ rd2[b.sock] = rd[b.sock]
               /\ \A u \in W[b.sock] : th2[u] = th[u],
           b.cursor \in Threads /\ th[b.cursor].call = "bind" => th2[b.cursor] = th[b.cursor]
    PROVE  BusyFits(b, T, th2, W2, rd2)
<1>1. CASE b = Nobody  BY <1>1 DEF BusyFits
<1>2. CASE b.at = "cancel" /\ b.cursor \in Threads /\ th[b.cursor].call = "bind"
                           /\ th[b.cursor].wait = "forever"
  BY <1>2 DEF BusyFits
<1>3. CASE /\ b.sock \in Sockets /\ b.sock \notin T /\ b.at \in Giving
           /\ \A u \in W[b.sock] : W[b.sock] = {u} /\ th[u].wait = "forever"
           /\ b.at = "clear" => b.cursor = rd[b.sock]
           /\ b.at = "wake" => W[b.sock] = {b.cursor}
           /\ b.at \in {"counted", "hand over"} => W[b.sock] = {}
  <2>1. /\ W2[b.sock] = W[b.sock] /\ rd2[b.sock] = rd[b.sock]
        /\ \A u \in W[b.sock] : th2[u] = th[u]
    BY <1>3
  <2>2. ASSUME NEW u \in W2[b.sock] PROVE W2[b.sock] = {u} /\ th2[u].wait = "forever"
    <3>1. u \in W[b.sock] /\ th2[u] = th[u]  BY <2>1
    <3>2. W[b.sock] = {u} /\ th[u].wait = "forever"  BY <1>3, <3>1
    <3> QED  BY <2>1, <3>1, <3>2
  <2> QED  BY <1>3, <2>1, <2>2 DEF BusyFits
<1>4. CASE b.at = "deliver" /\ T # {} /\ b.pos # 0  BY <1>4 DEF BusyFits
<1>5. CASE b.at \in {"error", "lift"} /\ b.sock \in T  BY <1>5 DEF BusyFits
<1> QED  BY <1>1, <1>2, <1>3, <1>4, <1>5 DEF BusyFits

-----------------------------------------------------------------------------
(* receive *)

\* nx_udp_socket_receive keeps the invariant when there is something to return
LEMMA ReceiveNowKeeps ==
    ASSUME IInv, NEW t \in Threads, NEW s \in Sockets, ReceiveNow(t, s)
    PROVE  IInv'
<1>1. UNCHANGED <<table, readers, count, binders, owner, binding, next, prev, thread, busy>>
  BY DEF ReceiveNow, readVars, bindVars, ringVars
<1>2. /\ queue' \in [Sockets -> Nat] /\ error' \in [Sockets -> BOOLEAN]
      /\ \A r \in Sockets : /\ error'[r] => error[r]
                            /\ queue[r] = 0 => queue'[r] = 0
  <2>1. queue \in [Sockets -> Nat] /\ error \in [Sockets -> BOOLEAN]  BY DEF IInv, TypeInv
  <2>2. CASE queue' = queue /\ error' = [error EXCEPT ![s] = FALSE]  BY <2>1, <2>2
  <2>3. CASE error' = error /\ queue[s] > 0 /\ queue' = [queue EXCEPT ![s] = @ - 1]
    <3>1. queue[s] - 1 \in Nat /\ queue[s] # 0  BY <2>1, <2>3
    <3> QED  BY <2>1, <2>3, <3>1
  <2> QED  BY <2>2, <2>3 DEF ReceiveNow
<1>3. TypeInv'  BY <1>1, <1>2 DEF IInv, TypeInv
<1>4. NothingThere(Receiving(thread'), Range(table'), queue', error', busy')
  BY <1>1, <1>2 DEF IInv, NothingThere
<1>5. /\ ReadersKept(Receiving(thread'), readers', count', next', prev', busy') /\ AllFit(thread')
      /\ BusyFits(busy', Range(table'), thread', Receiving(thread'), readers')
  BY <1>1 DEF IInv
<1>6. \E H \in Lines : BindersKept(H, thread', binders', owner', binding', next', prev',
                                   Holders(Range(table'), busy'))
  BY <1>1 DEF IInv
<1> QED  BY <1>3, <1>4, <1>5, <1>6 DEF IInv

\* and when there is nothing and the caller suspends.
LEMMA ReceiveWaitsKeeps ==
    ASSUME IInv, NEW t \in Threads, NEW s \in Sockets, ReceiveWaits(t, s)
    PROVE  IInv'
<1> USE UdpAssumption DEF UdpAssumption
<1> DEFINE W == Receiving(thread)
           R == W[s]
           h == readers[s]
<1>1. PICK wait : wait \in {"timed", "forever", "behind"} /\ Suspend(t, "receive", s, wait)
  BY DEF ReceiveWaits
<1>2. /\ s \in Range(table) /\ ~error[s] /\ queue[s] = 0 /\ Running(t)
      /\ Link(h, t)
      /\ readers' = IF h = None THEN [readers EXCEPT ![s] = t] ELSE readers
      /\ count' = [count EXCEPT ![s] = @ + 1]
      /\ UNCHANGED <<table, queue, error, binders, owner, binding, busy>>
  BY DEF ReceiveWaits, bindVars
<1>3. /\ thread' \in [Threads -> Records] /\ AllFit(thread')
      /\ thread'[t].call = "receive"
      /\ \A u \in Threads : u # t => thread'[u] = thread[u]
      /\ \A r \in Sockets : t \notin W[r]
      /\ Receiving(thread') = [W EXCEPT ![s] = R \cup {t}]
  BY <1>1, <1>2, Suspended DEF IInv
<1>4. ~Unbinding(busy, s) /\ ~Taken(busy, s)  BY <1>2, BoundStays
<1>5. W \in Lines /\ R \subseteq Threads /\ IsFiniteSet(R)
  BY Readers DEF Lines
<1>6. RingOf(R, h, next, prev) /\ count[s] = Cardinality(R)
  <2>1. Uncounted(busy, s) = 0  BY <1>4 DEF Uncounted, Taken
  <2>2. ReadersKept(W, readers, count, next, prev, busy)  BY DEF IInv
  <2>3. RingOf(R, h, next, prev) /\ count[s] = Cardinality(R) + Uncounted(busy, s)
    BY <1>4, <2>2 DEF ReadersKept
  <2>4. Cardinality(R) \in Nat  BY <1>5, FS_CardinalityType
  <2> QED  BY <2>1, <2>3, <2>4
<1>7. next \in [Threads -> Threads] /\ prev \in [Threads -> Threads]  BY DEF IInv, TypeInv
<1>8. /\ RingOf(R \cup {t}, IF h = None THEN t ELSE h, next', prev')
      /\ \A u \in Threads : u # t /\ u \notin R => next'[u] = next[u] /\ prev'[u] = prev[u]
      /\ next' \in [Threads -> Threads] /\ prev' \in [Threads -> Threads]
  <2>1. IsLink(h, t, next, prev, next', prev')  BY <1>2 DEF Link, IsLink
  <2>2. t \notin R  BY <1>3
  <2> HIDE DEF R, h
  <2> QED  BY <1>5, <1>6, <1>7, <2>1, <2>2, RingJoined
<1>9. /\ readers' \in [Sockets -> Threads \cup {None}] /\ count' \in [Sockets -> Int]
      /\ readers'[s] = (IF h = None THEN t ELSE h) /\ count'[s] = Cardinality(R) + 1
      /\ \A r \in Sockets : r # s => readers'[r] = readers[r] /\ count'[r] = count[r]
  BY <1>2, <1>6 DEF IInv, TypeInv
<1>10. TypeInv'  BY <1>2, <1>3, <1>8, <1>9 DEF IInv, TypeInv
<1>11. ReadersKept(Receiving(thread'), readers', count', next', prev', busy')
  <2> DEFINE W2 == Receiving(thread')
  <2>1. W2[s] = R \cup {t} /\ \A r \in Sockets : r # s => W2[r] = W[r]
    BY <1>3, <1>5 DEF Lines
  <2>2. Cardinality(W2[s]) = Cardinality(R) + 1
    BY <1>3, <1>5, <2>1, FS_AddElement
  <2>3. \A r \in Sockets : r # s => \A u \in W[r] : next'[u] = next[u] /\ prev'[u] = prev[u]
    <3>1. \A r \in Sockets : r # s => \A u \in W[r] : u \in Threads /\ u \notin R
      BY Readers DEF Lines
    <3> QED  BY <1>3, <1>8, <3>1
  <2>4. RingOf(W2[s], readers'[s], next', prev')  BY <1>8, <1>9, <2>1
  <2>5. Uncounted(busy, s) = 0  BY <1>4 DEF Uncounted, Taken
  <2>6. count'[s] = Cardinality(W2[s]) + Uncounted(busy, s)
    <3>1. Cardinality(R) \in Nat  BY <1>5, FS_CardinalityType
    <3> QED  BY <1>9, <2>2, <2>5, <3>1
  <2>7. ReadersKept(W, readers, count, next, prev, busy)  BY DEF IInv
  <2>8. \A r \in Sockets : r # s =>
            /\ W2[r] = W[r] /\ readers'[r] = readers[r] /\ count'[r] = count[r]
            /\ \A u \in W[r] : next'[u] = next[u] /\ prev'[u] = prev[u]
            /\ Taken(busy, r) <=> Taken(busy, r)
            /\ Taken(busy, r) => busy.cursor = busy.cursor
            /\ Uncounted(busy, r) = Uncounted(busy, r)
    BY <1>9, <2>1, <2>3
  <2>9. IF Taken(busy, s) THEN readers'[s] = None /\ W2[s] \subseteq {busy.cursor} /\ Cycle(W2[s], next', prev')
                          ELSE RingOf(W2[s], readers'[s], next', prev')
    BY <1>4, <2>4
  <2> HIDE DEF W2, W
  <2>10. ReadersKept(W2, readers', count', next', prev', busy)
    BY <1>5, <2>6, <2>7, <2>8, <2>9, ReadersBut
  <2> QED  BY <1>2, <2>10 DEF W2
<1>12. \E H \in Lines : BindersKept(H, thread', binders', owner', binding', next', prev',
                                    Holders(Range(table'), busy'))
  <2> DEFINE P == Holders(Range(table), busy)
  <2>1. PICK H \in Lines : BindersKept(H, thread, binders, owner, binding, next, prev, P)
    BY DEF IInv
  <2>2. \A u \in Threads : thread[u].call = "bind" \/ thread'[u].call = "bind" => thread'[u] = thread[u]
    BY <1>2, <1>3 DEF Running
  <2>3. \A u \in Threads : thread[u].call = "bind" => next'[u] = next[u] /\ prev'[u] = prev[u]
    <3>1. \A u \in R : thread[u].call = "receive"  BY <1>5, Readers
    <3> QED  BY <1>2, <1>8, <3>1 DEF Running
  <2>4. /\ \A r \in Sockets : H[r] # {} => r \in P
        /\ \A u \in Threads : thread[u].call = "bind" => thread[u].block \notin P
    BY <2>1 DEF BindersKept
  <2>5. binding \in [Sockets -> Threads \cup {None}]  BY DEF IInv, TypeInv
  <2> HIDE DEF P
  <2>6. BindersKept(H, thread', binders, owner, binding, next', prev', P)
    BY <2>1, <2>2, <2>3, <2>4, <2>5, BindersSame
  <2> QED  BY <1>2, <2>6 DEF P
<1>13. NothingThere(Receiving(thread'), Range(table'), queue', error', busy')
  <2>1. \A r \in Sockets : r # s => Receiving(thread')[r] = W[r]  BY <1>3, <1>5 DEF Lines
  <2> QED  BY <1>2, <2>1 DEF IInv, NothingThere
<1>14. BusyFits(busy', Range(table'), thread', Receiving(thread'), readers')
  <2>1. BusyFits(busy, Range(table), thread, W, readers)  BY DEF IInv
  <2>2. ASSUME busy.at \in Giving, busy.sock \in Sockets
        PROVE  /\ Receiving(thread')[busy.sock] = W[busy.sock] /\ readers'[busy.sock] = readers[busy.sock]
               /\ \A u \in W[busy.sock] : thread'[u] = thread[u]
    <3>1. busy.sock # s  BY <1>4, <2>2 DEF Unbinding
    <3>2. \A u \in W[busy.sock] : u \in Threads /\ u # t  BY <1>3, <1>5, <2>2 DEF Lines
    <3> QED  BY <1>3, <1>5, <1>9, <2>2, <3>1, <3>2 DEF Lines
  <2>3. ASSUME busy.cursor \in Threads, thread[busy.cursor].call = "bind"
        PROVE  thread'[busy.cursor] = thread[busy.cursor]
    BY <1>2, <1>3, <2>3 DEF Running
  <2> QED  BY <1>2, <2>1, <2>2, <2>3, FitsStill
<1> QED  BY <1>3, <1>10, <1>11, <1>12, <1>13, <1>14 DEF IInv

\* A reader that is resumed while its list stands leaves its ring and its count.
LEMMA LeavesKeeps ==
    ASSUME IInv, NEW s \in Sockets, NEW t \in Threads, t \in Receiving(thread)[s], ~Taken(busy, s),
           Leaves(t, s), UNCHANGED <<table, binders, owner, binding>>,
           SameWalk(busy, busy'), Holders(Range(table), busy') = Holders(Range(table), busy)
    PROVE  /\ thread' \in [Threads -> Records] /\ AllFit(thread')
           /\ readers' \in [Sockets -> Threads \cup {None}] /\ count' \in [Sockets -> Int]
           /\ next' \in [Threads -> Threads] /\ prev' \in [Threads -> Threads]
           /\ ReadersKept(Receiving(thread'), readers', count', next', prev', busy')
           /\ \E H \in Lines : BindersKept(H, thread', binders', owner', binding', next', prev',
                                           Holders(Range(table'), busy'))
           /\ \A u \in Threads : u # t => thread'[u] = thread[u]
           /\ \A r \in Sockets : r # s => /\ Receiving(thread')[r] = Receiving(thread)[r]
                                          /\ readers'[r] = readers[r]
           /\ Receiving(thread')[s] = Receiving(thread)[s] \ {t}
<1> USE UdpAssumption DEF UdpAssumption
<1> DEFINE W == Receiving(thread)
           W2 == Receiving(thread')
           R == W[s]
           h == readers[s]
           c == IF next[t] = t THEN None ELSE next[t]
<1>1. /\ W \in Lines /\ R \subseteq Threads /\ IsFiniteSet(R) /\ t \in R
      /\ thread[t].call = "receive"
  BY Readers DEF Lines
<1>2. /\ thread' \in [Threads -> Records] /\ AllFit(thread')
      /\ thread'[t].call = "none"
      /\ \A u \in Threads : u # t => thread'[u] = thread[u]
      /\ W2 = [W EXCEPT ![s] = R \ {t}]
  <2>1. Resume(t)  BY DEF Leaves
  <2> QED  BY <2>1, Resumed DEF IInv
<1>3. W2[s] = R \ {t} /\ \A r \in Sockets : r # s => W2[r] = W[r]
  BY <1>1, <1>2 DEF Lines
<1>4. RingOf(R, h, next, prev) /\ count[s] = Cardinality(R) + Uncounted(busy, s)
  <2>1. ReadersKept(W, readers, count, next, prev, busy)  BY DEF IInv
  <2> QED  BY <2>1 DEF ReadersKept
<1>5. next \in [Threads -> Threads] /\ prev \in [Threads -> Threads]  BY DEF IInv, TypeInv
<1>6. /\ RingOf(R \ {t}, c, next', prev')
      /\ \A u \in Threads : u \notin R => next'[u] = next[u] /\ prev'[u] = prev[u]
      /\ next' \in [Threads -> Threads] /\ prev' \in [Threads -> Threads]
  <2>1. IsUnlink(t, next, prev, next', prev')  BY DEF Leaves, Unlink, IsUnlink
  <2>2. c = IF next[t] = t THEN None ELSE next[t]  OBVIOUS
  <2>3. R \subseteq Threads /\ t \in R /\ RingOf(R, h, next, prev)  BY <1>1, <1>4
  <2> HIDE DEF R, c, h
  <2>4. RingOf(R \ {t}, c, next', prev')  BY <1>5, <2>1, <2>2, <2>3, RingLeft
  <2>5. \A u \in Threads : u \notin R => next'[u] = next[u] /\ prev'[u] = prev[u]
    <3>1. next[t] \in R /\ prev[t] \in R  BY <2>3 DEF RingOf, Cycle
    <3> QED  BY <1>5, <2>1, <3>1 DEF IsUnlink
  <2>6. next' \in [Threads -> Threads] /\ prev' \in [Threads -> Threads]
    BY <1>5, <2>1, <2>2, <2>3, RingLeft
  <2> QED  BY <2>4, <2>5, <2>6
<1>7. /\ readers' \in [Sockets -> Threads \cup {None}] /\ count' \in [Sockets -> Int]
      /\ readers'[s] = c /\ count'[s] = count[s] - 1
      /\ \A r \in Sockets : r # s => readers'[r] = readers[r] /\ count'[r] = count[r]
  <2>1. c \in Threads \cup {None}  BY <1>5
  <2>2. readers' = [readers EXCEPT ![s] = c] /\ count' = [count EXCEPT ![s] = @ - 1]
    BY DEF Leaves, After
  <2>3. readers \in [Sockets -> Threads \cup {None}] /\ count \in [Sockets -> Int]
    BY DEF IInv, TypeInv
  <2> HIDE DEF c
  <2> QED  BY <2>1, <2>2, <2>3
<1>8. ReadersKept(W2, readers', count', next', prev', busy')
  <2>1. Cardinality(R \ {t}) = Cardinality(R) - 1 /\ Cardinality(R) \in Nat
    BY <1>1, FS_RemoveElement, FS_CardinalityType
  <2>2. \A r \in Sockets : r # s => \A u \in W[r] : next'[u] = next[u] /\ prev'[u] = prev[u]
    <3>1. \A r \in Sockets : r # s => \A u \in W[r] : u \in Threads /\ u \notin R
      BY Readers DEF Lines
    <3> QED  BY <1>6, <3>1
  <2>3. \A r \in Sockets : r # s =>
            /\ W2[r] = W[r] /\ readers'[r] = readers[r] /\ count'[r] = count[r]
            /\ \A u \in W[r] : next'[u] = next[u] /\ prev'[u] = prev[u]
            /\ Taken(busy', r) <=> Taken(busy, r)
            /\ Taken(busy, r) => busy'.cursor = busy.cursor
            /\ Uncounted(busy', r) = Uncounted(busy, r)
    BY <1>3, <1>7, <2>2 DEF SameWalk
  <2>4. IF Taken(busy', s) THEN readers'[s] = None /\ W2[s] \subseteq {busy'.cursor} /\ Cycle(W2[s], next', prev')
                           ELSE RingOf(W2[s], readers'[s], next', prev')
    BY <1>3, <1>6, <1>7 DEF SameWalk
  <2>5. count'[s] = Cardinality(W2[s]) + Uncounted(busy', s)
    <3>1. Uncounted(busy', s) = Uncounted(busy, s) /\ Uncounted(busy, s) \in Int
      BY DEF SameWalk, Uncounted
    <3> QED  BY <1>3, <1>4, <1>7, <2>1, <3>1
  <2>6. ReadersKept(W, readers, count, next, prev, busy)  BY DEF IInv
  <2> HIDE DEF W2, W
  <2> QED  BY <1>1, <2>3, <2>4, <2>5, <2>6, ReadersBut
<1>9. \E H \in Lines : BindersKept(H, thread', binders', owner', binding', next', prev',
                                   Holders(Range(table'), busy'))
  <2> DEFINE P == Holders(Range(table), busy)
  <2>1. PICK H \in Lines : BindersKept(H, thread, binders, owner, binding, next, prev, P)
    BY DEF IInv
  <2>2. \A u \in Threads : thread[u].call = "bind" \/ thread'[u].call = "bind" => thread'[u] = thread[u]
    BY <1>1, <1>2
  <2>3. \A u \in Threads : thread[u].call = "bind" => next'[u] = next[u] /\ prev'[u] = prev[u]
    <3>1. \A u \in R : thread[u].call = "receive"  BY <1>1, Readers
    <3> QED  BY <1>6, <3>1
  <2>4. /\ \A r \in Sockets : H[r] # {} => r \in P
        /\ \A u \in Threads : thread[u].call = "bind" => thread[u].block \notin P
    BY <2>1 DEF BindersKept
  <2>5. binding \in [Sockets -> Threads \cup {None}]  BY DEF IInv, TypeInv
  <2> HIDE DEF P
  <2>6. BindersKept(H, thread', binders, owner, binding, next', prev', P)
    BY <2>1, <2>2, <2>3, <2>4, <2>5, BindersSame
  <2> QED  BY <2>6 DEF P
<1> QED  BY <1>2, <1>3, <1>6, <1>7, <1>8, <1>9

\* nx_udp_receive_cleanup keeps the invariant: no list in unbind's hands has a
\* reader with a timeout.
LEMMA ReceiveTimeoutKeeps ==
    ASSUME IInv, NEW t \in Threads, ReceiveTimeout(t)
    PROVE  IInv'
<1> DEFINE s == thread[t].block
           W == Receiving(thread)
<1>1. /\ thread[t].call = "receive" /\ thread[t].wait = "timed" /\ Leaves(t, s)
      /\ UNCHANGED <<table, queue, error, binders, owner, binding, busy>>
  BY DEF ReceiveTimeout, Expires, bindVars
<1>2. s \in Sockets /\ t \in W[s]
  <2>1. s \in Sockets  BY <1>1 DEF IInv, AllFit
  <2> QED  BY <1>1, <2>1, Readers
<1>3. ~Unbinding(busy, s) /\ ~Taken(busy, s)
  <2>1. ASSUME busy.sock = s, busy.at \in Giving PROVE FALSE
    <3>1. busy # Nobody  BY <2>1, NobodyIs DEF Giving
    <3>2. \A u \in W[s] : thread[u].wait = "forever"  BY <2>1, <3>1 DEF IInv, BusyFits, Giving
    <3> QED  BY <1>1, <1>2, <3>2
  <2> QED  BY <2>1 DEF Unbinding, Taken, Giving
<1>4. SameWalk(busy, busy') /\ Holders(Range(table), busy') = Holders(Range(table), busy)
  BY <1>1 DEF SameWalk
<1> HIDE DEF s
<1>5. /\ thread' \in [Threads -> Records] /\ AllFit(thread')
      /\ readers' \in [Sockets -> Threads \cup {None}] /\ count' \in [Sockets -> Int]
      /\ next' \in [Threads -> Threads] /\ prev' \in [Threads -> Threads]
      /\ ReadersKept(Receiving(thread'), readers', count', next', prev', busy')
      /\ \E H \in Lines : BindersKept(H, thread', binders', owner', binding', next', prev',
                                      Holders(Range(table'), busy'))
      /\ \A u \in Threads : u # t => thread'[u] = thread[u]
      /\ \A r \in Sockets : r # s => Receiving(thread')[r] = W[r] /\ readers'[r] = readers[r]
      /\ Receiving(thread')[s] = W[s] \ {t}
  BY <1>1, <1>2, <1>3, <1>4, LeavesKeeps
<1>6. TypeInv'  BY <1>1, <1>5 DEF IInv, TypeInv
<1>7. NothingThere(Receiving(thread'), Range(table'), queue', error', busy')
  <2>1. \A r \in Sockets : Receiving(thread')[r] # {} => W[r] # {}  BY <1>2, <1>5
  <2> QED  BY <1>1, <2>1 DEF IInv, NothingThere
<1>8. BusyFits(busy', Range(table'), thread', Receiving(thread'), readers')
  <2>1. BusyFits(busy, Range(table), thread, W, readers)  BY DEF IInv
  <2>2. ASSUME busy.at \in Giving, busy.sock \in Sockets
        PROVE  /\ Receiving(thread')[busy.sock] = W[busy.sock] /\ readers'[busy.sock] = readers[busy.sock]
               /\ \A u \in W[busy.sock] : thread'[u] = thread[u]
    <3>1. busy.sock # s  BY <1>3, <2>2 DEF Unbinding
    <3>2. \A u \in W[busy.sock] : u \in Threads /\ u # t  BY <1>2, <2>2, <3>1, Readers DEF Lines
    <3> QED  BY <1>5, <2>2, <3>1, <3>2
  <2>3. ASSUME busy.cursor \in Threads, thread[busy.cursor].call = "bind"
        PROVE  thread'[busy.cursor] = thread[busy.cursor]
    BY <1>1, <1>5, <2>3
  <2> QED  BY <1>1, <2>1, <2>2, <2>3, FitsStill
<1> QED  BY <1>5, <1>6, <1>7, <1>8 DEF IInv

-----------------------------------------------------------------------------
(* unbind *)

\* nx_udp_socket_unbind takes the socket out of the table,
LEMMA UnbindKeeps ==
    ASSUME Careless = {}, IInv, NEW t \in Threads, NEW s \in Sockets, Unbind(t, s)
    PROVE  IInv'
<1> USE UdpAssumption DEF UdpAssumption
<1> DEFINE W == Receiving(thread)
<1>1. /\ busy = Nobody /\ busy' = [Nobody EXCEPT !.by = t, !.sock = s, !.at = "flush"]
      /\ error' = [error EXCEPT ![s] = FALSE]
      /\ UNCHANGED <<queue, readers, count, binders, owner, binding, next, prev, thread>>
      /\ Cardinality(ReadersOf(s)) <= 1
      /\ \A u \in ReadersOf(s) : thread[u].wait = "forever"
  BY DEF Unbind, MutexFree, Keeps, readVars, bindVars, ringVars
<1>2. /\ busy'.by = t /\ busy'.sock = s /\ busy'.at = "flush" /\ busy'.cursor = None /\ busy'.pos = 0
      /\ busy' \in Handlers /\ busy'.at \in Giving
  BY <1>1 DEF Nobody, Handlers, Giving
<1>3. /\ table' \in Seq(Sockets) /\ IsInjective(table')
      /\ Range(table') = Range(table) \ {s} /\ s \in Range(table)
  <2>1. PICK i \in DOMAIN table : table[i] = s /\ table' = RemoveAt(table, i)  BY DEF Unbind
  <2>2. table \in Seq(Sockets) /\ IsInjective(table)  BY DEF IInv, TypeInv
  <2>3. s \in Range(table)  BY <2>1 DEF Range
  <2> QED  BY <2>1, <2>2, <2>3, Removed
<1>4. SameWalk(busy, busy')
  <2>1. \A r \in Sockets : ~Taken(busy', r) /\ Uncounted(busy', r) = 0
    BY <1>2 DEF Taken, Uncounted
  <2> QED  BY <1>1, <2>1, NobodyIs DEF SameWalk
<1>5. Holders(Range(table'), busy') = Holders(Range(table), busy)
  <2>1. \A r \in Sockets : Unbinding(busy', r) <=> r = s  BY <1>2 DEF Unbinding
  <2> QED  BY <1>1, <1>3, <2>1, NobodyIs DEF Holders
<1>6. /\ AllFit(thread')
      /\ ReadersKept(Receiving(thread'), readers', count', next', prev', busy')
      /\ \E H \in Lines : BindersKept(H, thread', binders', owner', binding', next', prev',
                                      Holders(Range(table'), busy'))
  BY <1>1, <1>4, <1>5, Stands
<1>7. TypeInv'
  <2>1. error' \in [Sockets -> BOOLEAN]  BY <1>1 DEF IInv, TypeInv
  <2> QED  BY <1>1, <1>2, <1>3, <2>1 DEF IInv, TypeInv
<1>8. NothingThere(Receiving(thread'), Range(table'), queue', error', busy')
  <2> SUFFICES ASSUME NEW r \in Sockets, W[r] # {}
               PROVE  /\ r \in Range(table') \/ Unbinding(busy', r)
                      /\ queue[r] = 0
                      /\ error'[r] => busy'.sock = r /\ busy'.at \in {"error", "lift"}
    BY <1>1 DEF NothingThere
  <2>1. (r \in Range(table) \/ Unbinding(busy, r)) /\ queue[r] = 0 /\ ~error[r]
    BY <1>1, NobodyIs DEF IInv, NothingThere
  <2>2. ~Unbinding(busy, r)  BY <1>1, NobodyIs
  <2>3. Unbinding(busy', s)  BY <1>2 DEF Unbinding
  <2>4. ~error'[r]  BY <1>1, <2>1 DEF IInv, TypeInv
  <2> QED  BY <1>3, <2>1, <2>2, <2>3, <2>4
<1>9. BusyFits(busy', Range(table'), thread', Receiving(thread'), readers')
  <2>1. ReadersOf(s) = W[s]  BY DEF ReadersOf, Waits, Receiving
  <2>2. ASSUME NEW u \in W[s] PROVE W[s] = {u} /\ thread[u].wait = "forever"
    <3>1. IsFiniteSet(W[s])  BY Readers
    <3>2. /\ IsFiniteSet(W[s] \ {u}) /\ Cardinality(W[s] \ {u}) = Cardinality(W[s]) - 1
      BY <2>2, <3>1, FS_RemoveElement
    <3>3. Cardinality(W[s] \ {u}) \in Nat /\ Cardinality(W[s]) \in Nat
      BY <3>1, <3>2, FS_CardinalityType
    <3>4. Cardinality(W[s] \ {u}) = 0  BY <1>1, <2>1, <3>2, <3>3
    <3>5. W[s] \ {u} = {}  BY <3>2, <3>4, FS_EmptySet
    <3> QED  BY <1>1, <2>1, <2>2, <3>5
  <2>3. s \in Sockets /\ s \notin Range(table')  BY <1>3
  <2> QED  BY <1>1, <1>2, <2>2, <2>3 DEF BusyFits
<1> QED  BY <1>6, <1>7, <1>8, <1>9 DEF IInv

\* Where unbind is.
LEMMA UnbindHas ==
    ASSUME IInv, busy.at \in Giving
    PROVE  LET s == busy.sock
               W == Receiving(thread)
           IN  /\ s \in Sockets /\ s \notin Range(table) /\ Unbinding(busy, s)
               /\ \A u \in W[s] : W[s] = {u} /\ thread[u].wait = "forever"
               /\ busy.at = "clear" => busy.cursor = readers[s]
               /\ busy.at = "wake" => W[s] = {busy.cursor}
               /\ busy.at \in {"counted", "hand over"} => W[s] = {}
               /\ IF Taken(busy, s)
                    THEN readers[s] = None /\ W[s] \subseteq {busy.cursor} /\ Cycle(W[s], next, prev)
                    ELSE RingOf(W[s], readers[s], next, prev)
               /\ count[s] = Cardinality(W[s]) + Uncounted(busy, s)
               /\ busy \in Handlers
<1>1. busy # Nobody  BY NobodyIs DEF Giving
<1>2. busy.at \notin {"cancel", "deliver", "error", "lift"}  BY DEF Giving
<1>3. BusyFits(busy, Range(table), thread, Receiving(thread), readers)  BY DEF IInv
<1>4. /\ busy.sock \in Sockets /\ busy.sock \notin Range(table)
      /\ \A u \in Receiving(thread)[busy.sock] :
            Receiving(thread)[busy.sock] = {u} /\ thread[u].wait = "forever"
      /\ busy.at = "clear" => busy.cursor = readers[busy.sock]
      /\ busy.at = "wake" => Receiving(thread)[busy.sock] = {busy.cursor}
      /\ busy.at \in {"counted", "hand over"} => Receiving(thread)[busy.sock] = {}
  BY <1>1, <1>2, <1>3 DEF BusyFits
<1>5. ReadersKept(Receiving(thread), readers, count, next, prev, busy) /\ busy \in Handlers
  BY DEF IInv, TypeInv
<1> QED  BY <1>4, <1>5 DEF ReadersKept, Unbinding

\* The sockets that have the port or give it up while unbind goes from step to step.
LEMMA GoesOn ==
    ASSUME NEW b, NEW c, b.at \in Giving, c.at \in Giving, c.sock = b.sock, NEW T
    PROVE  /\ \A s \in Sockets : Unbinding(c, s) <=> Unbinding(b, s)
           /\ Holders(T, c) = Holders(T, b)
BY DEF Unbinding, Holders

\* What NothingThere says while unbind goes from step to step.
LEMMA StillNothing ==
    ASSUME IInv, busy.at \in Giving, busy'.at \in Giving, busy'.sock = busy.sock,
           UNCHANGED <<table, error>>,
           \A r \in Sockets : /\ queue[r] = 0 => queue'[r] = 0
                              /\ Receiving(thread')[r] \subseteq Receiving(thread)[r]
    PROVE  NothingThere(Receiving(thread'), Range(table'), queue', error', busy')
<1> SUFFICES ASSUME NEW r \in Sockets, Receiving(thread')[r] # {}
             PROVE  /\ r \in Range(table) \/ Unbinding(busy', r)
                    /\ queue'[r] = 0
                    /\ ~error[r]
  BY DEF NothingThere
<1>1. Receiving(thread)[r] # {}  OBVIOUS
<1>2. /\ r \in Range(table) \/ Unbinding(busy, r)
      /\ queue[r] = 0
      /\ error[r] => busy.at \in {"error", "lift"}
  BY <1>1 DEF IInv, NothingThere
<1>3. busy.at \notin {"error", "lift"}  BY DEF Giving
<1>4. Unbinding(busy', r) <=> Unbinding(busy, r)  BY GoesOn
<1> QED  BY <1>2, <1>3, <1>4

\* releases its queue, and sees whether there are readers,
LEMMA UnbindFlushKeeps ==
    ASSUME IInv, UnbindFlush
    PROVE  IInv'
<1> DEFINE s == busy.sock
           W == Receiving(thread)
           to == IF queue[s] = 0 /\ count[s] # 0 THEN "list" ELSE "hand over"
<1>1. /\ busy.at = "flush" /\ busy.at \in Giving /\ to \in Giving /\ to \in {"list", "hand over"}
      /\ queue' = [queue EXCEPT ![s] = 0] /\ busy' = [busy EXCEPT !.at = to]
      /\ UNCHANGED <<table, error, readers, count, binders, owner, binding, next, prev, thread>>
  BY DEF UnbindFlush, readVars, bindVars, ringVars, Giving
<1>2. /\ s \in Sockets /\ s \notin Range(table)
      /\ \A u \in W[s] : W[s] = {u} /\ thread[u].wait = "forever"
      /\ count[s] = Cardinality(W[s]) + Uncounted(busy, s) /\ busy \in Handlers
  BY <1>1, UnbindHas
<1>3. busy' \in Handlers /\ busy'.at = to /\ busy'.sock = s
  BY <1>1, <1>2 DEF Handlers
<1>4. SameWalk(busy, busy')  BY <1>1, <1>3 DEF SameWalk, Taken, Uncounted
<1>5. Holders(Range(table'), busy') = Holders(Range(table), busy)
  BY <1>1, <1>3, GoesOn
<1>6. /\ AllFit(thread')
      /\ ReadersKept(Receiving(thread'), readers', count', next', prev', busy')
      /\ \E H \in Lines : BindersKept(H, thread', binders', owner', binding', next', prev',
                                      Holders(Range(table'), busy'))
  BY <1>1, <1>4, <1>5, Stands
<1>7. queue' \in [Sockets -> Nat] /\ \A r \in Sockets : queue[r] = 0 => queue'[r] = 0
  BY <1>1 DEF IInv, TypeInv
<1>8. TypeInv'  BY <1>1, <1>3, <1>7 DEF IInv, TypeInv
<1>9. NothingThere(Receiving(thread'), Range(table'), queue', error', busy')
  BY <1>1, <1>3, <1>7, StillNothing
<1>10. to = "hand over" => W[s] = {}
  <2> SUFFICES ASSUME W[s] # {} PROVE queue[s] = 0 /\ count[s] # 0  OBVIOUS
  <2>1. queue[s] = 0  BY <1>2 DEF IInv, NothingThere
  <2>2. IsFiniteSet(W[s]) /\ Cardinality(W[s]) \in Nat  BY <1>2, Readers, FS_CardinalityType
  <2>3. Cardinality(W[s]) # 0  BY <2>2, FS_EmptySet
  <2>4. Uncounted(busy, s) = 0  BY <1>1 DEF Uncounted
  <2> QED  BY <1>2, <2>1, <2>2, <2>3, <2>4
<1>11. BusyFits(busy', Range(table'), thread', Receiving(thread'), readers')
  BY <1>1, <1>2, <1>3, <1>10 DEF BusyFits
<1> QED  BY <1>6, <1>8, <1>9, <1>11 DEF IInv

\* reads their list,
LEMMA UnbindListKeeps ==
    ASSUME IInv, UnbindList
    PROVE  IInv'
<1> DEFINE s == busy.sock
           W == Receiving(thread)
<1>1. /\ busy.at = "list" /\ busy.at \in Giving /\ "clear" \in Giving
      /\ busy' = [busy EXCEPT !.at = "clear", !.cursor = readers[s]]
      /\ UNCHANGED <<table, queue, error, readers, count, binders, owner, binding, next, prev, thread>>
  BY DEF UnbindList, readVars, bindVars, ringVars, Giving
<1>2. /\ s \in Sockets /\ s \notin Range(table) /\ busy \in Handlers
      /\ \A u \in W[s] : W[s] = {u} /\ thread[u].wait = "forever"
  BY <1>1, UnbindHas
<1>3. busy' \in Handlers /\ busy'.at = "clear" /\ busy'.sock = s /\ busy'.cursor = readers[s]
  <2>1. readers[s] \in Threads \cup {None}  BY <1>2 DEF IInv, TypeInv
  <2> QED  BY <1>1, <1>2, <2>1 DEF Handlers
<1>4. SameWalk(busy, busy')  BY <1>1, <1>3 DEF SameWalk, Taken, Uncounted
<1>5. Holders(Range(table'), busy') = Holders(Range(table), busy)
  BY <1>1, <1>3, GoesOn
<1>6. /\ AllFit(thread')
      /\ ReadersKept(Receiving(thread'), readers', count', next', prev', busy')
      /\ \E H \in Lines : BindersKept(H, thread', binders', owner', binding', next', prev',
                                      Holders(Range(table'), busy'))
  BY <1>1, <1>4, <1>5, Stands
<1>7. TypeInv'  BY <1>1, <1>3 DEF IInv, TypeInv
<1>8. NothingThere(Receiving(thread'), Range(table'), queue', error', busy')
  BY <1>1, <1>3, StillNothing
<1>9. BusyFits(busy', Range(table'), thread', Receiving(thread'), readers')
  BY <1>1, <1>2, <1>3 DEF BusyFits
<1> QED  BY <1>6, <1>7, <1>8, <1>9 DEF IInv

\* What a step of the walk over the readers does to those of the other sockets: nothing.
LEMMA WalkStep ==
    ASSUME IInv, NEW s \in Sockets, busy.sock = s, busy'.sock = s, UNCHANGED <<next, prev>>,
           \A r \in Sockets : r # s => /\ Receiving(thread')[r] = Receiving(thread)[r]
                                       /\ readers'[r] = readers[r] /\ count'[r] = count[r],
           IF Taken(busy', s)
             THEN /\ readers'[s] = None /\ Receiving(thread')[s] \subseteq {busy'.cursor}
                  /\ Cycle(Receiving(thread')[s], next, prev)
             ELSE RingOf(Receiving(thread')[s], readers'[s], next, prev),
           count'[s] = Cardinality(Receiving(thread')[s]) + Uncounted(busy', s)
    PROVE  ReadersKept(Receiving(thread'), readers', count', next', prev', busy')
<1>1. ReadersKept(Receiving(thread), readers, count, next, prev, busy)  BY DEF IInv
<1> DEFINE At(r) == /\ IF Taken(busy', r)
                         THEN /\ readers'[r] = None /\ Receiving(thread')[r] \subseteq {busy'.cursor}
                              /\ Cycle(Receiving(thread')[r], next, prev)
                         ELSE RingOf(Receiving(thread')[r], readers'[r], next, prev)
                    /\ count'[r] = Cardinality(Receiving(thread')[r]) + Uncounted(busy', r)
<1>2. At(s)  OBVIOUS
<1>3. ASSUME NEW r \in Sockets, r # s PROVE At(r)
  <2>1. ~Taken(busy, r) /\ ~Taken(busy', r) /\ Uncounted(busy, r) = 0 /\ Uncounted(busy', r) = 0
    BY <1>3 DEF Taken, Uncounted
  <2>2. RingOf(Receiving(thread)[r], readers[r], next, prev)
        /\ count[r] = Cardinality(Receiving(thread)[r]) + Uncounted(busy, r)
    BY <1>1, <2>1 DEF ReadersKept
  <2> QED  BY <1>3, <2>1, <2>2
<1>4. \A r \in Sockets : At(r)  BY <1>2, <1>3
<1> QED  BY <1>4 DEF ReadersKept

\* clears their list,
LEMMA UnbindClearKeeps ==
    ASSUME IInv, UnbindClear
    PROVE  IInv'
<1> USE UdpAssumption DEF UdpAssumption
<1> DEFINE s == busy.sock
           W == Receiving(thread)
<1>1. /\ busy.at = "clear" /\ busy.at \in Giving /\ "resume" \in Giving
      /\ readers' = [readers EXCEPT ![s] = None] /\ busy' = [busy EXCEPT !.at = "resume"]
      /\ UNCHANGED <<table, queue, error, count, binders, owner, binding, next, prev, thread>>
  BY DEF UnbindClear, bindVars, ringVars, Giving
<1>2. /\ s \in Sockets /\ s \notin Range(table) /\ busy \in Handlers
      /\ \A u \in W[s] : W[s] = {u} /\ thread[u].wait = "forever"
      /\ busy.cursor = readers[s]
      /\ count[s] = Cardinality(W[s]) + Uncounted(busy, s)
  BY <1>1, UnbindHas
<1>3. RingOf(W[s], readers[s], next, prev)
  <2>1. ~Taken(busy, s)  BY <1>1 DEF Taken
  <2> QED  BY <1>1, <2>1, UnbindHas
<1>4. busy' \in Handlers /\ busy'.at = "resume" /\ busy'.sock = s /\ busy'.cursor = busy.cursor
  BY <1>1, <1>2 DEF Handlers
<1>5. /\ readers' \in [Sockets -> Threads \cup {None}] /\ readers'[s] = None
      /\ \A r \in Sockets : r # s => readers'[r] = readers[r]
  BY <1>1, <1>2 DEF IInv, TypeInv
<1>6. W[s] \subseteq {busy.cursor}
  <2>1. ASSUME NEW u \in W[s] PROVE u = busy.cursor
    <3>1. readers[s] \in W[s]  BY <1>3, <2>1 DEF RingOf
    <3>2. W[s] = {u}  BY <1>2, <2>1
    <3> QED  BY <1>2, <3>1, <3>2
  <2> QED  BY <2>1
<1>7. Uncounted(busy', s) = 0 /\ Uncounted(busy, s) = 0  BY <1>1, <1>4 DEF Uncounted
<1>8. ReadersKept(Receiving(thread'), readers', count', next', prev', busy')
  <2>1. Cycle(W[s], next, prev)  BY <1>3 DEF RingOf
  <2>2. IF Taken(busy', s)
          THEN /\ readers'[s] = None /\ Receiving(thread')[s] \subseteq {busy'.cursor}
               /\ Cycle(Receiving(thread')[s], next, prev)
          ELSE RingOf(Receiving(thread')[s], readers'[s], next, prev)
    BY <1>1, <1>4, <1>5, <1>6, <2>1 DEF Taken
  <2>3. count'[s] = Cardinality(Receiving(thread')[s]) + Uncounted(busy', s)  BY <1>1, <1>2, <1>7
  <2>4. \A r \in Sockets : r # s => /\ Receiving(thread')[r] = Receiving(thread)[r]
                                    /\ readers'[r] = readers[r] /\ count'[r] = count[r]
    BY <1>1, <1>5
  <2> HIDE DEF W
  <2> QED  BY <1>1, <1>2, <1>4, <2>2, <2>3, <2>4, WalkStep
<1>9. \E H \in Lines : BindersKept(H, thread', binders', owner', binding', next', prev',
                                   Holders(Range(table'), busy'))
  <2>1. Holders(Range(table), busy') = Holders(Range(table), busy)  BY <1>1, <1>4, GoesOn
  <2> QED  BY <1>1, <2>1 DEF IInv
<1>10. TypeInv'  BY <1>1, <1>4, <1>5 DEF IInv, TypeInv
<1>11. NothingThere(Receiving(thread'), Range(table'), queue', error', busy')
  BY <1>1, <1>4, StillNothing
<1>12. BusyFits(busy', Range(table'), thread', Receiving(thread'), readers')
  BY <1>1, <1>2, <1>4 DEF BusyFits
<1>13. AllFit(thread')  BY <1>1 DEF IInv
<1> QED  BY <1>8, <1>9, <1>10, <1>11, <1>12, <1>13 DEF IInv

\* looks whether a reader is still counted,
LEMMA UnbindTestKeeps ==
    ASSUME IInv, UnbindTest
    PROVE  IInv'
<1> USE UdpAssumption DEF UdpAssumption
<1> DEFINE s == busy.sock
           W == Receiving(thread)
           to == IF count[s] # 0 THEN "wake" ELSE "hand over"
<1>1. /\ busy.at = "resume" /\ busy.at \in Giving /\ to \in Giving
      /\ busy' = IF count[s] # 0 THEN [busy EXCEPT !.at = "wake"]
                                 ELSE [busy EXCEPT !.at = "hand over", !.cursor = None]
      /\ UNCHANGED <<table, queue, error, readers, count, binders, owner, binding, next, prev, thread>>
  BY DEF UnbindTest, readVars, bindVars, ringVars, Giving
<1>2. /\ s \in Sockets /\ s \notin Range(table) /\ busy \in Handlers
      /\ \A u \in W[s] : W[s] = {u} /\ thread[u].wait = "forever"
      /\ count[s] = Cardinality(W[s]) + Uncounted(busy, s)
  BY <1>1, UnbindHas
<1>3. readers[s] = None /\ W[s] \subseteq {busy.cursor} /\ Cycle(W[s], next, prev)
  <2>1. Taken(busy, s)  BY <1>1 DEF Taken
  <2> QED  BY <1>1, <2>1, UnbindHas
<1>4. /\ busy' \in Handlers /\ busy'.at = to /\ busy'.sock = s
      /\ to \in {"wake", "hand over"} /\ busy'.at \in Giving
      /\ to = "wake" => busy'.cursor = busy.cursor
  <2>1. CASE count[s] # 0  BY <1>1, <1>2, <2>1 DEF Handlers
  <2>2. CASE count[s] = 0  BY <1>1, <1>2, <2>2 DEF Handlers
  <2> QED  BY <2>1, <2>2
<1>5. count[s] = 0 <=> W[s] = {}
  <2>1. IsFiniteSet(W[s]) /\ Cardinality(W[s]) \in Nat  BY <1>2, Readers, FS_CardinalityType
  <2>2. Uncounted(busy, s) = 0  BY <1>1 DEF Uncounted
  <2> QED  BY <1>2, <2>1, <2>2, FS_EmptySet
<1>6. Uncounted(busy', s) = 0 /\ Uncounted(busy, s) = 0
  <2>1. busy'.at # "counted" /\ busy.at # "counted"  BY <1>1, <1>4
  <2> QED  BY <2>1 DEF Uncounted
<1>7. ReadersKept(Receiving(thread'), readers', count', next', prev', busy')
  <2>1. IF Taken(busy', s) THEN readers[s] = None /\ W[s] \subseteq {busy'.cursor} /\ Cycle(W[s], next, prev)
                           ELSE RingOf(W[s], readers[s], next, prev)
    BY <1>3, <1>4, <1>5 DEF Taken, RingOf
  <2> QED  BY <1>1, <1>2, <1>4, <1>6, <2>1, WalkStep
<1>8. \E H \in Lines : BindersKept(H, thread', binders', owner', binding', next', prev',
                                   Holders(Range(table'), busy'))
  <2>1. busy'.at \in Giving /\ busy'.sock = busy.sock  BY <1>4
  <2>2. Holders(Range(table), busy') = Holders(Range(table), busy)  BY <1>1, <2>1, GoesOn
  <2> QED  BY <1>1, <2>2 DEF IInv
<1>9. TypeInv'  BY <1>1, <1>4 DEF IInv, TypeInv
<1>10. NothingThere(Receiving(thread'), Range(table'), queue', error', busy')
  BY <1>1, <1>4, StillNothing
<1>11. BusyFits(busy', Range(table'), thread', Receiving(thread'), readers')
  <2>1. to = "wake" => W[s] = {busy'.cursor}  BY <1>3, <1>4, <1>5
  <2>2. to = "hand over" => W[s] = {}  BY <1>5
  <2> HIDE DEF to
  <2> QED  BY <1>1, <1>2, <1>4, <2>1, <2>2 DEF BusyFits
<1>12. AllFit(thread')  BY <1>1 DEF IInv
<1> QED  BY <1>7, <1>8, <1>9, <1>10, <1>11, <1>12 DEF IInv

\* resumes it,
LEMMA UnbindWakeKeeps ==
    ASSUME IInv, UnbindWake
    PROVE  IInv'
<1> USE UdpAssumption DEF UdpAssumption
<1> DEFINE s == busy.sock
           t == busy.cursor
           W == Receiving(thread)
           W2 == Receiving(thread')
<1>1. /\ busy.at = "wake" /\ busy.at \in Giving /\ "counted" \in Giving
      /\ thread' = [thread EXCEPT ![t].cleanup = FALSE, ![prev[next[t]]] = Idle]
      /\ busy' = [busy EXCEPT !.at = "counted", !.cursor = next[t]]
      /\ UNCHANGED <<table, queue, error, readers, count, binders, owner, binding, next, prev>>
  BY DEF UnbindWake, readVars, bindVars, ringVars, Giving
<1>2. /\ s \in Sockets /\ s \notin Range(table) /\ busy \in Handlers
      /\ W[s] = {t}
      /\ count[s] = Cardinality(W[s]) + Uncounted(busy, s)
  BY <1>1, UnbindHas
<1>3. readers[s] = None /\ Cycle(W[s], next, prev)
  <2>1. Taken(busy, s)  BY <1>1 DEF Taken
  <2> QED  BY <1>1, <2>1, UnbindHas
<1>4. t \in Threads /\ thread[t].call = "receive" /\ next[t] = t /\ prev[t] = t
  <2>1. t \in Threads  BY <1>2, Readers DEF Lines
  <2> QED  BY <1>2, <1>3, <2>1, Readers DEF Cycle
<1>5. Resume(t)
  <2>1. thread \in [Threads -> Records]  BY DEF IInv, TypeInv
  <2>2. thread' = [thread EXCEPT ![t].cleanup = FALSE, ![t] = Idle]  BY <1>1, <1>4
  <2> HIDE DEF t
  <2>3. thread' = [thread EXCEPT ![t] = Idle]  BY <1>4, <2>1, <2>2
  <2> QED  BY <2>3 DEF Resume
<1>6. /\ thread' \in [Threads -> Records] /\ AllFit(thread') /\ thread'[t].call = "none"
      /\ \A u \in Threads : u # t => thread'[u] = thread[u]
      /\ W2 = [W EXCEPT ![s] = W[s] \ {t}]
  BY <1>2, <1>4, <1>5, Resumed DEF IInv
<1>7. W2[s] = {} /\ \A r \in Sockets : r # s => W2[r] = W[r]
  <2>1. W \in Lines  BY Readers
  <2> QED  BY <1>2, <1>6, <2>1 DEF Lines
<1>8. busy' \in Handlers /\ busy'.at = "counted" /\ busy'.sock = s
  BY <1>1, <1>2, <1>4 DEF Handlers
<1>9. ReadersKept(Receiving(thread'), readers', count', next', prev', busy')
  <2>1. Taken(busy', s) /\ Uncounted(busy', s) = 1 /\ Uncounted(busy, s) = 0
    BY <1>1, <1>8 DEF Taken, Uncounted
  <2>2. count[s] = Cardinality(W2[s]) + Uncounted(busy', s)
    <3>1. Cardinality({t}) = 1 /\ Cardinality({}) = 0  BY FS_Singleton, FS_EmptySet
    <3> QED  BY <1>2, <1>7, <2>1, <3>1
  <2>3. Cycle(W2[s], next, prev)  BY <1>7 DEF Cycle
  <2>4. W2[s] \subseteq {busy'.cursor}  BY <1>7
  <2> QED  BY <1>1, <1>2, <1>3, <1>7, <1>8, <2>1, <2>2, <2>3, <2>4, WalkStep
<1>10. \E H \in Lines : BindersKept(H, thread', binders', owner', binding', next', prev',
                                    Holders(Range(table'), busy'))
  <2> DEFINE P == Holders(Range(table), busy)
  <2>1. PICK H \in Lines : BindersKept(H, thread, binders, owner, binding, next, prev, P)
    BY DEF IInv
  <2>2. \A u \in Threads : thread[u].call = "bind" \/ thread'[u].call = "bind" => thread'[u] = thread[u]
    BY <1>4, <1>6
  <2>3. /\ \A r \in Sockets : H[r] # {} => r \in P
        /\ \A u \in Threads : thread[u].call = "bind" => thread[u].block \notin P
    BY <2>1 DEF BindersKept
  <2>4. binding \in [Sockets -> Threads \cup {None}]  BY DEF IInv, TypeInv
  <2>5. \A u \in Threads : thread[u].call = "bind" => next'[u] = next[u] /\ prev'[u] = prev[u]
    BY <1>1
  <2>6. Holders(Range(table'), busy') = P  BY <1>1, <1>8, GoesOn
  <2> HIDE DEF P
  <2>7. BindersKept(H, thread', binders, owner, binding, next', prev', P)
    BY <2>1, <2>2, <2>3, <2>4, <2>5, BindersSame
  <2> QED  BY <1>1, <2>6, <2>7
<1>11. TypeInv'  BY <1>1, <1>6, <1>8 DEF IInv, TypeInv
<1>12. NothingThere(Receiving(thread'), Range(table'), queue', error', busy')
  BY <1>1, <1>7, <1>8, StillNothing
<1>13. BusyFits(busy', Range(table'), thread', Receiving(thread'), readers')
  BY <1>1, <1>2, <1>7, <1>8 DEF BusyFits
<1> QED  BY <1>6, <1>9, <1>10, <1>11, <1>12, <1>13 DEF IInv

\* and counts it.
LEMMA UnbindCountKeeps ==
    ASSUME IInv, UnbindCount
    PROVE  IInv'
<1> DEFINE s == busy.sock
           W == Receiving(thread)
<1>1. /\ busy.at = "counted" /\ busy.at \in Giving /\ "resume" \in Giving
      /\ count' = [count EXCEPT ![s] = @ - 1] /\ busy' = [busy EXCEPT !.at = "resume"]
      /\ UNCHANGED <<table, queue, error, readers, binders, owner, binding, next, prev, thread>>
  BY DEF UnbindCount, bindVars, ringVars, Giving
<1>2. /\ s \in Sockets /\ s \notin Range(table) /\ busy \in Handlers
      /\ W[s] = {}
      /\ count[s] = Cardinality(W[s]) + Uncounted(busy, s)
  BY <1>1, UnbindHas
<1>3. readers[s] = None /\ Cycle(W[s], next, prev)
  <2>1. Taken(busy, s)  BY <1>1 DEF Taken
  <2> QED  BY <1>1, <2>1, UnbindHas
<1>4. busy' \in Handlers /\ busy'.at = "resume" /\ busy'.sock = s
  BY <1>1, <1>2 DEF Handlers
<1>5. /\ count' \in [Sockets -> Int] /\ count'[s] = count[s] - 1
      /\ \A r \in Sockets : r # s => count'[r] = count[r]
  BY <1>1, <1>2 DEF IInv, TypeInv
<1>6. ReadersKept(Receiving(thread'), readers', count', next', prev', busy')
  <2>1. Taken(busy', s) /\ Uncounted(busy', s) = 0 /\ Uncounted(busy, s) = 1
    BY <1>1, <1>4 DEF Taken, Uncounted
  <2>2. Cardinality(W[s]) = 0  BY <1>2, FS_EmptySet
  <2>3. count'[s] = Cardinality(W[s]) + Uncounted(busy', s)  BY <1>2, <1>5, <2>1, <2>2
  <2> QED  BY <1>1, <1>2, <1>3, <1>4, <1>5, <2>1, <2>3, WalkStep
<1>7. \E H \in Lines : BindersKept(H, thread', binders', owner', binding', next', prev',
                                   Holders(Range(table'), busy'))
  <2>1. Holders(Range(table), busy') = Holders(Range(table), busy)  BY <1>1, <1>4, GoesOn
  <2> QED  BY <1>1, <2>1 DEF IInv
<1>8. TypeInv'  BY <1>1, <1>4, <1>5 DEF IInv, TypeInv
<1>9. NothingThere(Receiving(thread'), Range(table'), queue', error', busy')
  BY <1>1, <1>4, StillNothing
<1>10. BusyFits(busy', Range(table'), thread', Receiving(thread'), readers')
  BY <1>1, <1>2, <1>4 DEF BusyFits
<1>11. AllFit(thread')  BY <1>1 DEF IInv
<1> QED  BY <1>6, <1>7, <1>8, <1>9, <1>10, <1>11 DEF IInv

\* It ends: when nobody waits for the port,
LEMMA HandOverToNobody ==
    ASSUME IInv, busy.at = "hand over", binders[busy.sock] = None, busy' = Nobody,
           UNCHANGED <<table, queue, error, readers, count, binders, owner, binding, next, prev, thread>>
    PROVE  IInv'
<1> DEFINE s == busy.sock
           W == Receiving(thread)
           P == Holders(Range(table), busy)
<1>1. busy.at \in Giving  BY DEF Giving
<1>2. s \in Sockets /\ s \notin Range(table) /\ W[s] = {} /\ Unbinding(busy, s)
  BY <1>1, UnbindHas
<1>3. SameWalk(busy, busy')
  <2>1. \A r \in Sockets : ~Taken(busy, r) /\ Uncounted(busy, r) = 0  BY DEF Taken, Uncounted
  <2> QED  BY <2>1, NobodyIs DEF SameWalk
<1>4. ReadersKept(Receiving(thread'), readers', count', next', prev', busy')
  <2>1. W \in Lines /\ ReadersKept(W, readers, count, next, prev, busy)  BY Readers DEF IInv
  <2> HIDE DEF W
  <2>2. ReadersKept(W, readers, count, next, prev, busy')  BY <1>3, <2>1, ReadersSame
  <2> QED  BY <2>2 DEF W
<1>5. \A r \in Sockets : r \in Holders(Range(table'), busy') <=> r \in P /\ r # s
  <2>1. \A r \in Sockets : Unbinding(busy, r) <=> r = s  BY <1>1, <1>2 DEF Unbinding
  <2> QED  BY <1>2, <2>1, NobodyIs DEF Holders
<1>6. \E H \in Lines : BindersKept(H, thread', binders', owner', binding', next', prev',
                                   Holders(Range(table'), busy'))
  <2> DEFINE P2 == Holders(Range(table'), busy')
  <2>1. PICK H \in Lines : BindersKept(H, thread, binders, owner, binding, next, prev, P)
    BY DEF IInv
  <2>2. H[s] = {}  BY <1>2, <2>1 DEF BindersKept, RingOf
  <2>3. /\ \A r \in Sockets : H[r] # {} => r \in P2
        /\ \A u \in Threads : thread[u].call = "bind" => thread[u].block \notin P2
    <3>1. /\ \A r \in Sockets : H[r] # {} => r \in P
          /\ \A u \in Threads : thread[u].call = "bind" => thread[u].block \notin P
      BY <2>1 DEF BindersKept
    <3>2. \A u \in Threads : thread[u].call = "bind" => thread[u].block \in Sockets
      BY DEF IInv, AllFit
    <3> QED  BY <1>5, <2>2, <3>1, <3>2
  <2>4. binding \in [Sockets -> Threads \cup {None}]  BY DEF IInv, TypeInv
  <2> HIDE DEF P, P2
  <2>5. BindersKept(H, thread, binders, owner, binding, next, prev, P2)
    BY <2>1, <2>3, <2>4, BindersSame
  <2> QED  BY <2>5 DEF P2
<1>7. TypeInv'  BY NobodyIs DEF IInv, TypeInv
<1>8. NothingThere(Receiving(thread'), Range(table'), queue', error', busy')
  <2> SUFFICES ASSUME NEW r \in Sockets, W[r] # {}
               PROVE  r \in Range(table) /\ queue[r] = 0 /\ ~error[r]
    BY DEF NothingThere
  <2>1. /\ r \in Range(table) \/ Unbinding(busy, r)
        /\ queue[r] = 0
        /\ error[r] => busy.at \in {"error", "lift"}
    BY DEF IInv, NothingThere
  <2>2. r # s  BY <1>2
  <2> QED  BY <2>1, <2>2 DEF Unbinding
<1>9. BusyFits(busy', Range(table'), thread', Receiving(thread'), readers')
  BY DEF BusyFits
<1>10. AllFit(thread')  BY DEF IInv
<1> QED  BY <1>4, <1>6, <1>7, <1>8, <1>9, <1>10 DEF IInv

\* and when somebody does: the port and the list go to the socket of the first.
LEMMA HandOverToFirst ==
    ASSUME IInv, UnbindHandOver, binders[busy.sock] # None
    PROVE  IInv'
<1> USE UdpAssumption DEF UdpAssumption
<1> DEFINE s == busy.sock
           u == binders[s]
           new == thread[u].block
           W == Receiving(thread)
           P == Holders(Range(table), busy)
           P2 == Holders(Range(table'), busy')
           c == IF next[u] = u THEN None ELSE next[u]
<1>1. /\ busy.at = "hand over" /\ busy' = Nobody /\ u # None
      /\ u = binders[s] /\ new = thread[u].block
      /\ table' = Append(table, new)
      /\ binding' = [binding EXCEPT ![new] = None]
      /\ binders' = [binders EXCEPT ![s] = None, ![new] = c]
      /\ owner' = [owner EXCEPT ![new] = None]
      /\ Unlink(u) /\ Resume(u)
      /\ UNCHANGED <<queue, error, readers, count>>
  BY DEF UnbindHandOver, Inherit, After, readVars
<1>2. busy.at \in Giving  BY <1>1 DEF Giving
<1>3. s \in Sockets /\ s \notin Range(table) /\ W[s] = {} /\ Unbinding(busy, s)
  BY <1>1, <1>2, UnbindHas
<1>4. PICK H \in Lines : BindersKept(H, thread, binders, owner, binding, next, prev, P)
  BY DEF IInv
<1> DEFINE R == H[s]
           G == [H EXCEPT ![s] = {}, ![new] = R \ {u}]
<1> HIDE DEF u, new
<1>5. /\ R \subseteq Threads /\ u \in R /\ u \in Threads /\ RingOf(R, u, next, prev)
      /\ thread[u].call = "bind"
      /\ \A t \in R : t # u => thread[t].wait = "behind"
  <2>1. R \subseteq Threads  BY <1>3 DEF Lines
  <2>2. RingOf(R, u, next, prev)  BY <1>1, <1>3, <1>4 DEF BindersKept
  <2>3. u \in R  BY <1>1, <2>2 DEF RingOf
  <2>4. ASSUME NEW t \in R PROVE thread[t].call = "bind" /\ (thread[t].wait # "behind" => u = t)
    <3>1. thread[t].call = "bind" /\ (thread[t].wait # "behind" => binders[s] = t)
      BY <1>3, <1>4 DEF BindersKept
    <3> QED  BY <1>1, <3>1
  <2> QED  BY <2>1, <2>2, <2>3, <2>4
<1>6. /\ new \in Sockets /\ new \notin P /\ binding[new] = u
      /\ new # s /\ new \notin Range(table) /\ H[new] = {}
  <2>1. new \in Sockets  BY <1>1, <1>5 DEF IInv, AllFit
  <2>2. new \notin P /\ binding[new] = u  BY <1>1, <1>4, <1>5 DEF BindersKept
  <2>3. s \in P  BY <1>3 DEF Holders
  <2>4. new \notin Range(table)  BY <2>1, <2>2 DEF Holders
  <2>5. H[new] = {}  BY <1>4, <2>1, <2>2 DEF BindersKept
  <2> QED  BY <2>1, <2>2, <2>3, <2>4, <2>5
<1>7. /\ thread' \in [Threads -> Records] /\ AllFit(thread')
      /\ thread'[u].call = "none"
      /\ \A t \in Threads : t # u => thread'[t] = thread[t]
      /\ Receiving(thread') = W
  <2>1. thread[u].call # "receive"  BY <1>5
  <2> QED  BY <1>1, <1>5, <2>1, Resumed DEF IInv
<1>8. next \in [Threads -> Threads] /\ prev \in [Threads -> Threads]  BY DEF IInv, TypeInv
<1>9. /\ RingOf(R \ {u}, c, next', prev')
      /\ \A t \in Threads : t \notin R => next'[t] = next[t] /\ prev'[t] = prev[t]
      /\ next' \in [Threads -> Threads] /\ prev' \in [Threads -> Threads]
  <2>1. IsUnlink(u, next, prev, next', prev')  BY <1>1 DEF Unlink, IsUnlink
  <2>2. c = IF next[u] = u THEN None ELSE next[u]  OBVIOUS
  <2>3. R \subseteq Threads /\ u \in R /\ RingOf(R, u, next, prev)  BY <1>5
  <2> HIDE DEF R, c
  <2>4. RingOf(R \ {u}, c, next', prev')  BY <1>8, <2>1, <2>2, <2>3, RingLeft
  <2>5. \A t \in Threads : t \notin R => next'[t] = next[t] /\ prev'[t] = prev[t]
    <3>1. next[u] \in R /\ prev[u] \in R  BY <2>3 DEF RingOf, Cycle
    <3> QED  BY <1>8, <2>1, <3>1 DEF IsUnlink
  <2>6. next' \in [Threads -> Threads] /\ prev' \in [Threads -> Threads]
    BY <1>8, <2>1, <2>2, <2>3, RingLeft
  <2> QED  BY <2>4, <2>5, <2>6
<1>10. /\ table' \in Seq(Sockets) /\ IsInjective(table')
      /\ Range(table') = Range(table) \cup {new}
  <2>1. table \in Seq(Sockets) /\ IsInjective(table)  BY DEF IInv, TypeInv
  <2>2. new \in Sockets /\ new \notin Range(table)  BY <1>6
  <2>3. /\ Append(table, new) \in Seq(Sockets) /\ IsInjective(Append(table, new))
        /\ Range(Append(table, new)) = Range(table) \cup {new}
    BY <2>1, <2>2, Appended
  <2> QED  BY <1>1, <2>3
<1>11. TypeInv'
  <2>1. c \in Threads \cup {None}  BY <1>5, <1>8
  <2> HIDE DEF c
  <2>2. /\ binders' \in [Sockets -> Threads \cup {None}]
        /\ binding' \in [Sockets -> Threads \cup {None}] /\ owner' \in [Sockets -> Sockets \cup {None}]
    BY <1>1, <2>1 DEF IInv, TypeInv
  <2> QED  BY <1>1, <1>7, <1>9, <1>10, <2>2, NobodyIs DEF IInv, TypeInv
<1>12. SameWalk(busy, busy')
  <2>1. \A r \in Sockets : ~Taken(busy, r) /\ Uncounted(busy, r) = 0  BY <1>1 DEF Taken, Uncounted
  <2> QED  BY <1>1, <2>1, NobodyIs DEF SameWalk
<1>13. ReadersKept(Receiving(thread'), readers', count', next', prev', busy')
  <2>1. \A r \in Sockets : \A t \in W[r] : next'[t] = next[t] /\ prev'[t] = prev[t]
    <3>1. \A r \in Sockets : \A t \in W[r] : t \in Threads /\ thread[t].call = "receive"
      BY Readers DEF Lines
    <3>2. \A t \in R : thread[t].call = "bind"  BY <1>3, <1>4 DEF BindersKept
    <3> QED  BY <1>9, <3>1, <3>2
  <2>2. W \in Lines /\ ReadersKept(W, readers, count, next, prev, busy)  BY Readers DEF IInv
  <2> HIDE DEF W
  <2>3. ReadersKept(W, readers, count, next', prev', busy')
    BY <1>12, <2>1, <2>2, ReadersSame
  <2> QED  BY <1>1, <1>7, <2>3
<1>14. \A r \in Sockets : r \in P2 <=> (r \in P /\ r # s) \/ r = new
  <2>1. \A r \in Sockets : Unbinding(busy, r) <=> r = s  BY <1>2, <1>3 DEF Unbinding
  <2> QED  BY <1>1, <1>3, <1>6, <1>10, <2>1, NobodyIs DEF Holders
<1>15. G \in Lines /\ BindersKept(G, thread', binders', owner', binding', next', prev', P2)
  <2>1. /\ G \in Lines /\ G[s] = {} /\ G[new] = R \ {u}
        /\ \A r \in Sockets : r # s /\ r # new => G[r] = H[r]
    BY <1>3, <1>5, <1>6 DEF Lines
  <2>2. /\ binders'[s] = None /\ binders'[new] = c
        /\ \A r \in Sockets : r # s /\ r # new => binders'[r] = binders[r]
        /\ binding'[new] = None /\ \A r \in Sockets : r # new => binding'[r] = binding[r]
        /\ owner'[new] = None /\ \A r \in Sockets : r # new => owner'[r] = owner[r]
    <3> HIDE DEF c
    <3> QED  BY <1>1, <1>3, <1>6 DEF IInv, TypeInv
  <2>3. \A t \in Threads : thread[t].call = "bind" /\ t # u =>
             thread[t].block \in Sockets /\ thread[t].block # new
    BY <1>4, <1>6 DEF BindersKept, IInv, AllFit
  <2>4. \A r \in Sockets : \A t \in H[r] : t \in Threads /\ thread[t].call = "bind"
    BY <1>4 DEF BindersKept, Lines
  <2>5. \A r \in Sockets : r # s => u \notin H[r]  BY <1>3, <1>4, <1>5 DEF BindersKept
  <2> HIDE DEF G, c
  <2>6. ASSUME NEW r \in Sockets
        PROVE  /\ RingOf(G[r], binders'[r], next', prev')
               /\ G[r] # {} => r \in P2
               /\ \A t \in G[r] : /\ thread'[t].call = "bind"
                                  /\ thread'[t].wait # "behind" =>
                                        binders'[r] = t /\ owner'[thread'[t].block] = r
               /\ \A q \in Sockets : r # q => G[r] \cap G[q] = {}
    <3>1. CASE r = s
      <4>1. RingOf({}, None, next', prev')  BY DEF RingOf, Cycle
      <4> QED  BY <2>1, <2>2, <3>1, <4>1
    <3>2. CASE r = new
      <4>1. RingOf(G[r], binders'[r], next', prev')  BY <1>9, <2>1, <2>2, <3>2
      <4>2. r \in P2  BY <1>6, <1>14, <3>2
      <4>3. ASSUME NEW t \in G[r] PROVE thread'[t].call = "bind" /\ thread'[t].wait = "behind"
        <5>1. t \in R /\ t # u  BY <2>1, <3>2, <4>3
        <5>2. t \in Threads /\ thread[t].call = "bind"  BY <1>3, <2>4, <5>1
        <5> QED  BY <1>5, <1>7, <5>1, <5>2
      <4>4. ASSUME NEW q \in Sockets, r # q PROVE G[r] \cap G[q] = {}
        <5>1. q # s => G[q] = H[q] /\ H[s] \cap H[q] = {}
          BY <1>3, <1>4, <2>1, <3>2, <4>4 DEF BindersKept
        <5> QED  BY <2>1, <3>2, <5>1
      <4> QED  BY <4>1, <4>2, <4>3, <4>4
    <3>3. CASE r # s /\ r # new
      <4>1. G[r] = H[r] /\ binders'[r] = binders[r]  BY <2>1, <2>2, <3>3
      <4>2. H[r] \cap R = {} /\ RingOf(H[r], binders[r], next, prev)
        BY <1>3, <1>4, <3>3 DEF BindersKept
      <4>3. RingOf(H[r], binders[r], next', prev')
        <5>1. \A t \in H[r] : next'[t] = next[t] /\ prev'[t] = prev[t]  BY <1>9, <2>4, <4>2
        <5> QED  BY <4>2, <5>1, RingSame
      <4>4. G[r] # {} => r \in P2  BY <1>4, <1>14, <3>3, <4>1 DEF BindersKept
      <4>5. ASSUME NEW t \in G[r]
            PROVE  /\ thread'[t].call = "bind"
                   /\ thread'[t].wait # "behind" => binders'[r] = t /\ owner'[thread'[t].block] = r
        <5>1. t \in H[r] /\ t \in Threads /\ thread[t].call = "bind"  BY <2>4, <4>1, <4>5
        <5>2. t # u /\ thread'[t] = thread[t]  BY <1>7, <2>5, <3>3, <5>1
        <5>3. thread[t].wait # "behind" => binders[r] = t /\ owner[thread[t].block] = r
          BY <1>4, <5>1 DEF BindersKept
        <5> QED  BY <2>2, <2>3, <4>1, <5>1, <5>2, <5>3
      <4>6. ASSUME NEW q \in Sockets, r # q PROVE G[r] \cap G[q] = {}
        <5>1. H[r] \cap H[q] = {}  BY <1>4, <4>6 DEF BindersKept
        <5> QED  BY <2>1, <4>1, <4>2, <5>1
      <4> QED  BY <4>1, <4>3, <4>4, <4>5, <4>6
    <3> QED  BY <3>1, <3>2, <3>3
  <2>7. ASSUME NEW t \in Threads, thread'[t].call = "bind"
        PROVE  /\ \E r \in Sockets : t \in G[r]
               /\ thread'[t].block \notin P2 /\ binding'[thread'[t].block] = t
    <3>1. t # u /\ thread'[t] = thread[t] /\ thread[t].call = "bind"  BY <1>7, <2>7
    <3>2. thread[t].block \notin P /\ binding[thread[t].block] = t  BY <1>4, <3>1 DEF BindersKept
    <3>3. thread[t].block \in Sockets /\ thread[t].block # new  BY <2>3, <3>1
    <3>4. PICK r \in Sockets : t \in H[r]  BY <1>4, <3>1 DEF BindersKept
    <3>5. \E q \in Sockets : t \in G[q]
      <4>1. CASE r = s  BY <1>6, <2>1, <3>1, <3>4, <4>1
      <4>2. CASE r # s
        <5>1. r # new  BY <1>6, <3>4
        <5> QED  BY <2>1, <3>4, <4>2, <5>1
      <4> QED  BY <4>1, <4>2
    <3>6. thread[t].block \notin P2  BY <1>14, <3>2, <3>3
    <3> QED  BY <2>2, <3>1, <3>2, <3>3, <3>5, <3>6
  <2>8. ASSUME NEW r \in Sockets, binding'[r] # None
        PROVE  thread'[binding'[r]].call = "bind" /\ thread'[binding'[r]].block = r
    <3>1. r # new /\ binding'[r] = binding[r]  BY <2>2, <2>8
    <3>2. binding[r] \in Threads  BY <2>8, <3>1 DEF IInv, TypeInv
    <3>3. thread[binding[r]].call = "bind" /\ thread[binding[r]].block = r
      BY <1>4, <2>8, <3>1 DEF BindersKept
    <3> QED  BY <1>1, <1>7, <3>1, <3>2, <3>3
  <2>9. G \in Lines  BY <2>1
  <2> HIDE DEF P2
  <2> QED  BY <2>6, <2>7, <2>8, <2>9 DEF BindersKept
<1>16. NothingThere(Receiving(thread'), Range(table'), queue', error', busy')
  <2> SUFFICES ASSUME NEW r \in Sockets, W[r] # {}
               PROVE  r \in Range(table') /\ queue[r] = 0 /\ ~error[r]
    BY <1>1, <1>7 DEF NothingThere
  <2>1. /\ r \in Range(table) \/ Unbinding(busy, r)
        /\ queue[r] = 0
        /\ error[r] => busy.at \in {"error", "lift"}
    BY <1>1 DEF IInv, NothingThere
  <2>2. r # s  BY <1>3
  <2> QED  BY <1>1, <1>10, <2>1, <2>2 DEF Unbinding
<1>17. BusyFits(busy', Range(table'), thread', Receiving(thread'), readers')
  BY <1>1 DEF BusyFits
<1> QED  BY <1>7, <1>11, <1>13, <1>15, <1>16, <1>17 DEF IInv

\* The end of unbind keeps the invariant.
LEMMA UnbindHandOverKeeps ==
    ASSUME IInv, UnbindHandOver
    PROVE  IInv'
<1> DEFINE s == busy.sock
           u == binders[s]
<1>1. /\ busy.at = "hand over" /\ busy' = Nobody
      /\ UNCHANGED <<queue, error, readers, count>>
  BY DEF UnbindHandOver, readVars
<1>2. CASE u = None /\ UNCHANGED <<table, bindVars, ringVars, thread>>
  BY <1>1, <1>2, HandOverToNobody DEF bindVars, ringVars
<1>3. CASE u # None  BY <1>3, HandOverToFirst
<1> QED  BY <1>2, <1>3 DEF UnbindHandOver

-----------------------------------------------------------------------------
(* The IP thread *)

\* Where threads wait, outside unbind: on a bound socket.
LEMMA Quiet ==
    ASSUME IInv, busy.at \notin Giving, NEW r \in Sockets, Receiving(thread)[r] # {}
    PROVE  /\ r \in Range(table) /\ queue[r] = 0
           /\ error[r] => busy.sock = r /\ busy.at \in {"error", "lift"}
BY DEF IInv, NothingThere, Unbinding

\* On a bound socket the list points at one of the threads that wait.
LEMMA BoundList ==
    ASSUME IInv, NEW s \in Range(table), s \in Sockets
    PROVE  /\ RingOf(Receiving(thread)[s], readers[s], next, prev)
           /\ count[s] = 0 <=> Receiving(thread)[s] = {}
           /\ ~Taken(busy, s)
<1> DEFINE W == Receiving(thread)
<1>1. ~Taken(busy, s)  BY BoundStays
<1>2. Uncounted(busy, s) = 0  BY <1>1 DEF Uncounted, Taken
<1>3. ReadersKept(W, readers, count, next, prev, busy)  BY DEF IInv
<1>4. RingOf(W[s], readers[s], next, prev) /\ count[s] = Cardinality(W[s]) + 0
  BY <1>1, <1>2, <1>3 DEF ReadersKept
<1>5. IsFiniteSet(W[s]) /\ Cardinality(W[s]) \in Nat  BY Readers, FS_CardinalityType
<1>6. Cardinality(W[s]) = 0 <=> W[s] = {}  BY <1>5, FS_EmptySet
<1> QED  BY <1>1, <1>4, <1>5, <1>6

\* nx_udp_packet_receive keeps the invariant when a datagram arrives,
LEMMA ArrivesKeeps ==
    ASSUME IInv, Arrives
    PROVE  IInv'
<1>1. /\ busy = Nobody /\ table # <<>>
      /\ UNCHANGED <<table, queue, error, readers, count, binders, owner, binding, next, prev, thread>>
  BY DEF Arrives, MutexFree, readVars, bindVars, ringVars
<1>2. PICK from \in {Len(table) + 1, 2} : busy' = [Nobody EXCEPT !.at = "deliver", !.pos = from]
  BY DEF Arrives
<1>3. table \in Seq(Sockets) /\ Head(table) \in Range(table)
  <2>1. table \in Seq(Sockets)  BY DEF IInv, TypeInv
  <2> QED  BY <1>1, <2>1, HeadTaken
<1>4. from \in Nat /\ from # 0
  <2>1. Len(table) \in Nat  BY <1>3
  <2> QED  BY <2>1
<1>5. busy'.at = "deliver" /\ busy'.pos = from /\ busy' \in Handlers
  BY <1>2, <1>4 DEF Nobody, Handlers
<1>6. busy.at \notin Giving /\ busy'.at \notin Giving  BY <1>1, <1>5, NobodyIs DEF Giving
<1>7. SameWalk(busy, busy') /\ Holders(Range(table'), busy') = Holders(Range(table), busy)
  BY <1>1, <1>6, Alike
<1>8. /\ AllFit(thread')
      /\ ReadersKept(Receiving(thread'), readers', count', next', prev', busy')
      /\ \E H \in Lines : BindersKept(H, thread', binders', owner', binding', next', prev',
                                      Holders(Range(table'), busy'))
  BY <1>1, <1>7, Stands
<1>9. TypeInv'  BY <1>1, <1>5 DEF IInv, TypeInv
<1>10. NothingThere(Receiving(thread'), Range(table'), queue', error', busy')
  <2>1. \A r \in Sockets : Receiving(thread)[r] # {} => r \in Range(table) /\ queue[r] = 0 /\ ~error[r]
    BY <1>1, <1>6, NobodyIs, Quiet
  <2> QED  BY <1>1, <2>1 DEF NothingThere
<1>11. BusyFits(busy', Range(table'), thread', Receiving(thread'), readers')
  BY <1>1, <1>3, <1>4, <1>5 DEF BusyFits
<1> QED  BY <1>8, <1>9, <1>10, <1>11 DEF IInv

\* A socket that a datagram is delivered to keeps it or has it taken.
LEMMA DeliverKeeps ==
    ASSUME IInv, NEW s \in Range(table), Deliver(s), UNCHANGED <<table, error, binders, owner, binding>>,
           busy.at = "deliver", busy' \in Handlers, busy'.at \notin Giving
    PROVE  /\ TypeInv' /\ AllFit(thread')
           /\ ReadersKept(Receiving(thread'), readers', count', next', prev', busy')
           /\ \E H \in Lines : BindersKept(H, thread', binders', owner', binding', next', prev',
                                           Holders(Range(table'), busy'))
           /\ NothingThere(Receiving(thread'), Range(table'), queue', error', busy')
<1> USE UdpAssumption DEF UdpAssumption
<1> DEFINE W == Receiving(thread)
<1>1. s \in Sockets  BY DEF IInv, TypeInv, Range
<1>2. busy.at \notin Giving  BY DEF Giving
<1>3. SameWalk(busy, busy') /\ Holders(Range(table), busy') = Holders(Range(table), busy)
  BY <1>2, Alike
<1>4. RingOf(W[s], readers[s], next, prev) /\ ~Taken(busy, s)  BY <1>1, BoundList
<1>5. \A r \in Sockets : W[r] # {} => r \in Range(table) /\ queue[r] = 0 /\ ~error[r]
  BY <1>2, Quiet
<1>6. CASE /\ readers[s] = None
           /\ queue' = [queue EXCEPT ![s] = Queued(@)]
           /\ UNCHANGED <<readVars, ringVars, thread>>
  <2>1. UNCHANGED <<readers, count, next, prev, thread>>  BY <1>6 DEF readVars, ringVars
  <2>2. W[s] = {}  BY <1>4, <1>6 DEF RingOf
  <2>3. queue' \in [Sockets -> Nat] /\ \A r \in Sockets : r # s => queue'[r] = queue[r]
    <3>1. queue \in [Sockets -> Nat]  BY DEF IInv, TypeInv
    <3>2. Queued(queue[s]) \in Nat  BY <1>1, <3>1 DEF Queued
    <3>3. queue' = [queue EXCEPT ![s] = Queued(queue[s])]  BY <1>6
    <3> QED  BY <1>1, <3>1, <3>2, <3>3
  <2>4. TypeInv'  BY <2>1, <2>3 DEF IInv, TypeInv
  <2>5. NothingThere(Receiving(thread'), Range(table'), queue', error', busy')
    BY <1>5, <2>1, <2>2, <2>3 DEF NothingThere
  <2>6. /\ AllFit(thread')
        /\ ReadersKept(Receiving(thread'), readers', count', next', prev', busy')
        /\ \E H \in Lines : BindersKept(H, thread', binders', owner', binding', next', prev',
                                        Holders(Range(table'), busy'))
    BY <1>3, <2>1, Stands
  <2> QED  BY <2>4, <2>5, <2>6
<1>7. CASE readers[s] # None /\ Leaves(readers[s], s) /\ UNCHANGED queue
  <2> DEFINE t == readers[s]
  <2>1. t \in Threads /\ t \in W[s]
    <3>1. t \in W[s]  BY <1>4, <1>7 DEF RingOf
    <3> QED  BY <1>1, <3>1, Readers DEF Lines
  <2> HIDE DEF t
  <2>2. Leaves(t, s)  BY <1>7 DEF t
  <2>3. /\ thread' \in [Threads -> Records] /\ AllFit(thread')
        /\ readers' \in [Sockets -> Threads \cup {None}] /\ count' \in [Sockets -> Int]
        /\ next' \in [Threads -> Threads] /\ prev' \in [Threads -> Threads]
        /\ ReadersKept(Receiving(thread'), readers', count', next', prev', busy')
        /\ \E H \in Lines : BindersKept(H, thread', binders', owner', binding', next', prev',
                                        Holders(Range(table'), busy'))
        /\ \A r \in Sockets : r # s => Receiving(thread')[r] = W[r]
        /\ Receiving(thread')[s] = W[s] \ {t}
    BY <1>1, <1>3, <1>4, <2>1, <2>2, LeavesKeeps
  <2>4. TypeInv'  BY <1>7, <2>3 DEF IInv, TypeInv
  <2>5. NothingThere(Receiving(thread'), Range(table'), queue', error', busy')
    <3>1. \A r \in Sockets : Receiving(thread')[r] # {} => W[r] # {}  BY <2>1, <2>3
    <3> QED  BY <1>5, <1>7, <3>1 DEF NothingThere
  <2> QED  BY <2>3, <2>4, <2>5
<1> QED  BY <1>6, <1>7 DEF Deliver

\* when a socket that shares the port has its copy, or none can be had,
LEMMA DeliverCopyKeeps ==
    ASSUME IInv, DeliverCopy
    PROVE  IInv'
<1> DEFINE s == table[busy.pos]
<1>1. /\ busy.at = "deliver" /\ busy.pos <= Len(table) /\ busy' = [busy EXCEPT !.pos = @ + 1]
      /\ UNCHANGED <<table, error, binders, owner, binding>>
  BY DEF DeliverCopy, bindVars
<1>2. busy \in Handlers /\ busy.pos \in Nat /\ busy.pos # 0 /\ Range(table) # {}
  <2>1. busy \in Handlers  BY DEF IInv, TypeInv
  <2>2. busy # Nobody /\ busy.at \notin Giving  BY <1>1, NobodyIs DEF Giving
  <2> QED  BY <1>1, <2>1, <2>2 DEF IInv, BusyFits, Handlers
<1>3. busy' \in Handlers /\ busy'.at = "deliver" /\ busy'.pos # 0
  <2>1. busy.pos + 1 \in Nat /\ busy.pos + 1 # 0  BY <1>2
  <2> QED  BY <1>1, <1>2, <2>1 DEF Handlers
<1>4. busy.at \notin Giving /\ busy'.at \notin Giving  BY <1>1, <1>3 DEF Giving
<1>5. s \in Range(table)
  <2>1. table \in Seq(Sockets)  BY DEF IInv, TypeInv
  <2>2. busy.pos \in 1..Len(table)  BY <1>1, <1>2, <2>1
  <2> QED  BY <2>1, <2>2 DEF Range
<1>6. CASE Deliver(s)
  <2> HIDE DEF s
  <2>1. /\ TypeInv' /\ AllFit(thread')
        /\ ReadersKept(Receiving(thread'), readers', count', next', prev', busy')
        /\ \E H \in Lines : BindersKept(H, thread', binders', owner', binding', next', prev',
                                        Holders(Range(table'), busy'))
        /\ NothingThere(Receiving(thread'), Range(table'), queue', error', busy')
    BY <1>1, <1>3, <1>4, <1>5, <1>6, DeliverKeeps
  <2>2. BusyFits(busy', Range(table'), thread', Receiving(thread'), readers')
    BY <1>1, <1>2, <1>3 DEF BusyFits
  <2> QED  BY <2>1, <2>2 DEF IInv
<1>7. CASE UNCHANGED <<queue, readVars, ringVars, thread>>
  <2>1. UNCHANGED <<queue, readers, count, next, prev, thread>>  BY <1>7 DEF readVars, ringVars
  <2>2. SameWalk(busy, busy') /\ Holders(Range(table'), busy') = Holders(Range(table), busy)
    BY <1>1, <1>4, Alike
  <2>3. /\ AllFit(thread')
        /\ ReadersKept(Receiving(thread'), readers', count', next', prev', busy')
        /\ \E H \in Lines : BindersKept(H, thread', binders', owner', binding', next', prev',
                                        Holders(Range(table'), busy'))
    BY <1>1, <2>1, <2>2, Stands
  <2>4. TypeInv'  BY <1>1, <1>3, <2>1 DEF IInv, TypeInv
  <2>5. NothingThere(Receiving(thread'), Range(table'), queue', error', busy')
    <3>1. \A r \in Sockets : Receiving(thread)[r] # {} => r \in Range(table) /\ queue[r] = 0 /\ ~error[r]
      BY <1>1, <1>4, Quiet
    <3> QED  BY <1>1, <2>1, <3>1 DEF NothingThere
  <2>6. BusyFits(busy', Range(table'), thread', Receiving(thread'), readers')
    BY <1>1, <1>2, <1>3 DEF BusyFits
  <2> QED  BY <2>3, <2>4, <2>5, <2>6 DEF IInv
<1> QED  BY <1>6, <1>7 DEF DeliverCopy

\* and when the first socket has the datagram.
LEMMA DeliverFirstKeeps ==
    ASSUME IInv, DeliverFirst
    PROVE  IInv'
<1> DEFINE s == Head(table)
<1>1. /\ busy.at = "deliver" /\ busy' = Nobody /\ Deliver(s)
      /\ UNCHANGED <<table, error, binders, owner, binding>>
  BY DEF DeliverFirst, bindVars
<1>2. s \in Range(table)
  <2>1. busy # Nobody /\ busy.at \notin Giving  BY <1>1, NobodyIs DEF Giving
  <2>2. Range(table) # {}  BY <1>1, <2>1 DEF IInv, BusyFits
  <2>3. table \in Seq(Sockets) /\ table # <<>>  BY <2>2 DEF IInv, TypeInv, Range
  <2> QED  BY <2>3, HeadTaken
<1>3. busy' \in Handlers /\ busy'.at \notin Giving  BY <1>1, NobodyIs DEF Giving
<1> HIDE DEF s
<1>4. /\ TypeInv' /\ AllFit(thread')
      /\ ReadersKept(Receiving(thread'), readers', count', next', prev', busy')
      /\ \E H \in Lines : BindersKept(H, thread', binders', owner', binding', next', prev',
                                      Holders(Range(table'), busy'))
      /\ NothingThere(Receiving(thread'), Range(table'), queue', error', busy')
  BY <1>1, <1>2, <1>3, DeliverKeeps
<1>5. BusyFits(busy', Range(table'), thread', Receiving(thread'), readers')
  BY <1>1 DEF BusyFits
<1> QED  BY <1>4, <1>5 DEF IInv

\* nx_udp_socket_icmp_error_process keeps the invariant when an error is pending,
LEMMA IcmpErrorKeeps ==
    ASSUME IInv, NEW s \in Sockets, IcmpError(s)
    PROVE  IInv'
<1>1. /\ busy = Nobody /\ s \in Range(table)
      /\ error' = [error EXCEPT ![s] = TRUE]
      /\ busy' = [Nobody EXCEPT !.sock = s, !.at = "error"]
      /\ UNCHANGED <<table, queue, readers, count, binders, owner, binding, next, prev, thread>>
  BY DEF IcmpError, MutexFree, readVars, bindVars, ringVars
<1>2. busy'.at = "error" /\ busy'.sock = s /\ busy' \in Handlers
  BY <1>1 DEF Nobody, Handlers
<1>3. busy.at \notin Giving /\ busy'.at \notin Giving  BY <1>1, <1>2, NobodyIs DEF Giving
<1>4. SameWalk(busy, busy') /\ Holders(Range(table'), busy') = Holders(Range(table), busy)
  BY <1>1, <1>3, Alike
<1>5. /\ AllFit(thread')
      /\ ReadersKept(Receiving(thread'), readers', count', next', prev', busy')
      /\ \E H \in Lines : BindersKept(H, thread', binders', owner', binding', next', prev',
                                      Holders(Range(table'), busy'))
  BY <1>1, <1>4, Stands
<1>6. error' \in [Sockets -> BOOLEAN] /\ \A r \in Sockets : r # s => error'[r] = error[r]
  BY <1>1 DEF IInv, TypeInv
<1>7. TypeInv'  BY <1>1, <1>2, <1>6 DEF IInv, TypeInv
<1>8. NothingThere(Receiving(thread'), Range(table'), queue', error', busy')
  <2>1. \A r \in Sockets : Receiving(thread)[r] # {} => r \in Range(table) /\ queue[r] = 0 /\ ~error[r]
    BY <1>1, <1>3, NobodyIs, Quiet
  <2> QED  BY <1>1, <1>2, <1>6, <2>1 DEF NothingThere
<1>9. BusyFits(busy', Range(table'), thread', Receiving(thread'), readers')
  BY <1>1, <1>2 DEF BusyFits
<1> QED  BY <1>5, <1>7, <1>8, <1>9 DEF IInv

\* when it is seen whether there are readers,
LEMMA IcmpTestKeeps ==
    ASSUME IInv, IcmpTest
    PROVE  IInv'
<1> DEFINE s == busy.sock
<1>1. /\ busy.at = "error"
      /\ busy' = IF count[s] # 0 THEN [busy EXCEPT !.at = "lift"] ELSE Nobody
      /\ UNCHANGED <<table, queue, error, readers, count, binders, owner, binding, next, prev, thread>>
  BY DEF IcmpTest, readVars, bindVars, ringVars
<1>2. busy \in Handlers /\ s \in Range(table) /\ s \in Sockets
  <2>1. busy \in Handlers /\ table \in Seq(Sockets)  BY DEF IInv, TypeInv
  <2>2. busy # Nobody /\ busy.at \notin Giving  BY <1>1, NobodyIs DEF Giving
  <2>3. s \in Range(table)  BY <1>1, <2>2 DEF IInv, BusyFits
  <2> QED  BY <2>1, <2>3 DEF Range
<1>3. /\ count[s] # 0 => busy' \in Handlers /\ busy'.at = "lift" /\ busy'.sock = s
      /\ count[s] = 0 => busy' = Nobody /\ busy' \in Handlers
  BY <1>1, <1>2, NobodyIs DEF Handlers
<1>4. busy.at \notin Giving /\ busy'.at \notin Giving
  <2>1. "error" \notin Giving /\ "lift" \notin Giving /\ Nobody.at \notin Giving
    BY NobodyIs DEF Giving
  <2> QED  BY <1>1, <1>3, <2>1
<1>5. SameWalk(busy, busy') /\ Holders(Range(table'), busy') = Holders(Range(table), busy)
  BY <1>1, <1>4, Alike
<1>6. /\ AllFit(thread')
      /\ ReadersKept(Receiving(thread'), readers', count', next', prev', busy')
      /\ \E H \in Lines : BindersKept(H, thread', binders', owner', binding', next', prev',
                                      Holders(Range(table'), busy'))
  BY <1>1, <1>5, Stands
<1>7. TypeInv'  BY <1>1, <1>3 DEF IInv, TypeInv
<1>8. NothingThere(Receiving(thread'), Range(table'), queue', error', busy')
  <2> SUFFICES ASSUME NEW r \in Sockets, Receiving(thread)[r] # {}
               PROVE  /\ r \in Range(table) /\ queue[r] = 0
                      /\ error[r] => busy'.sock = r /\ busy'.at \in {"error", "lift"}
    BY <1>1 DEF NothingThere
  <2>1. /\ r \in Range(table) /\ queue[r] = 0
        /\ error[r] => busy.sock = r
    BY <1>4, Quiet
  <2>2. r = s => count[s] # 0  BY <1>2, BoundList
  <2> QED  BY <1>3, <2>1, <2>2
<1>9. BusyFits(busy', Range(table'), thread', Receiving(thread'), readers')
  <2>1. CASE count[s] # 0  BY <1>1, <1>2, <1>3, <2>1 DEF BusyFits
  <2>2. CASE count[s] = 0  BY <1>3, <2>2 DEF BusyFits
  <2> QED  BY <2>1, <2>2
<1> QED  BY <1>6, <1>7, <1>8, <1>9 DEF IInv

\* and when the first of them is resumed with it.
LEMMA IcmpLiftKeeps ==
    ASSUME IInv, IcmpLift
    PROVE  IInv'
<1> USE UdpAssumption DEF UdpAssumption
<1> DEFINE s == busy.sock
           W == Receiving(thread)
<1>1. /\ busy.at = "lift" /\ busy' = Nobody
      /\ UNCHANGED <<table, queue, binders, owner, binding>>
  BY DEF IcmpLift, bindVars
<1>2. busy.at \notin Giving /\ busy'.at \notin Giving /\ busy' \in Handlers
  BY <1>1, NobodyIs DEF Giving
<1>3. s \in Range(table) /\ s \in Sockets
  <2>1. table \in Seq(Sockets)  BY DEF IInv, TypeInv
  <2>2. busy # Nobody  BY <1>1, NobodyIs
  <2>3. s \in Range(table)  BY <1>1, <1>2, <2>2 DEF IInv, BusyFits
  <2> QED  BY <2>1, <2>3 DEF Range
<1>4. SameWalk(busy, busy') /\ Holders(Range(table), busy') = Holders(Range(table), busy)
  BY <1>2, Alike
<1>5. RingOf(W[s], readers[s], next, prev) /\ ~Taken(busy, s)  BY <1>3, BoundList
<1>6. \A r \in Sockets : W[r] # {} => /\ r \in Range(table) /\ queue[r] = 0
                                      /\ error[r] => r = s
  BY <1>2, Quiet
<1>7. BusyFits(busy', Range(table'), thread', Receiving(thread'), readers')
  BY <1>1 DEF BusyFits
<1>8. CASE readers[s] = None /\ UNCHANGED <<error, readVars, ringVars, thread>>
  <2>1. UNCHANGED <<error, readers, count, next, prev, thread>>  BY <1>8 DEF readVars, ringVars
  <2>2. W[s] = {}  BY <1>5, <1>8 DEF RingOf
  <2>3. TypeInv'  BY <1>1, <1>2, <2>1 DEF IInv, TypeInv
  <2>4. NothingThere(Receiving(thread'), Range(table'), queue', error', busy')
    BY <1>1, <1>6, <2>1, <2>2 DEF NothingThere
  <2>5. /\ AllFit(thread')
        /\ ReadersKept(Receiving(thread'), readers', count', next', prev', busy')
        /\ \E H \in Lines : BindersKept(H, thread', binders', owner', binding', next', prev',
                                        Holders(Range(table'), busy'))
    BY <1>1, <1>4, <2>1, Stands
  <2> QED  BY <1>7, <2>3, <2>4, <2>5 DEF IInv
<1>9. CASE readers[s] # None /\ Leaves(readers[s], s) /\ error' = [error EXCEPT ![s] = FALSE]
  <2> DEFINE t == readers[s]
  <2>1. t \in Threads /\ t \in W[s]
    <3>1. t \in W[s]  BY <1>5, <1>9 DEF RingOf
    <3> QED  BY <1>3, <3>1, Readers DEF Lines
  <2> HIDE DEF t
  <2>2. Leaves(t, s)  BY <1>9 DEF t
  <2>3. /\ thread' \in [Threads -> Records] /\ AllFit(thread')
        /\ readers' \in [Sockets -> Threads \cup {None}] /\ count' \in [Sockets -> Int]
        /\ next' \in [Threads -> Threads] /\ prev' \in [Threads -> Threads]
        /\ ReadersKept(Receiving(thread'), readers', count', next', prev', busy')
        /\ \E H \in Lines : BindersKept(H, thread', binders', owner', binding', next', prev',
                                        Holders(Range(table'), busy'))
        /\ \A r \in Sockets : r # s => Receiving(thread')[r] = W[r]
        /\ Receiving(thread')[s] = W[s] \ {t}
    BY <1>1, <1>3, <1>4, <1>5, <2>1, <2>2, LeavesKeeps
  <2>4. error' \in [Sockets -> BOOLEAN] /\ ~error'[s] /\ \A r \in Sockets : r # s => error'[r] = error[r]
    BY <1>3, <1>9 DEF IInv, TypeInv
  <2>5. TypeInv'  BY <1>1, <1>2, <2>3, <2>4 DEF IInv, TypeInv
  <2>6. NothingThere(Receiving(thread'), Range(table'), queue', error', busy')
    <3>1. \A r \in Sockets : Receiving(thread')[r] # {} => W[r] # {}  BY <2>1, <2>3
    <3> QED  BY <1>1, <1>6, <2>4, <3>1 DEF NothingThere
  <2> QED  BY <1>7, <2>3, <2>5, <2>6 DEF IInv
<1> QED  BY <1>8, <1>9 DEF IcmpLift

-----------------------------------------------------------------------------
(* The invariant *)

\* The sockets as they are created: nobody waits.
LEMMA InitHolds ==
    ASSUME Init
    PROVE  IInv
<1> USE UdpAssumption DEF UdpAssumption
<1>1. /\ table = <<>> /\ busy = Nobody
      /\ queue = [s \in Sockets |-> 0] /\ error = [s \in Sockets |-> FALSE]
      /\ readers = [s \in Sockets |-> None] /\ count = [s \in Sockets |-> 0]
      /\ binders = [s \in Sockets |-> None] /\ owner = [s \in Sockets |-> None]
      /\ binding = [s \in Sockets |-> None]
      /\ next = [t \in Threads |-> t] /\ prev = [t \in Threads |-> t]
      /\ thread = [t \in Threads |-> Idle]
  BY DEF Init
<1>2. table \in Seq(Sockets) /\ IsInjective(table)  BY <1>1 DEF IsInjective
<1>3. Idle \in Records /\ Idle.call = "none"
  <2>1. None \in Sockets \cup {None}  OBVIOUS
  <2> QED  BY <2>1 DEF Idle, Records
<1>4. TypeInv  BY <1>1, <1>2, <1>3, NobodyIs DEF TypeInv
<1>5. AllFit(thread)  BY <1>1, <1>3 DEF AllFit
<1>6. \A s \in Sockets : Receiving(thread)[s] = {}  BY <1>1, <1>3 DEF Receiving
<1>7. RingOf({}, None, next, prev)  BY DEF RingOf, Cycle
<1>8. ReadersKept(Receiving(thread), readers, count, next, prev, busy)
  <2>1. Cardinality({}) = 0  BY FS_EmptySet
  <2> SUFFICES ASSUME NEW s \in Sockets
               PROVE  /\ ~Taken(busy, s) /\ RingOf(Receiving(thread)[s], readers[s], next, prev)
                      /\ count[s] = Cardinality(Receiving(thread)[s]) + Uncounted(busy, s)
    BY DEF ReadersKept
  <2>2. ~Taken(busy, s) /\ Uncounted(busy, s) = 0  BY <1>1, NobodyIs
  <2>3. readers[s] = None /\ count[s] = 0  BY <1>1
  <2> QED  BY <1>6, <1>7, <2>1, <2>2, <2>3
<1>9. \E H \in Lines : BindersKept(H, thread, binders, owner, binding, next, prev,
                                   Holders(Range(table), busy))
  <2> DEFINE H == [s \in Sockets |-> {}]
             P == Holders(Range(table), busy)
  <2>1. H \in Lines /\ \A s \in Sockets : H[s] = {}  BY DEF Lines
  <2>2. \A t \in Threads : thread[t].call = "none"  BY <1>1, <1>3
  <2>3. \A s \in Sockets : binders[s] = None /\ binding[s] = None  BY <1>1
  <2> HIDE DEF H, P
  <2>4. BindersKept(H, thread, binders, owner, binding, next, prev, P)
    BY <1>7, <2>1, <2>2, <2>3 DEF BindersKept
  <2> QED  BY <2>1, <2>4 DEF P
<1>10. NothingThere(Receiving(thread), Range(table), queue, error, busy)
  BY <1>6 DEF NothingThere
<1>11. BusyFits(busy, Range(table), thread, Receiving(thread), readers)
  BY <1>1 DEF BusyFits
<1> QED  BY <1>4, <1>5, <1>8, <1>9, <1>10, <1>11 DEF IInv

\* Every step keeps the invariant.
LEMMA NextKeeps ==
    ASSUME Careless = {}, IInv, [Next]_vars
    PROVE  IInv'
<1>1. ASSUME NEW t \in Threads, NEW s \in Sockets, Call(t, s) PROVE IInv'
  BY <1>1, BindNowKeeps, BindWaitsKeeps, ReceiveNowKeeps, ReceiveWaitsKeeps, UnbindKeeps,
     UnbindWaitingKeeps DEF Call
<1>2. ASSUME NEW t \in Threads, BindTimeout(t) \/ ReceiveTimeout(t) PROVE IInv'
  BY <1>2, BindTimeoutKeeps, ReceiveTimeoutKeeps
<1>3. CASE \/ UnbindCancel \/ UnbindFlush \/ UnbindList \/ UnbindClear
           \/ UnbindTest \/ UnbindWake \/ UnbindCount \/ UnbindHandOver
  BY <1>3, UnbindCancelKeeps, UnbindFlushKeeps, UnbindListKeeps, UnbindClearKeeps,
     UnbindTestKeeps, UnbindWakeKeeps, UnbindCountKeeps, UnbindHandOverKeeps
<1>4. CASE Arrives \/ DeliverCopy \/ DeliverFirst
  BY <1>4, ArrivesKeeps, DeliverCopyKeeps, DeliverFirstKeeps
<1>5. CASE (\E s \in Sockets : IcmpError(s)) \/ IcmpTest \/ IcmpLift
  BY <1>5, IcmpErrorKeeps, IcmpTestKeeps, IcmpLiftKeeps
<1>6. CASE UNCHANGED vars
  <2>1. UNCHANGED <<table, queue, error, readers, count, binders, owner, binding, next, prev, thread, busy>>
    BY <1>6 DEF vars
  <2> QED  BY <2>1 DEF IInv, TypeInv
<1> QED  BY <1>1, <1>2, <1>3, <1>4, <1>5, <1>6 DEF Next

\* The inductive invariant: rings, counts and the handler in progress fit each other.
THEOREM Invariant == Careless = {} => (Spec => []IInv)
<1> SUFFICES ASSUME Careless = {} PROVE Spec => []IInv  OBVIOUS
<1>1. IInv /\ [Next]_vars => IInv'  BY NextKeeps
<1> QED  BY <1>1, InitHolds, PTL DEF Spec

\* The walk from the pointer of a list meets the ring it points into.
LEMMA WalkMeetsRing ==
    ASSUME next \in [Threads -> Threads], NEW R, R \subseteq Threads, NEW h, RingOf(R, h, next, prev)
    PROVE  Ring(h) = R
<1>1. IsFiniteSet(Threads) /\ None \notin Threads  BY UdpAssumption DEF UdpAssumption
<1>2. CASE h = None
  <2>1. R = {}  BY <1>2 DEF RingOf
  <2> QED  BY <1>2, <2>1 DEF Ring
<1>3. CASE h # None
  <2>1. h \in R /\ Cycle(R, next, prev)  BY <1>3 DEF RingOf
  <2> QED  BY <1>1, <2>1, RingIs
<1> QED  BY <1>2, <1>3

\* The threads suspended in receive on a socket are those of its ring, and as many as
\* it counts, whatever datagrams, errors, timeouts and unbind took away.
THEOREM ReadersAgreeHolds == Careless = {} => (Spec => []ReadersAgree)
<1> SUFFICES ASSUME Careless = {} PROVE Spec => []ReadersAgree  OBVIOUS
<1>1. IInv => ReadersAgree
  <2> SUFFICES ASSUME IInv, NEW s \in Sockets,
                      ~(busy.sock = s /\ busy.at \in {"resume", "wake", "counted"})
               PROVE  /\ Ring(readers[s]) = ReadersOf(s)
                      /\ count[s] = Cardinality(ReadersOf(s))
    BY DEF ReadersAgree
  <2>1. ReadersOf(s) = Receiving(thread)[s]  BY DEF Receiving, ReadersOf, Waits
  <2>2. ~Taken(busy, s) /\ Uncounted(busy, s) = 0  BY DEF Taken, Uncounted
  <2>3. ReadersKept(Receiving(thread), readers, count, next, prev, busy)  BY DEF IInv
  <2>4. /\ RingOf(ReadersOf(s), readers[s], next, prev)
        /\ count[s] = Cardinality(ReadersOf(s)) + 0
    BY <2>1, <2>2, <2>3 DEF ReadersKept
  <2>5. ReadersOf(s) \subseteq Threads /\ next \in [Threads -> Threads]
    BY DEF ReadersOf, Waits, IInv, TypeInv
  <2>6. Ring(readers[s]) = ReadersOf(s)  BY <2>4, <2>5, WalkMeetsRing
  <2>7. IsFiniteSet(ReadersOf(s))  BY <2>1, Readers
  <2>8. Cardinality(ReadersOf(s)) \in Nat  BY <2>7, FS_CardinalityType
  <2> QED  BY <2>4, <2>6, <2>8
<1> QED  BY <1>1, Invariant, PTL

\* A thread that waits in bind is on the list of a socket that has the port or is giving
\* it up, and no list holds a thread that does not wait, however many wait and however
\* often the list is handed over.
THEOREM BindersAgreeHolds == Careless = {} => (Spec => []BindersAgree)
<1> SUFFICES ASSUME Careless = {} PROVE Spec => []BindersAgree  OBVIOUS
<1>1. IInv => BindersAgree
  <2> SUFFICES ASSUME IInv PROVE BindersAgree  OBVIOUS
  <2>1. PICK H \in Lines : BindersKept(H, thread, binders, owner, binding, next, prev,
                                       Holders(Range(table), busy))
    BY DEF IInv
  <2>2. ASSUME NEW s \in Sockets PROVE Ring(binders[s]) = H[s]
    <3>1. RingOf(H[s], binders[s], next, prev)  BY <2>1 DEF BindersKept
    <3>2. H[s] \subseteq Threads /\ next \in [Threads -> Threads]  BY DEF Lines, IInv, TypeInv
    <3> QED  BY <3>1, <3>2, WalkMeetsRing
  <2>3. \A s \in Sockets : Ring(binders[s]) \subseteq Waits("bind")
    <3>1. \A s \in Sockets : \A t \in H[s] : t \in Threads /\ thread[t].call = "bind"
      BY <2>1 DEF BindersKept, Lines
    <3> QED  BY <2>2, <3>1 DEF Waits
  <2>4. ASSUME NEW t \in Waits("bind")
        PROVE  \E s \in Sockets : (s \in Range(table) \/ s = busy.sock) /\ t \in Ring(binders[s])
    <3>1. t \in Threads /\ thread[t].call = "bind"  BY <2>4 DEF Waits
    <3>2. PICK s \in Sockets : t \in H[s]  BY <2>1, <3>1 DEF BindersKept
    <3>3. s \in Holders(Range(table), busy)  BY <2>1, <3>2 DEF BindersKept
    <3>4. s \in Range(table) \/ s = busy.sock  BY <3>3 DEF Holders, Unbinding
    <3> QED  BY <2>2, <3>2, <3>4
  <2> QED  BY <2>3, <2>4 DEF BindersAgree
<1> QED  BY <1>1, Invariant, PTL

\* Nobody waits for the port while it is free.
THEOREM NoBinderBesidesFreePortHolds == Careless = {} => (Spec => []NoBinderBesidesFreePort)
<1> SUFFICES ASSUME Careless = {} PROVE Spec => []NoBinderBesidesFreePort  OBVIOUS
<1>1. IInv => NoBinderBesidesFreePort
  <2> SUFFICES ASSUME IInv, MutexFree, NEW t \in Waits("bind") PROVE table # <<>>
    BY DEF NoBinderBesidesFreePort
  <2>1. PICK H \in Lines : BindersKept(H, thread, binders, owner, binding, next, prev,
                                       Holders(Range(table), busy))
    BY DEF IInv
  <2>2. t \in Threads /\ thread[t].call = "bind"  BY DEF Waits
  <2>3. PICK s \in Sockets : t \in H[s]  BY <2>1, <2>2 DEF BindersKept
  <2>4. s \in Holders(Range(table), busy)  BY <2>1, <2>3 DEF BindersKept
  <2>5. s \in Range(table)  BY <2>4, NobodyIs DEF Holders, MutexFree
  <2> QED  BY <2>5 DEF Range
<1> QED  BY <1>1, Invariant, PTL

\* Nobody waits for a datagram beside one; nor beside an error not yet reported or on a
\* socket that is not bound, but while unbind or the ICMP handler is about to resume a
\* reader of that socket.
THEOREM NoReaderBesidesDataHolds == Careless = {} => (Spec => []NoReaderBesidesData)
<1> SUFFICES ASSUME Careless = {} PROVE Spec => []NoReaderBesidesData  OBVIOUS
<1>1. IInv => NoReaderBesidesData
  <2> SUFFICES ASSUME IInv, NEW t \in Waits("receive"), NEW s, s = thread[t].block
               PROVE  queue[s] = 0 /\ (busy.sock # s => s \in Range(table) /\ ~error[s])
    BY DEF NoReaderBesidesData
  <2>1. t \in Threads /\ thread[t].call = "receive"  BY DEF Waits
  <2>2. s \in Sockets /\ t \in Receiving(thread)[s]
    <3>1. s \in Sockets  BY <2>1 DEF IInv, AllFit
    <3> QED  BY <2>1, <3>1, Readers
  <2>3. /\ s \in Range(table) \/ Unbinding(busy, s)
        /\ queue[s] = 0
        /\ error[s] => busy.sock = s
    BY <2>2 DEF IInv, NothingThere
  <2> QED  BY <2>3 DEF Unbinding
<1> QED  BY <1>1, Invariant, PTL

=============================================================================
