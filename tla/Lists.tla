-------------------------------- MODULE Lists --------------------------------
(***************************************************************************)
(* What the proofs need about the linked lists of the program, which the    *)
(* modules write as sequences: suspended threads, cache entries, queues of  *)
(* packets.                                                                 *)
(***************************************************************************)
EXTENDS Integers, SequencesExt, SequenceTheorems, WellFoundedInduction, TLAPS

\* Of some places in a list one is the first.
LEMMA FirstExists ==
    ASSUME NEW T, T \subseteq Nat, T # {}
    PROVE  \E i \in T : \A j \in T : i <= j
<1> DEFINE R == {ss \in Nat \X Nat : ss[1] < ss[2]}
<1>1. R = OpToRel(<, Nat)  BY Zenon DEF OpToRel
<1>2. IsWellFoundedOn(R, Nat)  BY Zenon, <1>1, NatLessThanWellFounded
<1> HIDE DEF R
<1>3. PICK i \in T : \A j \in T : ~(<<j, i>> \in R)  BY <1>2, WFMin
<1>4. \A j \in T : ~(j < i)  BY <1>3 DEF R
<1> QED  BY <1>4

\* The list without its i-th element, as every cleanup of a suspended thread or
\* cached entry leaves it: one shorter, the others in their order.
LEMMA RemoveAtProperties ==
    ASSUME NEW S, NEW s \in Seq(S), NEW i \in DOMAIN s
    PROVE  /\ RemoveAt(s, i) \in Seq(S)
           /\ Len(RemoveAt(s, i)) = Len(s) - 1
           /\ \A j \in 1..(Len(s) - 1) :
                 RemoveAt(s, i)[j] = IF j < i THEN s[j] ELSE s[j + 1]
<1> DEFINE a == SubSeq(s, 1, i - 1)
           b == SubSeq(s, i + 1, Len(s))
<1>1. /\ Len(s) \in Nat /\ DOMAIN s = 1..Len(s)
      /\ \A k \in 1..Len(s) : s[k] \in S
      /\ i \in 1..Len(s)
  BY LenProperties, ElementOfSeq
<1>2. /\ a \in Seq(S) /\ Len(a) = i - 1
      /\ \A j \in 1..(i - 1) : a[j] = s[j]
  <2>1. \A k \in 1..(i - 1) : s[k] \in S  BY <1>1
  <2> HIDE DEF a
  <2> QED  BY <1>1, <2>1, SubSeqProperties DEF a
<1>3. /\ b \in Seq(S) /\ Len(b) = Len(s) - i
      /\ \A j \in 1..(Len(s) - i) : b[j] = s[i + j]
  <2>1. \A k \in (i + 1)..Len(s) : s[k] \in S  BY <1>1
  <2>2. /\ b \in Seq(S)
        /\ Len(b) = IF i + 1 <= Len(s) THEN Len(s) - (i + 1) + 1 ELSE 0
        /\ \A j \in 1..(Len(s) - (i + 1) + 1) : b[j] = s[i + 1 + j - 1]
    BY <1>1, <2>1, SubSeqProperties
  <2>3. Len(b) = Len(s) - i  BY <1>1, <2>2
  <2>4. ASSUME NEW j \in 1..(Len(s) - i) PROVE b[j] = s[i + j]
    <3>1. j \in 1..(Len(s) - (i + 1) + 1) /\ i + 1 + j - 1 = i + j  BY <1>1
    <3> QED  BY <2>2, <3>1
  <2> QED  BY <2>2, <2>3, <2>4
<1>4. /\ a \o b \in Seq(S) /\ Len(a \o b) = Len(a) + Len(b)
      /\ \A j \in 1..(Len(a) + Len(b)) :
            (a \o b)[j] = IF j <= Len(a) THEN a[j] ELSE b[j - Len(a)]
  <2> HIDE DEF a, b
  <2> QED  BY <1>2, <1>3, ConcatProperties
<1>5. RemoveAt(s, i) = a \o b  BY DEF RemoveAt
<1>6. Len(a \o b) = Len(s) - 1  BY <1>1, <1>2, <1>3, <1>4
<1>7. ASSUME NEW j \in 1..(Len(s) - 1)
      PROVE  (a \o b)[j] = IF j < i THEN s[j] ELSE s[j + 1]
  <2> HIDE DEF a, b
  <2>1. j \in 1..(Len(a) + Len(b))  BY <1>1, <1>2, <1>3
  <2>2. CASE j < i
    <3>1. j \in 1..(i - 1) /\ j <= Len(a)  BY <1>1, <1>2, <2>2
    <3> QED  BY <1>2, <1>4, <2>1, <2>2, <3>1
  <2>3. CASE ~(j < i)
    <3>1. /\ ~(j <= Len(a)) /\ j - Len(a) = j - (i - 1)
          /\ j - (i - 1) \in 1..(Len(s) - i) /\ i + (j - (i - 1)) = j + 1
      BY <1>1, <1>2, <2>3
    <3> QED  BY <1>3, <1>4, <2>1, <2>3, <3>1
  <2> QED  BY <2>2, <2>3
<1> QED  BY <1>4, <1>5, <1>6, <1>7

\* Every element that is left was there before, in another place than i, and no
\* element comes twice that did not.
LEMMA RemoveAtPlaces ==
    ASSUME NEW S, NEW s \in Seq(S), NEW i \in DOMAIN s
    PROVE  LET r == RemoveAt(s, i)
               was(j) == IF j < i THEN j ELSE j + 1
           IN  /\ \A j \in DOMAIN r : was(j) \in DOMAIN s /\ was(j) # i /\ r[j] = s[was(j)]
               /\ \A j, k \in DOMAIN r : was(j) = was(k) => j = k
               /\ \A k \in DOMAIN s : k # i => \E j \in DOMAIN r : was(j) = k
<1> DEFINE r == RemoveAt(s, i)
           was(j) == IF j < i THEN j ELSE j + 1
<1>1. /\ Len(s) \in Nat /\ DOMAIN s = 1..Len(s) /\ r \in Seq(S) /\ Len(r) = Len(s) - 1
      /\ \A j \in 1..(Len(s) - 1) : r[j] = IF j < i THEN s[j] ELSE s[j + 1]
  BY RemoveAtProperties, LenProperties
<1>2. DOMAIN r = 1..(Len(s) - 1)  BY <1>1, LenProperties
<1> HIDE DEF r
<1>3. \A j \in DOMAIN r : was(j) \in DOMAIN s /\ was(j) # i /\ r[j] = s[was(j)]  BY <1>1, <1>2
<1>4. \A j, k \in DOMAIN r : was(j) = was(k) => j = k  BY <1>1, <1>2
<1>5. ASSUME NEW k \in DOMAIN s, k # i PROVE \E j \in DOMAIN r : was(j) = k
  <2>1. CASE k < i
    <3>1. k \in DOMAIN r /\ was(k) = k  BY <1>1, <1>2, <2>1
    <3> QED  BY <3>1
  <2>2. CASE ~(k < i)
    <3>1. k - 1 \in DOMAIN r /\ was(k - 1) = k  BY <1>1, <1>2, <1>5, <2>2
    <3> QED  BY <3>1
  <2> QED  BY <2>1, <2>2
<1> QED  BY <1>3, <1>4, <1>5 DEF r

\* Joining lists, as readers that are served at once get their packets, does what
\* its recursion says: a function that obeys it is the one FlattenSeq applies.
LEMMA FlattenIs ==
    ASSUME NEW s, Len(s) \in Nat, Len(s) # 0,
           NEW f, f = [i \in 1..Len(s) |-> IF i = 1 THEN s[i] ELSE f[i - 1] \o s[i]]
    PROVE  FlattenSeq(s) = f[Len(s)]
<1> DEFINE Obeys(h) == h = [i \in 1..Len(s) |-> IF i = 1 THEN s[i] ELSE h[i - 1] \o s[i]]
           g == CHOOSE h : Obeys(h)
<1>1. Obeys(f)  OBVIOUS
<1>2. Obeys(g)
  <2> HIDE DEF Obeys
  <2> QED  BY <1>1
<1> HIDE DEF g
<1>3. \A i \in 1..Len(s) : g[i] = f[i]
  <2> DEFINE T == {i \in 1..Len(s) : g[i] # f[i]}
  <2> SUFFICES ASSUME T # {} PROVE FALSE  OBVIOUS
  <2>1. T \subseteq Nat  OBVIOUS
  <2>2. PICK i \in T : \A j \in T : i <= j  BY <2>1, FirstExists
  <2>3. i \in 1..Len(s) /\ g[i] # f[i]  BY <2>2
  <2>4. CASE i = 1
    <3>1. g[i] = s[i] /\ f[i] = s[i]  BY <1>1, <1>2, <2>3, <2>4
    <3> QED  BY <2>3, <3>1
  <2>5. CASE i # 1
    <3>1. i - 1 \in 1..Len(s) /\ i - 1 \notin T  BY <2>2, <2>3, <2>5
    <3>2. g[i - 1] = f[i - 1]  BY <3>1
    <3>3. g[i] = g[i - 1] \o s[i] /\ f[i] = f[i - 1] \o s[i]  BY <1>1, <1>2, <2>3, <2>5
    <3> QED  BY <2>3, <3>2, <3>3
  <2> QED  BY <2>4, <2>5
<1>4. Len(s) \in 1..Len(s)  OBVIOUS
<1>5. FlattenSeq(s) = g[Len(s)]  BY DEF FlattenSeq, g
<1> QED  BY <1>3, <1>4, <1>5

\* Two lists joined hold what either holds, and nothing twice if neither does and
\* they have nothing in common.
LEMMA Joined ==
    ASSUME NEW S, NEW s \in Seq(S), NEW t \in Seq(S)
    PROVE  /\ s \o t \in Seq(S)
           /\ Range(s \o t) = Range(s) \cup Range(t)
           /\ IsInjective(s \o t) <=> IsInjective(s) /\ IsInjective(t) /\ Range(s) \cap Range(t) = {}
<1> DEFINE r == s \o t
           m == Len(s)
           n == Len(t)
<1>1. r \in Seq(S) /\ Len(r) = m + n
      /\ \A i \in 1..(m + n) : r[i] = IF i <= m THEN s[i] ELSE t[i - m]
  BY ConcatProperties
<1>2. /\ m \in Nat /\ n \in Nat
      /\ DOMAIN s = 1..m /\ DOMAIN t = 1..n /\ DOMAIN r = 1..(m + n)
  BY <1>1, LenProperties
<1> HIDE DEF r, m, n
<1>3. \A i \in 1..m : i \in DOMAIN r /\ r[i] = s[i]  BY <1>1, <1>2
<1>4. ASSUME NEW i \in 1..n PROVE m + i \in DOMAIN r /\ r[m + i] = t[i]
  <2>1. m + i \in 1..(m + n) /\ ~(m + i <= m) /\ (m + i) - m = i  BY <1>2
  <2> QED  BY <1>1, <1>2, <2>1
<1>5. ASSUME NEW k \in DOMAIN r PROVE k \in 1..m \/ \E i \in 1..n : k = m + i
  <2>1. CASE k <= m  BY <1>2, <2>1
  <2>2. CASE ~(k <= m)
    <3>1. k - m \in 1..n /\ k = m + (k - m)  BY <1>2, <2>2
    <3> QED  BY <3>1
  <2> QED  BY <2>1, <2>2
<1>6. Range(r) = Range(s) \cup Range(t)
  <2>1. \A x \in Range(r) : x \in Range(s) \cup Range(t)
    <3> SUFFICES ASSUME NEW k \in DOMAIN r PROVE r[k] \in Range(s) \cup Range(t)  BY DEF Range
    <3> QED  BY <1>2, <1>3, <1>4, <1>5 DEF Range
  <2>2. \A x \in Range(s) \cup Range(t) : x \in Range(r)
    BY <1>2, <1>3, <1>4 DEF Range
  <2> QED  BY <2>1, <2>2
<1>7. ASSUME IsInjective(r)
      PROVE  IsInjective(s) /\ IsInjective(t) /\ Range(s) \cap Range(t) = {}
  <2>1. IsInjective(s)  BY <1>2, <1>3, <1>7 DEF IsInjective
  <2>2. ASSUME NEW i \in 1..n, NEW j \in 1..n, t[i] = t[j] PROVE i = j
    <3>1. m + i = m + j  BY <1>4, <1>7, <2>2 DEF IsInjective
    <3> QED  BY <1>2, <3>1
  <2>3. ASSUME NEW i \in 1..m, NEW j \in 1..n, s[i] = t[j] PROVE FALSE
    <3>1. i = m + j  BY <1>3, <1>4, <1>7, <2>3 DEF IsInjective
    <3> QED  BY <1>2, <3>1
  <2> QED  BY <1>2, <2>1, <2>2, <2>3 DEF IsInjective, Range
<1>8. ASSUME IsInjective(s), IsInjective(t), Range(s) \cap Range(t) = {}
      PROVE  IsInjective(r)
  <2> SUFFICES ASSUME NEW k \in DOMAIN r, NEW l \in DOMAIN r, r[k] = r[l] PROVE k = l
    BY DEF IsInjective
  <2>1. CASE k \in 1..m /\ l \in 1..m  BY <1>2, <1>3, <1>8, <2>1 DEF IsInjective
  <2>2. ASSUME NEW i \in 1..n, NEW j \in 1..n, k = m + i, l = m + j PROVE k = l
    BY <1>2, <1>4, <1>8, <2>2 DEF IsInjective
  <2>3. ASSUME NEW i \in 1..m, NEW j \in 1..n, r[i] = r[m + j] PROVE FALSE
    <3>1. s[i] \in Range(s) /\ t[j] \in Range(t) /\ s[i] = t[j]
      BY <1>2, <1>3, <1>4, <2>3 DEF Range
    <3> QED  BY <1>8, <3>1
  <2> QED  BY <1>5, <2>1, <2>2, <2>3
<1> QED  BY <1>1, <1>6, <1>7, <1>8 DEF r

\* A list of one element.
LEMMA Single ==
    ASSUME NEW S, NEW x \in S
    PROVE  <<x>> \in Seq(S) /\ Range(<<x>>) = {x} /\ IsInjective(<<x>>) /\ Len(<<x>>) = 1
BY DEF Range, IsInjective

\* An element appended comes to those that are there.
LEMMA Appended ==
    ASSUME NEW S, NEW s \in Seq(S), NEW x \in S
    PROVE  /\ Append(s, x) \in Seq(S)
           /\ Range(Append(s, x)) = Range(s) \cup {x}
           /\ IsInjective(Append(s, x)) <=> IsInjective(s) /\ x \notin Range(s)
<1>1. Append(s, x) = s \o <<x>>  BY AppendIsConcat
<1>2. <<x>> \in Seq(S) /\ Range(<<x>>) = {x} /\ IsInjective(<<x>>)  BY Single
<1>3. /\ s \o <<x>> \in Seq(S)
      /\ Range(s \o <<x>>) = Range(s) \cup Range(<<x>>)
      /\ IsInjective(s \o <<x>>)
           <=> IsInjective(s) /\ IsInjective(<<x>>) /\ Range(s) \cap Range(<<x>>) = {}
  BY <1>2, Joined
<1> QED  BY <1>1, <1>2, <1>3

\* A list without its last element, and the list with that one made the first.
LEMMA LastTaken ==
    ASSUME NEW S, NEW s \in Seq(S), s # <<>>
    PROVE  LET v == Last(s)
               f == Front(s)
           IN  /\ v \in Range(s) /\ v \in S /\ f \in Seq(S) /\ <<v>> \o f \in Seq(S)
               /\ Range(s) = Range(f) \cup {v} /\ Range(<<v>> \o f) = Range(s)
               /\ IsInjective(s) => /\ IsInjective(f) /\ v \notin Range(f)
                                    /\ IsInjective(<<v>> \o f)
<1> DEFINE v == Last(s)
           f == Front(s)
<1>1. Len(s) \in Nat \ {0} /\ {1, Len(s)} \subseteq 1..Len(s) /\ DOMAIN s = 1..Len(s)
  BY EmptySeq, LenProperties
<1>2. v \in S /\ v \in Range(s)  BY <1>1, ElementOfSeq DEF Last, Range
<1>3. f \in Seq(S)
  <2>1. \A i \in 1..(Len(s) - 1) : s[i] \in S  BY <1>1, ElementOfSeq
  <2>2. SubSeq(s, 1, Len(s) - 1) \in Seq(S)  BY <1>1, <2>1, SubSeqProperties
  <2> QED  BY <2>2 DEF Front
<1>4. s = f \o <<v>>
  <2>1. SubSeq(s, 1, Len(s)) = SubSeq(s, 1, Len(s) - 1) \o <<s[Len(s)]>>
    <3>1. 1 \in 1..Len(s) /\ Len(s) \in 1..Len(s)  BY <1>1
    <3>2. ASSUME NEW n \in 1..Len(s)
          PROVE  SubSeq(s, 1, n) = SubSeq(s, 1, n - 1) \o <<s[n]>>
      BY <3>1, SubSeqRecursiveSecond
    <3> QED  BY <3>1, <3>2
  <2> QED  BY <2>1, SubSeqFull DEF Front, Last
<1> HIDE DEF v, f
<1>5. <<v>> \in Seq(S) /\ Range(<<v>>) = {v} /\ IsInjective(<<v>>)  BY <1>2, Single
<1>6. /\ Range(f \o <<v>>) = Range(f) \cup Range(<<v>>)
      /\ IsInjective(f \o <<v>>)
           <=> IsInjective(f) /\ IsInjective(<<v>>) /\ Range(f) \cap Range(<<v>>) = {}
  BY <1>3, <1>5, Joined
<1>7. /\ <<v>> \o f \in Seq(S) /\ Range(<<v>> \o f) = Range(<<v>>) \cup Range(f)
      /\ IsInjective(<<v>> \o f)
           <=> IsInjective(<<v>>) /\ IsInjective(f) /\ Range(<<v>>) \cap Range(f) = {}
  BY <1>3, <1>5, Joined
<1> QED  BY <1>2, <1>3, <1>4, <1>5, <1>6, <1>7 DEF v, f

\* A list without its first element, which leaves it for good if it holds nothing twice.
LEMMA HeadTaken ==
    ASSUME NEW S, NEW s \in Seq(S), s # <<>>
    PROVE  /\ Head(s) \in S /\ Tail(s) \in Seq(S) /\ Len(Tail(s)) = Len(s) - 1
           /\ Range(s) = Range(Tail(s)) \cup {Head(s)}
           /\ IsInjective(s) => IsInjective(Tail(s)) /\ Head(s) \notin Range(Tail(s))
<1>1. Len(s) \in Nat \ {0} /\ Len(s) \in 1..Len(s) /\ 1 \in 1..Len(s)  BY EmptySeq
<1>2. Head(s) \in S /\ Tail(s) \in Seq(S) /\ Len(Tail(s)) = Len(s) - 1  BY HeadTailProperties
<1>3. s = <<Head(s)>> \o Tail(s)
  <2>1. SubSeq(s, 1, Len(s)) = s  BY SubSeqFull
  <2>2. Head(SubSeq(s, 1, Len(s))) = s[1]  BY <1>1, HeadTailOfSubSeq
  <2>3. SubSeq(s, 1, Len(s)) = <<s[1]>> \o SubSeq(s, 1 + 1, Len(s))  BY <1>1, SubSeqRecursiveFirst
  <2>4. Tail(s) = SubSeq(s, 2, Len(s))  BY TailIsSubSeq
  <2> QED  BY <2>1, <2>2, <2>3, <2>4
<1> DEFINE h == Head(s)
           t == Tail(s)
<1>4. h \in S /\ t \in Seq(S) /\ s = <<h>> \o t  BY <1>2, <1>3
<1> HIDE DEF h, t
<1>5. <<h>> \in Seq(S) /\ Range(<<h>>) = {h} /\ IsInjective(<<h>>)  BY <1>4, Single
<1>6. /\ Range(<<h>> \o t) = Range(<<h>>) \cup Range(t)
      /\ IsInjective(<<h>> \o t)
           <=> IsInjective(<<h>>) /\ IsInjective(t) /\ Range(<<h>>) \cap Range(t) = {}
  BY <1>4, <1>5, Joined
<1>7. Range(s) = Range(t) \cup {h} /\ (IsInjective(s) => IsInjective(t) /\ h \notin Range(t))
  BY <1>4, <1>5, <1>6
<1> QED  BY <1>2, <1>7 DEF h, t

\* A circular list entered at another place: the same elements.
LEMMA Rotated ==
    ASSUME NEW S, NEW s \in Seq(S), NEW i \in DOMAIN s
    PROVE  LET r == SubSeq(s, i, Len(s)) \o SubSeq(s, 1, i - 1)
           IN  r \in Seq(S) /\ Range(r) = Range(s) /\ (IsInjective(s) => IsInjective(r))
<1> DEFINE a == SubSeq(s, 1, i - 1)
           b == SubSeq(s, i, Len(s))
<1>1. Len(s) \in Nat /\ i \in 1..Len(s) /\ \A k \in 1..Len(s) : s[k] \in S
  BY LenProperties, ElementOfSeq
<1>2. a \in Seq(S) /\ b \in Seq(S)
  <2>1. \A k \in 1..(i - 1) : s[k] \in S  BY <1>1
  <2>2. \A k \in i..Len(s) : s[k] \in S  BY <1>1
  <2> QED  BY <1>1, <2>1, <2>2, SubSeqProperties
<1>3. s = a \o b
  <2>1. /\ 1 \in 1..(Len(s) + 1) /\ i - 1 \in (1 - 1)..Len(s) /\ Len(s) \in (i - 1)..Len(s)
        /\ (i - 1) + 1 = i
    BY <1>1
  <2>2. SubSeq(s, 1, i - 1) \o SubSeq(s, (i - 1) + 1, Len(s)) = SubSeq(s, 1, Len(s))
    BY <2>1, ConcatAdjacentSubSeq
  <2> QED  BY <2>1, <2>2, SubSeqFull
<1> HIDE DEF a, b
<1>4. /\ Range(a \o b) = Range(a) \cup Range(b)
      /\ IsInjective(a \o b) <=> IsInjective(a) /\ IsInjective(b) /\ Range(a) \cap Range(b) = {}
  BY <1>2, Joined
<1>5. /\ b \o a \in Seq(S) /\ Range(b \o a) = Range(b) \cup Range(a)
      /\ IsInjective(b \o a) <=> IsInjective(b) /\ IsInjective(a) /\ Range(b) \cap Range(a) = {}
  BY <1>2, Joined
<1>6. Range(b \o a) = Range(s) /\ (IsInjective(s) => IsInjective(b \o a))
  BY <1>3, <1>4, <1>5
<1> QED  BY <1>5, <1>6 DEF a, b

\* A list without one of its elements holds the others, nothing twice.
LEMMA Removed ==
    ASSUME NEW S, NEW s \in Seq(S), NEW i \in DOMAIN s, IsInjective(s)
    PROVE  LET r == RemoveAt(s, i)
           IN  r \in Seq(S) /\ IsInjective(r) /\ Range(r) = Range(s) \ {s[i]}
<1> DEFINE r == RemoveAt(s, i)
           was(j) == IF j < i THEN j ELSE j + 1
<1>1. r \in Seq(S)  BY RemoveAtProperties
<1>2. /\ \A j \in DOMAIN r : was(j) \in DOMAIN s /\ was(j) # i /\ r[j] = s[was(j)]
      /\ \A j, k \in DOMAIN r : was(j) = was(k) => j = k
      /\ \A k \in DOMAIN s : k # i => \E j \in DOMAIN r : was(j) = k
  BY RemoveAtPlaces
<1> HIDE DEF r, was
<1>3. \A j, k \in DOMAIN s : s[j] = s[k] => j = k  BY DEF IsInjective
<1>4. IsInjective(r)
  <2> SUFFICES ASSUME NEW j \in DOMAIN r, NEW k \in DOMAIN r, r[j] = r[k] PROVE j = k
    BY DEF IsInjective
  <2>1. was(j) = was(k)  BY <1>2, <1>3
  <2> QED  BY <1>2, <2>1
<1>5. ASSUME NEW x \in Range(r) PROVE x \in Range(s) \ {s[i]}
  <2>1. PICK j \in DOMAIN r : x = r[j]  BY DEF Range
  <2>2. was(j) \in DOMAIN s /\ was(j) # i /\ x = s[was(j)]  BY <1>2, <2>1
  <2> QED  BY <1>3, <2>2 DEF Range
<1>6. ASSUME NEW x \in Range(s) \ {s[i]} PROVE x \in Range(r)
  <2>1. PICK k \in DOMAIN s : x = s[k]  BY DEF Range
  <2>2. PICK j \in DOMAIN r : was(j) = k  BY <1>2, <2>1
  <2>3. x = r[j]  BY <1>2, <2>1, <2>2
  <2> QED  BY <2>3 DEF Range
<1>7. Range(r) = Range(s) \ {s[i]}  BY <1>5, <1>6
<1> QED  BY <1>1, <1>4, <1>7 DEF r

=============================================================================
