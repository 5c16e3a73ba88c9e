--------------------------- MODULE ArpCacheProofs ---------------------------
(***************************************************************************)
(* Proofs about ArpCache for any cache memory, hosts and packets, any depth *)
(* of an entry's queue and any rates.                                       *)
(*                                                                          *)
(* The inductive invariant IInv says of the lists, as sets, what ListsAgree *)
(* says of them (Shared), and of each entry what it may hold in its place   *)
(* (Fits): an entry in use has its own host's hardware address or none, and *)
(* none only while its timer runs.  Every waiting packet goes to the address*)
(* of the entry it waits at.                                                *)
(***************************************************************************)
EXTENDS ArpCache, Lists, FiniteSetTheorems

Records == [ip : Addresses \cup {None}, hw : Addresses \cup {None}, timer : Nat, retries : Nat,
            waiting : Seq(Packets)]

TypeInv ==
    /\ {table, dynamic, static} \subseteq Seq(Entries) /\ count \in Nat
    /\ entry \in [Entries -> Records]
    /\ to \in [Packets -> Addresses \cup {None}]

\* Of the entries those of T are in use, those of D are dynamic and those of S
\* static, and n counts the dynamic ones in use.
Shared(T, D, S, n) ==
    /\ D \cap S = {} /\ D \cup S = Entries
    /\ S \subseteq T /\ T \subseteq Entries
    /\ n = Cardinality(T \cap D)

\* What an entry may hold, by whether it is in use and whether it is dynamic.
Fits(r, used, isDynamic) ==
    /\ used => r.ip \in Addresses /\ r.hw \in {None, r.ip}
    /\ used /\ r.hw = None => isDynamic /\ r.timer # 0
    /\ r.waiting # <<>> => used /\ isDynamic /\ r.hw = None /\ Len(r.waiting) <= MaxDepth
    /\ IsInjective(r.waiting)

AllFit(rs, T, D) == \A e \in Entries : Fits(rs[e], e \in T, e \in D)

\* The packets the cache holds wait at the entry of their destination.
HeldAtTheirs(rs, dest) ==
    /\ \A e \in Entries : \A p \in Range(rs[e].waiting) : dest[p] = rs[e].ip
    /\ \A p \in Packets : dest[p] # None => \E e \in Entries : p \in Range(rs[e].waiting)

\* No two entries of T are of one address.
OneEntryEach(rs, T) == \A e, f \in T : rs[e].ip = rs[f].ip => e = f

IInv ==
    /\ TypeInv
    /\ IsInjective(table) /\ IsInjective(dynamic) /\ IsInjective(static)
    /\ Shared(Range(table), Range(dynamic), Range(static), count)
    /\ AllFit(entry, Range(table), Range(dynamic))
    /\ OneEntryEach(entry, Range(table))
    /\ HeldAtTheirs(entry, to)

-----------------------------------------------------------------------------
(* The lists *)

\* Picking takes each of the places once: as many elements as places, those at the
\* places, and none twice that the list does not have twice.
LEMMA PickedProperties ==
    ASSUME NEW S, NEW s \in Seq(S), NEW P, P \subseteq DOMAIN s
    PROVE  /\ Picked(s, P) \in Seq(S)
           /\ Len(Picked(s, P)) = Cardinality(P)
           /\ Range(Picked(s, P)) = {s[i] : i \in P}
           /\ IsInjective(s) => IsInjective(Picked(s, P))
<1> DEFINE n == Cardinality(P)
           before(i) == {j \in P : j < i}
           rank == [i \in P |-> Cardinality(before(i))]
           place(k) == CHOOSE i \in P : Cardinality(before(i)) = k - 1
           r == Picked(s, P)
<1>1. /\ Len(s) \in Nat /\ DOMAIN s = 1..Len(s) /\ P \subseteq 1..Len(s)
      /\ \A i \in P : s[i] \in S
  BY LenProperties, ElementOfSeq
<1>2. IsFiniteSet(P) /\ n \in Nat
  <2>1. IsFiniteSet(1..Len(s))  BY <1>1, FS_Interval
  <2> QED  BY <1>1, <2>1, FS_Subset, FS_CardinalityType
<1>3. \A i \in P : IsFiniteSet(before(i)) /\ Cardinality(before(i)) \in Nat
  BY <1>2, FS_Subset, FS_CardinalityType
<1>4. ASSUME NEW i \in P, NEW T \in SUBSET P, before(i) \subseteq T, i \in T
      PROVE  Cardinality(before(i)) < Cardinality(T)
  <2> DEFINE b == before(i)
  <2>1. b \in SUBSET T /\ b # T  BY <1>1, <1>4
  <2>2. IsFiniteSet(T) /\ Cardinality(T) \in Nat  BY <1>2, FS_Subset, FS_CardinalityType
  <2>3. Cardinality(b) \in Nat  BY <1>3
  <2> HIDE DEF b
  <2>4. Cardinality(b) <= Cardinality(T) /\ (Cardinality(T) = Cardinality(b) => T = b)
    BY <2>1, <2>2, FS_Subset
  <2>5. Cardinality(b) < Cardinality(T)  BY <2>1, <2>2, <2>3, <2>4
  <2> QED  BY <2>5 DEF b
<1>5. \A i, j \in P : i < j => Cardinality(before(i)) < Cardinality(before(j))
  <2> SUFFICES ASSUME NEW i \in P, NEW j \in P, i < j
               PROVE  Cardinality(before(i)) < Cardinality(before(j))
    OBVIOUS
  <2>1. before(j) \in SUBSET P /\ i \in before(j)  OBVIOUS
  <2>2. before(i) \subseteq before(j)  BY <1>1
  <2> QED  BY <1>4, <2>1, <2>2
<1>6. \A i \in P : Cardinality(before(i)) \in 0..(n - 1)
  <2> SUFFICES ASSUME NEW i \in P PROVE Cardinality(before(i)) \in 0..(n - 1)  OBVIOUS
  <2> DEFINE c == Cardinality(before(i))
  <2>1. c < n  BY <1>4
  <2>2. c \in Nat  BY <1>3
  <2> HIDE DEF c, n
  <2>3. c \in 0..(n - 1)  BY <1>2, <2>1, <2>2
  <2> QED  BY <2>3 DEF c
<1>7. \A i, j \in P : Cardinality(before(i)) = Cardinality(before(j)) => i = j
  <2> SUFFICES ASSUME NEW i \in P, NEW j \in P, i # j
               PROVE  Cardinality(before(i)) # Cardinality(before(j))
    OBVIOUS
  <2>1. i < j \/ j < i  BY <1>1
  <2>2. Cardinality(before(i)) \in Nat /\ Cardinality(before(j)) \in Nat  BY <1>3
  <2>3. CASE i < j
    <3>1. Cardinality(before(i)) < Cardinality(before(j))  BY <1>5, <2>3
    <3> QED  BY <2>2, <3>1
  <2>4. CASE j < i
    <3>1. Cardinality(before(j)) < Cardinality(before(i))  BY <1>5, <2>4
    <3> QED  BY <2>2, <3>1
  <2> QED  BY <2>1, <2>3, <2>4
<1>8. \A k \in 1..n : \E i \in P : Cardinality(before(i)) = k - 1
  <2>1. rank \in Injection(P, 0..(n - 1))
    <3> HIDE DEF n, before
    <3>1. rank \in [P -> 0..(n - 1)]  BY <1>6
    <3>2. \A i, j \in P : rank[i] = rank[j] => i = j  BY <1>7
    <3> HIDE DEF rank
    <3> QED  BY <3>1, <3>2, Zenon DEF Injection, IsInjective
  <2>2. IsFiniteSet(0..(n - 1)) /\ Cardinality(0..(n - 1)) = n
    <3>1. 0 \in Int /\ n - 1 \in Int /\ (IF 0 > n - 1 THEN 0 ELSE (n - 1) - 0 + 1) = n  BY <1>2
    <3> HIDE DEF n
    <3>2. /\ IsFiniteSet(0..(n - 1))
          /\ Cardinality(0..(n - 1)) = IF 0 > n - 1 THEN 0 ELSE (n - 1) - 0 + 1
      BY <3>1, FS_Interval
    <3> QED  BY <1>2, <3>1, <3>2
  <2>3. rank \in Surjection(P, 0..(n - 1))
    <3> DEFINE Q == 0..(n - 1)
    <3>1. rank \in Injection(P, Q) /\ IsFiniteSet(Q) /\ Cardinality(P) = Cardinality(Q)
      BY <2>1, <2>2
    <3> HIDE DEF Q, rank, n
    <3>2. rank \in Surjection(P, Q)  BY <3>1, FS_Injection
    <3> QED  BY <3>2 DEF Q
  <2>4. ASSUME NEW k \in 1..n PROVE \E i \in P : Cardinality(before(i)) = k - 1
    <3>1. k - 1 \in 0..(n - 1)  BY <1>2
    <3>2. \E i \in P : rank[i] = k - 1  BY <2>3, <3>1 DEF Surjection
    <3> QED  BY <3>2
  <2> QED  BY <2>4
<1>9. \A k \in 1..n : place(k) \in P /\ Cardinality(before(place(k))) = k - 1
  <2> HIDE DEF before, n
  <2> QED  BY <1>8
<1>10. r = [k \in 1..n |-> s[place(k)]]  BY DEF Picked
<1> HIDE DEF r, n, before, place
<1>11. \A i \in P : \E k \in 1..n : place(k) = i
  <2> SUFFICES ASSUME NEW i \in P PROVE \E k \in 1..n : place(k) = i  OBVIOUS
  <2> DEFINE k == Cardinality(before(i)) + 1
  <2>1. k \in 1..n /\ Cardinality(before(i)) = k - 1  BY <1>2, <1>6
  <2>2. place(k) \in P /\ Cardinality(before(place(k))) = k - 1  BY <1>9, <2>1
  <2>3. place(k) = i  BY <1>7, <2>1, <2>2
  <2> QED  BY <2>1, <2>3
<1>12. DOMAIN r = 1..n /\ \A k \in 1..n : r[k] = s[place(k)] /\ r[k] \in S
  BY <1>1, <1>9, <1>10
<1>13. r \in Seq(S) /\ Len(r) = n
  <2>1. r \in [1..n -> S]  BY <1>10, <1>12
  <2> QED  BY <1>2, <2>1
<1>14. Range(r) = {s[i] : i \in P}
  <2>1. \A x \in Range(r) : x \in {s[i] : i \in P}  BY <1>9, <1>12 DEF Range
  <2>2. \A i \in P : s[i] \in Range(r)  BY <1>11, <1>12 DEF Range
  <2> QED  BY <2>1, <2>2
<1>15. ASSUME IsInjective(s) PROVE IsInjective(r)
  <2> SUFFICES ASSUME NEW k \in 1..n, NEW l \in 1..n, r[k] = r[l] PROVE k = l
    BY <1>12 DEF IsInjective
  <2>1. place(k) = place(l)  BY <1>1, <1>9, <1>12, <1>15 DEF IsInjective
  <2>2. k - 1 = l - 1  BY <1>9, <2>1
  <2> QED  BY <1>2, <2>2
<1> QED  BY <1>13, <1>14, <1>15 DEF r, n

\* A list that entries are taken out of keeps the others.
LEMMA WithoutIs ==
    ASSUME NEW S, NEW s \in Seq(S), NEW G
    PROVE  /\ Without(s, G) \in Seq(S)
           /\ Range(Without(s, G)) = Range(s) \ G
           /\ IsInjective(s) => IsInjective(Without(s, G))
<1> DEFINE P == {i \in DOMAIN s : s[i] \notin G}
<1>1. P \subseteq DOMAIN s /\ Without(s, G) = Picked(s, P)  BY DEF Without
<1>2. {s[i] : i \in P} = Range(s) \ G  BY DEF Range
<1> HIDE DEF P
<1> QED  BY <1>1, <1>2, PickedProperties

\* The entries of a list that are in a set, each as often as the list has it.
LEMMA OnlyIs ==
    ASSUME NEW S, NEW s \in Seq(S), NEW G
    PROVE  /\ Only(s, G) \in Seq(S)
           /\ Range(Only(s, G)) = Range(s) \cap G
           /\ IsInjective(s) => IsInjective(Only(s, G))
<1> DEFINE P == {i \in DOMAIN s : s[i] \in G}
<1>1. P \subseteq DOMAIN s /\ Only(s, G) = Picked(s, P)  BY DEF Only
<1>2. {s[i] : i \in P} = Range(s) \cap G  BY DEF Range
<1> HIDE DEF P
<1> QED  BY <1>1, <1>2, PickedProperties

\* A list without repetitions is as long as the set of its elements.
LEMMA LenIsCardinality ==
    ASSUME NEW S, NEW s \in Seq(S), IsInjective(s)
    PROVE  IsFiniteSet(Range(s)) /\ Cardinality(Range(s)) = Len(s)
<1> DEFINE I == 1..Len(s)
           R == Range(s)
<1>1. Len(s) \in Nat /\ DOMAIN s = I /\ s \in [I -> S]  BY LenProperties
<1>2. IsFiniteSet(I) /\ Cardinality(I) = Len(s)
  <2>1. 1 \in Int /\ Len(s) \in Int /\ (IF 1 > Len(s) THEN 0 ELSE Len(s) - 1 + 1) = Len(s)  BY <1>1
  <2>2. IsFiniteSet(I) /\ Cardinality(I) = IF 1 > Len(s) THEN 0 ELSE Len(s) - 1 + 1
    BY <2>1, FS_Interval
  <2> QED  BY <2>1, <2>2
<1> HIDE DEF I
<1>3. s \in [I -> R] /\ \A y \in R : \E x \in I : s[x] = y  BY <1>1 DEF R, Range
<1> HIDE DEF R
<1>4. s \in Injection(I, R)  BY <1>1, <1>3 DEF Injection, IsInjective
<1>5. s \in Surjection(I, R)  BY <1>3 DEF Surjection
<1>6. /\ IsFiniteSet(R)
      /\ Cardinality(R) = Cardinality(I) <=> s \in Injection(I, R)
  BY <1>2, <1>5, FS_Surjection
<1> QED  BY <1>2, <1>4, <1>6 DEF R

-----------------------------------------------------------------------------
(* The sets of entries *)

\* The entries of a part of the cache are finitely many.
LEMMA PartIsFinite ==
    ASSUME NEW G, G \subseteq Entries
    PROVE  IsFiniteSet(G) /\ Cardinality(G) \in Nat
BY ArpAssumption, FS_Subset, FS_CardinalityType DEF ArpAssumption

\* A dynamic entry is allocated: it counts, unless it was in use.
LEMMA SharedAllocated ==
    ASSUME NEW T, NEW D, NEW S, NEW n, Shared(T, D, S, n), NEW v \in D
    PROVE  Shared(T \cup {v}, D, S, IF v \in T THEN n ELSE n + 1)
<1>1. T \cap D \subseteq Entries /\ (T \cup {v}) \cap D = (T \cap D) \cup {v}  BY DEF Shared
<1>2. Cardinality((T \cap D) \cup {v})
        = IF v \in T \cap D THEN Cardinality(T \cap D) ELSE Cardinality(T \cap D) + 1
  BY <1>1, PartIsFinite, FS_AddElement
<1>3. /\ D \cap S = {} /\ D \cup S = Entries /\ S \subseteq T \cup {v} /\ T \cup {v} \subseteq Entries
      /\ n = Cardinality(T \cap D) /\ (v \in T \cap D <=> v \in T)
  BY DEF Shared
<1>4. Cardinality((T \cup {v}) \cap D) = IF v \in T THEN n ELSE n + 1  BY <1>1, <1>2, <1>3
<1> QED  BY <1>3, <1>4 DEF Shared

\* A dynamic entry becomes static and is in use.
LEMMA SharedStatic ==
    ASSUME NEW T, NEW D, NEW S, NEW n, Shared(T, D, S, n), NEW v \in D
    PROVE  Shared(T \cup {v}, D \ {v}, S \cup {v}, IF v \in T THEN n - 1 ELSE n)
<1>1. T \cap D \subseteq Entries /\ (T \cup {v}) \cap (D \ {v}) = (T \cap D) \ {v}  BY DEF Shared
<1>2. Cardinality((T \cap D) \ {v})
        = IF v \in T \cap D THEN Cardinality(T \cap D) - 1 ELSE Cardinality(T \cap D)
  BY <1>1, PartIsFinite, FS_RemoveElement
<1>3. /\ (D \ {v}) \cap (S \cup {v}) = {} /\ (D \ {v}) \cup (S \cup {v}) = Entries
      /\ S \cup {v} \subseteq T \cup {v} /\ T \cup {v} \subseteq Entries
      /\ n = Cardinality(T \cap D) /\ (v \in T \cap D <=> v \in T)
  BY DEF Shared
<1>4. Cardinality((T \cup {v}) \cap (D \ {v})) = IF v \in T THEN n - 1 ELSE n
  BY <1>1, <1>2, <1>3
<1> QED  BY <1>3, <1>4 DEF Shared

\* Dynamic entries in use are given up.
LEMMA SharedDeleted ==
    ASSUME NEW T, NEW D, NEW S, NEW n, Shared(T, D, S, n), NEW G, G \subseteq T \cap D
    PROVE  Shared(T \ G, D, S, n - Cardinality(G)) /\ n - Cardinality(G) \in Nat
<1>1. /\ T \cap D \subseteq Entries /\ (T \ G) \cap D = (T \cap D) \ G /\ (T \cap D) \cap G = G
      /\ G \in SUBSET (T \cap D) /\ G \subseteq Entries
  BY DEF Shared
<1>2. Cardinality((T \cap D) \ G) = Cardinality(T \cap D) - Cardinality((T \cap D) \cap G)
  BY <1>1, PartIsFinite, FS_Difference
<1>3. Cardinality(G) <= Cardinality(T \cap D)  BY <1>1, PartIsFinite, FS_Subset
<1>4. Cardinality(G) \in Nat /\ Cardinality(T \cap D) \in Nat  BY <1>1, PartIsFinite
<1>5. /\ D \cap S = {} /\ D \cup S = Entries /\ S \subseteq T \ G /\ T \ G \subseteq Entries
      /\ n = Cardinality(T \cap D)
  BY DEF Shared
<1>6. Cardinality((T \ G) \cap D) = n - Cardinality(G)  BY <1>1, <1>2, <1>5
<1>7. n - Cardinality(G) \in Nat  BY <1>3, <1>4, <1>5
<1> QED  BY <1>5, <1>6, <1>7 DEF Shared

\* Static entries are given up, and are dynamic again.
LEMMA SharedReturned ==
    ASSUME NEW T, NEW D, NEW S, NEW n, Shared(T, D, S, n), NEW G, G \subseteq S
    PROVE  Shared(T \ G, D \cup G, S \ G, n)
<1>1. (T \ G) \cap (D \cup G) = T \cap D  BY DEF Shared
<1> QED  BY <1>1 DEF Shared

-----------------------------------------------------------------------------
(* What waits at the entries *)

\* Where a packet waits and where it goes: at one entry only, in use and dynamic,
\* for that entry's address.
Held(rs, T, D, dest) ==
    \A e, f \in Entries : \A p \in Range(rs[e].waiting) \cap Range(rs[f].waiting) :
        e = f /\ e \in T \cap D /\ dest[p] = rs[e].ip /\ rs[e].ip \in Addresses

\* Every packet has one place to wait.
LEMMA HeldOnce ==
    ASSUME NEW rs \in [Entries -> Records], NEW dest, NEW T, NEW D,
           AllFit(rs, T, D), OneEntryEach(rs, T), HeldAtTheirs(rs, dest)
    PROVE  Held(rs, T, D, dest)
<1> SUFFICES ASSUME NEW e \in Entries, NEW f \in Entries,
                    NEW p \in Range(rs[e].waiting) \cap Range(rs[f].waiting)
             PROVE  e = f /\ e \in T \cap D /\ dest[p] = rs[e].ip /\ rs[e].ip \in Addresses
  BY DEF Held
<1>1. rs[e].waiting # <<>> /\ rs[f].waiting # <<>>  BY DEF Range
<1>2. e \in T /\ e \in D /\ f \in T /\ rs[e].ip \in Addresses  BY <1>1 DEF AllFit, Fits
<1>3. dest[p] = rs[e].ip /\ dest[p] = rs[f].ip  BY DEF HeldAtTheirs
<1> QED  BY <1>2, <1>3 DEF OneEntryEach

\* Nothing waits any longer at the entries G, and their packets are not held any longer.
LEMMA HeldEmptied ==
    ASSUME NEW rs \in [Entries -> Records], NEW dest \in [Packets -> Addresses \cup {None}],
           NEW T, NEW D,
           AllFit(rs, T, D),
           OneEntryEach(rs, T), HeldAtTheirs(rs, dest),
           NEW G, G \subseteq Entries, NEW rs2, NEW dest2,
           \A e \in G : rs2[e].waiting = <<>>,
           \A e \in Entries \ G : rs2[e].waiting = rs[e].waiting /\ rs2[e].ip = rs[e].ip,
           dest2 = [p \in Packets |-> IF \E e \in G : p \in Range(rs[e].waiting) THEN None
                                      ELSE dest[p]]
    PROVE  HeldAtTheirs(rs2, dest2) /\ dest2 \in [Packets -> Addresses \cup {None}]
<1>1. ASSUME NEW e \in Entries, NEW p \in Range(rs2[e].waiting) PROVE dest2[p] = rs2[e].ip
  <2>1. e \notin G  BY <1>1 DEF Range
  <2>2. p \in Range(rs[e].waiting) /\ rs2[e].ip = rs[e].ip  BY <1>1, <2>1
  <2>3. p \in Packets
    <3>1. rs[e].waiting \in Seq(Packets)  BY DEF Records
    <3> QED  BY <2>2, <3>1, RangeOfSeq
  <2>4. ASSUME NEW f \in G, p \in Range(rs[f].waiting) PROVE FALSE
    <3>1. f \in Entries  OBVIOUS
    <3>2. Held(rs, T, D, dest)  BY HeldOnce
    <3>3. e = f  BY <2>2, <2>4, <3>1, <3>2 DEF Held
    <3> QED  BY <2>1, <3>3
  <2>5. dest2[p] = dest[p]  BY <2>3, <2>4
  <2>6. dest[p] = rs[e].ip  BY <2>2 DEF HeldAtTheirs
  <2> QED  BY <2>2, <2>5, <2>6
<1>2. ASSUME NEW p \in Packets, dest2[p] # None
      PROVE  \E e \in Entries : p \in Range(rs2[e].waiting)
  <2>1. dest[p] # None /\ \A f \in G : p \notin Range(rs[f].waiting)  BY <1>2
  <2>2. PICK e \in Entries : p \in Range(rs[e].waiting)  BY <2>1 DEF HeldAtTheirs
  <2>3. e \notin G  BY <2>1, <2>2
  <2>4. rs2[e].waiting = rs[e].waiting  BY <2>3
  <2> QED  BY <2>2, <2>4
<1>3. dest2 \in [Packets -> Addresses \cup {None}]  OBVIOUS
<1> QED  BY <1>1, <1>2, <1>3 DEF HeldAtTheirs

\* One entry e gets the record r, and is in use and dynamic as T2 and D2 say.
LEMMA EntryChanged ==
    ASSUME NEW rs \in [Entries -> Records], NEW T, NEW D, NEW T2, NEW D2,
           AllFit(rs, T, D),
           NEW e \in Entries, NEW r \in Records,
           T2 \ {e} = T \ {e}, D2 \ {e} = D \ {e},
           NEW rs2, rs2 = [rs EXCEPT ![e] = r],
           Fits(r, e \in T2, e \in D2)
    PROVE  /\ rs2 \in [Entries -> Records]
           /\ AllFit(rs2, T2, D2)
<1>1. rs2 \in [Entries -> Records]  OBVIOUS
<1>2. ASSUME NEW f \in Entries PROVE Fits(rs2[f], f \in T2, f \in D2)
  <2>1. CASE f = e  BY <2>1
  <2>2. CASE f # e
    <3>1. rs2[f] = rs[f] /\ (f \in T2 <=> f \in T) /\ (f \in D2 <=> f \in D)  BY <2>2
    <3>2. Fits(rs[f], f \in T, f \in D)  BY DEF AllFit
    <3> QED  BY <3>1, <3>2, Zenon DEF Fits
  <2> QED  BY <2>1, <2>2
<1> QED  BY <1>1, <1>2 DEF AllFit

-----------------------------------------------------------------------------
(* The steps *)

\* The cache memory as a list: every entry once.
LEMMA CacheListed ==
    LET s == SetToSeq(Entries)
    IN  s \in Seq(Entries) /\ IsInjective(s) /\ Range(s) = Entries
<1> DEFINE n == Cardinality(Entries)
           I == 1..n
           s == SetToSeq(Entries)
<1>1. IsFiniteSet(Entries) /\ n \in Nat /\ ExistsBijection(I, Entries)
  BY ArpAssumption, FS_CardinalityType DEF ArpAssumption
<1>2. \E f \in [I -> Entries] : IsInjective(f)
  <2> HIDE DEF I
  <2> QED  BY <1>1 DEF ExistsBijection, Bijection, Injection
<1>3. s \in [I -> Entries] /\ IsInjective(s)
  <2> HIDE DEF I
  <2> QED  BY <1>2 DEF SetToSeq, I, n
<1> HIDE DEF s
<1>4. IsFiniteSet(I) /\ Cardinality(I) = n
  <2>1. 1 \in Int /\ n \in Int /\ (IF 1 > n THEN 0 ELSE n - 1 + 1) = n  BY <1>1
  <2> HIDE DEF n
  <2>2. IsFiniteSet(I) /\ Cardinality(I) = IF 1 > n THEN 0 ELSE n - 1 + 1  BY <2>1, FS_Interval
  <2> QED  BY <2>1, <2>2
<1>5. s \in Surjection(I, Entries)
  <2>1. s \in Injection(I, Entries)
    <3> HIDE DEF I
    <3> QED  BY <1>3 DEF Injection
  <2> QED  BY <1>1, <1>4, <2>1, FS_Injection
<1>6. s \in Seq(Entries)
  <2> HIDE DEF n
  <2> QED  BY <1>1, <1>3
<1>7. Range(s) = Entries
  <2> HIDE DEF I
  <2> QED  BY <1>3, <1>5 DEF Surjection, Range
<1> QED  BY <1>3, <1>6, <1>7 DEF s

\* An empty cache.
LEMMA InitIInv == Init => IInv
<1> SUFFICES ASSUME Init PROVE IInv  OBVIOUS
<1>1. dynamic \in Seq(Entries) /\ IsInjective(dynamic) /\ Range(dynamic) = Entries
  BY CacheListed DEF Init
<1>2. /\ table = <<>> /\ static = <<>> /\ count = 0
      /\ entry = [e \in Entries |-> Cleared] /\ to = [p \in Packets |-> None]
  BY DEF Init
<1>3. /\ <<>> \in Seq(Entries) /\ <<>> \in Seq(Packets)
      /\ IsInjective(<<>>) /\ Range(<<>>) = {}
  BY DEF IsInjective, Range
<1>4. Cleared \in Records  BY <1>3 DEF Cleared, Records
<1>5. TypeInv  BY <1>1, <1>2, <1>3, <1>4 DEF TypeInv
<1>6. Shared({}, Entries, {}, 0)
  <2>1. {} \cap Entries = {}  OBVIOUS
  <2> QED  BY <2>1, FS_EmptySet DEF Shared
<1>7. AllFit(entry, {}, Entries)
  BY <1>2, <1>3 DEF AllFit, Fits, Cleared
<1>8. OneEntryEach(entry, {})  BY DEF OneEntryEach
<1>9. HeldAtTheirs(entry, to)  BY <1>2, <1>3 DEF HeldAtTheirs, Cleared
<1> QED  BY <1>1, <1>2, <1>3, <1>5, <1>6, <1>7, <1>8, <1>9 DEF IInv

\* The types, and the three lists as sets.
LEMMA Facts ==
    ASSUME IInv
    PROVE  /\ table \in Seq(Entries) /\ dynamic \in Seq(Entries) /\ static \in Seq(Entries)
           /\ Range(table) \subseteq Entries
           /\ Range(dynamic) \subseteq Entries /\ Range(static) \subseteq Entries
           /\ Range(static) \subseteq Range(table) /\ Range(dynamic) \cap Range(static) = {}
           /\ Range(dynamic) \cup Range(static) = Entries
           /\ count \in Nat
           /\ entry \in [Entries -> Records] /\ to \in [Packets -> Addresses \cup {None}]
           /\ \A e \in Entries : entry[e] \in Records /\ entry[e].waiting \in Seq(Packets)
<1>1. TypeInv /\ Shared(Range(table), Range(dynamic), Range(static), count)  BY DEF IInv
<1>2. \A e \in Entries : entry[e] \in Records /\ entry[e].waiting \in Seq(Packets)
  BY <1>1 DEF TypeInv, Records
<1> QED  BY <1>1, <1>2 DEF TypeInv, Shared

\* What nx_arp_dynamic_entry_delete leaves of the packets: none that waits at gone.
LEMMA FreedIs ==
    ASSUME NEW G
    PROVE  Freed(G) = [p \in Packets |-> IF \E e \in G : p \in Range(entry[e].waiting) THEN None
                                         ELSE to[p]]
BY DEF Freed, Left, Range

\* The invariant from its parts.
LEMMA Parts ==
    ASSUME table' \in Seq(Entries), IsInjective(table'),
           dynamic' \in Seq(Entries), IsInjective(dynamic'),
           static' \in Seq(Entries), IsInjective(static'),
           count' \in Nat, Shared(Range(table'), Range(dynamic'), Range(static'), count'),
           entry' \in [Entries -> Records], AllFit(entry', Range(table'), Range(dynamic')),
           OneEntryEach(entry', Range(table')),
           to' \in [Packets -> Addresses \cup {None}], HeldAtTheirs(entry', to')
    PROVE  IInv'
BY DEF IInv, TypeInv

\* A step that changes neither lists nor entries nor what they hold.
LEMMA NothingChanged ==
    ASSUME IInv, UNCHANGED <<table, dynamic, static, count, entry, to>>
    PROVE  IInv'
BY DEF IInv, TypeInv

\* nx_arp_entry_allocate for a dynamic entry, whatever it is given.
LEMMA AllocateKept ==
    ASSUME IInv, dynamic # <<>>, NEW a \in Addresses, Find(a) = {},
           NEW hw \in {None, a}, NEW t \in Nat, hw = None => t # 0,
           NEW w \in Seq(Packets), IsInjective(w), w # <<>> => hw = None /\ Len(w) <= MaxDepth,
           AllocateDynamic(a, hw, t, w),
           to' \in [Packets -> Addresses \cup {None}], HeldAtTheirs(entry', to')
    PROVE  IInv'
<1> DEFINE r == [ip |-> a, hw |-> hw, timer |-> t, retries |-> 0, waiting |-> w]
           T == Range(table)
           D == Range(dynamic)
           S == Range(static)
<1>1. PICK v : v = Victim  OBVIOUS
<1>2. /\ v \in D /\ v \in Entries
      /\ dynamic' \in Seq(Entries) /\ Range(dynamic') = D /\ IsInjective(dynamic')
  <2>1. dynamic' = <<Last(dynamic)>> \o Front(dynamic)  BY DEF AllocateDynamic, Victim
  <2>2. dynamic \in Seq(Entries) /\ IsInjective(dynamic)  BY Facts DEF IInv
  <2> QED  BY <1>1, <2>1, <2>2, LastTaken DEF Victim
<1>3. table' \in Seq(Entries) /\ Range(table') = T \cup {v} /\ IsInjective(table')
  <2> DEFINE s == Without(table, {v})
  <2>1. s \in Seq(Entries) /\ Range(s) = T \ {v} /\ IsInjective(s)
    BY Facts, WithoutIs DEF IInv
  <2>2. table' = Append(s, v)  BY <1>1 DEF AllocateDynamic, Allocated
  <2> HIDE DEF s
  <2> QED  BY <1>2, <2>1, <2>2, Appended
<1>4. static' = static /\ count' = IF v \in T THEN count ELSE count + 1
  BY <1>1 DEF AllocateDynamic, Active
<1>5. Shared(T, D, S, count) /\ count \in Nat  BY Facts DEF IInv
<1>6. Shared(T \cup {v}, D, S, count') /\ count' \in Nat
  <2> HIDE DEF T, D, S
  <2>1. Shared(T \cup {v}, D, S, IF v \in T THEN count ELSE count + 1)
    BY <1>2, <1>5, SharedAllocated
  <2> QED  BY <1>4, <1>5, <2>1
<1>7. r \in Records /\ Fits(r, v \in T \cup {v}, v \in D)
  <2>1. r \in Records  BY DEF Records
  <2>2. v \in T \cup {v} /\ v \in D  BY <1>2
  <2> QED  BY <2>1, <2>2 DEF Fits
<1>8. entry' = [entry EXCEPT ![v] = r]  BY <1>1 DEF AllocateDynamic
<1>9. entry' \in [Entries -> Records] /\ AllFit(entry', T \cup {v}, D)
  <2> DEFINE U == T \cup {v}
  <2>1. entry \in [Entries -> Records] /\ AllFit(entry, T, D)  BY Facts DEF IInv
  <2>2. U \ {v} = T \ {v} /\ r \in Records /\ Fits(r, v \in U, v \in D)  BY <1>7
  <2> HIDE DEF U, T, D, r
  <2>3. entry' \in [Entries -> Records] /\ AllFit(entry', U, D)
    BY <1>2, <1>8, <2>1, <2>2, EntryChanged
  <2> QED  BY <2>3 DEF U
<1>10. OneEntryEach(entry', T \cup {v})
  <2>1. \A e \in T : entry[e].ip # a  BY DEF Find
  <2>2. OneEntryEach(entry, T) /\ T \subseteq Entries /\ entry \in [Entries -> Records]
    BY Facts DEF IInv
  <2>3. entry'[v].ip = a /\ \A e \in T : e # v => entry'[e].ip = entry[e].ip
    BY <1>2, <1>8, <2>2
  <2> QED  BY <2>1, <2>2, <2>3 DEF OneEntryEach
<1>11. static \in Seq(Entries) /\ IsInjective(static)  BY Facts DEF IInv
<1> QED  BY <1>2, <1>3, <1>4, <1>6, <1>9, <1>10, <1>11, Parts

\* The packet of an address already resolved goes out; the entry heads the list.
LEMMA SendResolvedKept ==
    ASSUME IInv, NEW p \in Packets, NEW a \in Addresses, SendResolved(p, a)
    PROVE  IInv' /\ SentToItsAddress'
<1>1. PICK e \in Find(a) :
        /\ entry[e].hw # None
        /\ wire' = <<[dest |-> a, hw |-> entry[e].hw]>>
        /\ table' = LET i == CHOOSE k \in DOMAIN table : table[k] = e
                    IN  SubSeq(table, i, Len(table)) \o SubSeq(table, 1, i - 1)
        /\ UNCHANGED <<dynamic, static, count, entry, to>>
  BY DEF SendResolved
<1>2. e \in Range(table) /\ e \in Entries /\ entry[e].ip = a  BY Facts DEF Find
<1>3. table' \in Seq(Entries) /\ Range(table') = Range(table) /\ IsInjective(table')
  <2> DEFINE i == CHOOSE k \in DOMAIN table : table[k] = e
  <2>1. i \in DOMAIN table  BY <1>2 DEF Range
  <2>2. table' = SubSeq(table, i, Len(table)) \o SubSeq(table, 1, i - 1)  BY <1>1
  <2>3. table \in Seq(Entries) /\ IsInjective(table)  BY Facts DEF IInv
  <2> HIDE DEF i
  <2> QED  BY <2>1, <2>2, <2>3, Rotated
<1>4. IInv'  BY <1>1, <1>3 DEF IInv, TypeInv
<1>5. entry[e].hw = a  BY <1>1, <1>2 DEF IInv, AllFit, Fits
<1>6. SentToItsAddress'  BY <1>1, <1>5 DEF SentToItsAddress
<1> QED  BY <1>4, <1>6

\* A packet joins those that wait, and pushes out the first when the queue is full.
LEMMA SendWaitsKept ==
    ASSUME IInv, NEW p \in Packets, NEW a \in Addresses, SendWaits(p, a)
    PROVE  IInv' /\ SentToItsAddress'
<1> DEFINE T == Range(table)
           D == Range(dynamic)
<1>1. PICK e \in Find(a) :
        /\ to[p] = None /\ entry[e].hw = None /\ wire' = <<>>
        /\ entry' = [entry EXCEPT ![e].waiting =
                        Append(IF Len(entry[e].waiting) >= MaxDepth THEN Tail(entry[e].waiting)
                               ELSE entry[e].waiting, p)]
        /\ to' = [x \in Packets |->
                    IF x = p THEN a
                    ELSE IF Len(entry[e].waiting) >= MaxDepth /\ x = Head(entry[e].waiting) THEN None
                    ELSE to[x]]
        /\ UNCHANGED <<table, dynamic, static, count>>
  BY DEF SendWaits
<1>2. /\ e \in T /\ e \in Entries /\ entry[e].ip = a
      /\ entry \in [Entries -> Records] /\ entry[e] \in Records
      /\ entry[e].waiting \in Seq(Packets)
  BY Facts DEF Find
<1>3. PICK q \in Seq(Packets) : q = entry[e].waiting  BY <1>2
<1>4. e \in D /\ entry[e].timer # 0 /\ Len(q) <= MaxDepth /\ IsInjective(q) /\ Len(q) \in Nat
  <2>1. Fits(entry[e], e \in T, e \in D)  BY <1>2 DEF IInv, AllFit
  <2>2. MaxDepth \in Nat /\ Len(q) \in Nat  BY ArpAssumption, LenProperties DEF ArpAssumption
  <2>3. CASE q = <<>>
    <3>1. Len(q) = 0  BY <2>3
    <3> QED  BY <1>1, <1>2, <1>3, <2>1, <2>2, <3>1 DEF Fits
  <2>4. CASE q # <<>>  BY <1>1, <1>2, <1>3, <2>1, <2>2, <2>4 DEF Fits
  <2> QED  BY <2>3, <2>4
<1> DEFINE full == Len(q) >= MaxDepth
           k == IF full THEN Tail(q) ELSE q
           w == Append(k, p)
           r == [entry[e] EXCEPT !.waiting = w]
<1>5. q # <<>> => /\ Head(q) \in Packets /\ Tail(q) \in Seq(Packets) /\ Len(Tail(q)) = Len(q) - 1
                  /\ Range(q) = Range(Tail(q)) \cup {Head(q)}
                  /\ IsInjective(Tail(q)) /\ Head(q) \notin Range(Tail(q))
  BY <1>4, HeadTaken
<1>6. full => q # <<>>
  <2>1. MaxDepth \in Nat \ {0}  BY ArpAssumption DEF ArpAssumption
  <2>2. q = <<>> => Len(q) = 0  OBVIOUS
  <2> QED  BY <1>4, <2>1, <2>2
<1>7. /\ k \in Seq(Packets) /\ IsInjective(k) /\ Len(k) < MaxDepth /\ Len(k) \in Nat
      /\ Range(k) = IF full THEN Range(q) \ {Head(q)} ELSE Range(q)
  <2>1. MaxDepth \in Nat \ {0}  BY ArpAssumption DEF ArpAssumption
  <2>2. CASE full
    <3>1. k = Tail(q) /\ q # <<>>  BY <1>6, <2>2
    <3>2. Len(k) = Len(q) - 1 /\ k \in Seq(Packets) /\ IsInjective(k)  BY <1>5, <3>1
    <3>3. Len(k) \in Nat  BY <3>2, LenProperties
    <3> HIDE DEF k
    <3>4. Len(k) < MaxDepth  BY <1>4, <2>1, <3>2
    <3>5. Range(k) = Range(q) \ {Head(q)}  BY <1>5, <3>1
    <3> QED  BY <2>2, <3>2, <3>3, <3>4, <3>5
  <2>3. CASE ~full  BY <1>4, <2>1, <2>3
  <2> QED  BY <2>2, <2>3
<1>8. \A x \in Range(q) : x \in Packets /\ to[x] = a
  BY <1>2, <1>3, RangeOfSeq DEF IInv, HeldAtTheirs
<1>9. a # None /\ None \notin Addresses /\ p \notin Range(q)
  BY <1>1, <1>8, ArpAssumption DEF ArpAssumption
<1> HIDE DEF k
<1>10. w \in Seq(Packets) /\ IsInjective(w) /\ Range(w) = Range(k) \cup {p} /\ Len(w) <= MaxDepth
  <2>1. w \in Seq(Packets) /\ Range(w) = Range(k) \cup {p}
        /\ (IsInjective(w) <=> IsInjective(k) /\ p \notin Range(k))
    BY <1>7, Appended
  <2>2. Len(w) = Len(k) + 1  BY <1>7, AppendProperties
  <2>3. p \notin Range(k)  BY <1>7, <1>9
  <2>4. MaxDepth \in Nat  BY ArpAssumption DEF ArpAssumption
  <2> HIDE DEF w
  <2> QED  BY <1>7, <2>1, <2>2, <2>3, <2>4
<1> HIDE DEF w
<1>11. /\ r \in Records /\ r.ip = a /\ r.hw = None /\ r.timer # 0 /\ r.waiting = w
  BY <1>1, <1>2, <1>4, <1>10 DEF Records
<1>12. entry' = [entry EXCEPT ![e] = r]  BY <1>1, <1>3 DEF k, w
<1> HIDE DEF r
<1>13. Fits(r, e \in T, e \in D)
  BY <1>2, <1>4, <1>10, <1>11 DEF Fits
<1>14. entry' \in [Entries -> Records] /\ AllFit(entry', T, D)
  <2>1. AllFit(entry, T, D) /\ T \ {e} = T \ {e} /\ D \ {e} = D \ {e}  BY DEF IInv
  <2> HIDE DEF T, D
  <2> QED  BY <1>2, <1>11, <1>12, <1>13, <2>1, EntryChanged
<1>15. /\ entry'[e].ip = a /\ entry'[e].waiting = w
       /\ \A f \in Entries : entry'[f].ip = entry[f].ip
       /\ \A f \in Entries \ {e} : entry'[f].waiting = entry[f].waiting
  BY <1>2, <1>11, <1>12
<1>16. OneEntryEach(entry', T)
  <2>1. OneEntryEach(entry, T) /\ T \subseteq Entries  BY Facts DEF IInv
  <2> QED  BY <1>15, <2>1 DEF OneEntryEach
<1>17. /\ to'[p] = a
       /\ \A x \in Packets : x # p /\ ~(full /\ x = Head(q)) => to'[x] = to[x]
       /\ \A x \in Packets : x # p /\ full /\ x = Head(q) => to'[x] = None
       /\ to' \in [Packets -> Addresses \cup {None}]
  <2>1. to' = [x \in Packets |-> IF x = p THEN a
                                 ELSE IF full /\ x = Head(q) THEN None ELSE to[x]]
    BY <1>1, <1>3
  <2>2. to \in [Packets -> Addresses \cup {None}]  BY Facts
  <2> HIDE DEF full
  <2> QED  BY <2>1, <2>2
<1>18. Held(entry, T, D, to)
  BY <1>2, HeldOnce DEF IInv
<1>19. full => Head(q) \in Range(q)  BY <1>5, <1>6
<1>20. HeldAtTheirs(entry', to')
  <2>1. ASSUME NEW f \in Entries, NEW x \in Range(entry'[f].waiting)
        PROVE  to'[x] = entry'[f].ip
    <3>1. CASE f = e
      <4>1. x \in Range(k) \cup {p}  BY <1>10, <1>15, <2>1, <3>1
      <4>2. CASE x = p  BY <1>15, <1>17, <3>1, <4>2
      <4>3. CASE x # p
        <5>1. x \in Range(q) /\ ~(full /\ x = Head(q))  BY <1>7, <4>1, <4>3
        <5>2. x \in Packets /\ to[x] = a  BY <1>8, <5>1
        <5>3. to'[x] = to[x]  BY <1>17, <4>3, <5>1, <5>2
        <5> QED  BY <1>15, <3>1, <5>2, <5>3
      <4> QED  BY <4>2, <4>3
    <3>2. CASE f # e
      <4>1. x \in Range(entry[f].waiting)  BY <1>15, <2>1, <3>2
      <4>2. x \in Packets /\ to[x] = entry[f].ip /\ entry[f].ip \in Addresses
        BY <1>18, <4>1, Facts, RangeOfSeq DEF Held
      <4>3. x \notin Range(q)  BY <1>2, <1>3, <1>18, <3>2, <4>1 DEF Held
      <4>4. x # p /\ ~(full /\ x = Head(q))  BY <1>1, <1>9, <1>19, <4>2, <4>3
      <4>5. to'[x] = to[x]  BY <1>17, <4>2, <4>4
      <4> QED  BY <1>15, <4>2, <4>5
    <3> QED  BY <3>1, <3>2
  <2>2. ASSUME NEW x \in Packets, to'[x] # None
        PROVE  \E f \in Entries : x \in Range(entry'[f].waiting)
    <3>1. CASE x = p  BY <1>2, <1>10, <1>15, <3>1
    <3>2. CASE x # p
      <4>1. ~(full /\ x = Head(q)) /\ to[x] # None  BY <1>17, <2>2, <3>2
      <4>2. PICK f \in Entries : x \in Range(entry[f].waiting)
        BY <4>1 DEF IInv, HeldAtTheirs
      <4>3. CASE f = e
        <5>1. x \in Range(k)  BY <1>3, <1>7, <4>1, <4>2, <4>3
        <5> QED  BY <1>2, <1>10, <1>15, <5>1
      <4>4. CASE f # e  BY <1>15, <4>2, <4>4
      <4> QED  BY <4>3, <4>4
    <3> QED  BY <3>1, <3>2
  <2> QED  BY <2>1, <2>2 DEF HeldAtTheirs
<1>21. IInv'
  <2>1. UNCHANGED <<table, dynamic, static, count>>  BY <1>1
  <2> QED  BY <1>14, <1>16, <1>17, <1>20, <2>1 DEF IInv, TypeInv
<1>22. SentToItsAddress'  BY <1>1 DEF SentToItsAddress
<1> QED  BY <1>21, <1>22

\* The first packet for an address: an entry is allocated, deleted first if in use.
LEMMA SendFirstKept ==
    ASSUME IInv, NEW p \in Packets, NEW a \in Addresses, SendFirst(p, a)
    PROVE  IInv' /\ SentToItsAddress'
<1>1. wire' = <<>> /\ Find(a) = {} /\ to[p] = None  BY DEF SendFirst
<1>2. SentToItsAddress'  BY <1>1 DEF SentToItsAddress
<1>3. CASE dynamic = <<>>
  <2>1. UNCHANGED <<table, dynamic, static, count, entry, to>>  BY <1>3 DEF SendFirst
  <2> QED  BY <1>2, <2>1, NothingChanged
<1>4. CASE dynamic # <<>>
  <2> DEFINE w == <<p>>
             t == UpdateRate + 1
             dest == Freed({Victim})
             T == Range(table)
             D == Range(dynamic)
  <2>1. AllocateDynamic(a, None, t, w) /\ to' = [dest EXCEPT ![p] = a]  BY <1>4 DEF SendFirst
  <2>2. w \in Seq(Packets) /\ Range(w) = {p} /\ IsInjective(w) /\ Len(w) = 1  BY Single
  <2>3. t \in Nat /\ t # 0 /\ 1 <= MaxDepth  BY ArpAssumption DEF ArpAssumption
  <2>4. PICK v \in Entries : v = Victim
    <3>1. Last(dynamic) \in Entries  BY <1>4, Facts, LastTaken
    <3> QED  BY <3>1 DEF Victim
  <2> DEFINE r == [ip |-> a, hw |-> None, timer |-> t, retries |-> 0, waiting |-> w]
             bare == [entry EXCEPT ![v] = [r EXCEPT !.waiting = <<>>]]
  <2>5. entry' = [entry EXCEPT ![v] = r]  BY <2>1, <2>4 DEF AllocateDynamic
  <2>6. HeldAtTheirs(bare, dest) /\ dest \in [Packets -> Addresses \cup {None}]
    <3> DEFINE G == {v}
    <3>1. /\ entry \in [Entries -> Records] /\ to \in [Packets -> Addresses \cup {None}]
          /\ AllFit(entry, T, D) /\ OneEntryEach(entry, T) /\ HeldAtTheirs(entry, to)
      BY Facts DEF IInv
    <3>2. /\ G \subseteq Entries
          /\ \A e \in G : bare[e].waiting = <<>>
          /\ \A e \in Entries \ G : bare[e].waiting = entry[e].waiting /\ bare[e].ip = entry[e].ip
      BY <3>1
    <3>3. dest = [x \in Packets |-> IF \E e \in G : x \in Range(entry[e].waiting) THEN None
                                    ELSE to[x]]
      BY <2>4, FreedIs
    <3> HIDE DEF G, bare, dest, T, D
    <3> QED  BY <3>1, <3>2, <3>3, HeldEmptied
  <2>7. HeldAtTheirs(entry', to') /\ to' \in [Packets -> Addresses \cup {None}]
    <3>1. /\ \A e \in Entries : e # v => entry'[e] = bare[e]
          /\ entry'[v].waiting = w /\ entry'[v].ip = a /\ bare[v].waiting = <<>>
      BY <2>4, <2>5, Facts
    <3>2. /\ to'[p] = a /\ \A x \in Packets : x # p => to'[x] = dest[x]
          /\ to' \in [Packets -> Addresses \cup {None}]
      BY <2>1, <2>6
    <3>3. dest[p] = None  BY <1>1, FreedIs
    <3> HIDE DEF bare, dest, w
    <3>4. ASSUME NEW e \in Entries, NEW x \in Range(entry'[e].waiting) PROVE to'[x] = entry'[e].ip
      <4>1. CASE e = v  BY <2>2, <3>1, <3>2, <3>4, <4>1
      <4>2. CASE e # v
        <5>1. x \in Range(bare[e].waiting) /\ entry'[e] = bare[e]  BY <3>1, <3>4, <4>2
        <5>2. dest[x] = bare[e].ip  BY <2>6, <5>1 DEF HeldAtTheirs
        <5>3. entry[e].waiting \in Seq(Packets) /\ entry'[e] = entry[e]
              /\ Fits(entry[e], e \in T, e \in D)
          BY <2>5, <4>2, Facts DEF IInv, AllFit
        <5>4. x \in Packets /\ entry[e].waiting # <<>>  BY <3>4, <5>3, RangeOfSeq DEF Range
        <5>5. bare[e].ip \in Addresses  BY <5>1, <5>3, <5>4 DEF Fits
        <5>6. x # p  BY <3>3, <5>2, <5>5, ArpAssumption DEF ArpAssumption
        <5> QED  BY <3>2, <5>1, <5>2, <5>4, <5>6
      <4> QED  BY <4>1, <4>2
    <3>5. ASSUME NEW x \in Packets, to'[x] # None
          PROVE  \E e \in Entries : x \in Range(entry'[e].waiting)
      <4>1. CASE x = p  BY <2>2, <2>4, <3>1, <4>1
      <4>2. CASE x # p
        <5>1. PICK e \in Entries : x \in Range(bare[e].waiting)
          BY <2>6, <3>2, <3>5, <4>2 DEF HeldAtTheirs
        <5>2. e # v  BY <3>1, <5>1 DEF Range
        <5> QED  BY <3>1, <5>1, <5>2
      <4> QED  BY <4>1, <4>2
    <3> QED  BY <3>2, <3>4, <3>5 DEF HeldAtTheirs
  <2>8. None \in {None, a} /\ (None = None => t # 0) /\ (w # <<>> => None = None /\ Len(w) <= MaxDepth)
    BY <2>2, <2>3
  <2> HIDE DEF w, t, bare, dest
  <2>9. IInv'
    BY <1>1, <1>4, <2>1, <2>2, <2>3, <2>7, <2>8, AllocateKept
  <2> QED  BY <1>2, <2>9
<1> QED  BY <1>3, <1>4

\* What waits at an entry of address a goes to a.
LEMMA Transmitted ==
    ASSUME IInv, NEW a, NEW e \in Entries, entry[e].ip = a,
           wire' = Transmission(entry[e].waiting, a)
    PROVE  SentToItsAddress'
<1>1. entry[e].waiting \in Seq(Packets) /\ HeldAtTheirs(entry, to)  BY Facts DEF IInv
<1>2. \A i \in DOMAIN entry[e].waiting : to[entry[e].waiting[i]] = a
  BY <1>1 DEF HeldAtTheirs, Range
<1>3. /\ DOMAIN wire' = DOMAIN entry[e].waiting
      /\ \A i \in DOMAIN wire' : wire'[i].dest = to[entry[e].waiting[i]] /\ wire'[i].hw = a
  BY DEF Transmission
<1> QED  BY <1>2, <1>3 DEF SentToItsAddress

\* An entry whose packets have been sent holds none.
LEMMA SentAway ==
    ASSUME IInv, NEW e \in Entries, NEW rs,
           rs[e].waiting = <<>>,
           \A f \in Entries \ {e} : rs[f].waiting = entry[f].waiting /\ rs[f].ip = entry[f].ip
    PROVE  /\ HeldAtTheirs(rs, Sent(entry[e].waiting))
           /\ Sent(entry[e].waiting) \in [Packets -> Addresses \cup {None}]
<1> DEFINE G == {e}
           dest == Sent(entry[e].waiting)
           T == Range(table)
           D == Range(dynamic)
<1>1. /\ entry \in [Entries -> Records] /\ to \in [Packets -> Addresses \cup {None}]
      /\ AllFit(entry, T, D) /\ OneEntryEach(entry, T) /\ HeldAtTheirs(entry, to)
  BY Facts DEF IInv
<1>2. /\ G \subseteq Entries
      /\ \A f \in G : rs[f].waiting = <<>>
      /\ \A f \in Entries \ G : rs[f].waiting = entry[f].waiting /\ rs[f].ip = entry[f].ip
  OBVIOUS
<1>3. dest = [x \in Packets |-> IF \E f \in G : x \in Range(entry[f].waiting) THEN None ELSE to[x]]
  BY DEF Sent
<1> HIDE DEF G, dest, T, D
<1>4. HeldAtTheirs(rs, dest) /\ dest \in [Packets -> Addresses \cup {None}]
  BY <1>1, <1>2, <1>3, HeldEmptied
<1> QED  BY <1>4 DEF dest

\* A dynamic entry learns its hardware address.
LEMMA LearnKept ==
    ASSUME IInv, NEW a \in Addresses, NEW e \in Find(a), e \notin Range(static),
           NEW t \in Nat, Learn(e, a, t), UNCHANGED <<table, dynamic, static, count>>
    PROVE  IInv' /\ SentToItsAddress'
<1> DEFINE T == Range(table)
           D == Range(dynamic)
           r == [ip |-> a, hw |-> a, timer |-> t, retries |-> 0, waiting |-> <<>>]
<1>1. /\ entry' = [entry EXCEPT ![e] = r]
      /\ wire' = Transmission(entry[e].waiting, a) /\ to' = Sent(entry[e].waiting)
  BY DEF Learn
<1>2. /\ e \in T /\ e \in Entries /\ e \in D /\ entry[e].ip = a
      /\ T \subseteq Entries /\ entry \in [Entries -> Records]
  BY Facts DEF Find
<1>3. r \in Records /\ r.ip = a /\ r.waiting = <<>> /\ Fits(r, e \in T, e \in D)
  <2>1. <<>> \in Seq(Packets) /\ IsInjective(<<>>)  BY DEF IsInjective
  <2>2. a # None  BY ArpAssumption DEF ArpAssumption
  <2> QED  BY <1>2, <2>1, <2>2 DEF Records, Fits
<1> HIDE DEF r
<1>4. entry' \in [Entries -> Records] /\ AllFit(entry', T, D)
  <2>1. AllFit(entry, T, D) /\ T \ {e} = T \ {e} /\ D \ {e} = D \ {e}  BY DEF IInv
  <2> HIDE DEF T, D
  <2> QED  BY <1>1, <1>2, <1>3, <2>1, EntryChanged
<1>5. /\ entry'[e].waiting = <<>>
      /\ \A f \in Entries : entry'[f].ip = entry[f].ip
      /\ \A f \in Entries \ {e} : entry'[f].waiting = entry[f].waiting
  BY <1>1, <1>2, <1>3
<1>6. OneEntryEach(entry', T)
  <2>1. OneEntryEach(entry, T)  BY DEF IInv
  <2> QED  BY <1>2, <1>5, <2>1 DEF OneEntryEach
<1>7. HeldAtTheirs(entry', to') /\ to' \in [Packets -> Addresses \cup {None}]
  <2>1. PICK rs : rs = entry'  OBVIOUS
  <2>2. \A f \in Entries \ {e} : rs[f].waiting = entry[f].waiting /\ rs[f].ip = entry[f].ip
    BY <1>5, <2>1
  <2>3. rs[e].waiting = <<>>  BY <1>5, <2>1
  <2>4. HeldAtTheirs(rs, Sent(entry[e].waiting))
        /\ Sent(entry[e].waiting) \in [Packets -> Addresses \cup {None}]
    BY <1>2, <2>2, <2>3, SentAway
  <2> QED  BY <1>1, <2>1, <2>4
<1>8. IInv'  BY <1>4, <1>6, <1>7 DEF IInv, TypeInv
<1>9. SentToItsAddress'  BY <1>1, <1>2, Transmitted
<1> QED  BY <1>8, <1>9

\* The last dynamic entry is given to an address before a packet waits for it.
LEMMA AllocateBareKept ==
    ASSUME IInv, dynamic # <<>>, NEW a \in Addresses, Find(a) = {},
           NEW hw \in {None, a}, NEW t \in Nat, hw = None => t # 0,
           AllocateDynamic(a, hw, t, Left(Victim)), to' = Freed({Victim})
    PROVE  IInv'
<1> DEFINE T == Range(table)
           D == Range(dynamic)
           dest == Freed({Victim})
           w == <<>>
<1>1. AllocateDynamic(a, hw, t, w)  BY DEF Left
<1>2. PICK v \in Entries : v = Victim
  <2>1. Last(dynamic) \in Entries  BY Facts, LastTaken
  <2> QED  BY <2>1 DEF Victim
<1>3. HeldAtTheirs(entry', dest) /\ dest \in [Packets -> Addresses \cup {None}]
  <2> DEFINE G == {v}
  <2>1. /\ entry \in [Entries -> Records] /\ to \in [Packets -> Addresses \cup {None}]
        /\ AllFit(entry, T, D) /\ OneEntryEach(entry, T) /\ HeldAtTheirs(entry, to)
    BY Facts DEF IInv
  <2>2. PICK rs : rs = entry'  OBVIOUS
  <2>3. /\ G \subseteq Entries
        /\ \A e \in G : rs[e].waiting = <<>>
        /\ \A e \in Entries \ G : rs[e].waiting = entry[e].waiting /\ rs[e].ip = entry[e].ip
    BY <1>1, <1>2, <2>1, <2>2 DEF AllocateDynamic
  <2>4. dest = [x \in Packets |-> IF \E e \in G : x \in Range(entry[e].waiting) THEN None
                                  ELSE to[x]]
    BY <1>2, FreedIs
  <2> HIDE DEF G, dest, T, D
  <2>5. HeldAtTheirs(rs, dest) /\ dest \in [Packets -> Addresses \cup {None}]
    BY <2>1, <2>3, <2>4, HeldEmptied
  <2> QED  BY <2>2, <2>5
<1>4. w \in Seq(Packets) /\ IsInjective(w) /\ (w # <<>> => hw = None /\ Len(w) <= MaxDepth)
  BY DEF IsInjective
<1>5. HeldAtTheirs(entry', to') /\ to' \in [Packets -> Addresses \cup {None}]  BY <1>3
<1> HIDE DEF w, dest
<1> QED  BY <1>1, <1>4, <1>5, AllocateKept

\* nx_arp_packet_receive and nx_arp_dynamic_entry_set with the address known.
LEMMA ReceiveKept ==
    ASSUME IInv, NEW a \in Addresses, Receive(a)
    PROVE  IInv' /\ SentToItsAddress'
<1>1. ExpirationRate \in Nat /\ a # None  BY ArpAssumption DEF ArpAssumption
<1>2. CASE Find(a) # {}
  <2>1. PICK e \in Find(a) :
          /\ IF e \in Range(static) THEN wire' = <<>> /\ UNCHANGED <<entry, to>>
             ELSE Learn(e, a, ExpirationRate)
          /\ UNCHANGED <<table, dynamic, static, count>>
    BY <1>2 DEF Receive
  <2>2. CASE e \in Range(static)
    <3>1. wire' = <<>> /\ UNCHANGED <<table, dynamic, static, count, entry, to>>  BY <2>1, <2>2
    <3> QED  BY <3>1, NothingChanged DEF SentToItsAddress
  <2>3. CASE e \notin Range(static)  BY <1>1, <2>1, <2>3, LearnKept
  <2> QED  BY <2>2, <2>3
<1>3. CASE Find(a) = {}
  <2>1. wire' = <<>>  BY <1>3 DEF Receive
  <2>2. SentToItsAddress'  BY <2>1 DEF SentToItsAddress
  <2>3. CASE dynamic = <<>>
    <3>1. UNCHANGED <<table, dynamic, static, count, entry, to>>  BY <1>3, <2>3 DEF Receive
    <3> QED  BY <2>2, <3>1, NothingChanged
  <2>4. CASE dynamic # <<>>
    <3>1. AllocateDynamic(a, a, ExpirationRate, Left(Victim)) /\ to' = Freed({Victim})
      BY <1>3, <2>4 DEF Receive
    <3> QED  BY <1>1, <1>3, <2>2, <2>4, <3>1, AllocateBareKept
  <2> QED  BY <2>3, <2>4
<1> QED  BY <1>2, <1>3

\* nx_arp_dynamic_entry_set without a hardware address: the timer runs from the start.
LEMMA DynamicResolveKept ==
    ASSUME IInv, NEW a \in Addresses, DynamicResolve(a)
    PROVE  IInv' /\ SentToItsAddress'
<1> DEFINE t == UpdateRate + 1
           T == Range(table)
           D == Range(dynamic)
<1>1. wire' = <<>> /\ Find(a) \cap Range(static) = {}  BY Zenon DEF DynamicResolve
<1>2. SentToItsAddress'  BY <1>1 DEF SentToItsAddress
<1>3. t \in Nat /\ t # 0  BY ArpAssumption DEF ArpAssumption
<1>4. CASE Find(a) # {}
  <2>1. PICK e \in Find(a) :
          /\ entry' = [entry EXCEPT ![e].hw = None, ![e].retries = 0, ![e].timer = t]
          /\ UNCHANGED <<table, dynamic, static, count, to>>
    BY <1>4, Zenon DEF DynamicResolve
  <2> DEFINE r == [entry[e] EXCEPT !.hw = None, !.retries = 0, !.timer = t]
  <2>2. e \in T /\ e \in Entries /\ e \in D /\ entry \in [Entries -> Records] /\ T \subseteq Entries
    BY <1>1, Facts DEF Find
  <2>3. entry' = [entry EXCEPT ![e] = r]  BY <2>1, <2>2
  <2>4. /\ r \in Records /\ r.ip = entry[e].ip /\ r.waiting = entry[e].waiting
        /\ r.hw = None /\ r.timer = t
    BY <1>3, <2>2 DEF Records
  <2> HIDE DEF r, t
  <2>5. Fits(r, e \in T, e \in D)
    <3>1. Fits(entry[e], e \in T, e \in D)  BY <2>2 DEF IInv, AllFit
    <3> QED  BY <1>3, <2>2, <2>4, <3>1 DEF Fits
  <2>6. entry' \in [Entries -> Records] /\ AllFit(entry', T, D)
    <3>1. AllFit(entry, T, D) /\ T \ {e} = T \ {e} /\ D \ {e} = D \ {e}  BY DEF IInv
    <3> HIDE DEF T, D
    <3> QED  BY <2>2, <2>3, <2>4, <2>5, <3>1, EntryChanged
  <2>7. \A f \in Entries : entry'[f].ip = entry[f].ip /\ entry'[f].waiting = entry[f].waiting
    BY <2>2, <2>3, <2>4
  <2>8. OneEntryEach(entry', T) /\ HeldAtTheirs(entry', to')
    <3>1. OneEntryEach(entry, T) /\ HeldAtTheirs(entry, to) /\ to' = to  BY <2>1 DEF IInv
    <3> QED  BY <2>2, <2>7, <3>1 DEF OneEntryEach, HeldAtTheirs
  <2>9. IInv'  BY <2>1, <2>6, <2>8 DEF IInv, TypeInv
  <2> QED  BY <1>2, <2>9
<1>5. CASE Find(a) = {}
  <2>1. CASE dynamic = <<>>
    <3>1. UNCHANGED <<table, dynamic, static, count, entry, to>>  BY <1>5, <2>1 DEF DynamicResolve
    <3> QED  BY <1>2, <3>1, NothingChanged
  <2>2. CASE dynamic # <<>>
    <3>1. AllocateDynamic(a, None, t, Left(Victim)) /\ to' = Freed({Victim})
      BY <1>5, <2>2 DEF DynamicResolve
    <3> HIDE DEF t
    <3> QED  BY <1>2, <1>3, <1>5, <2>2, <3>1, AllocateBareKept
  <2> QED  BY <2>1, <2>2
<1> QED  BY <1>4, <1>5

\* A static entry is created over one that is there, and sends what waits in it.
LEMMA StaticFoundKept ==
    ASSUME IInv, NEW a \in Addresses, NEW e \in Find(a), StaticCreateFound(e, a)
    PROVE  IInv' /\ SentToItsAddress'
<1> DEFINE T == Range(table)
           D == Range(dynamic)
           S == Range(static)
           D2 == D \ {e}
           r == [entry[e] EXCEPT !.timer = 0, !.hw = a, !.waiting = <<>>]
<1>1. /\ entry' = [entry EXCEPT ![e].timer = 0, ![e].hw = a, ![e].waiting = <<>>]
      /\ wire' = Transmission(entry[e].waiting, a) /\ to' = Sent(entry[e].waiting)
      /\ dynamic' = Without(dynamic, {e})
      /\ static' = IF e \in S THEN static ELSE Append(static, e)
      /\ count' = IF e \in S THEN count ELSE count - 1
      /\ table' = table
  BY DEF StaticCreateFound
<1>2. /\ e \in T /\ e \in Entries /\ entry[e].ip = a /\ (e \in S <=> e \notin D)
      /\ T \subseteq Entries /\ entry \in [Entries -> Records] /\ S \subseteq Entries
      /\ table \in Seq(Entries) /\ IsInjective(table)
      /\ dynamic \in Seq(Entries) /\ IsInjective(dynamic)
      /\ static \in Seq(Entries) /\ IsInjective(static)
      /\ Shared(T, D, S, count) /\ count \in Nat
  BY Facts DEF Find, IInv
<1>3. entry' = [entry EXCEPT ![e] = r]  BY <1>1, <1>2
<1>4. r \in Records /\ r.ip = a /\ r.waiting = <<>> /\ r.hw = a
  <2>1. PICK x \in Records : x = entry[e]  BY <1>2
  <2>2. r = [x EXCEPT !.timer = 0, !.hw = a, !.waiting = <<>>]  BY <2>1
  <2>3. <<>> \in Seq(Packets)  OBVIOUS
  <2> QED  BY <1>2, <2>1, <2>2, <2>3 DEF Records
<1> HIDE DEF r
<1>5. Fits(r, e \in T, e \in D2)
  <2>1. a # None /\ IsInjective(<<>>)  BY ArpAssumption DEF ArpAssumption, IsInjective
  <2> QED  BY <1>2, <1>4, <2>1 DEF Fits
<1>6. entry' \in [Entries -> Records] /\ AllFit(entry', T, D2)
  <2>1. AllFit(entry, T, D) /\ T \ {e} = T \ {e} /\ D2 \ {e} = D \ {e}  BY DEF IInv
  <2> HIDE DEF T, D, D2
  <2> QED  BY <1>2, <1>3, <1>4, <1>5, <2>1, EntryChanged
<1>7. /\ entry'[e].waiting = <<>>
      /\ \A f \in Entries : entry'[f].ip = entry[f].ip
      /\ \A f \in Entries \ {e} : entry'[f].waiting = entry[f].waiting
  BY <1>2, <1>3, <1>4
<1>8. OneEntryEach(entry', T)
  <2>1. OneEntryEach(entry, T)  BY DEF IInv
  <2> QED  BY <1>2, <1>7, <2>1 DEF OneEntryEach
<1>9. HeldAtTheirs(entry', to') /\ to' \in [Packets -> Addresses \cup {None}]
  <2>1. PICK rs : rs = entry'  OBVIOUS
  <2>2. \A f \in Entries \ {e} : rs[f].waiting = entry[f].waiting /\ rs[f].ip = entry[f].ip
    BY <1>7, <2>1
  <2>3. rs[e].waiting = <<>>  BY <1>7, <2>1
  <2>4. HeldAtTheirs(rs, Sent(entry[e].waiting))
        /\ Sent(entry[e].waiting) \in [Packets -> Addresses \cup {None}]
    BY <1>2, <2>2, <2>3, SentAway
  <2> QED  BY <1>1, <2>1, <2>4
<1>10. dynamic' \in Seq(Entries) /\ IsInjective(dynamic') /\ Range(dynamic') = D2
  BY <1>1, <1>2, WithoutIs
<1>11. /\ static' \in Seq(Entries) /\ IsInjective(static')
       /\ count' \in Nat /\ Shared(T, D2, Range(static'), count')
  <2>1. CASE e \in S
    <3>1. D2 = D /\ static' = static /\ count' = count  BY <1>1, <1>2, <2>1
    <3> QED  BY <1>2, <3>1
  <2>2. CASE e \notin S
    <3>1. static' = Append(static, e) /\ count' = count - 1 /\ e \in D  BY <1>1, <1>2, <2>2
    <3>2. static' \in Seq(Entries) /\ IsInjective(static') /\ Range(static') = S \cup {e}
      BY <1>2, <2>2, <3>1, Appended
    <3>3. T \cup {e} = T  BY <1>2
    <3>4. Shared(T, D2, S \cup {e}, count - 1)
      <4>1. Shared(T, D, S, count) /\ e \in D /\ e \in T  BY <1>2, <3>1
      <4> HIDE DEF T, D, S
      <4>2. Shared(T \cup {e}, D \ {e}, S \cup {e}, IF e \in T THEN count - 1 ELSE count)
        BY <4>1, SharedStatic
      <4> QED  BY <3>3, <4>1, <4>2 DEF D2
    <3>5. count - 1 \in Nat
      <4>1. T \cap D2 \subseteq Entries /\ count - 1 = Cardinality(T \cap D2)
        BY <1>2, <3>4 DEF Shared
      <4> QED  BY <4>1, PartIsFinite
    <3> QED  BY <3>1, <3>2, <3>4, <3>5
  <2> QED  BY <2>1, <2>2
<1>12. IInv'
  <2>1. table' = table  BY <1>1
  <2> HIDE DEF D2
  <2> QED  BY <1>2, <1>6, <1>8, <1>9, <1>10, <1>11, <2>1, Parts
<1>13. SentToItsAddress'  BY <1>1, <1>2, Transmitted
<1> QED  BY <1>12, <1>13

\* The last dynamic entry becomes a static one; packets that waited in it are released.
LEMMA StaticNewKept ==
    ASSUME IInv, NEW a \in Addresses, StaticCreateNew(a)
    PROVE  IInv' /\ SentToItsAddress'
<1> DEFINE T == Range(table)
           D == Range(dynamic)
           S == Range(static)
<1>1. PICK v : v = Victim  OBVIOUS
<1>2. /\ Find(a) = {} /\ dynamic # <<>> /\ wire' = <<>>
      /\ entry' = [entry EXCEPT ![v].timer = 0, ![v].ip = a, ![v].hw = a, ![v].waiting = <<>>]
      /\ table' = Append(Without(table, {v}), v) /\ dynamic' = Front(dynamic)
      /\ static' = Append(static, v)
      /\ count' = IF v \in T THEN count - 1 ELSE count
      /\ to' = Freed({v})
  BY <1>1 DEF StaticCreateNew, Allocated, Active, Left
<1>3. /\ T \subseteq Entries /\ entry \in [Entries -> Records] /\ S \subseteq Entries
      /\ table \in Seq(Entries) /\ IsInjective(table)
      /\ dynamic \in Seq(Entries) /\ IsInjective(dynamic)
      /\ static \in Seq(Entries) /\ IsInjective(static)
      /\ Shared(T, D, S, count) /\ count \in Nat /\ D \cap S = {}
  BY Facts DEF IInv
<1>4. /\ v \in D /\ v \in Entries /\ v \notin S
      /\ dynamic' \in Seq(Entries) /\ IsInjective(dynamic') /\ Range(dynamic') = D \ {v}
  <2>1. /\ v \in Entries /\ v \in D /\ dynamic' \in Seq(Entries) /\ IsInjective(dynamic')
        /\ D = Range(dynamic') \cup {v} /\ v \notin Range(dynamic')
    BY <1>1, <1>2, <1>3, LastTaken DEF Victim
  <2> QED  BY <1>3, <2>1
<1>5. table' \in Seq(Entries) /\ Range(table') = T \cup {v} /\ IsInjective(table')
  <2> DEFINE s == Without(table, {v})
  <2>1. s \in Seq(Entries) /\ Range(s) = T \ {v} /\ IsInjective(s)  BY <1>3, WithoutIs
  <2>2. table' = Append(s, v)  BY <1>2
  <2> HIDE DEF s
  <2> QED  BY <1>4, <2>1, <2>2, Appended
<1>6. static' \in Seq(Entries) /\ Range(static') = S \cup {v} /\ IsInjective(static')
  BY <1>2, <1>3, <1>4, Appended
<1>7. Shared(T \cup {v}, D \ {v}, S \cup {v}, count') /\ count' \in Nat
  <2>1. Shared(T \cup {v}, D \ {v}, S \cup {v}, IF v \in T THEN count - 1 ELSE count)
    <3> HIDE DEF T, D, S
    <3> QED  BY <1>3, <1>4, SharedStatic
  <2>2. Shared(T \cup {v}, D \ {v}, S \cup {v}, count')  BY <1>2, <2>1
  <2>3. /\ (T \cup {v}) \cap (D \ {v}) \subseteq Entries
        /\ count' = Cardinality((T \cup {v}) \cap (D \ {v}))
    BY <1>3, <2>2 DEF Shared
  <2> QED  BY <2>2, <2>3, PartIsFinite
<1> DEFINE r == [entry[v] EXCEPT !.timer = 0, !.ip = a, !.hw = a, !.waiting = <<>>]
           T2 == T \cup {v}
           D2 == D \ {v}
<1>8. entry' = [entry EXCEPT ![v] = r]  BY <1>2, <1>3, <1>4
<1>9. r \in Records /\ r.ip = a /\ r.waiting = <<>> /\ r.hw = a
  <2>1. PICK x \in Records : x = entry[v]  BY <1>3, <1>4
  <2>2. r = [x EXCEPT !.timer = 0, !.ip = a, !.hw = a, !.waiting = <<>>]  BY <2>1
  <2>3. <<>> \in Seq(Packets)  OBVIOUS
  <2> QED  BY <2>1, <2>2, <2>3 DEF Records
<1> HIDE DEF r
<1>10. Fits(r, v \in T2, v \in D2)
  <2>1. a # None /\ IsInjective(<<>>)  BY ArpAssumption DEF ArpAssumption, IsInjective
  <2> QED  BY <1>9, <2>1 DEF Fits
<1>11. entry' \in [Entries -> Records] /\ AllFit(entry', T2, D2)
  <2>1. AllFit(entry, T, D) /\ T2 \ {v} = T \ {v} /\ D2 \ {v} = D \ {v}  BY DEF IInv
  <2> HIDE DEF T, D, T2, D2
  <2> QED  BY <1>3, <1>4, <1>8, <1>9, <1>10, <2>1, EntryChanged
<1>12. OneEntryEach(entry', T2)
  <2>1. \A e \in T : entry[e].ip # a  BY <1>2 DEF Find
  <2>2. OneEntryEach(entry, T)  BY DEF IInv
  <2>3. entry'[v].ip = a /\ \A e \in T : e # v => entry'[e].ip = entry[e].ip
    BY <1>3, <1>4, <1>8, <1>9
  <2> QED  BY <2>1, <2>2, <2>3 DEF OneEntryEach
<1>13. HeldAtTheirs(entry', to') /\ to' \in [Packets -> Addresses \cup {None}]
  <2> DEFINE G == {v}
             dest == Freed(G)
  <2>1. /\ entry \in [Entries -> Records] /\ to \in [Packets -> Addresses \cup {None}]
        /\ AllFit(entry, T, D) /\ OneEntryEach(entry, T) /\ HeldAtTheirs(entry, to)
    BY Facts DEF IInv
  <2>2. PICK rs : rs = entry'  OBVIOUS
  <2>3. /\ G \subseteq Entries
        /\ \A e \in G : rs[e].waiting = <<>>
        /\ \A e \in Entries \ G : rs[e].waiting = entry[e].waiting /\ rs[e].ip = entry[e].ip
    BY <1>3, <1>4, <1>8, <1>9, <2>2
  <2>4. dest = [x \in Packets |-> IF \E e \in G : x \in Range(entry[e].waiting) THEN None
                                  ELSE to[x]]
    BY FreedIs
  <2>5. to' = dest  BY <1>2
  <2> HIDE DEF G, dest, T, D
  <2>6. HeldAtTheirs(rs, dest) /\ dest \in [Packets -> Addresses \cup {None}]
    BY <2>1, <2>3, <2>4, HeldEmptied
  <2> QED  BY <2>2, <2>5, <2>6
<1>14. IInv'
  BY <1>4, <1>5, <1>6, <1>7, <1>11, <1>12, <1>13, Parts
<1>15. SentToItsAddress'  BY <1>2 DEF SentToItsAddress
<1> QED  BY <1>14, <1>15

\* Dynamic entries in use are given up and release their packets; the others are
\* what they were, but for their timers.
LEMMA GivenUp ==
    ASSUME IInv, NEW G, G \subseteq Range(table) \cap Range(dynamic),
           table' = Without(table, G), static' = static, to' = Freed(G),
           count' = count - Cardinality(G),
           dynamic' \in Seq(Entries), IsInjective(dynamic'), Range(dynamic') = Range(dynamic),
           entry' \in [Entries -> Records],
           \A e \in G : entry'[e].waiting = <<>>,
           \A e \in Entries \ G :
              /\ entry'[e].waiting = entry[e].waiting /\ entry'[e].ip = entry[e].ip
              /\ Fits(entry'[e], e \in Range(table), e \in Range(dynamic))
    PROVE  IInv'
<1> DEFINE T == Range(table)
           D == Range(dynamic)
           S == Range(static)
           T2 == T \ G
<1>1. /\ T \subseteq Entries /\ G \subseteq Entries
      /\ table \in Seq(Entries) /\ IsInjective(table)
      /\ static \in Seq(Entries) /\ IsInjective(static)
      /\ Shared(T, D, S, count)
  BY Facts DEF IInv
<1>2. table' \in Seq(Entries) /\ IsInjective(table') /\ Range(table') = T2
  BY <1>1, WithoutIs
<1>3. Shared(T2, D, S, count') /\ count' \in Nat
  <2>1. G \subseteq T \cap D  OBVIOUS
  <2> HIDE DEF T, D, S
  <2>2. Shared(T \ G, D, S, count - Cardinality(G)) /\ count - Cardinality(G) \in Nat
    BY <1>1, <2>1, SharedDeleted
  <2> QED  BY <2>2
<1>4. AllFit(entry', T2, D)
  <2> SUFFICES ASSUME NEW e \in Entries PROVE Fits(entry'[e], e \in T2, e \in D)  BY DEF AllFit
  <2>1. CASE e \in G
    <3>1. e \notin T2 /\ entry'[e].waiting = <<>> /\ IsInjective(<<>>)  BY <2>1 DEF IsInjective
    <3> QED  BY <3>1 DEF Fits
  <2>2. CASE e \notin G
    <3>1. e \in T2 <=> e \in T  BY <2>2
    <3>2. Fits(entry'[e], e \in T, e \in D)  BY <2>2
    <3> QED  BY <3>1, <3>2, Zenon DEF Fits
  <2> QED  BY <2>1, <2>2
<1>5. OneEntryEach(entry', T2)
  <2>1. OneEntryEach(entry, T)  BY DEF IInv
  <2>2. \A e \in T2 : e \in T /\ entry'[e].ip = entry[e].ip  BY <1>1
  <2> QED  BY <2>1, <2>2 DEF OneEntryEach
<1>6. HeldAtTheirs(entry', to') /\ to' \in [Packets -> Addresses \cup {None}]
  <2> DEFINE dest == Freed(G)
  <2>1. /\ entry \in [Entries -> Records] /\ to \in [Packets -> Addresses \cup {None}]
        /\ AllFit(entry, T, D) /\ OneEntryEach(entry, T) /\ HeldAtTheirs(entry, to)
    BY Facts DEF IInv
  <2>2. PICK rs : rs = entry'  OBVIOUS
  <2>3. /\ G \subseteq Entries
        /\ \A e \in G : rs[e].waiting = <<>>
        /\ \A e \in Entries \ G : rs[e].waiting = entry[e].waiting /\ rs[e].ip = entry[e].ip
    BY <1>1, <2>2
  <2>4. dest = [x \in Packets |-> IF \E e \in G : x \in Range(entry[e].waiting) THEN None
                                  ELSE to[x]]
    BY FreedIs
  <2>5. to' = dest  OBVIOUS
  <2> HIDE DEF dest, T, D
  <2>6. HeldAtTheirs(rs, dest) /\ dest \in [Packets -> Addresses \cup {None}]
    BY <2>1, <2>3, <2>4, HeldEmptied, SMTT(30)
  <2> QED  BY <2>2, <2>5, <2>6
<1> QED  BY <1>1, <1>2, <1>3, <1>4, <1>5, <1>6, Parts

\* nx_arp_dynamic_entry_delete for some entries.
LEMMA DynamicDeleteKept ==
    ASSUME IInv, NEW G, G \subseteq Range(table) \cap Range(dynamic), DynamicDelete(G)
    PROVE  IInv' /\ SentToItsAddress'
<1>1. /\ entry' = [e \in Entries |-> IF e \in G THEN [entry[e] EXCEPT !.waiting = <<>>]
                                     ELSE entry[e]]
      /\ table' = Without(table, G) /\ static' = static /\ to' = Freed(G) /\ dynamic' = dynamic
      /\ count' = count - Cardinality(G) /\ wire' = <<>>
  BY DEF DynamicDelete, Left
<1>2. \A e \in Entries : [entry[e] EXCEPT !.waiting = <<>>] \in Records
  <2> SUFFICES ASSUME NEW e \in Entries PROVE [entry[e] EXCEPT !.waiting = <<>>] \in Records
    OBVIOUS
  <2>1. PICK x \in Records : x = entry[e]  BY Facts
  <2>2. <<>> \in Seq(Packets)  OBVIOUS
  <2> QED  BY <2>1, <2>2 DEF Records
<1>3. /\ entry \in [Entries -> Records] /\ G \subseteq Entries
      /\ dynamic \in Seq(Entries) /\ IsInjective(dynamic)
      /\ AllFit(entry, Range(table), Range(dynamic))
  BY Facts DEF IInv
<1>4. entry' \in [Entries -> Records]  BY <1>1, <1>2, <1>3
<1>5. \A e \in G : entry'[e].waiting = <<>>
  <2> SUFFICES ASSUME NEW e \in G PROVE entry'[e].waiting = <<>>  OBVIOUS
  <2>1. PICK x \in Records : x = entry[e]  BY <1>3
  <2>2. entry'[e] = [x EXCEPT !.waiting = <<>>]  BY <1>1, <1>3, <2>1
  <2> QED  BY <2>1, <2>2 DEF Records
<1>6. \A e \in Entries \ G : entry'[e] = entry[e]  BY <1>1
<1>7. \A e \in Entries \ G : /\ entry'[e].waiting = entry[e].waiting /\ entry'[e].ip = entry[e].ip
                             /\ Fits(entry'[e], e \in Range(table), e \in Range(dynamic))
  <2> SUFFICES ASSUME NEW e \in Entries \ G
               PROVE  /\ entry'[e].waiting = entry[e].waiting /\ entry'[e].ip = entry[e].ip
                      /\ Fits(entry'[e], e \in Range(table), e \in Range(dynamic))
    OBVIOUS
  <2>1. entry'[e] = entry[e]  BY <1>6
  <2>2. Fits(entry[e], e \in Range(table), e \in Range(dynamic))  BY <1>3 DEF AllFit
  <2> QED  BY <2>1, <2>2
<1>8. dynamic' \in Seq(Entries) /\ IsInjective(dynamic') /\ Range(dynamic') = Range(dynamic)
  BY <1>1, <1>3
<1>9. IInv'  BY <1>1, <1>4, <1>5, <1>7, <1>8, GivenUp
<1> QED  BY <1>1, <1>9 DEF SentToItsAddress

\* Static entries go back to the dynamic list.
LEMMA StaticDeleteKept ==
    ASSUME IInv, NEW gone \in Seq(Entries), IsInjective(gone), Range(gone) \subseteq Range(static),
           StaticDelete(gone)
    PROVE  IInv' /\ SentToItsAddress'
<1> DEFINE T == Range(table)
           D == Range(dynamic)
           S == Range(static)
           G == Range(gone)
           T2 == T \ G
           D2 == D \cup G
<1>1. /\ table' = Without(table, G) /\ static' = Without(static, G) /\ dynamic' = dynamic \o gone
      /\ wire' = <<>> /\ UNCHANGED <<count, entry, to>>
  BY DEF StaticDelete
<1>2. /\ T \subseteq Entries /\ entry \in [Entries -> Records] /\ S \subseteq Entries
      /\ to \in [Packets -> Addresses \cup {None}]
      /\ table \in Seq(Entries) /\ IsInjective(table)
      /\ dynamic \in Seq(Entries) /\ IsInjective(dynamic)
      /\ static \in Seq(Entries) /\ IsInjective(static)
      /\ Shared(T, D, S, count) /\ count \in Nat /\ D \cap S = {}
      /\ OneEntryEach(entry, T) /\ HeldAtTheirs(entry, to) /\ AllFit(entry, T, D)
  BY Facts DEF IInv
<1>3. table' \in Seq(Entries) /\ IsInjective(table') /\ Range(table') = T2
  BY <1>1, <1>2, WithoutIs
<1>4. static' \in Seq(Entries) /\ IsInjective(static') /\ Range(static') = S \ G
  BY <1>1, <1>2, WithoutIs
<1>5. dynamic' \in Seq(Entries) /\ IsInjective(dynamic') /\ Range(dynamic') = D2
  <2>1. Range(dynamic) \cap Range(gone) = {}  BY <1>2
  <2> QED  BY <1>1, <1>2, <2>1, Joined
<1>6. Shared(T2, D2, S \ G, count)
  <2>1. G \subseteq S  OBVIOUS
  <2> HIDE DEF T, D, S, G
  <2> QED  BY <1>2, <2>1, SharedReturned
<1>7. AllFit(entry, T2, D2)
  <2> SUFFICES ASSUME NEW e \in Entries PROVE Fits(entry[e], e \in T2, e \in D2)  BY DEF AllFit
  <2>1. Fits(entry[e], e \in T, e \in D)  BY <1>2 DEF AllFit
  <2>2. CASE e \in G
    <3>1. e \notin T2 /\ e \notin D  BY <1>2, <2>2
    <3> QED  BY <2>1, <3>1 DEF Fits
  <2>3. CASE e \notin G
    <3>1. (e \in T2 <=> e \in T) /\ (e \in D2 <=> e \in D)  BY <2>3
    <3> QED  BY <2>1, <3>1, Zenon DEF Fits
  <2> QED  BY <2>2, <2>3
<1>8. OneEntryEach(entry, T2)  BY <1>2 DEF OneEntryEach
<1> HIDE DEF T2, D2
<1>9. IInv'  BY <1>1, <1>2, <1>3, <1>4, <1>5, <1>6, <1>7, <1>8, Parts
<1> QED  BY <1>1, <1>9 DEF SentToItsAddress

\* nx_arp_entry_delete
LEMMA EntryDeleteKept ==
    ASSUME IInv, NEW a \in Addresses, EntryDelete(a)
    PROVE  IInv' /\ SentToItsAddress'
<1>1. PICK e \in Find(a) : IF e \in Range(static) THEN StaticDelete(<<e>>) ELSE DynamicDelete({e})
  BY DEF EntryDelete
<1>2. e \in Range(table) /\ e \in Entries /\ (e \in Range(static) \/ e \in Range(dynamic))
  BY Facts DEF Find
<1>3. CASE e \in Range(static)
  <2> DEFINE gone == <<e>>
  <2>1. gone \in Seq(Entries) /\ Range(gone) = {e} /\ IsInjective(gone)  BY <1>2, Single
  <2>2. StaticDelete(gone)  BY <1>1, <1>3
  <2> HIDE DEF gone
  <2> QED  BY <1>3, <2>1, <2>2, StaticDeleteKept
<1>4. CASE e \notin Range(static)
  <2> DEFINE G == {e}
  <2>1. DynamicDelete(G) /\ G \subseteq Range(table) \cap Range(dynamic)  BY <1>1, <1>2, <1>4
  <2> HIDE DEF G
  <2> QED  BY <2>1, DynamicDeleteKept
<1> QED  BY <1>3, <1>4

\* nx_arp_static_entries_delete
LEMMA StaticEntriesDeleteKept ==
    ASSUME IInv, StaticEntriesDelete
    PROVE  IInv' /\ SentToItsAddress'
<1>1. PICK gone \in Seq(Entries) : gone = static  BY Facts
<1>2. IsInjective(gone) /\ Range(gone) \subseteq Range(static) /\ StaticDelete(gone)
  BY <1>1 DEF StaticEntriesDelete, IInv
<1> QED  BY <1>2, StaticDeleteKept

\* nx_arp_dynamic_entries_invalidate: the count is right, so it deletes them all.
LEMMA DynamicInvalidateKept ==
    ASSUME IInv, DynamicInvalidate
    PROVE  IInv' /\ SentToItsAddress'
<1> DEFINE used == Only(dynamic, Range(table))
<1>1. /\ used \in Seq(Entries) /\ IsInjective(used)
      /\ Range(used) = Range(dynamic) \cap Range(table)
  BY Facts, OnlyIs DEF IInv
<1>2. DynamicDelete(Range(SubSeq(used, 1, count)))  BY DEF DynamicInvalidate
<1> HIDE DEF used
<1>3. count = Len(used)
  <2>1. Cardinality(Range(used)) = Len(used)  BY <1>1, LenIsCardinality
  <2>2. count = Cardinality(Range(table) \cap Range(dynamic))  BY DEF IInv, Shared
  <2>3. Range(used) = Range(table) \cap Range(dynamic)  BY <1>1
  <2> QED  BY <2>1, <2>2, <2>3
<1>4. SubSeq(used, 1, count) = used  BY <1>1, <1>3, SubSeqFull
<1>5. PICK G : G = Range(used)  OBVIOUS
<1>6. DynamicDelete(G) /\ G \subseteq Range(table) \cap Range(dynamic)  BY <1>1, <1>2, <1>4, <1>5
<1> QED  BY <1>6, DynamicDeleteKept

\* A tick leaves an entry its address and its packets, and its timer running.
LEMMA TickedFits ==
    ASSUME NEW r \in Records, r.timer # 0, NEW used, NEW isDynamic, Fits(r, used, isDynamic)
    PROVE  /\ Ticked(r) \in Records /\ Ticked(r).ip = r.ip /\ Ticked(r).waiting = r.waiting
           /\ Fits(Ticked(r), used, isDynamic)
<1> DEFINE q == Ticked(r)
<1>1. q \in Records /\ q.ip = r.ip /\ q.hw = r.hw /\ q.waiting = r.waiting /\ q.timer # 0
  <2>1. UpdateRate \in Nat \ {0}  BY ArpAssumption DEF ArpAssumption
  <2>2. CASE r.timer = 1
    <3>1. q = [r EXCEPT !.timer = UpdateRate, !.retries = @ + 1]  BY <2>2 DEF Ticked
    <3>2. r.retries + 1 \in Nat  BY DEF Records
    <3> HIDE DEF q
    <3> QED  BY <2>1, <3>1, <3>2 DEF Records
  <2>3. CASE r.timer # 1
    <3>1. q = [r EXCEPT !.timer = @ - 1]  BY <2>3 DEF Ticked
    <3>2. r.timer - 1 \in Nat /\ r.timer - 1 # 0  BY <2>3 DEF Records
    <3> HIDE DEF q
    <3> QED  BY <3>1, <3>2 DEF Records
  <2> QED  BY <2>2, <2>3
<1> HIDE DEF q
<1>2. Fits(q, used, isDynamic)  BY <1>1 DEF Fits
<1> QED  BY <1>1, <1>2 DEF q

\* nx_arp_periodic_update: what has used up its retries is given up, the rest ticks on.
LEMMA PeriodicUpdateKept ==
    ASSUME IInv, PeriodicUpdate
    PROVE  IInv' /\ SentToItsAddress'
<1> DEFINE T == Range(table)
           D == Range(dynamic)
           timed == {e \in D : Active(e) /\ entry[e].timer # 0}
           expired == {e \in timed : entry[e].timer = 1 /\ entry[e].retries = MaxRetries}
<1>1. PICK G : G = expired  OBVIOUS
<1>2. PICK W : W = timed  OBVIOUS
<1> DEFINE given(e) == [entry[e] EXCEPT !.timer = 0, !.waiting = Left(e)]
           ticked(e) == Ticked(entry[e])
<1>0. entry' = [e \in Entries |-> IF e \in G THEN given(e)
                                   ELSE IF e \in W THEN ticked(e) ELSE entry[e]]
  BY <1>1, <1>2, Zenon DEF PeriodicUpdate
<1>3. /\ table' = Without(table, G) /\ static' = static /\ to' = Freed(G)
      /\ dynamic' = Without(dynamic, G) \o Only(dynamic, G)
      /\ count' = count - Cardinality(G) /\ wire' = <<>>
  BY <1>1, <1>2, Zenon DEF PeriodicUpdate
<1>4. /\ G \subseteq W /\ W \subseteq T \cap D /\ W \subseteq Entries
      /\ \A e \in W : entry[e].timer # 0
  BY <1>1, <1>2, Facts DEF Active
<1> HIDE DEF timed, expired, given, ticked
<1>5. /\ entry \in [Entries -> Records] /\ \A e \in Entries : entry[e] \in Records
      /\ dynamic \in Seq(Entries) /\ IsInjective(dynamic)
      /\ \A e \in Entries : Fits(entry[e], e \in T, e \in D)
  BY Facts DEF IInv, AllFit
<1>6. dynamic' \in Seq(Entries) /\ IsInjective(dynamic') /\ Range(dynamic') = Range(dynamic)
  <2> DEFINE a == Without(dynamic, G)
             b == Only(dynamic, G)
  <2>1. a \in Seq(Entries) /\ IsInjective(a) /\ Range(a) = D \ G  BY <1>5, WithoutIs
  <2>2. b \in Seq(Entries) /\ IsInjective(b) /\ Range(b) = D \cap G  BY <1>5, OnlyIs
  <2>3. dynamic' = a \o b /\ (D \ G) \cap (D \cap G) = {} /\ (D \ G) \cup (D \cap G) = D  BY <1>3
  <2> HIDE DEF a, b
  <2>4. /\ a \o b \in Seq(Entries) /\ Range(a \o b) = Range(a) \cup Range(b)
        /\ IsInjective(a \o b) <=> IsInjective(a) /\ IsInjective(b) /\ Range(a) \cap Range(b) = {}
    BY <2>1, <2>2, Joined
  <2> QED  BY <2>1, <2>2, <2>3, <2>4
<1>7. \A e \in G : entry'[e] \in Records /\ entry'[e].waiting = <<>>
  <2> SUFFICES ASSUME NEW e \in G PROVE entry'[e] \in Records /\ entry'[e].waiting = <<>>  OBVIOUS
  <2>1. PICK x \in Records : x = entry[e]  BY <1>4, <1>5
  <2> DEFINE y == [x EXCEPT !.timer = 0, !.waiting = <<>>]
  <2>2. y \in Records /\ y.waiting = <<>>
    <3>1. <<>> \in Seq(Packets)  OBVIOUS
    <3> QED  BY <2>1, <3>1 DEF Records
  <2>3. given(e) = y  BY <2>1 DEF given, Left
  <2> HIDE DEF y
  <2>4. entry'[e] = given(e)  BY <1>0, <1>4
  <2> QED  BY <2>2, <2>3, <2>4
<1>8. \A e \in Entries \ G :
         /\ entry'[e] \in Records
         /\ entry'[e].waiting = entry[e].waiting /\ entry'[e].ip = entry[e].ip
         /\ Fits(entry'[e], e \in T, e \in D)
  <2> SUFFICES ASSUME NEW e \in Entries \ G
               PROVE  /\ entry'[e] \in Records
                      /\ entry'[e].waiting = entry[e].waiting /\ entry'[e].ip = entry[e].ip
                      /\ Fits(entry'[e], e \in T, e \in D)
    OBVIOUS
  <2>1. CASE e \in W
    <3>1. entry'[e] = Ticked(entry[e])  BY <1>0, <2>1 DEF ticked
    <3>2. e \in T /\ e \in D /\ entry[e].timer # 0 /\ entry[e] \in Records  BY <1>4, <1>5, <2>1
    <3>3. PICK x \in Records : x = entry[e]  BY <3>2
    <3>4. Fits(x, e \in T, e \in D) /\ x.timer # 0  BY <1>5, <3>2, <3>3
    <3>5. /\ Ticked(x) \in Records /\ Ticked(x).ip = x.ip /\ Ticked(x).waiting = x.waiting
          /\ Fits(Ticked(x), e \in T, e \in D)
      BY <3>4, TickedFits
    <3> QED  BY <3>1, <3>3, <3>5
  <2>2. CASE e \notin W
    <3>1. e \notin G /\ e \notin W  BY <2>2
    <3>2. entry'[e] = entry[e]  BY <1>0, <3>1
    <3>3. entry[e] \in Records /\ Fits(entry[e], e \in T, e \in D)  BY <1>5
    <3> QED  BY <3>2, <3>3
  <2> QED  BY <2>1, <2>2
<1>9. entry' \in [Entries -> Records]
  <2>1. \A e \in Entries : entry'[e] \in Records  BY <1>7, <1>8
  <2>2. DOMAIN entry' = Entries /\ entry' = [e \in Entries |-> entry'[e]]  BY <1>0
  <2> QED  BY <2>1, <2>2
<1>10. IInv'
  <2>1. G \subseteq Range(table) \cap Range(dynamic)  BY <1>4
  <2> QED  BY <1>3, <1>6, <1>7, <1>8, <1>9, <2>1, GivenUp
<1> QED  BY <1>3, <1>10 DEF SentToItsAddress

\* Every step keeps the invariant and sends each packet to its address.
LEMMA NextKept ==
    ASSUME IInv, Next
    PROVE  IInv' /\ SentToItsAddress'
<1>1. ASSUME NEW p \in Packets, NEW a \in Addresses, Send(p, a) PROVE IInv' /\ SentToItsAddress'
  BY <1>1, SendResolvedKept, SendWaitsKept, SendFirstKept DEF Send
<1>2. ASSUME NEW a \in Addresses, Receive(a) PROVE IInv' /\ SentToItsAddress'
  BY <1>2, ReceiveKept
<1>3. ASSUME NEW a \in Addresses, DynamicSet(a) PROVE IInv' /\ SentToItsAddress'
  BY <1>3, ReceiveKept DEF DynamicSet
<1>4. ASSUME NEW a \in Addresses, DynamicResolve(a) PROVE IInv' /\ SentToItsAddress'
  BY <1>4, DynamicResolveKept
<1>5. ASSUME NEW a \in Addresses, StaticCreate(a) PROVE IInv' /\ SentToItsAddress'
  BY <1>5, StaticFoundKept, StaticNewKept DEF StaticCreate
<1>6. ASSUME NEW a \in Addresses, EntryDelete(a) PROVE IInv' /\ SentToItsAddress'
  BY <1>6, EntryDeleteKept
<1>7. CASE StaticEntriesDelete  BY <1>7, StaticEntriesDeleteKept
<1>8. CASE DynamicInvalidate  BY <1>8, DynamicInvalidateKept
<1>9. CASE PeriodicUpdate  BY <1>9, PeriodicUpdateKept
<1> QED  BY <1>1, <1>2, <1>3, <1>4, <1>5, <1>6, <1>7, <1>8, <1>9 DEF Next

\* The lists, the entries and the held packets agree in every state, for a cache of
\* any size under any traffic and calls.
THEOREM Invariant == Spec => [](IInv /\ SentToItsAddress)
<1> DEFINE I == IInv /\ SentToItsAddress
<1>1. Init => I  BY InitIInv DEF Init, SentToItsAddress
<1>2. I /\ [Next]_vars => I'
  <2> SUFFICES ASSUME I, [Next]_vars PROVE I'  OBVIOUS
  <2>1. CASE Next  BY <2>1, NextKept
  <2>2. CASE UNCHANGED vars  BY <2>2, NothingChanged DEF vars, SentToItsAddress
  <2> QED  BY <2>1, <2>2
<1> HIDE DEF I
<1>3. Spec => []I  BY <1>1, <1>2, PTL DEF Spec
<1> QED  BY <1>3 DEF I

\* The dynamic and the static list share the cache out, no two entries in use are of
\* one address, and the counter by which invalidation stops is right, through
\* eviction, expiry, deletion and changes between the lists.
THEOREM ListsAgreeHolds == Spec => []ListsAgree
<1>1. IInv => ListsAgree
  <2> SUFFICES ASSUME IInv PROVE ListsAgree  OBVIOUS
  <2> DEFINE d == dynamic
             s == static
  <2>1. d \in Seq(Entries) /\ s \in Seq(Entries) /\ IsInjective(d) /\ IsInjective(s)
        /\ Range(d) \cap Range(s) = {} /\ Range(d) \cup Range(s) = Entries
    BY Facts DEF IInv
  <2>2. IsInjective(d \o s) /\ Range(d \o s) = Entries
    <3> HIDE DEF d, s
    <3>1. /\ Range(d \o s) = Range(d) \cup Range(s)
          /\ IsInjective(d \o s) <=> IsInjective(d) /\ IsInjective(s) /\ Range(d) \cap Range(s) = {}
      BY <2>1, Joined
    <3> QED  BY <2>1, <3>1
  <2> QED  BY <2>2 DEF IInv, Shared, OneEntryEach, ListsAgree
<1> QED  BY <1>1, Invariant, PTL

\* A packet is held at one entry only, in use, of its own destination, unresolved and
\* with a running timer; no entry holds more than NX_ARP_MAX_QUEUE_DEPTH.
THEOREM WaitHasTimerHolds == Spec => []WaitHasTimer
<1>1. IInv => WaitHasTimer
  <2> SUFFICES ASSUME IInv PROVE WaitHasTimer  OBVIOUS
  <2>1. ASSUME NEW e \in Entries, entry[e].waiting # <<>>
        PROVE  /\ e \in Range(table) \cap Range(dynamic)
               /\ entry[e].hw = None /\ entry[e].timer # 0
               /\ Len(entry[e].waiting) <= MaxDepth
    BY <2>1 DEF IInv, AllFit, Fits
  <2>2. ASSUME NEW p \in Packets, to[p] # None
        PROVE  \E e \in Entries : p \in Range(entry[e].waiting) /\ entry[e].ip = to[p]
    BY <2>2 DEF IInv, HeldAtTheirs
  <2> QED  BY <2>1, <2>2 DEF WaitHasTimer
<1> QED  BY <1>1, Invariant, PTL

\* No packet is given to the driver with the hardware address of another host,
\* however entries were used again while packets waited.
THEOREM SentToItsAddressHolds == Spec => []SentToItsAddress
BY Invariant, PTL

=============================================================================
