-------------------------- MODULE PacketPoolProofs --------------------------
(***************************************************************************)
(* Proofs of PacketPool's safety for any number of packets and threads.     *)
(*                                                                          *)
(* None of the ownership invariants is inductive alone.  What makes them so *)
(* is the meaning of a packet's mark (MarksFollowOwner): it is FREE on the  *)
(* available list, a link on a transmit list and ALLOCATED everywhere else, *)
(* so the tests of the mark in nx_packet_release and of the mark and the    *)
(* completion value in nx_packet_transmit_release decide the ownership.     *)
(***************************************************************************)
EXTENDS PacketPool, Lists, FiniteSetTheorems

\* The state of a context inside _nx_packet_release and its two locals agree,
\* and no two releases have unlinked the same thread.
ReleaseSteady ==
    /\ \A c \in Contexts : rpc[c] = "idle" <=> rpkt[c] = NoPacket
    /\ \A c \in Contexts : rpc[c] = "handoff" <=> rthr[c] # {}
    /\ \A c \in Contexts : \A t, u \in rthr[c] : t = u
    /\ \A c, d \in Contexts : rthr[c] \cap rthr[d] # {} => c = d

\* The mark of a packet tells who owns it.
MarksFollowOwner ==
    \A p \in Packets :
        /\ p \in free => mark[p] = "FREE"
        /\ Held(p) => mark[p] = "ALLOCATED" /\ ~txDone[p]
        /\ Releasing(p) => mark[p] = "ALLOCATED"
        /\ InTcp(p) => mark[p] = "ENQUEUED"
        /\ p \in driver /\ ~InTcp(p) => mark[p] = "ALLOCATED"
        /\ p \in sent => p \notin acking

IInv == /\ TypeOK
        /\ OneOwner /\ NoSharedPacket /\ DriverExclusive
        /\ CountsAgree /\ NoWaiterBesidesFree /\ WaiterHoldsNothing
        /\ ReleaseSteady /\ MarksFollowOwner

-----------------------------------------------------------------------------
(* The initial states *)

\* The pool as nx_packet_pool_create leaves it.
LEMMA InitInvariant == Init => IInv
<1> SUFFICES ASSUME Init PROVE IInv  OBVIOUS
<1> USE PoolAssumption DEF Init, Contexts
<1>1. TypeOK  BY FS_CardinalityType DEF TypeOK, Marks, ReleaseSteps
<1>2. OneOwner  BY DEF OneOwner, Held, Releasing, InTcp
<1>3. NoSharedPacket  BY DEF NoSharedPacket
<1>4. DriverExclusive  BY DEF DriverExclusive
<1>5. CountsAgree  BY DEF CountsAgree
<1>6. NoWaiterBesidesFree  BY DEF NoWaiterBesidesFree
<1>7. WaiterHoldsNothing  BY DEF WaiterHoldsNothing
<1>8. ReleaseSteady  BY DEF ReleaseSteady
<1>9. MarksFollowOwner  BY DEF MarksFollowOwner, Held, Releasing, InTcp
<1> QED  BY <1>1, <1>2, <1>3, <1>4, <1>5, <1>6, <1>7, <1>8, <1>9 DEF IInv

-----------------------------------------------------------------------------
(* The steps *)

\* The available list is finite, so its length changes by one with each packet.
LEMMA FreeFinite == TypeOK => IsFiniteSet(free)
BY PoolAssumption, FS_Subset DEF TypeOK

\* A packet taken from the available list: it was nobody else's, so its thread owns it.
LEMMA AllocateStep ==
    ASSUME IInv, NEW t \in Threads, Allocate(t)
    PROVE  IInv'
<1> USE DEF IInv, poolVars, tcpVars, relVars
<1>1. TypeOK'
  BY DEF Allocate, TypeOK, Marks, ReleaseSteps
<1>2. OneOwner'
  BY DEF Allocate, TypeOK, OneOwner, ReleaseSteady, Contexts, Ready, Held, Releasing, InTcp
<1>3. NoSharedPacket'
  BY DEF Allocate, TypeOK, NoSharedPacket, MarksFollowOwner, Held
<1>4. DriverExclusive'
  BY DEF Allocate, TypeOK, DriverExclusive, MarksFollowOwner, InTcp
<1>5. CountsAgree'
  <2>1. PICK p \in free : free' = free \ {p}  BY DEF Allocate
  <2>2. Cardinality(free') = Cardinality(free) - 1  BY <2>1, FreeFinite, FS_RemoveElement
  <2> QED  BY <2>2 DEF Allocate, CountsAgree
<1>6. NoWaiterBesidesFree'
  BY DEF Allocate, TypeOK, NoWaiterBesidesFree
<1>7. WaiterHoldsNothing'
  BY DEF Allocate, TypeOK, WaiterHoldsNothing, Ready, Waiting
<1>8. ReleaseSteady'
  BY DEF Allocate, TypeOK, ReleaseSteady
<1>9. MarksFollowOwner'
  BY DEF Allocate, TypeOK, MarksFollowOwner, Held, Releasing, InTcp
<1> QED  BY <1>1, <1>2, <1>3, <1>4, <1>5, <1>6, <1>7, <1>8, <1>9

\* A thread that suspends: it is running, so it is not on the list yet.
LEMMA AllocateSuspendStep ==
    ASSUME IInv, NEW t \in Threads, AllocateSuspend(t)
    PROVE  IInv'
<1> USE DEF IInv, poolVars, tcpVars, relVars
<1>1. TypeOK'
  BY DEF AllocateSuspend, TypeOK, Marks, ReleaseSteps
<1>2. OneOwner'
  BY DEF AllocateSuspend, TypeOK, OneOwner, Held, Releasing, InTcp
<1>3. NoSharedPacket'
  BY DEF AllocateSuspend, TypeOK, NoSharedPacket
<1>4. DriverExclusive'
  BY DEF AllocateSuspend, TypeOK, DriverExclusive
<1>5. CountsAgree'
  <2>1. Len(waiters') = Len(waiters) + 1  BY AppendProperties DEF AllocateSuspend, TypeOK
  <2> QED  BY <2>1 DEF AllocateSuspend, CountsAgree
<1>6. NoWaiterBesidesFree'
  <2>1. free = {}  BY FreeFinite, FS_EmptySet DEF AllocateSuspend, CountsAgree
  <2> QED  BY <2>1 DEF AllocateSuspend, NoWaiterBesidesFree
<1>7. WaiterHoldsNothing'
  BY DEF AllocateSuspend, TypeOK, WaiterHoldsNothing, Ready, Waiting
<1>8. ReleaseSteady'
  BY DEF AllocateSuspend, TypeOK, ReleaseSteady
<1>9. MarksFollowOwner'
  BY DEF AllocateSuspend, TypeOK, MarksFollowOwner, Held, Releasing, InTcp
<1> QED  BY <1>1, <1>2, <1>3, <1>4, <1>5, <1>6, <1>7, <1>8, <1>9

\* A wait that ends, wherever on the list: the others keep their places.
LEMMA WaitTimeoutStep ==
    ASSUME IInv, WaitTimeout
    PROVE  IInv'
<1> USE DEF IInv, poolVars, tcpVars, relVars
<1>0. PICK i \in DOMAIN waiters : waiters' = RemoveAt(waiters, i)  BY DEF WaitTimeout
<1>a. /\ waiters' \in Seq(Threads) /\ Len(waiters') = Len(waiters) - 1
      /\ DOMAIN waiters' = 1..(Len(waiters) - 1)
      /\ \A j \in DOMAIN waiters' : waiters'[j] = IF j < i THEN waiters[j] ELSE waiters[j + 1]
  <2>1. waiters \in Seq(Threads)  BY DEF TypeOK
  <2>2. /\ RemoveAt(waiters, i) \in Seq(Threads) /\ Len(RemoveAt(waiters, i)) = Len(waiters) - 1
        /\ \A j \in 1..(Len(waiters) - 1) :
              RemoveAt(waiters, i)[j] = IF j < i THEN waiters[j] ELSE waiters[j + 1]
    BY <1>0, <2>1, RemoveAtProperties
  <2>3. DOMAIN RemoveAt(waiters, i) = 1..(Len(waiters) - 1)  BY <2>2, LenProperties
  <2> QED  BY <1>0, <2>2, <2>3
<1>b. Len(waiters) \in Nat /\ i \in 1..Len(waiters) /\ DOMAIN waiters = 1..Len(waiters)
  BY <1>0, LenProperties DEF TypeOK
<1>c. \A j \in DOMAIN waiters' :
         /\ j \in DOMAIN waiters /\ j + 1 \in DOMAIN waiters
         /\ waiters'[j] = waiters[IF j < i THEN j ELSE j + 1]
  BY <1>a, <1>b
<1>1. TypeOK'
  <2>1. suspended' \in Nat  BY <1>b DEF WaitTimeout, CountsAgree
  <2> QED  BY <1>a, <2>1 DEF WaitTimeout, TypeOK
<1>2. OneOwner'
  BY DEF WaitTimeout, TypeOK, OneOwner, Held, Releasing, InTcp
<1>3. NoSharedPacket'
  BY DEF WaitTimeout, TypeOK, NoSharedPacket
<1>4. DriverExclusive'
  BY DEF WaitTimeout, TypeOK, DriverExclusive
<1>5. CountsAgree'  BY <1>a DEF WaitTimeout, CountsAgree
<1>6. NoWaiterBesidesFree'
  BY DEF WaitTimeout, TypeOK, NoWaiterBesidesFree
<1>7. WaiterHoldsNothing'
  <2>1. ASSUME NEW j \in DOMAIN waiters', NEW k \in DOMAIN waiters', waiters'[j] = waiters'[k]
        PROVE  j = k
    <3>1. (IF j < i THEN j ELSE j + 1) = (IF k < i THEN k ELSE k + 1)
      BY <1>c, <2>1 DEF WaiterHoldsNothing
    <3> QED  BY <1>a, <1>b, <3>1
  <2>2. \A j \in DOMAIN waiters' : hold[waiters'[j]] = NoPacket
    BY <1>c DEF WaiterHoldsNothing
  <2>3. ASSUME NEW c \in Contexts, NEW t \in rthr[c], NEW j \in DOMAIN waiters', waiters'[j] = t
        PROVE FALSE
    BY <1>c, <2>3 DEF WaiterHoldsNothing, Waiting
  <2> QED  BY <2>1, <2>2, <2>3 DEF WaitTimeout, WaiterHoldsNothing, Waiting
<1>8. ReleaseSteady'
  BY DEF WaitTimeout, TypeOK, ReleaseSteady
<1>9. MarksFollowOwner'
  BY DEF WaitTimeout, TypeOK, MarksFollowOwner, Held, Releasing, InTcp
<1> QED  BY <1>1, <1>2, <1>3, <1>4, <1>5, <1>6, <1>7, <1>8, <1>9

\* The test of the mark passes, since what is released is marked ALLOCATED.
LEMMA ReleaseCheckStep ==
    ASSUME IInv, NEW c \in Contexts, ReleaseCheck(c)
    PROVE  IInv'
<1> USE DEF IInv, poolVars, tcpVars, relVars
<1>1. TypeOK'
  BY DEF ReleaseCheck, TypeOK, Marks, ReleaseSteps
<1>2. OneOwner'
  BY DEF ReleaseCheck, TypeOK, OneOwner, MarksFollowOwner, Held, Releasing, InTcp
<1>3. NoSharedPacket'
  BY DEF ReleaseCheck, TypeOK, NoSharedPacket
<1>4. DriverExclusive'
  BY DEF ReleaseCheck, TypeOK, DriverExclusive
<1>5. CountsAgree'
  BY DEF ReleaseCheck, TypeOK, CountsAgree
<1>6. NoWaiterBesidesFree'
  BY DEF ReleaseCheck, TypeOK, NoWaiterBesidesFree
<1>7. WaiterHoldsNothing'
  BY DEF ReleaseCheck, TypeOK, WaiterHoldsNothing, Waiting
<1>8. ReleaseSteady'
  BY DEF ReleaseCheck, TypeOK, ReleaseSteady
<1>9. MarksFollowOwner'
  BY DEF ReleaseCheck, TypeOK, MarksFollowOwner, Held, Releasing, InTcp
<1> QED  BY <1>1, <1>2, <1>3, <1>4, <1>5, <1>6, <1>7, <1>8, <1>9

\* The packet goes to the available list: its release was its only owner.
LEMMA ReleaseToPoolStep ==
    ASSUME IInv, NEW c \in Contexts, ReleaseToPool(c)
    PROVE  IInv'
<1> USE DEF IInv, poolVars, tcpVars, relVars
<1>1. TypeOK'
  <2>1. rpkt[c] \in Packets  BY DEF ReleaseToPool, TypeOK, ReleaseSteady
  <2> QED  BY <2>1 DEF ReleaseToPool, TypeOK, Marks, ReleaseSteps
<1>2. OneOwner'
  BY PoolAssumption DEF ReleaseToPool, TypeOK, OneOwner, NoSharedPacket, Held, Releasing, InTcp
<1>3. NoSharedPacket'
  BY DEF ReleaseToPool, TypeOK, NoSharedPacket
<1>4. DriverExclusive'
  BY DEF ReleaseToPool, TypeOK, DriverExclusive, MarksFollowOwner, Releasing, InTcp
<1>5. CountsAgree'
  <2>1. rpkt[c] \notin free
    BY DEF ReleaseToPool, TypeOK, ReleaseSteady, OneOwner, Releasing
  <2>2. Cardinality(free') = Cardinality(free) + 1
    BY <2>1, FreeFinite, FS_AddElement DEF ReleaseToPool
  <2> QED  BY <2>2 DEF ReleaseToPool, CountsAgree
<1>6. NoWaiterBesidesFree'
  BY DEF ReleaseToPool, TypeOK, NoWaiterBesidesFree
<1>7. WaiterHoldsNothing'
  BY DEF ReleaseToPool, TypeOK, WaiterHoldsNothing, Waiting
<1>8. ReleaseSteady'
  BY DEF ReleaseToPool, TypeOK, ReleaseSteady
<1>9. MarksFollowOwner'
  BY PoolAssumption DEF ReleaseToPool, TypeOK, OneOwner, NoSharedPacket, MarksFollowOwner,
       Held, Releasing, InTcp
<1> QED  BY <1>1, <1>2, <1>3, <1>4, <1>5, <1>6, <1>7, <1>8, <1>9

\* The head leaves the list and is the one thread the release will resume.
LEMMA ReleaseUnlinkWaiterStep ==
    ASSUME IInv, NEW c \in Contexts, ReleaseUnlinkWaiter(c)
    PROVE  IInv'
<1> USE DEF IInv, poolVars, tcpVars, relVars
<1>0. /\ waiters \in Seq(Threads) /\ waiters # <<>>
      /\ DOMAIN waiters = 1..Len(waiters) /\ Len(waiters) \in Nat \ {0}
  BY EmptySeq, LenProperties DEF ReleaseUnlinkWaiter, TypeOK
<1>a. /\ waiters' \in Seq(Threads) /\ Len(waiters') = Len(waiters) - 1
      /\ DOMAIN waiters' = 1..(Len(waiters) - 1)
      /\ \A j \in DOMAIN waiters' : waiters'[j] = waiters[j + 1]
  BY <1>0, HeadTailProperties, LenProperties DEF ReleaseUnlinkWaiter
<1>b. /\ Head(waiters) = waiters[1] /\ Head(waiters) \in Threads /\ 1 \in DOMAIN waiters
      /\ \A d \in Contexts : Head(waiters) \notin rthr[d]
  BY <1>0, HeadTailProperties DEF TypeOK, WaiterHoldsNothing, Waiting
<1>c. \A j \in DOMAIN waiters' : j + 1 \in DOMAIN waiters /\ waiters'[j] # Head(waiters)
  <2>1. \A j \in DOMAIN waiters' : j + 1 \in DOMAIN waiters /\ j + 1 # 1
    BY <1>0, <1>a
  <2> QED  BY <2>1, <1>a, <1>b DEF WaiterHoldsNothing
<1>1. TypeOK'
  <2>1. suspended' \in Nat  BY <1>0 DEF ReleaseUnlinkWaiter, CountsAgree
  <2> QED  BY <1>a, <1>b, <2>1 DEF ReleaseUnlinkWaiter, TypeOK, ReleaseSteps
<1>2. OneOwner'
  BY DEF ReleaseUnlinkWaiter, TypeOK, OneOwner, Held, Releasing, InTcp
<1>3. NoSharedPacket'
  BY DEF ReleaseUnlinkWaiter, TypeOK, NoSharedPacket
<1>4. DriverExclusive'
  BY DEF ReleaseUnlinkWaiter, TypeOK, DriverExclusive
<1>5. CountsAgree'  BY <1>a DEF ReleaseUnlinkWaiter, CountsAgree
<1>6. NoWaiterBesidesFree'
  BY DEF ReleaseUnlinkWaiter, TypeOK, NoWaiterBesidesFree
<1>7. WaiterHoldsNothing'
  <2>1. ASSUME NEW j \in DOMAIN waiters', NEW k \in DOMAIN waiters', waiters'[j] = waiters'[k]
        PROVE  j = k
    <3>1. j + 1 = k + 1  BY <1>a, <1>c, <2>1 DEF WaiterHoldsNothing
    <3> QED  BY <1>a, <3>1
  <2>2. \A j \in DOMAIN waiters' : hold[waiters'[j]] = NoPacket
    BY <1>a, <1>c DEF WaiterHoldsNothing
  <2>3. hold[Head(waiters)] = NoPacket  BY <1>b DEF WaiterHoldsNothing
  <2>4. ASSUME NEW d \in Contexts, NEW u \in rthr'[d]
        PROVE  hold[u] = NoPacket /\ \A j \in DOMAIN waiters' : waiters'[j] # u
    <3>1. CASE u \in rthr[d]
      BY <1>a, <1>c, <3>1 DEF WaiterHoldsNothing, Waiting
    <3>2. CASE u = Head(waiters)  BY <1>c, <2>3, <3>2
    <3> QED  BY <2>4, <3>1, <3>2 DEF ReleaseUnlinkWaiter, TypeOK
  <2> QED  BY <2>1, <2>2, <2>4 DEF ReleaseUnlinkWaiter, WaiterHoldsNothing, Waiting
<1>8. ReleaseSteady'  BY <1>b DEF ReleaseUnlinkWaiter, TypeOK, ReleaseSteady
<1>9. MarksFollowOwner'
  BY DEF ReleaseUnlinkWaiter, TypeOK, MarksFollowOwner, Held, Releasing, InTcp
<1> QED  BY <1>1, <1>2, <1>3, <1>4, <1>5, <1>6, <1>7, <1>8, <1>9

\* The packet passes from the release to the thread it has unlinked, which holds none.
LEMMA ReleaseHandOffStep ==
    ASSUME IInv, NEW c \in Contexts, ReleaseHandOff(c)
    PROVE  IInv'
<1> USE DEF IInv, poolVars, tcpVars, relVars
<1>0. PICK t \in Threads : rthr[c] = {t}
  BY DEF ReleaseHandOff, TypeOK, ReleaseSteady
<1>a. /\ rpkt[c] \in Packets /\ hold[t] = NoPacket
      /\ hold' = [hold EXCEPT ![t] = rpkt[c]]
  <2>1. rpkt[c] \in Packets  BY DEF ReleaseHandOff, TypeOK, ReleaseSteady
  <2>2. hold[t] = NoPacket  BY <1>0 DEF WaiterHoldsNothing
  <2>3. hold' = [hold EXCEPT ![t] = rpkt[c]]  BY <1>0 DEF ReleaseHandOff, TypeOK
  <2> QED  BY <2>1, <2>2, <2>3
<1>b. /\ \A q \in Packets : Held(q)' <=> Held(q) \/ q = rpkt[c]
      /\ \A q \in Packets : Releasing(q)' <=> Releasing(q) /\ q # rpkt[c]
  BY <1>0, <1>a, PoolAssumption DEF ReleaseHandOff, TypeOK, NoSharedPacket, Held, Releasing
<1>1. TypeOK'
  BY DEF ReleaseHandOff, TypeOK, Marks, ReleaseSteps
<1>2. OneOwner'  BY <1>a, <1>b DEF ReleaseHandOff, OneOwner, Releasing, InTcp
<1>3. NoSharedPacket'
  <2>1. \A u \in Threads : hold[u] # rpkt[c]  BY <1>a DEF OneOwner, Held, Releasing
  <2>2. \A u, v \in Threads : hold'[u] = hold'[v] /\ hold'[u] # NoPacket => u = v
    BY <1>a, <2>1 DEF NoSharedPacket, TypeOK
  <2>3. \A d, e \in Contexts : rpkt'[d] = rpkt'[e] /\ rpkt'[d] # NoPacket => d = e
    BY DEF ReleaseHandOff, NoSharedPacket, TypeOK
  <2> QED  BY <2>2, <2>3 DEF NoSharedPacket
<1>4. DriverExclusive'
  BY DEF ReleaseHandOff, TypeOK, DriverExclusive, MarksFollowOwner, Releasing, InTcp
<1>5. CountsAgree'
  BY DEF ReleaseHandOff, TypeOK, CountsAgree
<1>6. NoWaiterBesidesFree'
  BY DEF ReleaseHandOff, TypeOK, NoWaiterBesidesFree
<1>7. WaiterHoldsNothing'
  BY DEF ReleaseHandOff, TypeOK, WaiterHoldsNothing, ReleaseSteady, Waiting
<1>8. ReleaseSteady'
  BY DEF ReleaseHandOff, TypeOK, ReleaseSteady
<1>9. MarksFollowOwner'
  BY DEF ReleaseHandOff, TypeOK, WaiterHoldsNothing, ReleaseSteady, MarksFollowOwner, Held,
       Releasing, InTcp
<1> QED  BY <1>1, <1>2, <1>3, <1>4, <1>5, <1>6, <1>7, <1>8, <1>9

\* A thread's packet passes to its release.
LEMMA AppReleaseStep ==
    ASSUME IInv, NEW t \in Threads, AppRelease(t)
    PROVE  IInv'
<1> USE DEF IInv, poolVars, tcpVars, relVars
<1>1. TypeOK'
  BY DEF AppRelease, TypeOK, StartRelease, Marks, ReleaseSteps
<1>2. OneOwner'
  BY PoolAssumption DEF AppRelease, TypeOK, OneOwner, NoSharedPacket, ReleaseSteady, Contexts,
       Ready, StartRelease, Held, Releasing, InTcp
<1>3. NoSharedPacket'
  <2>1. \A d \in Contexts : rpkt[d] # hold[t]  BY DEF AppRelease, TypeOK, OneOwner, Held, Releasing
  <2>2. \A u, v \in Threads : hold'[u] = hold'[v] /\ hold'[u] # NoPacket => u = v
    BY DEF AppRelease, NoSharedPacket, TypeOK
  <2>3. \A d, e \in Contexts : rpkt'[d] = rpkt'[e] /\ rpkt'[d] # NoPacket => d = e
    BY <2>1 DEF AppRelease, StartRelease, NoSharedPacket, TypeOK
  <2> QED  BY <2>2, <2>3 DEF NoSharedPacket
<1>4. DriverExclusive'
  BY DEF AppRelease, TypeOK, DriverExclusive
<1>5. CountsAgree'
  BY DEF AppRelease, TypeOK, CountsAgree
<1>6. NoWaiterBesidesFree'
  BY DEF AppRelease, TypeOK, NoWaiterBesidesFree
<1>7. WaiterHoldsNothing'
  BY DEF AppRelease, TypeOK, WaiterHoldsNothing, Waiting, StartRelease
<1>8. ReleaseSteady'
  BY DEF AppRelease, TypeOK, ReleaseSteady, Ready, StartRelease
<1>9. MarksFollowOwner'
  BY PoolAssumption DEF AppRelease, TypeOK, MarksFollowOwner, StartRelease, Held, Releasing, InTcp
<1> QED  BY <1>1, <1>2, <1>3, <1>4, <1>5, <1>6, <1>7, <1>8, <1>9

\* A thread's packet passes to the driver.
LEMMA DatagramSendStep ==
    ASSUME IInv, NEW t \in Threads, DatagramSend(t)
    PROVE  IInv'
<1> USE DEF IInv, poolVars, tcpVars, relVars
<1>1. TypeOK'
  BY DEF DatagramSend, TypeOK, Marks, ReleaseSteps
<1>2. OneOwner'
  BY PoolAssumption DEF DatagramSend, TypeOK, OneOwner, NoSharedPacket, Held, Releasing, InTcp
<1>3. NoSharedPacket'
  BY DEF DatagramSend, TypeOK, NoSharedPacket
<1>4. DriverExclusive'
  BY DEF DatagramSend, TypeOK, DriverExclusive, MarksFollowOwner, Held
<1>5. CountsAgree'
  BY DEF DatagramSend, TypeOK, CountsAgree
<1>6. NoWaiterBesidesFree'
  BY DEF DatagramSend, TypeOK, NoWaiterBesidesFree
<1>7. WaiterHoldsNothing'
  BY DEF DatagramSend, TypeOK, WaiterHoldsNothing, Waiting
<1>8. ReleaseSteady'
  BY DEF DatagramSend, TypeOK, ReleaseSteady
<1>9. MarksFollowOwner'
  BY PoolAssumption DEF DatagramSend, TypeOK, MarksFollowOwner, Held, Releasing, InTcp
<1> QED  BY <1>1, <1>2, <1>3, <1>4, <1>5, <1>6, <1>7, <1>8, <1>9

\* A thread's packet passes to the transmit list and the driver together.
LEMMA TcpSendStep ==
    ASSUME IInv, NEW t \in Threads, TcpSend(t)
    PROVE  IInv'
<1> USE DEF IInv, poolVars, tcpVars, relVars
<1>1. TypeOK'
  BY DEF TcpSend, TypeOK, Marks, ReleaseSteps
<1>2. OneOwner'
  BY PoolAssumption DEF TcpSend, TypeOK, OneOwner, NoSharedPacket, Contexts, Held, Releasing,
       InTcp
<1>3. NoSharedPacket'
  BY DEF TcpSend, TypeOK, NoSharedPacket
<1>4. DriverExclusive'
  BY DEF TcpSend, TypeOK, DriverExclusive, MarksFollowOwner, Held
<1>5. CountsAgree'
  BY DEF TcpSend, TypeOK, CountsAgree
<1>6. NoWaiterBesidesFree'
  BY DEF TcpSend, TypeOK, NoWaiterBesidesFree
<1>7. WaiterHoldsNothing'
  BY DEF TcpSend, TypeOK, WaiterHoldsNothing, Waiting
<1>8. ReleaseSteady'
  BY DEF TcpSend, TypeOK, ReleaseSteady
<1>9. MarksFollowOwner'
  BY PoolAssumption DEF TcpSend, TypeOK, OneOwner, NoSharedPacket, MarksFollowOwner, Held,
       Releasing, InTcp
<1> QED  BY <1>1, <1>2, <1>3, <1>4, <1>5, <1>6, <1>7, <1>8, <1>9

\* A packet the driver has completed is given to it again.
LEMMA TcpRetransmitStep ==
    ASSUME IInv, TcpRetransmit
    PROVE  IInv'
<1> USE DEF IInv, poolVars, tcpVars, relVars
<1>1. TypeOK'
  BY DEF TcpRetransmit, TypeOK, Marks, ReleaseSteps
<1>2. OneOwner'
  BY DEF TcpRetransmit, TypeOK, OneOwner, Held, Releasing, InTcp
<1>3. NoSharedPacket'
  BY DEF TcpRetransmit, TypeOK, NoSharedPacket
<1>4. DriverExclusive'
  BY DEF TcpRetransmit, TypeOK, DriverExclusive
<1>5. CountsAgree'
  BY DEF TcpRetransmit, TypeOK, CountsAgree
<1>6. NoWaiterBesidesFree'
  BY DEF TcpRetransmit, TypeOK, NoWaiterBesidesFree
<1>7. WaiterHoldsNothing'
  BY DEF TcpRetransmit, TypeOK, WaiterHoldsNothing, Waiting
<1>8. ReleaseSteady'
  BY DEF TcpRetransmit, TypeOK, ReleaseSteady
<1>9. MarksFollowOwner'
  BY DEF TcpRetransmit, TypeOK, MarksFollowOwner, Held, Releasing, InTcp
<1> QED  BY <1>1, <1>2, <1>3, <1>4, <1>5, <1>6, <1>7, <1>8, <1>9

\* Packets leave the transmit list; they stay marked until they are visited.
LEMMA TcpUnlinkStep ==
    ASSUME IInv, TcpUnlink
    PROVE  IInv'
<1> USE DEF IInv, poolVars, tcpVars, relVars
<1>1. TypeOK'
  BY DEF TcpUnlink, TypeOK, Marks, ReleaseSteps
<1>2. OneOwner'
  BY DEF TcpUnlink, TypeOK, OneOwner, Held, Releasing, InTcp
<1>3. NoSharedPacket'
  BY DEF TcpUnlink, TypeOK, NoSharedPacket
<1>4. DriverExclusive'
  BY DEF TcpUnlink, TypeOK, DriverExclusive
<1>5. CountsAgree'
  BY DEF TcpUnlink, TypeOK, CountsAgree
<1>6. NoWaiterBesidesFree'
  BY DEF TcpUnlink, TypeOK, NoWaiterBesidesFree
<1>7. WaiterHoldsNothing'
  BY DEF TcpUnlink, TypeOK, WaiterHoldsNothing, Waiting
<1>8. ReleaseSteady'
  BY DEF TcpUnlink, TypeOK, ReleaseSteady
<1>9. MarksFollowOwner'
  BY DEF TcpUnlink, TypeOK, MarksFollowOwner, Held, Releasing, InTcp
<1> QED  BY <1>1, <1>2, <1>3, <1>4, <1>5, <1>6, <1>7, <1>8, <1>9

\* An unlinked packet becomes the release's, or stays the driver's alone.
LEMMA TcpReleaseAckedStep ==
    ASSUME IInv, NEW p \in Packets, TcpReleaseAcked(p)
    PROVE  IInv'
<1> USE DEF IInv, poolVars, tcpVars, relVars
<1>1. TypeOK'
  BY DEF TcpReleaseAcked, TypeOK, StartRelease, Marks, ReleaseSteps
<1>2. OneOwner'
  BY PoolAssumption DEF TcpReleaseAcked, TypeOK, OneOwner, DriverExclusive, ReleaseSteady,
       MarksFollowOwner, Contexts, StartRelease, Held, Releasing, InTcp
<1>3. NoSharedPacket'
  <2>1. \A c \in Contexts : rpkt[c] # p
    BY DEF TcpReleaseAcked, MarksFollowOwner, Releasing, InTcp
  <2>2. rpkt' = rpkt \/ rpkt' = [rpkt EXCEPT ![IpThread] = p]
    BY DEF TcpReleaseAcked, StartRelease
  <2>3. hold' = hold  BY DEF TcpReleaseAcked
  <2> QED  BY <2>1, <2>2, <2>3 DEF TypeOK, NoSharedPacket
<1>4. DriverExclusive'
  BY DEF TcpReleaseAcked, TypeOK, DriverExclusive
<1>5. CountsAgree'
  BY DEF TcpReleaseAcked, TypeOK, CountsAgree
<1>6. NoWaiterBesidesFree'
  BY DEF TcpReleaseAcked, TypeOK, NoWaiterBesidesFree
<1>7. WaiterHoldsNothing'
  BY DEF TcpReleaseAcked, TypeOK, WaiterHoldsNothing, Waiting, StartRelease
<1>8. ReleaseSteady'
  BY DEF TcpReleaseAcked, TypeOK, ReleaseSteady, MarksFollowOwner, StartRelease, Releasing, InTcp
<1>9. MarksFollowOwner'
  BY DEF TcpReleaseAcked, TypeOK, MarksFollowOwner, StartRelease, Held, Releasing, InTcp
<1> QED  BY <1>1, <1>2, <1>3, <1>4, <1>5, <1>6, <1>7, <1>8, <1>9

\* The driver drops a packet: it is the transmit list's, or its release begins.
LEMMA TransmitReleaseStep ==
    ASSUME IInv, NEW p \in Packets, TransmitRelease(p)
    PROVE  IInv'
<1> USE DEF IInv, poolVars, tcpVars, relVars
<1>1. TypeOK'
  BY DEF TransmitRelease, TypeOK, StartRelease, Marks, ReleaseSteps
<1>2. OneOwner'
  BY PoolAssumption DEF TransmitRelease, TypeOK, OneOwner, ReleaseSteady, MarksFollowOwner,
       Contexts, StartRelease, Held, Releasing, InTcp
<1>3. NoSharedPacket'
  BY DEF TransmitRelease, TypeOK, OneOwner, NoSharedPacket, StartRelease, Releasing
<1>4. DriverExclusive'
  BY DEF TransmitRelease, TypeOK, DriverExclusive, MarksFollowOwner, InTcp
<1>5. CountsAgree'
  BY DEF TransmitRelease, TypeOK, CountsAgree
<1>6. NoWaiterBesidesFree'
  BY DEF TransmitRelease, TypeOK, NoWaiterBesidesFree
<1>7. WaiterHoldsNothing'
  BY DEF TransmitRelease, TypeOK, WaiterHoldsNothing, Waiting, StartRelease
<1>8. ReleaseSteady'
  BY DEF TransmitRelease, TypeOK, OneOwner, ReleaseSteady, StartRelease, Releasing
<1>9. MarksFollowOwner'
  BY DEF TransmitRelease, TypeOK, MarksFollowOwner, StartRelease, Held, Releasing, InTcp
<1> QED  BY <1>1, <1>2, <1>3, <1>4, <1>5, <1>6, <1>7, <1>8, <1>9

-----------------------------------------------------------------------------
(* The invariant *)

\* Every step of the pool keeps the inductive invariant.
LEMMA NextInvariant == IInv /\ [Next]_vars => IInv'
<1> SUFFICES ASSUME IInv, [Next]_vars PROVE IInv'  OBVIOUS
<1>1. CASE UNCHANGED vars
  BY <1>1 DEF vars, IInv, TypeOK, OneOwner, NoSharedPacket, DriverExclusive, CountsAgree,
              NoWaiterBesidesFree, WaiterHoldsNothing, ReleaseSteady, MarksFollowOwner,
              Held, Releasing, InTcp, Waiting
<1>2. ASSUME NEW t \in Threads, Allocate(t) PROVE IInv'  BY <1>2, AllocateStep
<1>3. ASSUME NEW t \in Threads, AllocateSuspend(t) PROVE IInv'  BY <1>3, AllocateSuspendStep
<1>4. ASSUME NEW t \in Threads, AppRelease(t) PROVE IInv'  BY <1>4, AppReleaseStep
<1>5. ASSUME NEW t \in Threads, DatagramSend(t) PROVE IInv'  BY <1>5, DatagramSendStep
<1>6. ASSUME NEW t \in Threads, TcpSend(t) PROVE IInv'  BY <1>6, TcpSendStep
<1>7. CASE WaitTimeout  BY <1>7, WaitTimeoutStep
<1>8. CASE TcpRetransmit  BY <1>8, TcpRetransmitStep
<1>9. CASE TcpUnlink  BY <1>9, TcpUnlinkStep
<1>10. ASSUME NEW p \in Packets, TcpReleaseAcked(p) PROVE IInv'  BY <1>10, TcpReleaseAckedStep
<1>11. ASSUME NEW p \in Packets, TransmitRelease(p) PROVE IInv'  BY <1>11, TransmitReleaseStep
<1>12. ASSUME NEW c \in Contexts, ReleaseCheck(c) PROVE IInv'  BY <1>12, ReleaseCheckStep
<1>13. ASSUME NEW c \in Contexts, ReleaseToPool(c) PROVE IInv'  BY <1>13, ReleaseToPoolStep
<1>14. ASSUME NEW c \in Contexts, ReleaseUnlinkWaiter(c) PROVE IInv'  BY <1>14, ReleaseUnlinkWaiterStep
<1>15. ASSUME NEW c \in Contexts, ReleaseHandOff(c) PROVE IInv'  BY <1>15, ReleaseHandOffStep
<1> QED
  BY <1>1, <1>2, <1>3, <1>4, <1>5, <1>6, <1>7, <1>8,
     <1>9, <1>10, <1>11, <1>12, <1>13, <1>14, <1>15 DEF Next

\* The invariant holds in every reachable state.
THEOREM Invariant == Spec => []IInv
<1>1. Init => IInv  BY InitInvariant
<1>2. IInv /\ [Next]_vars => IInv'  BY NextInvariant
<1> QED  BY <1>1, <1>2, PTL DEF Spec

-----------------------------------------------------------------------------
(* What follows from it *)

\* Every variable keeps its type; the two counters never go below zero.
THEOREM TypeCorrect == Spec => []TypeOK
<1>1. IInv => TypeOK  BY DEF IInv
<1> QED  BY <1>1, Invariant, PTL

\* No packet is leaked, freed twice or shared, whatever the threads, the
\* acknowledgements and the driver's completions do between each other's steps.
THEOREM Ownership == Spec => []ExclusiveOwner
<1>1. IInv => ExclusiveOwner  BY DEF IInv, ExclusiveOwner
<1> QED  BY <1>1, Invariant, PTL

\* _nx_packet_release never meets a packet that is not marked ALLOCATED.
THEOREM ReleaseNeverRefused == Spec => []ReleaseAccepted
<1>1. IInv => ReleaseAccepted
  <2> SUFFICES ASSUME IInv, NEW c \in Contexts, rpc[c] # "idle"
               PROVE  mark[rpkt[c]] = "ALLOCATED"
    BY DEF ReleaseAccepted
  <2>1. rpkt[c] \in Packets  BY DEF IInv, TypeOK, ReleaseSteady
  <2>2. Releasing(rpkt[c])  BY DEF Releasing
  <2> QED  BY <2>1, <2>2 DEF IInv, MarksFollowOwner
<1> QED  BY <1>1, Invariant, PTL

\* Neither an acknowledgement nor a retransmission touches a packet in the driver.
THEOREM DriverIsExclusive == Spec => []DriverExclusive
<1>1. IInv => DriverExclusive  BY DEF IInv
<1> QED  BY <1>1, Invariant, PTL

\* The pool's two counters are the lengths of its two lists.
THEOREM CountersAgree == Spec => []CountsAgree
<1>1. IInv => CountsAgree  BY DEF IInv
<1> QED  BY <1>1, Invariant, PTL

\* No hand-off is missed, and none overwrites a packet its thread holds.
THEOREM HandOff == Spec => []WaitersServed
<1>1. IInv => WaitersServed  BY DEF IInv, WaitersServed
<1> QED  BY <1>1, Invariant, PTL

-----------------------------------------------------------------------------
(* First come, first served *)

\* What FirstComeFirstServed says of one step.
ServedInOrder ==
    \A t, u \in Threads :
        Before(t, u, waiters) /\ Queued(t, waiters')
          => /\ Queued(u, waiters') => Before(t, u, waiters')
             /\ \A c \in Contexts : u \notin rthr'[c]

\* A step that leaves the suspension list alone and unlinks no thread.
LEMMA QuietStep ==
    ASSUME IInv, waiters' = waiters, \A c \in Contexts : rthr'[c] \subseteq rthr[c]
    PROVE  ServedInOrder
BY DEF IInv, ServedInOrder, Before, Queued, WaiterHoldsNothing, Waiting

\* A thread that suspends goes to the tail, behind all who wait.
LEMMA SuspendInOrder ==
    ASSUME IInv, NEW t \in Threads, AllocateSuspend(t)
    PROVE  ServedInOrder
<1>1. /\ DOMAIN waiters' = 1..(Len(waiters) + 1) /\ DOMAIN waiters = 1..Len(waiters)
      /\ Len(waiters) \in Nat
      /\ \A i \in 1..Len(waiters) : waiters'[i] = waiters[i]
  BY AppendProperties, LenProperties DEF AllocateSuspend, IInv, TypeOK
<1>2. rthr' = rthr  BY DEF AllocateSuspend, relVars
<1>3. \A j \in DOMAIN waiters : j \in DOMAIN waiters' /\ waiters'[j] = waiters[j]  BY <1>1
<1> QED  BY <1>2, <1>3 DEF IInv, ServedInOrder, Before, Queued, WaiterHoldsNothing, Waiting

\* A wait that ends: those before the place move not at all, those behind it
\* one place towards the head.
LEMMA TimeoutInOrder ==
    ASSUME IInv, WaitTimeout
    PROVE  ServedInOrder
<1>0. PICK i \in DOMAIN waiters : waiters' = RemoveAt(waiters, i)  BY DEF WaitTimeout
<1>1. /\ DOMAIN waiters' = 1..(Len(waiters) - 1)
      /\ \A j \in 1..(Len(waiters) - 1) :
            waiters'[j] = IF j < i THEN waiters[j] ELSE waiters[j + 1]
  BY <1>0, RemoveAtProperties, LenProperties DEF IInv, TypeOK
<1>2. Len(waiters) \in Nat /\ i \in 1..Len(waiters) /\ DOMAIN waiters = 1..Len(waiters)
  BY <1>0, LenProperties DEF IInv, TypeOK
<1> DEFINE new(j) == IF j < i THEN j ELSE j - 1
<1>3. ASSUME NEW j \in DOMAIN waiters, j # i
      PROVE  new(j) \in DOMAIN waiters' /\ waiters'[new(j)] = waiters[j]
  BY <1>1, <1>2, <1>3
<1>4. \A j, k \in DOMAIN waiters : j # i /\ k # i /\ j < k => new(j) < new(k)
  BY <1>2
<1>5. ASSUME NEW t \in Threads, Queued(t, waiters')
      PROVE  waiters[i] # t
  <2>1. PICK j \in DOMAIN waiters' : waiters'[j] = t  BY <1>5 DEF Queued
  <2>2. PICK k \in DOMAIN waiters : k # i /\ waiters[k] = t
    BY <1>1, <1>2, <2>1
  <2> QED  BY <1>0, <2>2 DEF IInv, WaiterHoldsNothing
<1>6. rthr' = rthr  BY DEF WaitTimeout, relVars
<1>7. ASSUME NEW t \in Threads, NEW u \in Threads, Before(t, u, waiters),
             Queued(t, waiters'), Queued(u, waiters')
      PROVE  Before(t, u, waiters')
  <2>1. PICK j, k \in DOMAIN waiters : j < k /\ waiters[j] = t /\ waiters[k] = u
    BY <1>7 DEF Before
  <2>2. j # i /\ k # i  BY <1>5, <1>7, <2>1
  <2>3. /\ new(j) \in DOMAIN waiters' /\ waiters'[new(j)] = t
        /\ new(k) \in DOMAIN waiters' /\ waiters'[new(k)] = u
        /\ new(j) < new(k)
    BY <1>3, <1>4, <2>1, <2>2
  <2> HIDE DEF new
  <2> QED  BY <2>3 DEF Before
<1> QED  BY <1>6, <1>7 DEF IInv, ServedInOrder, Before, WaiterHoldsNothing, Waiting

\* A hand-off takes the head, before whom nobody waits.
LEMMA UnlinkInOrder ==
    ASSUME IInv, NEW c \in Contexts, ReleaseUnlinkWaiter(c)
    PROVE  ServedInOrder
<1>1. /\ waiters \in Seq(Threads) /\ waiters # <<>>
      /\ DOMAIN waiters = 1..Len(waiters) /\ Len(waiters) \in Nat \ {0}
  BY EmptySeq, LenProperties DEF ReleaseUnlinkWaiter, IInv, TypeOK
<1>2. /\ DOMAIN waiters' = 1..(Len(waiters) - 1)
      /\ \A j \in DOMAIN waiters' : waiters'[j] = waiters[j + 1]
      /\ Head(waiters) = waiters[1]
  BY <1>1, HeadTailProperties, LenProperties DEF ReleaseUnlinkWaiter
<1>3. ASSUME NEW t \in Threads, Queued(t, waiters')
      PROVE  waiters[1] # t
  <2>1. PICK j \in DOMAIN waiters' : waiters'[j] = t  BY <1>3 DEF Queued
  <2>2. j + 1 \in DOMAIN waiters /\ 1 \in DOMAIN waiters /\ j + 1 # 1 /\ waiters[j + 1] = t
    BY <1>1, <1>2, <2>1
  <2> QED  BY <2>2 DEF IInv, WaiterHoldsNothing
<1>4. ASSUME NEW t \in Threads, NEW u \in Threads, Before(t, u, waiters), Queued(t, waiters')
      PROVE  Before(t, u, waiters') /\ \A d \in Contexts : u \notin rthr'[d]
  <2>1. PICK j, k \in DOMAIN waiters : j < k /\ waiters[j] = t /\ waiters[k] = u
    BY <1>4 DEF Before
  <2>2. j # 1  BY <1>3, <1>4, <2>1
  <2>3. /\ j - 1 \in DOMAIN waiters' /\ waiters'[j - 1] = t
        /\ k - 1 \in DOMAIN waiters' /\ waiters'[k - 1] = u
        /\ j - 1 < k - 1
    <3>1. /\ j - 1 \in 1..(Len(waiters) - 1) /\ k - 1 \in 1..(Len(waiters) - 1)
          /\ (j - 1) + 1 = j /\ (k - 1) + 1 = k /\ j - 1 < k - 1
      BY <1>1, <2>1, <2>2
    <3> QED  BY <1>2, <2>1, <3>1
  <2>4. Before(t, u, waiters')  BY <2>3 DEF Before
  <2>5. u # Head(waiters)
    <3>1. k # 1 /\ 1 \in DOMAIN waiters  BY <1>1, <2>1
    <3> QED  BY <1>2, <2>1, <3>1 DEF IInv, WaiterHoldsNothing
  <2>6. \A d \in Contexts : u \notin rthr[d]
    BY <2>1 DEF IInv, WaiterHoldsNothing, Waiting
  <2> QED  BY <2>4, <2>5, <2>6 DEF ReleaseUnlinkWaiter, IInv, TypeOK
<1> QED  BY <1>4 DEF ServedInOrder

\* Every step serves the waiting threads in the order they came.
LEMMA NextInOrder == IInv /\ [Next]_vars => ServedInOrder
<1> SUFFICES ASSUME IInv, [Next]_vars PROVE ServedInOrder  OBVIOUS
<1> DEFINE Quiet == waiters' = waiters /\ \A c \in Contexts : rthr'[c] \subseteq rthr[c]
<1>0. ASSUME Quiet PROVE ServedInOrder  BY <1>0, QuietStep
<1> USE DEF poolVars, relVars, tcpVars
<1>1. CASE UNCHANGED vars  BY <1>0, <1>1 DEF vars
<1>2. ASSUME NEW t \in Threads, Allocate(t) PROVE Quiet  BY <1>2 DEF Allocate
<1>3. ASSUME NEW t \in Threads, AllocateSuspend(t) PROVE ServedInOrder  BY <1>3, SuspendInOrder
<1>4. ASSUME NEW t \in Threads, AppRelease(t) PROVE Quiet  BY <1>4 DEF AppRelease, StartRelease
<1>5. ASSUME NEW t \in Threads, DatagramSend(t) PROVE Quiet  BY <1>5 DEF DatagramSend
<1>6. ASSUME NEW t \in Threads, TcpSend(t) PROVE Quiet  BY <1>6 DEF TcpSend
<1>7. CASE WaitTimeout  BY <1>7, TimeoutInOrder
<1>8. ASSUME TcpRetransmit \/ TcpUnlink PROVE Quiet  BY <1>8 DEF TcpRetransmit, TcpUnlink
<1>9. ASSUME NEW p \in Packets, TcpReleaseAcked(p) \/ TransmitRelease(p) PROVE Quiet
  BY <1>9 DEF TcpReleaseAcked, TransmitRelease, StartRelease
<1>10. ASSUME NEW c \in Contexts, ReleaseCheck(c) \/ ReleaseToPool(c) PROVE Quiet
  BY <1>10 DEF ReleaseCheck, ReleaseToPool
<1>11. ASSUME NEW c \in Contexts, ReleaseUnlinkWaiter(c) PROVE ServedInOrder
  BY <1>11, UnlinkInOrder
<1>12. ASSUME NEW c \in Contexts, ReleaseHandOff(c) PROVE Quiet
  BY <1>12 DEF ReleaseHandOff, IInv, TypeOK
<1> HIDE DEF Quiet
<1> QED
  BY <1>0, <1>1, <1>2, <1>3, <1>4, <1>5, <1>6, <1>7, <1>8, <1>9, <1>10, <1>11, <1>12 DEF Next

\* A thread that began to wait later is neither moved before nor served before
\* one that waits longer, at any number of threads.
THEOREM ServedFirst == Spec => FirstComeFirstServed
<1>1. IInv /\ [Next]_vars => [ServedInOrder]_vars  BY NextInOrder
<1>2. ServedInOrder <=> \A t, u \in Threads :
          Before(t, u, waiters) /\ Queued(t, waiters')
            => /\ Queued(u, waiters') => Before(t, u, waiters')
               /\ \A c \in Contexts : u \notin rthr'[c]
  BY DEF ServedInOrder
<1> QED  BY <1>1, <1>2, Invariant, PTL DEF Spec, FirstComeFirstServed

=============================================================================
