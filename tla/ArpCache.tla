------------------------------ MODULE ArpCache ------------------------------
(***************************************************************************)
(* The ARP cache and the packets that wait in it for a hardware address:     *)
(* lookup and queueing when an IP packet is sent, allocation with eviction   *)
(* of the entry at the tail of the dynamic list, answers and announcements,  *)
(* retries and expiry, and the calls that set, create and delete entries.    *)
(*                                                                           *)
(* Every handler holds the IP mutex, so each is one step.  All addresses of  *)
(* the model fall into one list of nx_ip_arp_table, the worst case.  A       *)
(* hardware address is named by the host that has it.                        *)
(*                                                                           *)
(* Abstracted: one interface; packets fit its MTU; the conflict and probe    *)
(* handling, which leaves the cache alone, and the answers to requests.      *)
(***************************************************************************)
EXTENDS Naturals, FiniteSets, SequencesExt

CONSTANTS
    Entries,        \* the cache memory
    Addresses,      \* IP addresses of hosts on the link, and their hardware
    Packets,        \* packets the stack sends
    None,           \* no address
    MaxDepth,       \* NX_ARP_MAX_QUEUE_DEPTH
    MaxRetries,     \* NX_ARP_MAXIMUM_RETRIES
    UpdateRate,     \* NX_ARP_UPDATE_RATE
    ExpirationRate, \* NX_ARP_EXPIRATION_RATE
    MaxRestarts     \* bound: calls that start a resolution over

ASSUME ArpAssumption ==
    /\ IsFiniteSet(Entries) /\ Entries # {} /\ IsFiniteSet(Packets)
    /\ None \notin Addresses
    /\ {MaxDepth, UpdateRate} \subseteq Nat \ {0}
    /\ {MaxRetries, ExpirationRate, MaxRestarts} \subseteq Nat

VARIABLES
    table,      \* nx_ip_arp_table[index]: the active entries, the head first
    dynamic,    \* nx_ip_arp_dynamic_list, the head first
    static,     \* nx_ip_arp_static_list
    count,      \* nx_ip_arp_dynamic_active_count
    entry,      \* the entries
    to,         \* where each packet the cache holds is going
    wire,       \* what the last step gave to the driver, in order
    restarts    \* calls that have started a resolution over

vars == <<table, dynamic, static, count, entry, to, wire, restarts>>

Cleared == [ip |-> None, hw |-> None, timer |-> 0, retries |-> 0, waiting |-> <<>>]

Init ==
    /\ table = <<>> /\ static = <<>>
    /\ dynamic = SetToSeq(Entries)
    /\ count = 0
    /\ entry = [e \in Entries |-> Cleared]
    /\ to = [p \in Packets |-> None]
    /\ wire = <<>> /\ restarts = 0

-----------------------------------------------------------------------------
Active(e) == e \in Range(table)

\* What a list has at some of its places, in their order.
Picked(list, places) ==
    [k \in 1..Cardinality(places) |->
        list[CHOOSE i \in places : Cardinality({j \in places : j < i}) = k - 1]]

Without(list, gone) == Picked(list, {i \in DOMAIN list : list[i] \notin gone})
Only(list, some) == Picked(list, {i \in DOMAIN list : list[i] \in some})

\* The entries an address has: one, or none.
Find(a) == {e \in Range(table) : entry[e].ip = a}

\* Mutant: a deleted entry keeps the packets that wait at it.
Left_All(e) == entry[e].waiting

\* What nx_arp_dynamic_entry_delete leaves waiting at an entry.
Left(e) == <<>>

\* The others that wait at the entries are released.
Freed(gone) ==
    [p \in Packets |-> IF \E e \in gone : p \in Range(entry[e].waiting) \ Range(Left(e))
                         THEN None ELSE to[p]]

\* nx_arp_queue_send: the packets that wait are given to the driver in order.
Transmission(packets, hw) == [i \in DOMAIN packets |-> [dest |-> to[packets[i]], hw |-> hw]]
Sent(packets) == [p \in Packets |-> IF p \in Range(packets) THEN None ELSE to[p]]

-----------------------------------------------------------------------------
(* nx_arp_entry_allocate: the last entry of the dynamic list, deleted first if *)
(* it is in use, joins the end of the active list; a dynamic one becomes the   *)
(* head of its pool list, a static one changes lists.                          *)

Victim == Last(dynamic)
Allocated == Append(Without(table, {Victim}), Victim)

\* Mutant: the deletion of an entry in use is not counted.
AllocateDynamic_CountsAgain(ip, hw, timer, waiting) ==
    /\ entry' = [entry EXCEPT ![Victim] = [ip |-> ip, hw |-> hw, timer |-> timer,
                                           retries |-> 0, waiting |-> waiting]]
    /\ table' = Allocated
    /\ dynamic' = <<Victim>> \o Front(dynamic)
    /\ count' = count + 1
    /\ UNCHANGED static

\* A new dynamic entry
AllocateDynamic(ip, hw, timer, waiting) ==
    /\ entry' = [entry EXCEPT ![Victim] = [ip |-> ip, hw |-> hw, timer |-> timer,
                                           retries |-> 0, waiting |-> waiting]]
    /\ table' = Allocated
    /\ dynamic' = <<Victim>> \o Front(dynamic)
    /\ count' = IF Active(Victim) THEN count ELSE count + 1
    /\ UNCHANGED static

-----------------------------------------------------------------------------
(* nx_ip_driver_packet_send, for a unicast packet p to the next hop a *)

\* The address is known: the driver has the packet, the entry heads the list.
SendResolved(p, a) ==
    \E e \in Find(a) :
        /\ to[p] = None
        /\ entry[e].hw # None
        /\ wire' = <<[dest |-> a, hw |-> entry[e].hw]>>
        /\ table' = LET i == CHOOSE k \in DOMAIN table : table[k] = e
                    IN  SubSeq(table, i, Len(table)) \o SubSeq(table, 1, i - 1)
        /\ UNCHANGED <<dynamic, static, count, entry, to, restarts>>

\* It is not known yet: the packet waits, and may push out the oldest.
SendWaits(p, a) ==
    \E e \in Find(a) :
        LET q == entry[e].waiting
            full == Len(q) >= MaxDepth
        IN  /\ to[p] = None
            /\ entry[e].hw = None
            /\ entry' = [entry EXCEPT ![e].waiting = Append(IF full THEN Tail(q) ELSE q, p)]
            /\ to' = [x \in Packets |-> IF x = p THEN a
                                        ELSE IF full /\ x = Head(q) THEN None ELSE to[x]]
            /\ wire' = <<>>
            /\ UNCHANGED <<table, dynamic, static, count, restarts>>

\* There is no entry: a request is sent if one can be had, else the packet is
\* released.
SendFirst(p, a) ==
    /\ to[p] = None
    /\ Find(a) = {}
    /\ wire' = <<>>
    /\ UNCHANGED restarts
    /\ IF dynamic = <<>> THEN UNCHANGED <<table, dynamic, static, count, entry, to>>
       ELSE /\ AllocateDynamic(a, None, UpdateRate + 1, <<p>>)
            /\ to' = [Freed({Victim}) EXCEPT ![p] = a]

-----------------------------------------------------------------------------
(* Calls and packets that give an address *)

\* An entry that is there learns its hardware address and sends what waits.
Learn(e, a, timer) ==
    /\ entry' = [entry EXCEPT ![e] = [ip |-> a, hw |-> a, timer |-> timer,
                                      retries |-> 0, waiting |-> <<>>]]
    /\ wire' = Transmission(entry[e].waiting, a)
    /\ to' = Sent(entry[e].waiting)

\* nx_arp_packet_receive: host a answers, asks or announces itself.  A static
\* entry is left alone; without an entry one is made, if possible.
Receive(a) ==
    /\ IF Find(a) # {}
         THEN \E e \in Find(a) :
                /\ IF e \in Range(static) THEN wire' = <<>> /\ UNCHANGED <<entry, to>>
                   ELSE Learn(e, a, ExpirationRate)
                /\ UNCHANGED <<table, dynamic, static, count>>
       ELSE /\ wire' = <<>>
            /\ IF dynamic = <<>> THEN UNCHANGED <<table, dynamic, static, count, entry, to>>
               ELSE /\ AllocateDynamic(a, a, ExpirationRate, Left(Victim))
                    /\ to' = Freed({Victim})
    /\ UNCHANGED restarts

\* nx_arp_dynamic_entry_set with the hardware address known ...
DynamicSet(a) ==
    /\ Find(a) \cap Range(static) = {}
    /\ Receive(a)

\* ... and without it: the resolution starts, or starts over.
DynamicResolve(a) ==
    /\ restarts < MaxRestarts
    /\ Find(a) \cap Range(static) = {}
    /\ wire' = <<>>
    /\ restarts' = restarts + 1
    /\ IF Find(a) # {}
         THEN \E e \in Find(a) :
                /\ entry' = [entry EXCEPT ![e].hw = None, ![e].retries = 0,
                                          ![e].timer = UpdateRate + 1]
                /\ UNCHANGED <<table, dynamic, static, count, to>>
       ELSE IF dynamic = <<>> THEN UNCHANGED <<table, dynamic, static, count, entry, to>>
       ELSE /\ AllocateDynamic(a, None, UpdateRate + 1, Left(Victim))
            /\ to' = Freed({Victim})

\* Mutant: what waits at a dynamic entry is forgotten when it becomes static.
StaticCreateFound_KeepsWaiting(e, a) ==
    /\ entry' = [entry EXCEPT ![e].timer = 0, ![e].hw = a]
    /\ wire' = <<>> /\ to' = to
    /\ dynamic' = Without(dynamic, {e})
    /\ static' = IF e \in Range(static) THEN static ELSE Append(static, e)
    /\ count' = IF e \in Range(static) THEN count ELSE count - 1
    /\ UNCHANGED <<table, restarts>>

\* nx_arp_static_entry_create, with an entry for the address ...
StaticCreateFound(e, a) ==
    /\ entry' = [entry EXCEPT ![e].timer = 0, ![e].hw = a, ![e].waiting = <<>>]
    /\ wire' = Transmission(entry[e].waiting, a)
    /\ to' = Sent(entry[e].waiting)
    /\ dynamic' = Without(dynamic, {e})
    /\ static' = IF e \in Range(static) THEN static ELSE Append(static, e)
    /\ count' = IF e \in Range(static) THEN count ELSE count - 1
    /\ UNCHANGED <<table, restarts>>

\* ... and with none, when the last dynamic entry changes lists.
StaticCreateNew(a) ==
    /\ Find(a) = {} /\ dynamic # <<>>
    /\ entry' = [entry EXCEPT ![Victim].timer = 0, ![Victim].ip = a, ![Victim].hw = a,
                              ![Victim].waiting = Left(Victim)]
    /\ table' = Allocated
    /\ dynamic' = Front(dynamic)
    /\ static' = Append(static, Victim)
    /\ count' = IF Active(Victim) THEN count - 1 ELSE count
    /\ to' = Freed({Victim})
    /\ wire' = <<>>
    /\ UNCHANGED restarts

StaticCreate(a) == (\E e \in Find(a) : StaticCreateFound(e, a)) \/ StaticCreateNew(a)

-----------------------------------------------------------------------------
(* Deletion and the timer *)

\* nx_arp_dynamic_entry_delete, for each entry of gone that is active
DynamicDelete(gone) ==
    /\ entry' = [e \in Entries |-> IF e \in gone THEN [entry[e] EXCEPT !.waiting = Left(e)]
                                       ELSE entry[e]]
    /\ to' = Freed(gone)
    /\ table' = Without(table, gone)
    /\ count' = count - Cardinality(gone)
    /\ wire' = <<>>
    /\ UNCHANGED <<dynamic, static, restarts>>

\* nx_arp_static_entry_delete_internal, for entries in the order given
StaticDelete(gone) ==
    /\ table' = Without(table, Range(gone))
    /\ static' = Without(static, Range(gone))
    /\ dynamic' = dynamic \o gone
    /\ wire' = <<>>
    /\ UNCHANGED <<count, entry, to, restarts>>

\* nx_arp_entry_delete
EntryDelete(a) ==
    \E e \in Find(a) : IF e \in Range(static) THEN StaticDelete(<<e>>) ELSE DynamicDelete({e})

\* nx_arp_static_entries_delete
StaticEntriesDelete == static # <<>> /\ StaticDelete(static)

\* nx_arp_dynamic_entries_invalidate: from the head of the dynamic list, as many
\* active entries as are counted.
DynamicInvalidate ==
    LET used == Only(dynamic, Range(table))
    IN  /\ dynamic # <<>> /\ count > 0
        /\ DynamicDelete(Range(SubSeq(used, 1, count)))

\* Mutant: a retry is not counted.
Ticked_NeverCounts(r) ==
    IF r.timer = 1 THEN [r EXCEPT !.timer = UpdateRate] ELSE [r EXCEPT !.timer = @ - 1]

\* An entry's timer goes on; when it runs out a request is sent again.
Ticked(r) ==
    IF r.timer = 1 THEN [r EXCEPT !.timer = UpdateRate, !.retries = @ + 1]
    ELSE [r EXCEPT !.timer = @ - 1]

\* nx_arp_periodic_update: entries that have used up their retries leave the
\* active list for the tail of the dynamic one, and what waits is released.
PeriodicUpdate ==
    LET timed == {e \in Range(dynamic) : Active(e) /\ entry[e].timer # 0}
        expired == {e \in timed : entry[e].timer = 1 /\ entry[e].retries = MaxRetries}
    IN  /\ timed # {}
        /\ entry' = [e \in Entries |->
                       IF e \in expired THEN [entry[e] EXCEPT !.timer = 0, !.waiting = Left(e)]
                       ELSE IF e \in timed THEN Ticked(entry[e]) ELSE entry[e]]
        /\ table' = Without(table, expired)
        /\ dynamic' = Without(dynamic, expired) \o Only(dynamic, expired)
        /\ count' = count - Cardinality(expired)
        /\ to' = Freed(expired)
        /\ wire' = <<>>
        /\ UNCHANGED <<static, restarts>>

-----------------------------------------------------------------------------
Send(p, a) == SendResolved(p, a) \/ SendWaits(p, a) \/ SendFirst(p, a)

Next ==
    \/ \E p \in Packets, a \in Addresses : Send(p, a)
    \/ \E a \in Addresses :
          Receive(a) \/ DynamicSet(a) \/ DynamicResolve(a) \/ StaticCreate(a) \/ EntryDelete(a)
    \/ StaticEntriesDelete
    \/ DynamicInvalidate
    \/ PeriodicUpdate

\* The IP thread's one-second event comes again and again.
Spec == Init /\ [][Next]_vars /\ WF_vars(PeriodicUpdate)

-----------------------------------------------------------------------------
(* Properties *)

\* The lists and the counter that eight functions edit agree: the dynamic and
\* the static list share the cache out, every static entry is in use, no two
\* entries in use have one address, and the counter, by which the invalidation
\* stops, is the number of dynamic entries in use.
ListsAgree ==
    /\ IsInjective(dynamic \o static) /\ Range(dynamic \o static) = Entries
    /\ IsInjective(table) /\ Range(static) \subseteq Range(table)
    /\ \A e, f \in Range(table) : entry[e].ip = entry[f].ip => e = f
    /\ count = Cardinality(Range(table) \cap Range(dynamic))

\* A packet is held only where something ends its wait: at one entry, in use,
\* for its own destination, without a hardware address (else a later packet
\* would overtake it) and with its timer running; never more than the depth.
WaitHasTimer ==
    /\ \A e \in Entries : entry[e].waiting # <<>> =>
          /\ e \in Range(table) \cap Range(dynamic)
          /\ entry[e].hw = None /\ entry[e].timer # 0
          /\ Len(entry[e].waiting) <= MaxDepth
    /\ \A p \in Packets : to[p] # None =>
          \E e \in Entries : p \in Range(entry[e].waiting) /\ entry[e].ip = to[p]

\* Whatever entries were evicted, expired, deleted and used again meanwhile, no
\* packet is sent to the hardware address of another host.
SentToItsAddress == \A i \in DOMAIN wire : wire[i].hw = wire[i].dest

\* A packet that waits is sent or released in the end, whether or not the other
\* host ever answers.
WaitEnds == \A p \in Packets : to[p] # None ~> to[p] = None

=============================================================================
