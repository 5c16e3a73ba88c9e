----------------------------- MODULE Reassembly -----------------------------
(***************************************************************************)
(* Reassembly of fragmented IP datagrams: fragments wait on the list the     *)
(* receive path fills, the IP thread takes the whole list at once and sorts  *)
(* each fragment into its datagram, a complete datagram is dispatched, an    *)
(* incomplete one is released when its time has run out, and no more is      *)
(* held than the packet pool can spare.                                      *)
(*                                                                           *)
(* The network repeats, reorders and loses fragments, and a datagram may     *)
(* have been cut in different ways on different paths, so that fragments     *)
(* overlap.                                                                  *)
(*                                                                           *)
(* Abstracted: a datagram stands for its version, identification, protocol   *)
(* and addresses; offsets count units of eight bytes; a fragment is one      *)
(* packet of one pool; this is the only IP instance (NX_IP_FRAGMENT_ADMIT is *)
(* true); the ICMP message about a time-out is left out.                     *)
(***************************************************************************)
EXTENDS Naturals, FiniteSets, SequencesExt

CONSTANTS
    Datagrams,      \* the datagrams of the peer
    Size,           \* their length in units
    PoolTotal,      \* nx_packet_pool_total
    Reserve,        \* NX_IP_FRAGMENT_POOL_RESERVE
    MaxTime,        \* NX_IPV4_MAX_REASSEMBLY_TIME
    MaxReceived     \* bound: fragments not yet looked at

ASSUME ReassemblyAssumption ==
    /\ IsFiniteSet(Datagrams)
    /\ Size \in Nat /\ Size > 1
    /\ {PoolTotal, Reserve, MaxTime, MaxReceived} \subseteq Nat /\ Reserve <= PoolTotal

VARIABLES
    received,   \* nx_ip_received_fragment_head ... tail
    assembly,   \* nx_ip_fragment_assembly_head ... tail: the datagrams, each
                \* with its fragments and the np_reassembly_time of the first
    dispatched, \* what the last step gave to the protocols, in order
    enabled     \* nx_ip_fragment_assembly is set

vars == <<received, assembly, dispatched, enabled>>

Fragments ==
    {f \in [id : Datagrams, off : 0..(Size - 1), len : 1..(Size - 1), more : BOOLEAN] :
        /\ f.off + f.len <= Size
        /\ f.more = (f.off + f.len < Size)}

Init ==
    /\ received = <<>> /\ assembly = <<>> /\ dispatched = <<>>
    /\ enabled = TRUE

-----------------------------------------------------------------------------
\* nx_ip_fragment_assembly_held
Held(list) == FoldLeft(LAMBDA n, d : n + Len(d.frags), 0, list)

\* nx_ip_fragment_assembly_fits
Fits(list) == Held(list) + 1 <= PoolTotal - Reserve

\* nx_ipv4_packet_receive: a fragment is put on the list for the IP thread.
Arrive(f) ==
    /\ enabled
    /\ Len(received) < MaxReceived
    /\ Len(received) + Held(assembly) < PoolTotal
    /\ received' = Append(received, f)
    /\ dispatched' = <<>>
    /\ UNCHANGED <<assembly, enabled>>

\* The fragments in order of their offsets; a new one takes the place of the
\* one that has its offset.
Insert(frags, f) ==
    SelectSeq(frags, LAMBDA x : x.off < f.off) \o <<f>>
        \o SelectSeq(frags, LAMBDA x : x.off > f.off)

\* Mutant: the last fragment is not asked whether it is the last.
Complete_AnyEnd(frags) ==
    /\ Head(frags).off = 0
    /\ \A i \in 1..(Len(frags) - 1) : frags[i + 1].off = frags[i].off + frags[i].len

\* Each fragment starts where the one before it ends, from zero to the last.
Complete(frags) ==
    /\ Head(frags).off = 0
    /\ \A i \in 1..(Len(frags) - 1) : frags[i + 1].off = frags[i].off + frags[i].len
    /\ ~Last(frags).more

\* Mutant: a fragment brings its own time.
Merged_FreshTime(d, f) == [frags |-> Insert(d.frags, f), time |-> MaxTime]

\* A fragment takes over the time of the datagram it belongs to.
Merged(d, f) == [frags |-> Insert(d.frags, f), time |-> d.time]

\* One fragment of the list: it is released for lack of room, starts a datagram
\* at the tail, waits with the others, or completes them.
Placed(s, f) ==
    LET at == {i \in DOMAIN s.list : Head(s.list[i].frags).id = f.id}
        i == CHOOSE k \in at : TRUE
        d == Merged(s.list[i], f)
    IN  IF ~Fits(s.list) THEN s
        ELSE IF at = {} THEN [s EXCEPT !.list = Append(@, [frags |-> <<f>>, time |-> MaxTime])]
        ELSE IF Complete(d.frags) THEN [list |-> RemoveAt(s.list, i), out |-> Append(s.out, d.frags)]
        ELSE [s EXCEPT !.list[i] = d]

\* nx_ip_fragment_assembly, on the IP thread's NX_IP_UNFRAG_EVENT
Assemble ==
    /\ enabled /\ received # <<>>
    /\ \E s \in {FoldLeft(Placed, [list |-> assembly, out |-> <<>>], received)} :
          assembly' = s.list /\ dispatched' = s.out
    /\ received' = <<>>
    /\ UNCHANGED enabled

\* nx_ip_fragment_timeout_check
TimeoutCheck ==
    LET alive == SelectSeq(assembly, LAMBDA d : d.time # 0)
    IN  /\ enabled /\ assembly # <<>>
        /\ assembly' = [i \in DOMAIN alive |-> [alive[i] EXCEPT !.time = @ - 1]]
        /\ dispatched' = <<>>
        /\ UNCHANGED <<received, enabled>>

\* nx_ip_fragment_disable releases all there is; nx_ip_fragment_enable
Disable ==
    /\ enabled /\ enabled' = FALSE
    /\ received' = <<>> /\ assembly' = <<>> /\ dispatched' = <<>>

Enable ==
    /\ ~enabled /\ enabled' = TRUE
    /\ dispatched' = <<>>
    /\ UNCHANGED <<received, assembly>>

-----------------------------------------------------------------------------
Next ==
    \/ \E f \in Fragments : Arrive(f)
    \/ Assemble
    \/ TimeoutCheck
    \/ Disable \/ Enable

\* The IP thread serves its one-second event again and again.
Spec == Init /\ [][Next]_vars /\ WF_vars(TimeoutCheck)

-----------------------------------------------------------------------------
(* Properties *)

Holds(d) == \E i \in DOMAIN assembly : Head(assembly[i].frags).id = d

\* The reference: fragments of one datagram that hold each of its units once.
IsWhole(F) ==
    /\ \E d \in Datagrams : \A f \in F : f.id = d
    /\ \A u \in 0..(Size - 1) : Cardinality({f \in F : f.off <= u /\ u < f.off + f.len}) = 1

\* What is dispatched is a whole datagram, its units in order, however its
\* fragments were cut, repeated and mixed with others; and none that is whole
\* is left on the list.
DispatchedIsWhole ==
    /\ \A i \in DOMAIN dispatched :
          /\ IsWhole(Range(dispatched[i]))
          /\ \A j, k \in DOMAIN dispatched[i] : j < k => dispatched[i][j].off < dispatched[i][k].off
    /\ \A i \in DOMAIN assembly : ~IsWhole(Range(assembly[i].frags))

\* A datagram that is begun is dispatched or released in the end, even if
\* fragments of it arrive again and again.
BegunEnds ==
    \A d \in Datagrams :
        Holds(d) ~> (~Holds(d) \/ \E i \in DOMAIN dispatched : Head(dispatched[i]).id = d)

=============================================================================
