------------------------------ MODULE UdpSocket ------------------------------
(***************************************************************************)
(* UDP sockets that want one local port: bind and unbind with the threads    *)
(* that wait for the port, receive with the threads that wait for a          *)
(* datagram, the delivery of unicast and multicast datagrams to sockets that *)
(* share the port, ICMP errors and timeouts.                                 *)
(*                                                                           *)
(* Suspended threads are linked in rings through the threads themselves, and *)
(* a socket points at one thread of a ring, as in the code: two sockets that *)
(* point into one ring, or a pointer left to a thread that does not wait any *)
(* more, can be told from a list that is in order.                           *)
(*                                                                           *)
(* bind, unbind, the delivery and the ICMP handler hold the IP mutex; receive *)
(* and the timer's clean-ups take no mutex, they only disable interrupts.  So *)
(* they come between any two steps of a handler that holds the mutex, which   *)
(* are split wherever the code enables interrupts and preemption.             *)
(*                                                                           *)
(* The code's properties need an application that keeps to three rules:       *)
(*   "unbind": when it unbinds a socket, one thread at most waits in receive  *)
(*             on it, and without a timeout;                                  *)
(*   "behind": a thread that waits in bind behind another waits without a     *)
(*             timeout, and its bind is not cancelled;                        *)
(*   "cancel": a bind with a timeout is not cancelled.                        *)
(* Careless names the rules that are not kept.                                *)
(*                                                                           *)
(* Abstracted: a datagram is a token, its checksum good or bad by choice;     *)
(* what a call returns, receive callbacks and the lookup of other ports are   *)
(* left out, and nx_udp_socket_bind_suspended_count, which nothing reads.     *)
(* Datagrams and ICMP messages are handled by the IP thread, which holds the  *)
(* mutex; a thread that is resumed has returned from its call.                *)
(***************************************************************************)
EXTENDS Integers, FiniteSets, SequencesExt

CONSTANTS
    Threads,        \* application threads
    Sockets,        \* sockets that use the port
    Sharing,        \* those with nx_udp_socket_share set
    First,          \* those with NX_UDP_SOCKET_SHARE_FIRST
    None,           \* no thread, no socket
    QueueMax,       \* nx_udp_socket_queue_maximum
    Careless        \* the rules the application does not keep

ASSUME UdpAssumption ==
    /\ IsFiniteSet(Threads) /\ IsFiniteSet(Sockets)
    /\ First \subseteq Sharing /\ Sharing \subseteq Sockets
    /\ None \notin Threads \cup Sockets
    /\ QueueMax \in Nat \ {0}
    /\ Careless \subseteq {"unbind", "behind", "cancel"}

VARIABLES
    table,      \* nx_ip_udp_port_table: the bound sockets, the head first
    queue,      \* nx_udp_socket_receive_count: datagrams queued at each socket
    error,      \* nx_udp_socket_icmp_error
    readers,    \* nx_udp_socket_receive_suspension_list, a thread of the ring
    count,      \* nx_udp_socket_receive_suspended_count
    binders,    \* nx_udp_socket_bind_suspension_list, a thread of the ring
    owner,      \* nx_udp_socket_bound_previous of a socket whose bind waits
    binding,    \* nx_udp_socket_bind_in_progress
    next, prev, \* tx_thread_suspended_next and _previous
    thread,     \* the rest of each thread: its call and its wait
    busy        \* the handler that holds the IP mutex, between two of its steps

vars == <<table, queue, error, readers, count, binders, owner, binding, next, prev, thread, busy>>
bindVars == <<binders, owner, binding>>
readVars == <<readers, count>>
ringVars == <<next, prev>>

Nobody == [by |-> None, sock |-> None, at |-> "none", cursor |-> None, pos |-> 0]

\* A thread is suspended while its call is bind or receive.
Idle == [call |-> "none", cleanup |-> FALSE, block |-> None, wait |-> "forever"]

Init ==
    /\ table = <<>>
    /\ queue = [s \in Sockets |-> 0]
    /\ error = [s \in Sockets |-> FALSE]
    /\ readers = [s \in Sockets |-> None]
    /\ count = [s \in Sockets |-> 0]
    /\ binders = [s \in Sockets |-> None]
    /\ owner = [s \in Sockets |-> None]
    /\ binding = [s \in Sockets |-> None]
    /\ next = [t \in Threads |-> t] /\ prev = [t \in Threads |-> t]
    /\ thread = [t \in Threads |-> Idle]
    /\ busy = Nobody

-----------------------------------------------------------------------------
(* Rings of suspended threads *)

\* Thread t joins the ring of h at its end, or starts one.
Link(h, t) ==
    /\ next' = IF h = None THEN [next EXCEPT ![t] = t]
               ELSE [next EXCEPT ![t] = h, ![prev[h]] = t]
    /\ prev' = IF h = None THEN [prev EXCEPT ![t] = t]
               ELSE [prev EXCEPT ![t] = prev[h], ![h] = t]

\* Thread t leaves its ring: its neighbours are linked, its own links stay.
Unlink(t) ==
    /\ next' = IF next[t] = t THEN next ELSE [next EXCEPT ![prev[t]] = next[t]]
    /\ prev' = IF next[t] = t THEN prev ELSE [prev EXCEPT ![next[t]] = prev[t]]

\* Mutant: the case of the only thread is forgotten.
After_Next(t) == next[t]

\* What a list points at after thread t has left its ring.
After(t) == IF next[t] = t THEN None ELSE next[t]

\* Thread t suspends in a call on socket s, its clean-up routine set.
Suspend(t, call, s, wait) ==
    thread' = [thread EXCEPT ![t] = [call |-> call, cleanup |-> TRUE, block |-> s, wait |-> wait]]

\* A thread that is resumed is free to call again.
Resume(t) == thread' = [thread EXCEPT ![t] = Idle]

Running(t) == thread[t].call = "none" /\ busy.by # t
Waits(call) == {t \in Threads : thread[t].call = call}

MutexFree == busy = Nobody

Keeps(rule) == rule \notin Careless

-----------------------------------------------------------------------------
(* nx_udp_socket_bind *)

Available(s) == table # <<>> => Head(table) \in Sharing /\ s \in Sharing

BindNow(t, s) ==
    /\ Running(t) /\ MutexFree
    /\ s \notin Range(table) /\ binding[s] = None
    /\ Available(s)
    /\ table' = IF s \in First THEN <<s>> \o table ELSE Append(table, s)
    /\ UNCHANGED <<queue, error, readVars, bindVars, ringVars, thread, busy>>

\* How long a thread may wait in bind on the list of h.
WaitsOn(h) == IF binders[h] # None /\ Keeps("behind") THEN {"behind"} ELSE {"timed", "forever"}

\* With a wait option the thread is suspended on the first socket that has the
\* port, and its own socket remembers which that was.
BindWaits(t, s) ==
    LET h == Head(table)
    IN  /\ Running(t) /\ MutexFree
        /\ s \notin Range(table) /\ binding[s] = None
        /\ ~Available(s)
        /\ owner' = [owner EXCEPT ![s] = h]
        /\ binding' = [binding EXCEPT ![s] = t]
        /\ Link(binders[h], t)
        /\ binders' = IF binders[h] = None THEN [binders EXCEPT ![h] = t] ELSE binders
        /\ \E wait \in WaitsOn(h) : Suspend(t, "bind", s, wait)
        /\ UNCHANGED <<table, queue, error, readVars, busy>>

\* nx_udp_bind_cleanup: the list edited is that of the socket remembered.
BindCleanup(t) ==
    LET s == thread[t].block
    IN  /\ thread[t].cleanup
        /\ binding' = [binding EXCEPT ![s] = None]
        /\ owner' = [owner EXCEPT ![s] = None]
        /\ binders' = [binders EXCEPT ![owner[s]] = After(t)]
        /\ Unlink(t)
        /\ Resume(t)
        /\ UNCHANGED <<table, queue, error, readVars>>

Expires(call, t) == thread[t].call = call /\ thread[t].wait = "timed"

\* The timer needs no mutex.
BindTimeout(t) ==
    /\ Expires("bind", t)
    /\ BindCleanup(t)
    /\ UNCHANGED busy

-----------------------------------------------------------------------------
(* nx_udp_socket_receive *)

\* An error is returned once; a datagram of the queue is returned, or, its
\* checksum being bad, released, and the call starts again.
ReceiveNow(t, s) ==
    /\ Running(t)
    /\ s \in Range(table)
    /\ \/ error[s] /\ error' = [error EXCEPT ![s] = FALSE] /\ queue' = queue
       \/ ~error[s] /\ queue[s] > 0 /\ queue' = [queue EXCEPT ![s] = @ - 1] /\ error' = error
    /\ UNCHANGED <<table, readVars, bindVars, ringVars, thread, busy>>

ReceiveWaits(t, s) ==
    /\ Running(t)
    /\ s \in Range(table)
    /\ ~error[s] /\ queue[s] = 0
    /\ Link(readers[s], t)
    /\ readers' = IF readers[s] = None THEN [readers EXCEPT ![s] = t] ELSE readers
    /\ count' = [count EXCEPT ![s] = @ + 1]
    /\ \E wait \in {"timed", "forever"} : Suspend(t, "receive", s, wait)
    /\ UNCHANGED <<table, queue, error, bindVars, busy>>

\* The first reader of socket s, or one that leaves before its turn, is resumed.
Leaves(t, s) ==
    /\ readers' = [readers EXCEPT ![s] = After(t)]
    /\ count' = [count EXCEPT ![s] = @ - 1]
    /\ Unlink(t)
    /\ Resume(t)

\* nx_udp_receive_cleanup, run by the timer
ReceiveTimeout(t) ==
    /\ Expires("receive", t)
    /\ thread[t].cleanup
    /\ Leaves(t, thread[t].block)
    /\ UNCHANGED <<table, queue, error, bindVars, busy>>

-----------------------------------------------------------------------------
(* nx_udp_socket_unbind *)

\* The bind of a socket that is not bound is cancelled instead: the thread is
\* read, and cleaned up if it still waits.
UnbindWaiting(t, s) ==
    /\ Running(t) /\ MutexFree
    /\ s \notin Range(table) /\ binding[s] # None
    /\ Keeps("cancel") => thread[binding[s]].wait # "timed"
    /\ Keeps("behind") => thread[binding[s]].wait # "behind"
    /\ busy' = [by |-> t, sock |-> s, at |-> "cancel", cursor |-> binding[s], pos |-> 0]
    /\ UNCHANGED <<table, queue, error, readVars, bindVars, ringVars, thread>>

UnbindCancel ==
    /\ busy.at = "cancel"
    /\ IF thread[busy.cursor].cleanup THEN BindCleanup(busy.cursor)
       ELSE UNCHANGED <<table, queue, error, readVars, bindVars, ringVars, thread>>
    /\ busy' = Nobody

ReadersOf(s) == {u \in Waits("receive") : thread[u].block = s}

\* The socket is unlinked from the table ...
Unbind(t, s) ==
    /\ Running(t) /\ MutexFree
    /\ Keeps("unbind") => /\ Cardinality(ReadersOf(s)) <= 1
                          /\ \A u \in ReadersOf(s) : thread[u].wait = "forever"
    /\ \E i \in DOMAIN table : table[i] = s /\ table' = RemoveAt(table, i)
    /\ error' = [error EXCEPT ![s] = FALSE]
    /\ busy' = [Nobody EXCEPT !.by = t, !.sock = s, !.at = "flush"]
    /\ UNCHANGED <<queue, readVars, bindVars, ringVars, thread>>

\* Mutant: the readers are left suspended.
UnbindFlush_LeavesReaders ==
    /\ busy.at = "flush"
    /\ queue' = [queue EXCEPT ![busy.sock] = 0]
    /\ busy' = [busy EXCEPT !.at = "hand over"]
    /\ UNCHANGED <<table, error, readVars, bindVars, ringVars, thread>>

\* ... its queue is released, or else its readers are to be resumed ...
UnbindFlush ==
    LET s == busy.sock
    IN  /\ busy.at = "flush"
        /\ queue' = [queue EXCEPT ![s] = 0]
        /\ busy' = [busy EXCEPT !.at = IF queue[s] = 0 /\ count[s] # 0 THEN "list" ELSE "hand over"]
        /\ UNCHANGED <<table, error, readVars, bindVars, ringVars, thread>>

\* ... their list is taken ...
UnbindList ==
    /\ busy.at = "list"
    /\ busy' = [busy EXCEPT !.at = "clear", !.cursor = readers[busy.sock]]
    /\ UNCHANGED <<table, queue, error, readVars, bindVars, ringVars, thread>>

UnbindClear ==
    /\ busy.at = "clear"
    /\ readers' = [readers EXCEPT ![busy.sock] = None]
    /\ busy' = [busy EXCEPT !.at = "resume"]
    /\ UNCHANGED <<table, queue, error, count, bindVars, ringVars, thread>>

\* ... and they are resumed, as many as are counted: the one before the one
\* after the cursor, which is the cursor while nobody edits the ring.  A reader
\* that is resumed may run at once, before it is counted.
UnbindTest ==
    /\ busy.at = "resume"
    /\ busy' = IF count[busy.sock] # 0 THEN [busy EXCEPT !.at = "wake"]
                                       ELSE [busy EXCEPT !.at = "hand over", !.cursor = None]
    /\ UNCHANGED <<table, queue, error, readVars, bindVars, ringVars, thread>>

UnbindWake ==
    LET t == busy.cursor
    IN  /\ busy.at = "wake"
        /\ thread' = [thread EXCEPT ![t].cleanup = FALSE, ![prev[next[t]]] = Idle]
        /\ busy' = [busy EXCEPT !.at = "counted", !.cursor = next[t]]
        /\ UNCHANGED <<table, queue, error, readVars, bindVars, ringVars>>

\* Below zero, which stands for a wrapped count, the loop goes on.
UnbindCount ==
    /\ busy.at = "counted"
    /\ count' = [count EXCEPT ![busy.sock] = @ - 1]
    /\ busy' = [busy EXCEPT !.at = "resume"]
    /\ UNCHANGED <<table, queue, error, readers, bindVars, ringVars, thread>>

\* Mutant: the port is given to nobody.
UnbindHandOver_ToNobody ==
    /\ busy.at = "hand over"
    /\ busy' = Nobody
    /\ UNCHANGED <<table, queue, error, readVars, bindVars, ringVars, thread>>

\* What becomes of the list of s when the socket new has the port.
Inherit_Nothing(s, new, rest) == [binders EXCEPT ![s] = None]

Inherit(s, new, rest) == [binders EXCEPT ![s] = None, ![new] = rest]

\* ... Then the port goes to the first thread that waits for it, whose socket
\* inherits the list of the others.
UnbindHandOver ==
    LET s == busy.sock
        u == binders[s]
        new == thread[u].block
    IN  /\ busy.at = "hand over"
        /\ \/ /\ u = None
              /\ UNCHANGED <<table, bindVars, ringVars, thread>>
           \/ /\ u # None
              /\ table' = Append(table, new)
              /\ binding' = [binding EXCEPT ![new] = None]
              /\ binders' = Inherit(s, new, After(u))
              /\ Unlink(u)
              /\ Resume(u)
              /\ owner' = [owner EXCEPT ![new] = None]
        /\ busy' = Nobody
        /\ UNCHANGED <<queue, error, readVars>>

-----------------------------------------------------------------------------
(* The IP thread *)

\* A full queue drops its oldest datagram.
Queued(n) == IF n < QueueMax THEN n + 1 ELSE n

\* A thread that waits takes the datagram at once.
Deliver(s) ==
    \/ /\ readers[s] = None
       /\ queue' = [queue EXCEPT ![s] = Queued(@)]
       /\ UNCHANGED <<readVars, ringVars, thread>>
    \/ /\ readers[s] # None
       /\ Leaves(readers[s], s)
       /\ UNCHANGED queue

\* nx_udp_packet_receive.  Of a multicast datagram each socket that shares the
\* port with the first one has a copy, if a packet for it can be had ...
Arrives ==
    /\ MutexFree
    /\ table # <<>>
    /\ \E from \in {Len(table) + 1} \cup (IF Head(table) \in Sharing THEN {2} ELSE {}) :
          busy' = [Nobody EXCEPT !.at = "deliver", !.pos = from]
    /\ UNCHANGED <<table, queue, error, readVars, bindVars, ringVars, thread>>

DeliverCopy ==
    /\ busy.at = "deliver" /\ busy.pos <= Len(table)
    /\ \/ table[busy.pos] \in Sharing /\ Deliver(table[busy.pos])
       \/ UNCHANGED <<queue, readVars, ringVars, thread>>
    /\ busy' = [busy EXCEPT !.pos = @ + 1]
    /\ UNCHANGED <<table, error, bindVars>>

\* ... and the first one has the datagram.
DeliverFirst ==
    /\ busy.at = "deliver" /\ busy.pos > Len(table)
    /\ Deliver(Head(table))
    /\ busy' = Nobody
    /\ UNCHANGED <<table, error, bindVars>>

\* nx_udp_socket_icmp_error_process, for the socket whose callback accepts the
\* error: it is pending ...
IcmpError(s) ==
    /\ MutexFree
    /\ s \in Range(table)
    /\ error' = [error EXCEPT ![s] = TRUE]
    /\ busy' = [Nobody EXCEPT !.sock = s, !.at = "error"]
    /\ UNCHANGED <<table, queue, readVars, bindVars, ringVars, thread>>

\* ... if a thread is counted as waiting ...
IcmpTest ==
    /\ busy.at = "error"
    /\ busy' = IF count[busy.sock] # 0 THEN [busy EXCEPT !.at = "lift"] ELSE Nobody
    /\ UNCHANGED <<table, queue, error, readVars, bindVars, ringVars, thread>>

\* ... the first one is resumed with what is pending then.
IcmpLift ==
    LET s == busy.sock
    IN  /\ busy.at = "lift"
        /\ \/ /\ readers[s] = None
              /\ UNCHANGED <<error, readVars, ringVars, thread>>
           \/ /\ readers[s] # None
              /\ Leaves(readers[s], s)
              /\ error' = [error EXCEPT ![s] = FALSE]
        /\ busy' = Nobody
        /\ UNCHANGED <<table, queue, bindVars>>

-----------------------------------------------------------------------------
Call(t, s) ==
    BindNow(t, s) \/ BindWaits(t, s) \/ ReceiveNow(t, s) \/ ReceiveWaits(t, s)
        \/ Unbind(t, s) \/ UnbindWaiting(t, s)

Next ==
    \/ \E t \in Threads, s \in Sockets : Call(t, s)
    \/ \E t \in Threads : BindTimeout(t) \/ ReceiveTimeout(t)
    \/ UnbindCancel \/ UnbindFlush \/ UnbindList \/ UnbindClear
    \/ UnbindTest \/ UnbindWake \/ UnbindCount \/ UnbindHandOver
    \/ Arrives \/ DeliverCopy \/ DeliverFirst
    \/ \E s \in Sockets : IcmpError(s)
    \/ IcmpTest \/ IcmpLift

Spec == Init /\ [][Next]_vars

-----------------------------------------------------------------------------
(* Properties *)

\* The threads of the ring that h points into.
Ring(h) ==
    LET walk[k \in 0..Cardinality(Threads)] == IF k = 0 THEN h ELSE next[walk[k - 1]]
    IN  IF h = None THEN {} ELSE {walk[k] : k \in 0..Cardinality(Threads)}

\* The threads suspended in receive on a socket are those of its list and as
\* many as it counts, whichever of datagrams, errors, timeouts and unbind took
\* some of them away; not while unbind has the list in hand.
ReadersAgree ==
    \A s \in Sockets : ~(busy.sock = s /\ busy.at \in {"resume", "wake", "counted"}) =>
        /\ Ring(readers[s]) = ReadersOf(s)
        /\ count[s] = Cardinality(ReadersOf(s))

\* Every thread that waits in bind is on the list of one socket, which has the
\* port or is just giving it up, and no list holds a thread that does not wait,
\* through the hand-over of the list from socket to socket.
BindersAgree ==
    /\ \A s \in Sockets : Ring(binders[s]) \subseteq Waits("bind")
    /\ \A t \in Waits("bind") : \E s \in Sockets :
          (s \in Range(table) \/ s = busy.sock) /\ t \in Ring(binders[s])

\* Nobody waits for the port while it is free.
NoBinderBesidesFreePort == MutexFree /\ Waits("bind") # {} => table # <<>>

\* Nobody waits for a datagram beside one; nor beside an error not yet reported
\* or on a socket that is not bound, but while unbind or the ICMP handler is
\* about to resume a reader of that socket.
NoReaderBesidesData ==
    \A t \in Waits("receive") :
        LET s == thread[t].block
        IN  queue[s] = 0 /\ (busy.sock # s => s \in Range(table) /\ ~error[s])

=============================================================================
