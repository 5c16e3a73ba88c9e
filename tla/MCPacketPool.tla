---------------------------- MODULE MCPacketPool ----------------------------
(* Instances of PacketPool for TLC. *)
EXTENDS PacketPool, TLC

\* The packets are interchangeable, and so are the threads.
Symmetry == Permutations(Packets) \cup Permutations(Threads)
=============================================================================
