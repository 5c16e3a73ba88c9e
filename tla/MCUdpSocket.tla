---------------------------- MODULE MCUdpSocket ----------------------------
(* UdpSocket for TLC: the threads are interchangeable. *)
EXTENDS UdpSocket, TLC

Symmetry == Permutations(Threads)

=============================================================================
