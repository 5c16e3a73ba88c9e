---------------------------- MODULE MCTcpSender ----------------------------
(* TcpSender for TLC: the threads are interchangeable. *)
EXTENDS TcpSender, TLC

Symmetry == Permutations(Threads)

=============================================================================
