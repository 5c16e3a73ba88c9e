---------------------------- MODULE MCTcpServer ----------------------------
(* TcpServer for TLC: sockets and clients are interchangeable. *)
EXTENDS TcpServer, TLC

Symmetry == Permutations(Sockets) \cup Permutations(Clients)

=============================================================================
