-------------------------- MODULE MCTcpConnection --------------------------
(***************************************************************************)
(* Two connections, one after the other or one in the way of the other, of  *)
(* two sockets that play the same part.                                      *)
(***************************************************************************)
EXTENDS TcpConnection, TLC

Symmetry == Permutations(Ends)

=============================================================================
