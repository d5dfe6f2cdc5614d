----------------------------- MODULE MCTcpServer -----------------------------
(* Constants for the runs of TcpServer.                                     *)
EXTENDS TcpServer, TLC

\* Two samples that cancel out; -1 has both bytes set.
Loud == {-1, 1}

ConnSymmetry == Permutations(Conn)
=============================================================================
