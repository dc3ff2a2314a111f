----------------------------- MODULE MCTcpConn -----------------------------
(* Two connection objects, two descriptors and two ids, all alike.           *)
EXTENDS TcpConn, TLC

Symmetry == Permutations(Handler) \cup Permutations(Fd) \cup Permutations(ConnId)
=============================================================================
