---------------------------- MODULE MCTaskBoard ----------------------------
(* Instances of TaskBoard for TLC: threads and connections are symmetric.   *)
EXTENDS TaskBoard, TLC

Symmetry == Permutations(Thread) \cup Permutations(Conn) \cup Permutations(Task)
=============================================================================
