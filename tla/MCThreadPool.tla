---------------------------- MODULE MCThreadPool ----------------------------
(* Instances of ThreadPool for TLC: messages of length one, two worker       *)
(* threads and a queue that is full with one or two messages.                *)
EXTENDS ThreadPool, TLC

MCLength == [m \in Msg |-> 1]
Symmetry == Permutations(Producer) \cup Permutations(Controller) \cup Permutations(Msg)
=============================================================================
