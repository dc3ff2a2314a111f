------------------------------ MODULE MCReactor ------------------------------
(* Instances of Reactor for TLC: two threads beside the owner.               *)
EXTENDS Reactor, TLC

Symmetry == Permutations(Thread)
=============================================================================
