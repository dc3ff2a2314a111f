---------------------------- MODULE MCSendQueue ----------------------------
(* Instances of SendQueue for TLC: three messages, one of which does not     *)
(* ask to be told of its failure.                                            *)
EXTENDS SendQueue, TLC

CONSTANTS m1, m2, m3

MCMsg == {m1, m2, m3}
MCFailNotice == {m1, m2}
Symmetry == Permutations(MCFailNotice)
=============================================================================
