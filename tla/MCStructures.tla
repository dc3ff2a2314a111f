---------------------------- MODULE MCStructures ----------------------------
(* Parts of the library that do not meet, checked side by side: a behaviour   *)
(* is of one of them (part).  Of the queue's three messages one is empty.     *)
EXTENDS MsgQueue, TaskIndex, IdLock, RecvMsg, TimeHeap, TLC

CONSTANTS m0, m1, m2

VARIABLE part

Parts == {"queue", "index", "lock", "recv", "heap"}

MCLength == (m0 :> 0) @@ (m1 :> 1) @@ (m2 :> 2)

structuresVars == <<part, queueVars, indexVars, lockVars, rxVars, heapVars>>

StructuresInit == Init /\ IndexInit /\ LockInit /\ RecvInit /\ HeapInit /\ part \in Parts

StructuresNext ==
  \/ part = "queue" /\ Next /\ UNCHANGED <<part, indexVars, lockVars, rxVars, heapVars>>
  \/ part = "index" /\ IndexNext /\ UNCHANGED <<part, queueVars, lockVars, rxVars, heapVars>>
  \/ part = "lock" /\ LockNext /\ UNCHANGED <<part, queueVars, indexVars, rxVars, heapVars>>
  \/ part = "recv" /\ RecvNext /\ UNCHANGED <<part, queueVars, indexVars, lockVars, heapVars>>
  \/ part = "heap" /\ HeapNext /\ UNCHANGED <<part, queueVars, indexVars, lockVars, rxVars>>

Structures == StructuresInit /\ [][StructuresNext]_structuresVars

\* Thread and LockThread are the same set.
Symmetry == Permutations(Thread)
=============================================================================
