------------------------------ MODULE RecentList ------------------------------
(* A list of distinct elements, newest first: what the linked chains of the   *)
(* library stand for.                                                         *)
EXTENDS Sequences, Naturals

CONSTANT Elem
VARIABLE list

Init == list = <<>>

In(e) == \E i \in DOMAIN list : list[i] = e

PushFront(e) == ~In(e) /\ list' = <<e>> \o list

Delete(e) ==
  \E i \in DOMAIN list :
    /\ list[i] = e
    /\ list' = [k \in 1 .. Len(list) - 1 |-> IF k < i THEN list[k] ELSE list[k + 1]]

Clear == list # <<>> /\ list' = <<>>

Next == Clear \/ \E e \in Elem : PushFront(e) \/ Delete(e)

Spec == Init /\ [][Next]_list
==============================================================================
