---------------------------- MODULE BoundedDeque ----------------------------
(* What CwxMsgQueue promises: messages enter at either end while the queue is *)
(* open and their total length is below the limit, and leave at the head      *)
(* while it is open; the whole content can be dropped at any time.  One       *)
(* message may take the total past the limit; none enters after it.           *)
EXTENDS Naturals, Sequences, FiniteSets

CONSTANTS Msg, Length
VARIABLES items, open, limit

\* The bytes of a chain: <<i, k>> is byte k of the message in place i.
Bytes(s) == UNION {{i} \X (1..Length[s[i]]) : i \in DOMAIN s}

Total == Cardinality(Bytes(items))

Init == items = <<>> /\ open = TRUE /\ limit \in Nat

Push(m) == /\ open /\ Total < limit
           /\ items' \in {<<m>> \o items, Append(items, m)}
           /\ UNCHANGED <<open, limit>>

Pop == /\ open /\ items # <<>>
       /\ items' = Tail(items)
       /\ UNCHANGED <<open, limit>>

\* Opening, closing and dropping the content, separately or together.
Control == /\ items' \in {items, <<>>}
           /\ open' \in BOOLEAN
           /\ UNCHANGED limit

Limit == limit' \in Nat /\ UNCHANGED <<items, open>>

Next == (\E m \in Msg : Push(m)) \/ Pop \/ Control \/ Limit

Spec == Init /\ [][Next]_<<items, open, limit>>
==============================================================================
