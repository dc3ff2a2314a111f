------------------------------ MODULE TimerSet ------------------------------
(* What an engine promises about timers: each is set to one moment or to      *)
(* none, and of those that are set one with the earliest moment is called.    *)
EXTENDS Naturals

CONSTANTS Timer, When, Nobody
VARIABLES
  moment,   \* of a timer: when it is due, 0 when it is not set
  called    \* the timer the last step called, or Nobody

Init == moment = [t \in Timer |-> 0] /\ called = Nobody

Set(t, w) == called' = Nobody /\ moment' = [moment EXCEPT ![t] = w]

Unset(t) == moment[t] # 0 /\ moment' = [moment EXCEPT ![t] = 0] /\ called' = Nobody

Call(t) ==
  /\ called' = t
  /\ moment[t] # 0
  /\ \A u \in Timer : moment[u] # 0 => moment[t] <= moment[u]
  /\ moment' = [moment EXCEPT ![t] = 0]

Next == \E t \in Timer : Unset(t) \/ Call(t) \/ \E w \in When : Set(t, w)

Spec == Init /\ [][Next]_<<moment, called>>
=============================================================================
