------------------------------ MODULE TaskLease ------------------------------
(***************************************************************************)
(* What CwxTaskBoard promises its users, without its lists, flags and      *)
(* indexes: every task has one owner - the application, the board, or the  *)
(* one thread that runs its callbacks - and a set of events due to it.     *)
(* The board only takes events for a task the application has given away,  *)
(* only the owning thread delivers them, and it cannot leave the task to   *)
(* the board while anything is due.                                        *)
(***************************************************************************)
CONSTANTS Thread, Task, Event,
          App, Board   \* the two owners that are not threads

VARIABLES owner, due
vars == <<owner, due>>

Init == owner = [t \in Task |-> App] /\ due = [t \in Task |-> {}]

\* A thread gives a task to the board and starts to run it.
Activate(p, t) ==
  /\ owner[t] = App
  /\ owner' = [owner EXCEPT ![t] = p]
  /\ due' = [due EXCEPT ![t] = {}]

\* p leases the tasks of S that nobody runs.
LeaseIdle(p, S) ==
  owner' = [t \in Task |-> IF t \in S /\ owner[t] = Board THEN p ELSE owner[t]]

\* An event, or only a mark, arrives for the tasks of S.
Post(p, S, e) ==
  /\ \A t \in S : owner[t] # App
  /\ LeaseIdle(p, S)
  /\ due' = [t \in Task |-> IF t \in S THEN due[t] \cup {e} ELSE due[t]]

MarkTasks(p, S) ==
  /\ \A t \in S : owner[t] # App
  /\ LeaseIdle(p, S)
  /\ UNCHANGED due

Deliver(p, t, e) ==
  /\ owner[t] = p /\ e \in due[t]
  /\ due' = [due EXCEPT ![t] = @ \ {e}]
  /\ UNCHANGED owner

Release(p, t) ==
  /\ owner[t] = p /\ due[t] = {}
  /\ owner' = [owner EXCEPT ![t] = Board]
  /\ UNCHANGED due

\* Finished tasks go back to the application: those a thread ran, or one that
\* was removed while nobody ran it.
HandBack(S) ==
  /\ owner' = [t \in Task |-> IF t \in S THEN App ELSE owner[t]]
  /\ UNCHANGED due

Finish(p, S) == (\A t \in S : owner[t] = p) /\ HandBack(S)

TakeIdle(t) == owner[t] = Board /\ due[t] = {} /\ HandBack({t})

Next ==
  \/ \E p \in Thread, t \in Task : Activate(p, t) \/ Release(p, t)
  \/ \E p \in Thread, t \in Task, e \in Event : Deliver(p, t, e)
  \/ \E p \in Thread, S \in SUBSET Task :
        MarkTasks(p, S) \/ Finish(p, S) \/ \E e \in Event : Post(p, S, e)
  \/ \E t \in Task : TakeIdle(t)

Spec == Init /\ [][Next]_vars
==============================================================================
