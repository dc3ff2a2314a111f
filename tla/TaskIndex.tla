------------------------------ MODULE TaskIndex ------------------------------
(***************************************************************************)
(* How CwxTaskBoard stores its tasks: the hash map from task id to task,   *)
(* the doubly linked chain the timeout sweep walks from the tail, and the  *)
(* counter getNextTaskId takes new ids from.  TaskBoard keeps the set of   *)
(* tasks only; here are the pointers, the ids and their wrap-around.       *)
(* Every action is one critical section of m_lock.                         *)
(***************************************************************************)
EXTENDS Naturals, Sequences, FiniteSets

CONSTANTS
  Task,     \* the task objects
  Null,     \* the null pointer
  IdWidth   \* ids are 0 .. IdWidth-1: CWX_UINT32 in the code

ASSUME NullAssumption == Null \notin Task /\ IsFiniteSet(Task)
\* An id must be left for a new task, or _getNextTaskId does not return.
ASSUME IdWidthAssumption == IdWidth \in Nat /\ IdWidth > Cardinality(Task) + 1

VARIABLES
  taskMap,      \* m_pTaskMap: id -> task, Null when the id is not a key
  head, tail,   \* m_pTaskHead, m_pTaskTail
  next, prev,   \* m_next, m_prev of every task
  taskId,       \* m_uiTaskId of every task
  nextId        \* m_uiTaskId of the board

indexVars == <<taskMap, head, tail, next, prev, taskId, nextId>>

Ids == 0 .. IdWidth - 1

IndexTypeOK ==
  /\ taskMap \in [Ids -> Task \cup {Null}]
  /\ head \in Task \cup {Null} /\ tail \in Task \cup {Null}
  /\ next \in [Task -> Task \cup {Null}] /\ prev \in [Task -> Task \cup {Null}]
  /\ taskId \in [Task -> Ids]
  /\ nextId \in Ids

IndexInit ==
  /\ taskMap = [i \in Ids |-> Null]
  /\ head = Null /\ tail = Null
  /\ next = [t \in Task |-> Null] /\ prev = [t \in Task |-> Null]
  /\ taskId = [t \in Task |-> 0]
  /\ nextId = 0

IsExist(i) == taskMap[i] # Null
Linked(t)  == \E i \in Ids : taskMap[i] = t

\* The ids counted through from i, with the wrap-around of the counter.
Ahead(i, k) == (i + k) % IdWidth

\* _getNextTaskId: the first id from the counter on that is not 0 and not in
\* the map; the counter stops one past it.  The application gives it to t.
FreeId(i) == i # 0 /\ ~IsExist(i)

GetNextTaskId(t) ==
  LET d == CHOOSE k \in Ids : /\ FreeId(Ahead(nextId, k))
                              /\ \A j \in 0 .. k - 1 : ~FreeId(Ahead(nextId, j))
  IN  /\ ~Linked(t)
      /\ taskId' = [taskId EXCEPT ![t] = Ahead(nextId, d)]
      /\ nextId' = Ahead(nextId, d + 1)
      /\ UNCHANGED <<taskMap, head, tail, next, prev>>

\* _addTask: refused when the id is a key; else clearBase and link at the head.
\* A task that was given no id has 0, an id like any other here.
AddTask(t) ==
  /\ ~Linked(t)
  /\ ~IsExist(taskId[t])
  /\ taskMap' = [taskMap EXCEPT ![taskId[t]] = t]
  /\ next' = [next EXCEPT ![t] = head]
  /\ prev' = [x \in Task |-> IF x = t THEN Null ELSE IF x = head THEN t ELSE prev[x]]
  /\ head' = t
  /\ tail' = IF tail = Null THEN t ELSE tail
  /\ UNCHANGED <<taskId, nextId>>

\* The chain part of _remove; the pointers of t itself stay as they are.
Unchain_keepsTail(t) ==
  /\ head' = IF head = t THEN next[t] ELSE head
  /\ next' = [x \in Task |-> IF next[x] = t /\ x # t THEN next[t] ELSE next[x]]
  /\ prev' = [x \in Task |-> IF x = next[t] THEN prev[t] ELSE prev[x]]
  /\ UNCHANGED tail
Unchain_keepsNext(t) ==
  /\ head' = IF head = t THEN next[t] ELSE head
  /\ tail' = IF tail = t THEN prev[t] ELSE tail
  /\ prev' = [x \in Task |-> IF x = next[t] THEN prev[t] ELSE prev[x]]
  /\ UNCHANGED next
Unchain(t) ==
  \/ /\ prev[t] = Null /\ next[t] = Null
     /\ head' = Null /\ tail' = Null
     /\ UNCHANGED <<next, prev>>
  \/ /\ prev[t] = Null /\ next[t] # Null
     /\ head' = next[t]
     /\ prev' = [prev EXCEPT ![next[t]] = Null]
     /\ UNCHANGED <<tail, next>>
  \/ /\ prev[t] # Null /\ next[t] = Null
     /\ tail' = prev[t]
     /\ next' = [next EXCEPT ![prev[t]] = Null]
     /\ UNCHANGED <<head, prev>>
  \/ /\ prev[t] # Null /\ next[t] # Null
     /\ next' = [next EXCEPT ![prev[t]] = next[t]]
     /\ prev' = [prev EXCEPT ![next[t]] = prev[t]]
     /\ UNCHANGED <<head, tail>>

\* _remove: by id, and nothing happens when the id is not a key.
Remove(i) ==
  /\ IsExist(i)
  /\ taskMap' = [taskMap EXCEPT ![i] = Null]
  /\ Unchain(taskMap[i])
  /\ UNCHANGED <<taskId, nextId>>

\* The k-th task met when the links are followed from a first one, counting from
\* 0; Null after the end.
Met(first, link) ==
  LET At[k \in Nat] ==
        IF k = 0 THEN first ELSE IF At[k - 1] = Null THEN Null ELSE link[At[k - 1]]
  IN  At

FromHead == Met(head, next)
FromTail == Met(tail, prev)

\* The walk as a sequence; a cycle shows as more elements than tasks.
Walk(from) ==
  LET n == CHOOSE k \in 0 .. Cardinality(Task) + 1 :
             /\ k = Cardinality(Task) + 1 \/ from[k] = Null
             /\ \A j \in 0 .. k - 1 : from[j] # Null
  IN  [k \in 1 .. n |-> from[k - 1]]

\* reset() deletes the tasks it finds from the head; init() follows it.
Reset ==
  /\ head # Null
  /\ head' = Null /\ tail' = Null
  /\ taskMap' = [i \in Ids |-> Null]
  /\ LET gone == {Walk(FromHead)[k] : k \in DOMAIN Walk(FromHead)}
     IN  /\ next' = [t \in Task |-> IF t \in gone THEN Null ELSE next[t]]
         /\ prev' = [t \in Task |-> IF t \in gone THEN Null ELSE prev[t]]
         /\ taskId' = [t \in Task |-> IF t \in gone THEN 0 ELSE taskId[t]]
  /\ UNCHANGED nextId

IndexNext ==
  \/ \E t \in Task : GetNextTaskId(t) \/ AddTask(t)
  \/ \E i \in Ids : Remove(i)
  \/ Reset

IndexSpec == IndexInit /\ [][IndexNext]_indexVars

-----------------------------------------------------------------------------
Reversed(s) == [i \in DOMAIN s |-> s[Len(s) + 1 - i]]

\* The chain read backwards is the chain read forwards reversed, so the sweep
\* (which goes backwards) and reset (which goes forwards) meet the same tasks.
BothWays == Walk(FromTail) = Reversed(Walk(FromHead))

\* The map and the chain hold the same tasks, each under its own id: a task
\* only in the chain would be dispatched after it was deleted, one only in the
\* map would never time out.
MapIsChain ==
  /\ {taskMap[i] : i \in Ids} \ {Null}
       = {Walk(FromHead)[k] : k \in DOMAIN Walk(FromHead)}
  /\ \A i \in Ids : IsExist(i) => taskId[taskMap[i]] = i

\* Both together: the sweep, reset and the lookup by id all mean the same tasks,
\* also when an id comes round again that a task has, or was given out twice.
IndexAgrees == BothWays /\ MapIsChain

\* The pointers implement the list: push at the front, delete in place, clear.
Chain == INSTANCE RecentList WITH Elem <- Task, list <- Walk(FromHead)
ChainSpec == Chain!Spec
==============================================================================
