------------------------------- MODULE IdLock -------------------------------
(***************************************************************************)
(* CwxRwIdLockMgr and CwxMutexIdLockMgr (which knows only writers): a lock  *)
(* for every 64 bit number.  The objects that do the locking are made when  *)
(* a number is wanted, counted, and recycled through a free list when the   *)
(* last thread lets go.  An object is found under the manager's mutex but   *)
(* waited for outside of it.                                                *)
(*                                                                          *)
(* A thread locks one number at a time, once.  The free list is a set: in   *)
(* which order it is used makes no difference.  The manager itself was      *)
(* made before the threads run (see README).                                *)
(***************************************************************************)
EXTENDS Naturals, FiniteSets

CONSTANTS
  LockThread, \* threads
  LockId, NoId, \* numbers, and none
  Obj, NoObj, \* addresses of lock objects, NULL
  Mode,       \* {"write"} for the mutexes, {"read", "write"}
  MaxFree,    \* MAX_FREE_MUTEX_NUM
  CountMod    \* m_unNum has 16 bits

ASSUME LockAssumption ==
  /\ NoObj \notin Obj /\ NoId \notin LockId
  /\ Mode \subseteq {"read", "write"}
  /\ MaxFree \in Nat /\ CountMod \in Nat
\* Fewer threads than the counter has values.
ASSUME CountAssumption == IsFiniteSet(LockThread) /\ Cardinality(LockThread) < CountMod

VARIABLES
  lockMap, \* m_pLockMap
  num,     \* m_unNum of each object
  freeObj, \* m_pListLocks
  made,    \* the objects that exist
  where,   \* of each thread: idle, waiting, holding
  wants,   \* its number
  mode,    \* how it locks
  obj      \* pLock

lockVars == <<lockMap, num, freeObj, made, where, wants, mode, obj>>

LockTypeOK ==
  /\ lockMap \in [LockId -> Obj \cup {NoObj}]
  /\ num \in [Obj -> 0 .. CountMod - 1]
  /\ freeObj \subseteq Obj /\ made \subseteq Obj
  /\ where \in [LockThread -> {"idle", "waiting", "holding"}]
  /\ wants \in [LockThread -> LockId \cup {NoId}]
  /\ mode \in [LockThread -> Mode \cup {"none"}]
  /\ obj \in [LockThread -> Obj \cup {NoObj}]

LockInit ==
  /\ lockMap = [i \in LockId |-> NoObj]
  /\ num = [o \in Obj |-> 0]
  /\ freeObj = {} /\ made = {}
  /\ where = [t \in LockThread |-> "idle"]
  /\ wants = [t \in LockThread |-> NoId]
  /\ mode = [t \in LockThread |-> "none"]
  /\ obj = [t \in LockThread |-> NoObj]

Wait(t, i, m, o) ==
  /\ where' = [where EXCEPT ![t] = "waiting"]
  /\ wants' = [wants EXCEPT ![t] = i]
  /\ mode' = [mode EXCEPT ![t] = m]
  /\ obj' = [obj EXCEPT ![t] = o]

\* The number has an object.
LockFound_uncounted(t, i, m) ==
  /\ where[t] = "idle" /\ lockMap[i] # NoObj
  /\ Wait(t, i, m, lockMap[i])
  /\ UNCHANGED <<lockMap, num, freeObj, made>>

LockFound(t, i, m) ==
  /\ where[t] = "idle" /\ lockMap[i] # NoObj
  /\ num' = [num EXCEPT ![lockMap[i]] = (@ + 1) % CountMod]
  /\ Wait(t, i, m, lockMap[i])
  /\ UNCHANGED <<lockMap, freeObj, made>>

\* It gets one: from the free list, or a new one when that is empty.
LockNew(t, i, m) ==
  /\ where[t] = "idle" /\ lockMap[i] = NoObj
  /\ \E o \in Obj :
       /\ o \in freeObj \/ (freeObj = {} /\ o \notin made)
       /\ freeObj' = freeObj \ {o} /\ made' = made \cup {o}
       /\ num' = [num EXCEPT ![o] = 1]
       /\ lockMap' = [lockMap EXCEPT ![i] = o]
       /\ Wait(t, i, m, o)

\* The lock of the object itself.
Holders(o) == {u \in LockThread : where[u] = "holding" /\ obj[u] = o}

Acquire(t) ==
  /\ where[t] = "waiting"
  /\ \A u \in Holders(obj[t]) : mode[t] = "read" /\ mode[u] = "read"
  /\ where' = [where EXCEPT ![t] = "holding"]
  /\ UNCHANGED <<lockMap, num, freeObj, made, wants, mode, obj>>

\* unlock: the object is looked up by the number again, and recycled by the last.
Recycle(i, o) ==
  /\ lockMap' = [lockMap EXCEPT ![i] = NoObj]
  /\ IF Cardinality(freeObj) >= MaxFree
     THEN made' = made \ {o} /\ UNCHANGED freeObj
     ELSE freeObj' = freeObj \cup {o} /\ UNCHANGED made

LastOne(n) == n = 0

Unlock(t) ==
  LET i == wants[t]  o == lockMap[i]  n == (num[o] + CountMod - 1) % CountMod IN
  /\ where[t] = "holding" /\ o # NoObj
  /\ num' = [num EXCEPT ![o] = n]
  /\ IF LastOne(n) THEN Recycle(i, o) ELSE UNCHANGED <<lockMap, freeObj, made>>
  /\ where' = [where EXCEPT ![t] = "idle"]
  /\ wants' = [wants EXCEPT ![t] = NoId]
  /\ mode' = [mode EXCEPT ![t] = "none"]
  /\ obj' = [obj EXCEPT ![t] = NoObj]

LockNext ==
  \E t \in LockThread :
    \/ \E i \in LockId, m \in Mode : LockFound(t, i, m) \/ LockNew(t, i, m)
    \/ Acquire(t) \/ Unlock(t)

LockSpec == LockInit /\ [][LockNext]_lockVars

-----------------------------------------------------------------------------
\* Two threads hold the same number only when both read: although the objects
\* are recycled while others are between finding and locking them.
LockExclusive ==
  \A t, u \in LockThread :
    t # u /\ where[t] = "holding" /\ where[u] = "holding" /\ wants[t] = wants[u]
      => mode[t] = "read" /\ mode[u] = "read"

\* An object that a thread waits for or holds is the one of its number, exists
\* and is not in the free list, and serves no other number.
ObjectServesOneId ==
  /\ \A t \in LockThread : where[t] # "idle" =>
       obj[t] = lockMap[wants[t]] /\ obj[t] \in made \ freeObj
  /\ \A i, j \in LockId : lockMap[i] = lockMap[j] /\ lockMap[i] # NoObj => i = j
=============================================================================
