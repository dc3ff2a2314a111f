--------------------------- MODULE TaskBoardProofs ---------------------------
(***************************************************************************)
(* Proofs about TaskBoard, for any threads, tasks, connections and bound.  *)
(* The inductive invariant IInv is the conjunction of the type invariant   *)
(* and four invariants of the locks and indexes, each of which needs the   *)
(* others.  On top of it EventsInv says where the events are: from it      *)
(* follow OwedIsQueued, CallbackOrder and the refinement of TaskLease.     *)
(***************************************************************************)
EXTENDS TaskBoard, TLAPS

\* OneDriver rests on Discipline (the tasks of an idle thread), IndexesMirror
\* on Discipline (a round is applied to a task on the board), NoStrandedWork on
\* OneDriver (nobody but the driver releases a task).
IInv == /\ TypeOK
        /\ Discipline
        /\ OneDriver
        /\ NoStrandedWork
        /\ IndexesMirror

-----------------------------------------------------------------------------
(* The helpers that run under the lock. *)

\* Taking a task off the indexes leaves sets of the same type, without it.
LEMMA DetachedSound ==
  ASSUME NEW map \in SUBSET (Conn \X Task), NEW set \in SUBSET (Task \X Conn),
         NEW t \in Task,
         \A c \in Conn, u \in Task : <<c, u>> \in map <=> <<u, c>> \in set,
         \A c \in Conn, u \in Task : <<c, u>> \in map => u \in board
  PROVE  LET d == Detached(map, set, t)
         IN  /\ d.map \in SUBSET (Conn \X Task) /\ d.set \in SUBSET (Task \X Conn)
             /\ \A c \in Conn, u \in Task : <<c, u>> \in d.map <=> <<u, c>> \in d.set
             /\ \A c \in Conn, u \in Task : <<c, u>> \in d.map => u \in board \ {t}
  <1>1. CASE t \notin board
    BY <1>1 DEF Detached
  <1>2. CASE t \in board
    BY <1>2 DEF Detached
  <1> QED BY <1>1, <1>2

\* Applying a round to a task on the board keeps the two indexes mirrored.
LEMMA AppliedSound ==
  ASSUME TypeOK, IndexesMirror, NEW p \in Thread, NEW t \in board
  PROVE  LET a == Applied(p, t)
         IN  /\ a.map \in SUBSET (Conn \X Task) /\ a.set \in SUBSET (Task \X Conn)
             /\ \A c \in Conn, u \in Task : <<c, u>> \in a.map <=> <<u, c>> \in a.set
             /\ \A c \in Conn, u \in Task : <<c, u>> \in a.map => u \in board
  <1> USE DEF TypeOK, IndexesMirror, Applied
  <1>1. t \in Task
    OBVIOUS
  <1> DEFINE added   == {c \in Conn : connState[p][c] \in {"used"}}
             dropped == {c \in Conn : connState[p][c] \in {"finished", "closed"}}
  <1>2. /\ Applied(p, t).map = (connTaskMap \cup {<<c, t>> : c \in added})
                                 \ {<<c, t>> : c \in dropped}
        /\ Applied(p, t).set = (taskConnSet \cup {<<t, c>> : c \in added})
                                 \ {<<t, c>> : c \in dropped}
    OBVIOUS
  <1>3. added \subseteq Conn /\ dropped \subseteq Conn
    OBVIOUS
  <1> HIDE DEF added, dropped, Applied
  <1>4. Applied(p, t).map \in SUBSET (Conn \X Task) /\ Applied(p, t).set \in SUBSET (Task \X Conn)
    BY <1>1, <1>2, <1>3
  <1>5. \A c \in Conn, u \in Task : <<c, u>> \in Applied(p, t).map <=>
           (<<c, u>> \in connTaskMap \/ (u = t /\ c \in added)) /\ ~(u = t /\ c \in dropped)
    BY <1>2
  <1>6. \A c \in Conn, u \in Task : <<u, c>> \in Applied(p, t).set <=>
           (<<u, c>> \in taskConnSet \/ (u = t /\ c \in added)) /\ ~(u = t /\ c \in dropped)
    BY <1>2
  <1> QED BY <1>1, <1>4, <1>5, <1>6

-----------------------------------------------------------------------------
LEMMA InitInv == Init => IInv
  BY NoTaskAssumption, MaxNoticesAssumption
  DEF Init, IInv, TypeOK, Discipline, TodoOnBoard, PlaceOfThread, DrivenTask,
      FinishedTask, SweptTask, IdleOnBoard, OneDriver, HeldApart, HeldOnce, LockIsHeld,
      NoStrandedWork, IndexesMirror, Held,
      TaskStates, Event, Batch, EmptyBatch, NoConns, ConnMark, Calls, Points, Driving,
      NoCachedEvents, IsFinish

-----------------------------------------------------------------------------
(* One lemma per action, and in it one step per conjunct of the invariant.    *)

\* The task a thread drives is its alone.
LEMMA Exclusive ==
  ASSUME IInv, NEW p \in Thread, pc[p] \in Driving
  PROVE  /\ cur[p] \in Task /\ cur[p] \notin inApp /\ cur[p] # NoTask
         /\ bLooked[cur[p]] = TRUE
         /\ cur[p] \notin todo[p] /\ cur[p] \notin finishTasks[p]
         /\ \A q \in Thread : q # p => /\ cur[q] # cur[p]
                                       /\ cur[p] \notin todo[q]
                                       /\ cur[p] \notin finishTasks[q]
  <1> USE DEF IInv, Discipline, OneDriver
  <1>1. cur[p] \in Task /\ cur[p] # NoTask
    BY NoTaskAssumption DEF PlaceOfThread
  <1>2. cur[p] \in Held(p)
    BY <1>1 DEF Held
  <1>3. \A q \in Thread : q # p => cur[p] \notin Held(q)
    BY <1>2 DEF HeldApart
  <1>4. cur[p] \notin inApp
    BY <1>2 DEF HeldOnce
  <1>5. bLooked[cur[p]] = TRUE
    BY <1>1, <1>2, <1>4 DEF LockIsHeld, TypeOK
  <1> QED BY <1>1, <1>2, <1>3, <1>4, <1>5 DEF Held, HeldOnce

\* Steps that neither move tasks between threads nor touch the locks.
LEMMA SameHeld ==
  ASSUME OneDriver, \A q \in Thread : Held(q)' = Held(q),
         \A q \in Thread : cur'[q] \notin todo'[q] \cup finishTasks'[q],
         \A q \in Thread : todo'[q] \cap finishTasks'[q] = {},
         UNCHANGED <<inApp, bLooked>>
  PROVE  OneDriver'
  <1>1. HeldApart'
    BY DEF OneDriver, HeldApart
  <1>2. HeldOnce'
    BY DEF OneDriver, HeldOnce
  <1>3. LockIsHeld'
    BY DEF OneDriver, LockIsHeld
  <1> QED BY <1>1, <1>2, <1>3 DEF OneDriver

\* The driver of cur[p] may change that task's flags and caches, as long as the
\* task stays finished once it is off the board, and move on inside dispatchEvent.
LEMMA DriverKeeps ==
  ASSUME IInv, NEW p \in Thread, pc[p] \in Driving, TypeOK',
         UNCHANGED <<boardVars, bLooked, waitingRemove, bTimeout, call, cur, todo,
                     finishTasks, inApp>>,
         \A t \in Task : t # cur[p] => /\ taskState'[t] = taskState[t]
                                       /\ failList'[t] = failList[t]
                                       /\ recvList'[t] = recvList[t]
                                       /\ sendCloseList'[t] = sendCloseList[t],
         \A q \in Thread : q # p => pc'[q] = pc[q],
         pc'[p] \in Driving,
         pc'[p] \in {"active", "fetch"} => cur[p] \in board,
         pc'[p] = "dispatch" /\ cur[p] \notin board => IsFinish(cur[p])',
         pc'[p] = "remove" => IsFinish(cur[p])'
  PROVE  IInv'
  <1> USE DEF IInv, boardVars
  <1>1. Discipline'
    <2>0. \A t \in Task : t # cur[p] => IsFinish(t)' = IsFinish(t)
      BY DEF IsFinish
    <2>1. TodoOnBoard' /\ PlaceOfThread' /\ SweptTask' /\ IdleOnBoard'
      BY DEF Discipline, TodoOnBoard, PlaceOfThread, SweptTask, IdleOnBoard, Driving
    <2>x. \A q \in Thread : q # p => cur[q] # cur[p] /\ cur[p] \notin finishTasks[q]
      BY Exclusive
    <2>y. cur[p] \in Task /\ cur[p] \notin finishTasks[p]
      BY Exclusive
    <2>2. DrivenTask'
      <3> SUFFICES ASSUME NEW q \in Thread PROVE DrivenTask!(q)'
        BY DEF DrivenTask
      <3>1. CASE q = p
        BY <3>1, <2>y DEF Discipline, DrivenTask, Driving
      <3>2. CASE q # p
        <4>1. pc[q] \in Driving => IsFinish(cur[q])' = IsFinish(cur[q])
          BY <3>2, <2>x, <2>0 DEF Discipline, PlaceOfThread
        <4> QED BY <4>1, <3>2, <2>x, <2>0 DEF Discipline, DrivenTask, PlaceOfThread, Driving
      <3> QED BY <3>1, <3>2
    <2>3. FinishedTask'
      BY <2>0, <2>x, <2>y DEF Discipline, FinishedTask, TypeOK
    <2> QED BY <2>1, <2>2, <2>3 DEF Discipline
  <1>2. OneDriver'
    BY SameHeld DEF OneDriver, HeldOnce, Held
  <1>3. NoStrandedWork'
    <2>1. bLooked[cur[p]] = TRUE
      BY Exclusive
    <2> QED BY <2>1 DEF NoStrandedWork, NoCachedEvents, IsFinish, TypeOK
  <1>4. IndexesMirror'
    BY DEF IndexesMirror
  <1> QED BY <1>1, <1>2, <1>3, <1>4

-----------------------------------------------------------------------------
(* The steps of a driver inside dispatchEvent.                               *)

LEMMA ActiveOkInv == ASSUME IInv, NEW p \in Thread, ActiveOk(p) PROVE IInv'
  <1> USE DEF ActiveOk, Driving, boardVars, cacheVars, histVars
  <1>1. cur[p] \in board /\ cur[p] \in Task
    BY DEF IInv, Discipline, DrivenTask, PlaceOfThread
  <1>2. TypeOK'
    BY <1>1 DEF IInv, TypeOK, Points, TaskStates
  <1> QED BY <1>1, <1>2, DriverKeeps DEF IInv, TypeOK

\* The state a callback leaves keeps the task finished once it is off the board.
LEMMA CallbackState ==
  ASSUME TypeOK, NEW t \in Task, SetTaskState(t), UNCHANGED <<waitingRemove, bTimeout>>
  PROVE  /\ taskState' \in [Task -> TaskStates]
         /\ \A u \in Task : u # t => taskState'[u] = taskState[u]
         /\ IsFinish(t) => IsFinish(t)'
  BY DEF SetTaskState, TypeOK, TaskStates, IsFinish

\* A callback, with whatever round it leaves.
LEMMA CalledInv ==
  ASSUME IInv, NEW p \in Thread, NEW e, Called(p, e), pc[p] = "dispatch",
         batch' \in [Thread -> Batch], connState' \in [Thread -> [Conn -> ConnMark]]
  PROVE  IInv'
  <1> USE DEF Called, boardVars, cacheVars
  <1>1. pc[p] \in Driving /\ cur[p] \in Task
    BY DEF IInv, Discipline, PlaceOfThread, Driving
  <1>2. /\ taskState' \in [Task -> TaskStates]
        /\ \A u \in Task : u # cur[p] => taskState'[u] = taskState[u]
        /\ IsFinish(cur[p]) => IsFinish(cur[p])'
    <2> HIDE DEF Called
    <2>1. SetTaskState(cur[p]) /\ UNCHANGED <<waitingRemove, bTimeout, cur>>
      BY DEF Called
    <2>2. IsFinish(cur[p])' <=> \/ waitingRemove'[cur[p]] \/ bTimeout'[cur[p]]
                                \/ taskState'[cur[p]] = "FINISH"
      BY <2>1 DEF IsFinish
    <2> QED BY <1>1, <2>1, CallbackState DEF IInv, IsFinish
  <1>3. TypeOK'
    BY <1>1, <1>2 DEF IInv, TypeOK
  <1>4. cur[p] \notin board => IsFinish(cur[p])
    BY DEF IInv, Discipline, DrivenTask
  <1> QED BY <1>1, <1>2, <1>3, <1>4, DriverKeeps

LEMMA WithoutType ==
  ASSUME NEW S, NEW s \in Seq(S), NEW i \in DOMAIN s
  PROVE  Without(s, i) \in Seq(S)
  <1>1. Len(s) \in Nat /\ i \in 1 .. Len(s)
    OBVIOUS
  <1>2. Len(s) - 1 \in Nat
    BY <1>1
  <1>3. \A j \in 1 .. Len(s) - 1 : (IF j < i THEN s[j] ELSE s[j + 1]) \in S
    BY <1>1
  <1> QED BY <1>2, <1>3 DEF Without

LEMMA EventConn == ASSUME NEW e \in Event PROVE e.conn \in Conn
  BY DEF Event

LEMMA DispatchInv ==
  ASSUME IInv, NEW p \in Thread,
         \/ DispatchEndSend(p) \/ DispatchRecv(p) \/ DispatchFail(p) \/ DispatchClosed(p)
  PROVE  IInv'
  <1>1. /\ batch[p].fail \in Seq(Event) /\ batch[p].recv \in Seq(Event)
        /\ batch[p].sendClose \in Seq(Event) /\ batch[p] \in Batch
        /\ batch \in [Thread -> Batch] /\ connState \in [Thread -> [Conn -> ConnMark]]
    BY DEF IInv, TypeOK, Batch
  <1>2. ASSUME NEW c \in Conn, NEW m \in ConnMark, Mark(p, c, m)
        PROVE  connState' \in [Thread -> [Conn -> ConnMark]]
    BY <1>1, <1>2 DEF Mark
  <1>3. CASE DispatchEndSend(p)
    <2> DEFINE s == batch[p].sendClose
    <2>1. PICK i \in Sends(s) : /\ \E m \in {"used", "finished"} : Mark(p, s[i].conn, m)
                                /\ batch' = [batch EXCEPT ![p].sendClose = Without(s, i)]
                                /\ Called(p, s[i])
      BY <1>3 DEF DispatchEndSend
    <2>2. i \in DOMAIN s /\ s[i] \in Event /\ s[i].conn \in Conn
      <3>1. i \in DOMAIN s /\ s[i] \in Event
        BY <1>1 DEF Sends
      <3> QED BY <3>1, EventConn
    <2>3. Without(s, i) \in Seq(Event)
      BY <1>1, <2>2, WithoutType
    <2>4. batch' \in [Thread -> Batch]
      BY <1>1, <2>1, <2>3 DEF Batch
    <2>5. connState' \in [Thread -> [Conn -> ConnMark]]
      BY <1>2, <2>1, <2>2 DEF ConnMark
    <2> QED BY <1>3, <2>1, <2>4, <2>5, CalledInv DEF DispatchEndSend
  <1>4. CASE DispatchRecv(p)
    <2> DEFINE s == batch[p].recv
    <2>1. /\ pc[p] = "dispatch" /\ s # <<>> /\ Called(p, Head(s))
          /\ \E m \in {"used", "finished"} : Mark(p, Head(s).conn, m)
          /\ batch' = [batch EXCEPT ![p].recv = Tail(s)]
      BY <1>4 DEF DispatchRecv
    <2>2. Head(s) \in Event /\ Head(s).conn \in Conn /\ Tail(s) \in Seq(Event)
      <3>1. Head(s) \in Event /\ Tail(s) \in Seq(Event)
        BY <1>1, <2>1
      <3> QED BY <3>1, EventConn
    <2>4. batch' \in [Thread -> Batch]
      BY <1>1, <2>1, <2>2 DEF Batch
    <2>5. connState' \in [Thread -> [Conn -> ConnMark]]
      BY <1>2, <2>1, <2>2 DEF ConnMark
    <2> QED BY <2>1, <2>4, <2>5, CalledInv
  <1>5. CASE DispatchFail(p)
    <2> DEFINE s == batch[p].fail
    <2>1. /\ pc[p] = "dispatch" /\ s # <<>> /\ Called(p, Head(s))
          /\ UNCHANGED connState
          /\ batch' = [batch EXCEPT ![p].fail = Tail(s)]
      BY <1>5 DEF DispatchFail
    <2>2. Tail(s) \in Seq(Event)
      BY <1>1, <2>1
    <2>4. batch' \in [Thread -> Batch]
      BY <1>1, <2>1, <2>2 DEF Batch
    <2> QED BY <1>1, <2>1, <2>4, CalledInv
  <1>6. CASE DispatchClosed(p)
    <2> DEFINE s == batch[p].sendClose
    <2>1. /\ pc[p] = "dispatch" /\ s # <<>> /\ Called(p, Head(s))
          /\ Mark(p, Head(s).conn, "closed")
          /\ batch' = [batch EXCEPT ![p].sendClose = Tail(s)]
      BY <1>6 DEF DispatchClosed
    <2>2. Head(s) \in Event /\ Head(s).conn \in Conn /\ Tail(s) \in Seq(Event)
      <3>1. Head(s) \in Event /\ Tail(s) \in Seq(Event)
        BY <1>1, <2>1
      <3> QED BY <3>1, EventConn
    <2>4. batch' \in [Thread -> Batch]
      BY <1>1, <2>1, <2>2 DEF Batch
    <2>5. connState' \in [Thread -> [Conn -> ConnMark]]
      BY <1>2, <2>1, <2>2 DEF ConnMark
    <2> QED BY <2>1, <2>4, <2>5, CalledInv
  <1> QED BY <1>3, <1>4, <1>5, <1>6

LEMMA DispatchTimeoutInv == ASSUME IInv, NEW p \in Thread, DispatchTimeout(p) PROVE IInv'
  <1> USE DEF DispatchTimeout, boardVars, cacheVars
  <1>1. pc[p] \in Driving /\ cur[p] \in Task /\ (cur[p] \notin board => IsFinish(cur[p]))
    BY DEF IInv, Discipline, PlaceOfThread, DrivenTask, Driving
  <1>2. /\ taskState' \in [Task -> TaskStates]
        /\ \A u \in Task : u # cur[p] => taskState'[u] = taskState[u]
        /\ IsFinish(cur[p]) => IsFinish(cur[p])'
    <2> HIDE DEF DispatchTimeout
    <2>1. SetTaskState(cur[p]) /\ UNCHANGED <<waitingRemove, bTimeout, cur>>
      BY DEF DispatchTimeout
    <2>2. IsFinish(cur[p])' <=> \/ waitingRemove'[cur[p]] \/ bTimeout'[cur[p]]
                                \/ taskState'[cur[p]] = "FINISH"
      BY <2>1 DEF IsFinish
    <2> QED BY <1>1, <2>1, CallbackState DEF IInv, IsFinish
  <1>3. TypeOK'
    BY <1>1, <1>2 DEF IInv, TypeOK, Batch
  <1> QED BY <1>1, <1>2, <1>3, DriverKeeps

LEMMA CheckFinishInv == ASSUME IInv, NEW p \in Thread, CheckFinish(p) PROVE IInv'
  <1> USE DEF CheckFinish, boardVars, taskVars, cacheVars, histVars
  <1>1. pc[p] \in Driving /\ cur[p] \in Task /\ (cur[p] \notin board => IsFinish(cur[p]))
    BY DEF IInv, Discipline, PlaceOfThread, DrivenTask, Driving
  <1>2. TypeOK'
    BY DEF IInv, TypeOK, Points
  <1>3. IsFinish(cur[p])' <=> IsFinish(cur[p])
    BY DEF IsFinish
  <1>4. pc'[p] = IF IsFinish(cur[p]) THEN "remove" ELSE "fetch"
    BY DEF IInv, TypeOK
  <1> QED BY <1>1, <1>2, <1>3, <1>4, DriverKeeps DEF IInv, TypeOK, Driving

-----------------------------------------------------------------------------
(* The steps that end a drive.                                               *)

\* The driver takes a finished task off the board and will return it.
LEMMA FinishKeeps ==
  ASSUME IInv, NEW p \in Thread, pc[p] \in Driving, EndDrive(p),
         NEW u \in Task, u = cur[p], Unlink(u),
         finishTasks' = [finishTasks EXCEPT ![p] = @ \cup {cur[p]}],
         UNCHANGED <<bLooked, waitingRemove, bTimeout, cacheVars, call, todo, inApp, histVars>>,
         taskState' \in [Task -> TaskStates],
         \A t \in Task : t # cur[p] => taskState'[t] = taskState[t],
         IsFinish(u)'
  PROVE  IInv'
  <1> USE DEF IInv, EndDrive, cacheVars, histVars
  <1> DEFINE d == Detached(connTaskMap, taskConnSet, u)
  <1>x. /\ u \in Task /\ u \notin inApp /\ bLooked[u] = TRUE /\ u # NoTask
        /\ u \notin todo[p] /\ u \notin finishTasks[p]
        /\ \A q \in Thread : q # p => u # cur[q] /\ u \notin todo[q] /\ u \notin finishTasks[q]
    BY Exclusive
  <1>f. IsFinish(u)' /\ cur' = [cur EXCEPT ![p] = NoTask] /\ pc' = [pc EXCEPT ![p] = "next"]
    OBVIOUS
  <1>0. board' = board \ {u} /\ connTaskMap' = d.map /\ taskConnSet' = d.set
    BY DEF Unlink
  <1>d. /\ d.map \in SUBSET (Conn \X Task) /\ d.set \in SUBSET (Task \X Conn)
        /\ \A c \in Conn, v \in Task : <<c, v>> \in d.map <=> <<v, c>> \in d.set
        /\ \A c \in Conn, v \in Task : <<c, v>> \in d.map => v \in board \ {u}
    BY <1>x, DetachedSound DEF IndexesMirror, TypeOK
  <1> HIDE DEF d
  <1>1. TypeOK'
    BY <1>0, <1>d, <1>x, NoTaskAssumption
    DEF TypeOK, Points, Batch, EmptyBatch, NoConns, ConnMark
  <1>n. pc \in [Thread -> Points] /\ cur \in [Thread -> Task \cup {NoTask}]
        /\ finishTasks \in [Thread -> SUBSET Task] /\ todo \in [Thread -> SUBSET Task]
        /\ bLooked \in [Task -> BOOLEAN] /\ inApp \subseteq Task /\ board \subseteq Task
    BY DEF TypeOK
  <1>g. \A t \in Task : t # u => IsFinish(t)' = IsFinish(t)
    BY DEF IsFinish
  <1>2. Discipline'
    <2> USE DEF Discipline
    <2>1. TodoOnBoard'
      BY <1>0, <1>x, <1>n DEF TodoOnBoard
    <2>2. PlaceOfThread'
      BY <1>f, <1>n, NoTaskAssumption DEF PlaceOfThread, Driving
    <2>3. DrivenTask'
      <3> SUFFICES ASSUME NEW q \in Thread PROVE DrivenTask!(q)'
        BY DEF DrivenTask
      <3>1. CASE q = p
        BY <3>1, <1>f, <1>n DEF DrivenTask
      <3>2. CASE q # p
        <4>1. pc[q] \in Driving => cur[q] \in Task /\ cur[q] # u
          BY <3>2, <1>x DEF PlaceOfThread
        <4>2. pc'[q] = pc[q] /\ cur'[q] = cur[q]
          BY <3>2, <1>f, <1>n
        <4> QED BY <4>1, <4>2, <1>0, <1>g DEF DrivenTask, Driving
      <3> QED BY <3>1, <3>2
    <2>4. FinishedTask'
      BY <1>0, <1>f, <1>x, <1>n, <1>g DEF FinishedTask
    <2>5. SweptTask'
      BY <1>f, <1>n DEF SweptTask
    <2>6. IdleOnBoard'
      BY <1>0, <1>x DEF IdleOnBoard
    <2> QED BY <2>1, <2>2, <2>3, <2>4, <2>5, <2>6
  <1>3. OneDriver'
    <2>1. \A q \in Thread : Held(q)' = Held(q)
      BY <1>f, <1>n, <1>x DEF Held
    <2>2. \A q \in Thread : cur'[q] \notin todo'[q] \cup finishTasks'[q]
      BY <1>f, <1>n, <1>x, NoTaskAssumption DEF OneDriver, HeldOnce
    <2>3. \A q \in Thread : todo'[q] \cap finishTasks'[q] = {}
      BY <1>f, <1>n, <1>x DEF OneDriver, HeldOnce
    <2> QED BY <2>1, <2>2, <2>3, SameHeld
  <1>4. NoStrandedWork'
    BY <1>0, <1>g, <1>n DEF NoStrandedWork, NoCachedEvents
  <1>5. IndexesMirror'
    BY <1>0, <1>d DEF IndexesMirror
  <1> QED BY <1>1, <1>2, <1>3, <1>4, <1>5

LEMMA ActiveFailInv == ASSUME IInv, NEW p \in Thread, ActiveFail(p) PROVE IInv'
  <1>1. pc[p] \in Driving /\ cur[p] \in Task
    BY DEF ActiveFail, IInv, Discipline, PlaceOfThread, Driving
  <1>2. /\ taskState' = [taskState EXCEPT ![cur[p]] = "FINISH"]
        /\ UNCHANGED <<waitingRemove, bTimeout>>
    BY DEF ActiveFail
  <1>3. /\ taskState' \in [Task -> TaskStates] /\ taskState'[cur[p]] = "FINISH"
        /\ \A t \in Task : t # cur[p] => taskState'[t] = taskState[t]
    BY <1>1, <1>2 DEF IInv, TypeOK, TaskStates
  <1>4. PICK u \in Task : u = cur[p]
    BY <1>1
  <1>5. IsFinish(u)'
    BY <1>3, <1>4 DEF IsFinish
  <1> QED BY <1>1, <1>2, <1>3, <1>4, <1>5, FinishKeeps DEF ActiveFail

LEMMA FinishRemoveInv == ASSUME IInv, NEW p \in Thread, FinishRemove(p) PROVE IInv'
  <1>1. pc[p] \in Driving /\ cur[p] \in Task /\ IsFinish(cur[p])
    BY DEF FinishRemove, IInv, Discipline, PlaceOfThread, DrivenTask, Driving
  <1>2. taskState' \in [Task -> TaskStates] /\ UNCHANGED <<taskState, waitingRemove, bTimeout>>
    BY DEF FinishRemove, taskVars, IInv, TypeOK
  <1>3. PICK u \in Task : u = cur[p]
    BY <1>1
  <1>4. IsFinish(u)'
    BY <1>1, <1>2, <1>3 DEF IsFinish
  <1> QED BY <1>1, <1>2, <1>3, <1>4, FinishKeeps DEF FinishRemove, taskVars

LEMMA FetchNothingInv == ASSUME IInv, NEW p \in Thread, FetchNothing(p) PROVE IInv'
  <1> USE DEF IInv, EndDrive, cacheVars, histVars
  <1> DEFINE u == cur[p]
             a == Applied(p, u)
  <1>p. pc[p] \in Driving
    BY DEF FetchNothing, Driving
  <1>x. /\ u \in Task /\ u \notin inApp /\ bLooked[u] = TRUE /\ u # NoTask
        /\ u \notin todo[p] /\ u \notin finishTasks[p]
        /\ \A q \in Thread : q # p => u # cur[q] /\ u \notin todo[q] /\ u \notin finishTasks[q]
    BY <1>p, Exclusive
  <1>b. u \in board /\ ~IsFinish(u) /\ NoCachedEvents(u)
    BY DEF FetchNothing, NothingToDo, Discipline, DrivenTask
  <1>f. /\ cur' = [cur EXCEPT ![p] = NoTask] /\ pc' = [pc EXCEPT ![p] = "next"]
        /\ batch' = [batch EXCEPT ![p] = EmptyBatch] /\ connState' = [connState EXCEPT ![p] = NoConns]
        /\ bLooked' = [bLooked EXCEPT ![u] = FALSE]
        /\ connTaskMap' = a.map /\ taskConnSet' = a.set
        /\ UNCHANGED <<board, taskState, waitingRemove, bTimeout, cacheVars, call, todo,
                       finishTasks, inApp, histVars>>
    BY DEF FetchNothing
  <1>a. /\ a.map \in SUBSET (Conn \X Task) /\ a.set \in SUBSET (Task \X Conn)
        /\ \A c \in Conn, v \in Task : <<c, v>> \in a.map <=> <<v, c>> \in a.set
        /\ \A c \in Conn, v \in Task : <<c, v>> \in a.map => v \in board
    BY <1>b, AppliedSound
  <1> HIDE DEF a
  <1>1. TypeOK'
    BY <1>f, <1>a, <1>x, NoTaskAssumption
    DEF TypeOK, Points, Batch, EmptyBatch, NoConns, ConnMark
  <1>n. pc \in [Thread -> Points] /\ cur \in [Thread -> Task \cup {NoTask}]
        /\ finishTasks \in [Thread -> SUBSET Task] /\ todo \in [Thread -> SUBSET Task]
        /\ bLooked \in [Task -> BOOLEAN] /\ inApp \subseteq Task /\ board \subseteq Task
    BY DEF TypeOK
  <1>g. \A t \in Task : IsFinish(t)' = IsFinish(t)
    BY <1>f DEF IsFinish
  <1>2. Discipline'
    <2> USE DEF Discipline
    <2>1. TodoOnBoard' /\ IdleOnBoard' /\ SweptTask'
      BY <1>f, <1>b, <1>n DEF TodoOnBoard, IdleOnBoard, SweptTask
    <2>2. PlaceOfThread'
      BY <1>f, <1>n, NoTaskAssumption DEF PlaceOfThread, Driving
    <2>3. DrivenTask'
      BY <1>f, <1>n, <1>g DEF DrivenTask, PlaceOfThread, Driving
    <2>4. FinishedTask'
      BY <1>f, <1>n, <1>g DEF FinishedTask
    <2> QED BY <2>1, <2>2, <2>3, <2>4
  <1>3. OneDriver'
    <2>1. \A q \in Thread : Held(q)' = IF q = p THEN Held(q) \ {u} ELSE Held(q)
      BY <1>f, <1>n, <1>x DEF Held
    <2>2. u \in Held(p) /\ \A q \in Thread : q # p => u \notin Held(q)
      BY <1>x DEF Held
    <2>3. HeldApart'
      BY <2>1 DEF HeldApart, OneDriver
    <2>4. HeldOnce'
      BY <2>1, <1>f, <1>n, NoTaskAssumption DEF HeldOnce, OneDriver
    <2>5. LockIsHeld'
      <3> SUFFICES ASSUME NEW t \in Task \ inApp
                   PROVE  bLooked'[t] <=> \E q \in Thread : t \in Held(q)'
        BY <1>f DEF LockIsHeld
      <3>1. CASE t = u
        BY <3>1, <2>1, <2>2, <1>f, <1>n
      <3>2. CASE t # u
        <4>1. bLooked'[t] = bLooked[t]
          BY <3>2, <1>f, <1>n
        <4>2. bLooked[t] <=> \E q \in Thread : t \in Held(q)
          BY DEF LockIsHeld, OneDriver
        <4> QED BY <4>1, <4>2, <3>2, <2>1
      <3> QED BY <3>1, <3>2
    <2> QED BY <2>3, <2>4, <2>5 DEF OneDriver
  <1>4. NoStrandedWork'
    BY <1>f, <1>b, <1>g, <1>n DEF NoStrandedWork, NoCachedEvents
  <1>5. IndexesMirror'
    BY <1>f, <1>a DEF IndexesMirror
  <1> QED BY <1>1, <1>2, <1>3, <1>4, <1>5

LEMMA EmptiedType ==
  ASSUME NEW S, NEW D, NEW f \in [D -> Seq(S)], NEW u
  PROVE  [f EXCEPT ![u] = <<>>] \in [D -> Seq(S)]
  <1>1. <<>> \in Seq(S)
    OBVIOUS
  <1>2. ASSUME NEW T, <<>> \in T, f \in [D -> T]
        PROVE  [f EXCEPT ![u] = <<>>] \in [D -> T]
    BY <1>2
  <1> QED BY <1>1, <1>2

LEMMA FetchEventsInv == ASSUME IInv, NEW p \in Thread, FetchEvents(p) PROVE IInv'
  <1> USE DEF IInv
  <1> DEFINE u == cur[p]
             a == Applied(p, u)
             d == Detached(a.map, a.set, u)
  <1>p. pc[p] \in Driving
    BY DEF FetchEvents, Driving
  <1>x. /\ u \in Task /\ u \notin inApp /\ bLooked[u] = TRUE /\ u # NoTask
        /\ u \notin todo[p] /\ u \notin finishTasks[p]
        /\ \A q \in Thread : q # p => u # cur[q] /\ u \notin todo[q] /\ u \notin finishTasks[q]
    BY <1>p, Exclusive
  <1>b. u \in board
    BY DEF FetchEvents, Discipline, DrivenTask
  <1>f. /\ pc' = [pc EXCEPT ![p] = "dispatch"]
        /\ connState' = [connState EXCEPT ![p] = NoConns]
        /\ failList' = [failList EXCEPT ![u] = <<>>]
        /\ recvList' = [recvList EXCEPT ![u] = <<>>]
        /\ sendCloseList' = [sendCloseList EXCEPT ![u] = <<>>]
        /\ UNCHANGED <<taskVars, call, cur, todo, finishTasks, inApp, histVars>>
    BY DEF FetchEvents, TakeEvents
  <1>a. /\ a.map \in SUBSET (Conn \X Task) /\ a.set \in SUBSET (Task \X Conn)
        /\ \A c \in Conn, v \in Task : <<c, v>> \in a.map <=> <<v, c>> \in a.set
        /\ \A c \in Conn, v \in Task : <<c, v>> \in a.map => v \in board
    BY <1>b, AppliedSound
  <1>c. \/ /\ IsFinish(u)
           /\ board' = board \ {u} /\ connTaskMap' = d.map /\ taskConnSet' = d.set
        \/ ~IsFinish(u) /\ board' = board /\ connTaskMap' = a.map /\ taskConnSet' = a.set
    BY DEF FetchEvents
  <1>h. batch' = [batch EXCEPT ![p] = [fail |-> failList[u], recv |-> recvList[u],
                                       sendClose |-> sendCloseList[u], timeout |-> bTimeout[u]]]
    BY DEF FetchEvents
  <1> HIDE DEF a
  <1>d. /\ d.map \in SUBSET (Conn \X Task) /\ d.set \in SUBSET (Task \X Conn)
        /\ \A c \in Conn, v \in Task : <<c, v>> \in d.map <=> <<v, c>> \in d.set
        /\ \A c \in Conn, v \in Task : <<c, v>> \in d.map => v \in board \ {u}
    BY <1>x, <1>a, DetachedSound
  <1> HIDE DEF d
  <1>n. pc \in [Thread -> Points] /\ cur \in [Thread -> Task \cup {NoTask}]
        /\ finishTasks \in [Thread -> SUBSET Task] /\ todo \in [Thread -> SUBSET Task]
        /\ bLooked \in [Task -> BOOLEAN] /\ inApp \subseteq Task /\ board \subseteq Task
        /\ failList \in [Task -> Seq(Event)] /\ recvList \in [Task -> Seq(Event)]
        /\ sendCloseList \in [Task -> Seq(Event)] /\ bTimeout \in [Task -> BOOLEAN]
        /\ batch \in [Thread -> Batch] /\ connState \in [Thread -> [Conn -> ConnMark]]
    BY DEF TypeOK
  <1>g. \A t \in Task : IsFinish(t)' = IsFinish(t)
    BY <1>f DEF IsFinish, taskVars
  <1>s. board' \subseteq board /\ \A t \in board : t # u => t \in board'
    BY <1>c
  <1>1. TypeOK'
    <2>1. batch' \in [Thread -> Batch]
      BY <1>h, <1>n, <1>x DEF Batch
    <2>2. connState' \in [Thread -> [Conn -> ConnMark]]
      BY <1>f, <1>n DEF NoConns, ConnMark
    <2>3. pc' \in [Thread -> Points]
      BY <1>f, <1>n DEF Points
    <2>4. /\ failList' \in [Task -> Seq(Event)] /\ recvList' \in [Task -> Seq(Event)]
          /\ sendCloseList' \in [Task -> Seq(Event)]
      BY <1>f, <1>n, EmptiedType
    <2>5. /\ board' \subseteq Task /\ connTaskMap' \in SUBSET (Conn \X Task)
          /\ taskConnSet' \in SUBSET (Task \X Conn)
      BY <1>a, <1>c, <1>d, <1>n
    <2> QED BY <2>1, <2>2, <2>3, <2>4, <2>5, <1>f DEF TypeOK, taskVars, histVars
  <1>2. Discipline'
    <2> USE DEF Discipline
    <2>1. TodoOnBoard' /\ IdleOnBoard' /\ SweptTask'
      BY <1>f, <1>s, <1>x, <1>n DEF TodoOnBoard, IdleOnBoard, SweptTask, taskVars
    <2>2. PlaceOfThread'
      BY <1>f, <1>n, <1>p DEF PlaceOfThread, Driving
    <2>3. DrivenTask'
      <3> SUFFICES ASSUME NEW q \in Thread PROVE DrivenTask!(q)'
        BY DEF DrivenTask
      <3>1. CASE q = p
        <4>1. pc'[p] = "dispatch" /\ cur'[p] = u /\ IsFinish(u)' = IsFinish(u)
          BY <1>f, <1>n, <1>g, <1>x
        <4>2. u \notin board' => IsFinish(u)
          BY <1>b, <1>c
        <4> QED BY <3>1, <4>1, <4>2 DEF DrivenTask
      <3>2. CASE q # p
        <4>1. pc[q] \in Driving => cur[q] \in Task /\ cur[q] # u
          BY <3>2, <1>x DEF PlaceOfThread
        <4>2. pc'[q] = pc[q] /\ cur'[q] = cur[q]
          BY <3>2, <1>f, <1>n
        <4> QED BY <4>1, <4>2, <1>s, <1>g DEF DrivenTask, Driving
      <3> QED BY <3>1, <3>2
    <2>4. FinishedTask'
      BY <1>f, <1>n, <1>g, <1>s DEF FinishedTask
    <2> QED BY <2>1, <2>2, <2>3, <2>4
  <1>3. OneDriver'
    BY <1>f, SameHeld DEF OneDriver, HeldOnce, Held, taskVars
  <1>4. NoStrandedWork'
    BY <1>f, <1>s, <1>g, <1>n, <1>x DEF NoStrandedWork, NoCachedEvents, taskVars
  <1>5. IndexesMirror'
    BY <1>f, <1>a, <1>c, <1>d, <1>s DEF IndexesMirror
  <1> QED BY <1>1, <1>2, <1>3, <1>4, <1>5

-----------------------------------------------------------------------------
(* The calls of the application: they queue, mark and lock.                  *)

\* Locking the unlocked tasks of S for p keeps the leases apart.
LEMMA LeaseKeeps ==
  ASSUME IInv, NEW p \in Thread, NEW S \in SUBSET (Task \ inApp),
         \A t \in S : ~bLooked[t],
         \A q \in Thread : Held(q)' = IF q = p THEN Held(q) \cup S ELSE Held(q),
         \A t \in Task : bLooked'[t] <=> (bLooked[t] \/ t \in S),
         UNCHANGED inApp,
         \A q \in Thread : cur'[q] \notin todo'[q] \cup finishTasks'[q],
         \A q \in Thread : todo'[q] \cap finishTasks'[q] = {}
  PROVE  OneDriver'
  <1> USE DEF IInv, OneDriver
  <1>0. \A q \in Thread : \A t \in S : t \notin Held(q)
    BY DEF LockIsHeld
  <1>1. HeldApart'
    BY <1>0 DEF HeldApart
  <1>2. HeldOnce'
    BY DEF HeldOnce
  <1>3. LockIsHeld'
    <2> SUFFICES ASSUME NEW t \in Task \ inApp
                 PROVE  bLooked'[t] <=> \E q \in Thread : t \in Held(q)'
      BY DEF LockIsHeld
    <2>1. CASE t \in S
      BY <2>1
    <2>2. CASE t \notin S
      <3>1. bLooked'[t] <=> bLooked[t]
        BY <2>2
      <3>2. bLooked[t] <=> \E q \in Thread : t \in Held(q)
        BY DEF LockIsHeld
      <3>3. \A q \in Thread : t \in Held(q)' <=> t \in Held(q)
        BY <2>2
      <3> QED BY <3>1, <3>2, <3>3
    <2> QED BY <2>1, <2>2
  <1> QED BY <1>1, <1>2, <1>3

LEMMA AddTaskInv ==
  ASSUME IInv, NEW p \in Thread, NEW t \in Task, AddTask(p, t)
  PROVE  IInv'
  <1> USE DEF IInv
  <1>f. /\ pc[p] = "idle" /\ t \in inApp /\ t \notin board
        /\ board' = board \cup {t} /\ inApp' = inApp \ {t}
        /\ bLooked' = [bLooked EXCEPT ![t] = TRUE]
        /\ cur' = [cur EXCEPT ![p] = t] /\ pc' = [pc EXCEPT ![p] = "active"]
        /\ call' = [call EXCEPT ![p] = "active"]
        /\ waitingRemove' = [waitingRemove EXCEPT ![t] = FALSE]
        /\ bTimeout' = [bTimeout EXCEPT ![t] = FALSE]
        /\ UNCHANGED <<connTaskMap, taskConnSet, taskState, todo, finishTasks>>
    BY DEF AddTask
  <1>l. /\ failList' = [failList EXCEPT ![t] = <<>>]
        /\ recvList' = [recvList EXCEPT ![t] = <<>>]
        /\ sendCloseList' = [sendCloseList EXCEPT ![t] = <<>>]
        /\ owed' = [owed EXCEPT ![t] = {}]
        /\ UNCHANGED <<batch, connState, serial, closed>>
    BY DEF AddTask
  <1>1. TypeOK'
    BY <1>f, <1>l DEF TypeOK, Points, Calls
  <1>n. pc \in [Thread -> Points] /\ cur \in [Thread -> Task \cup {NoTask}]
        /\ finishTasks \in [Thread -> SUBSET Task] /\ todo \in [Thread -> SUBSET Task]
        /\ bLooked \in [Task -> BOOLEAN] /\ inApp \subseteq Task /\ board \subseteq Task
        /\ call \in [Thread -> Calls] /\ waitingRemove \in [Task -> BOOLEAN]
        /\ bTimeout \in [Task -> BOOLEAN]
    BY DEF TypeOK
  <1>x. /\ \A q \in Thread : t # cur[q] /\ t \notin todo[q] /\ t \notin finishTasks[q]
        /\ cur[p] = NoTask /\ t # NoTask /\ todo[p] = {} /\ finishTasks[p] = {}
    <2>1. \A q \in Thread : t \notin Held(q)
      BY <1>f DEF OneDriver, HeldOnce
    <2>2. cur[p] \notin Task
      BY <1>f DEF Discipline, PlaceOfThread, Driving
    <2> QED BY <2>1, <2>2, <1>f, <1>n, NoTaskAssumption DEF Held, Discipline, PlaceOfThread
  <1>g. \A v \in Task : v # t => IsFinish(v)' = IsFinish(v)
    BY <1>f, <1>n DEF IsFinish
  <1>2. Discipline'
    <2> USE DEF Discipline
    <2>1. TodoOnBoard' /\ IdleOnBoard'
      BY <1>f, <1>n DEF TodoOnBoard, IdleOnBoard
    <2>2. PlaceOfThread'
      BY <1>f, <1>n, <1>x DEF PlaceOfThread, Driving
    <2>3. DrivenTask'
      <3> SUFFICES ASSUME NEW q \in Thread PROVE DrivenTask!(q)'
        BY DEF DrivenTask
      <3>1. CASE q = p
        BY <3>1, <1>f, <1>n DEF DrivenTask
      <3>2. CASE q # p
        <4>1. pc[q] \in Driving => cur[q] \in Task /\ cur[q] # t
          BY <3>2, <1>x DEF PlaceOfThread
        <4>2. pc'[q] = pc[q] /\ cur'[q] = cur[q]
          BY <3>2, <1>f, <1>n
        <4> QED BY <4>1, <4>2, <1>f, <1>g DEF DrivenTask, Driving
      <3> QED BY <3>1, <3>2
    <2>4. FinishedTask'
      BY <1>f, <1>n, <1>g, <1>x DEF FinishedTask
    <2>5. SweptTask'
      BY <1>f, <1>n, <1>x DEF SweptTask
    <2> QED BY <2>1, <2>2, <2>3, <2>4, <2>5
  <1>3. OneDriver'
    <2>1. \A q \in Thread : Held(q)' = IF q = p THEN {t} ELSE Held(q)
      BY <1>f, <1>n, <1>x DEF Held
    <2>2. HeldApart'
      BY <2>1, <1>f DEF HeldApart, HeldOnce, OneDriver
    <2>3. HeldOnce'
      BY <2>1, <1>f, <1>n, <1>x DEF HeldOnce, OneDriver
    <2>4. LockIsHeld'
      <3> SUFFICES ASSUME NEW v \in Task \ inApp'
                   PROVE  bLooked'[v] <=> \E q \in Thread : v \in Held(q)'
        BY DEF LockIsHeld
      <3>1. CASE v = t
        BY <3>1, <2>1, <1>f, <1>n
      <3>2. CASE v # t
        <4>1. v \in Task \ inApp /\ bLooked'[v] = bLooked[v]
          BY <3>2, <1>f, <1>n
        <4>2. bLooked[v] <=> \E q \in Thread : v \in Held(q)
          BY <4>1 DEF LockIsHeld, OneDriver
        <4>3. Held(p) = {}
          BY <1>x DEF Held
        <4> QED BY <4>1, <4>2, <4>3, <3>2, <2>1
      <3> QED BY <3>1, <3>2
    <2> QED BY <2>2, <2>3, <2>4 DEF OneDriver
  <1>4. NoStrandedWork'
    BY <1>f, <1>l, <1>n, <1>g DEF NoStrandedWork, NoCachedEvents, TypeOK
  <1>5. IndexesMirror'
    BY <1>f DEF IndexesMirror
  <1> QED BY <1>1, <1>2, <1>3, <1>4, <1>5

\* A call that locks the tasks of S, all on the board, to dispatch them in turn:
\* what it writes to them may finish them and may give the locked ones events.
LEMMA LockAllInv ==
  ASSUME IInv, TypeOK', NEW p \in Thread, pc[p] = "idle",
         NEW S \in SUBSET board, \A t \in S : ~bLooked[t],
         \A t \in Task : bLooked'[t] <=> (bLooked[t] \/ t \in S),
         todo' = [todo EXCEPT ![p] = S],
         pc' = [pc EXCEPT ![p] = "next"],
         \A q \in Thread : q # p => call'[q] = call[q],
         call'[p] = "timeout" => \A t \in S : bTimeout'[t],
         \A t \in Task : (IsFinish(t) => IsFinish(t)') /\ (bTimeout[t] => bTimeout'[t]),
         \A t \in board : ~bLooked'[t] => NoCachedEvents(t)' /\ ~IsFinish(t)',
         UNCHANGED <<boardVars, cur, finishTasks, inApp>>
  PROVE  IInv'
  <1> USE DEF IInv, boardVars
  <1>n. pc \in [Thread -> Points] /\ cur \in [Thread -> Task \cup {NoTask}]
        /\ finishTasks \in [Thread -> SUBSET Task] /\ todo \in [Thread -> SUBSET Task]
        /\ inApp \subseteq Task /\ board \subseteq Task
    BY DEF TypeOK
  <1>x. cur[p] \notin Task /\ cur[p] = NoTask /\ todo[p] = {} /\ finishTasks[p] = {}
    BY <1>n DEF Discipline, PlaceOfThread, Driving
  <1>y. \A t \in S : t \in Task /\ t \notin inApp /\ \A q \in Thread : t \notin Held(q)
    BY <1>n DEF IndexesMirror, OneDriver, LockIsHeld
  <1>z. \A t \in S, q \in Thread : t # cur[q] /\ t \notin finishTasks[q]
    BY <1>y, NoTaskAssumption DEF Held
  <1>2. Discipline'
    <2> USE DEF Discipline
    <2>1. TodoOnBoard' /\ IdleOnBoard' /\ FinishedTask'
      BY <1>n DEF TodoOnBoard, IdleOnBoard, FinishedTask
    <2>2. PlaceOfThread'
      BY <1>n, <1>x DEF PlaceOfThread, Driving
    <2>3. DrivenTask'
      <3> SUFFICES ASSUME NEW q \in Thread PROVE DrivenTask!(q)'
        BY DEF DrivenTask
      <3>1. CASE q = p
        BY <3>1, <1>n DEF DrivenTask
      <3>2. CASE q # p
        <4>1. pc[q] \in Driving => cur[q] \in Task
          BY DEF PlaceOfThread
        <4>2. pc'[q] = pc[q] /\ cur'[q] = cur[q] /\ board' = board
          BY <3>2, <1>n
        <4> QED BY <4>1, <4>2 DEF DrivenTask, Driving
      <3> QED BY <3>1, <3>2
    <2>5. SweptTask'
      BY <1>n, <1>x DEF SweptTask
    <2> QED BY <2>1, <2>2, <2>3, <2>5
  <1>3. OneDriver'
    <2>1. \A q \in Thread : Held(q)' = IF q = p THEN Held(q) \cup S ELSE Held(q)
      BY <1>n, <1>x DEF Held
    <2>2. \A q \in Thread : cur'[q] \notin todo'[q] \cup finishTasks'[q]
      BY <1>n, <1>z DEF OneDriver, HeldOnce
    <2>3. \A q \in Thread : todo'[q] \cap finishTasks'[q] = {}
      BY <1>n, <1>z DEF OneDriver, HeldOnce
    <2>4. S \in SUBSET (Task \ inApp)
      BY <1>y
    <2> QED BY <2>1, <2>2, <2>3, <2>4, LeaseKeeps
  <1>4. NoStrandedWork'
    BY DEF NoStrandedWork
  <1>5. IndexesMirror'
    BY DEF IndexesMirror
  <1> QED BY <1>2, <1>3, <1>4, <1>5

\* An event queued on t, which is driven already or is driven by p from now on.
LEMMA AcceptInv ==
  ASSUME IInv, TypeOK', NEW p \in Thread, NEW t \in Task, NEW e, Accept(p, t, e),
         \A v \in Task : v # t => /\ failList'[v] = failList[v]
                                  /\ recvList'[v] = recvList[v]
                                  /\ sendCloseList'[v] = sendCloseList[v]
  PROVE  IInv'
  <1> USE DEF IInv
  <1>f. /\ pc[p] = "idle" /\ t \in board
        /\ bLooked' = [bLooked EXCEPT ![t] = TRUE]
        /\ UNCHANGED <<board, connTaskMap, taskConnSet, taskState, waitingRemove, bTimeout,
                       todo, finishTasks, inApp>>
    BY DEF Accept, LockOrLeave, boardVars
  <1>l. IF bLooked[t] THEN UNCHANGED <<call, cur, pc>>
        ELSE /\ call' = [call EXCEPT ![p] = "notice"]
             /\ cur' = [cur EXCEPT ![p] = t]
             /\ pc' = [pc EXCEPT ![p] = "fetch"]
    BY DEF Accept, LockOrLeave, Drive
  <1>n. pc \in [Thread -> Points] /\ cur \in [Thread -> Task \cup {NoTask}]
        /\ finishTasks \in [Thread -> SUBSET Task] /\ todo \in [Thread -> SUBSET Task]
        /\ bLooked \in [Task -> BOOLEAN] /\ inApp \subseteq Task /\ board \subseteq Task
        /\ call \in [Thread -> Calls]
    BY DEF TypeOK
  <1>g. \A v \in Task : IsFinish(v)' = IsFinish(v)
    BY <1>f DEF IsFinish
  <1>x. cur[p] \notin Task /\ cur[p] = NoTask /\ todo[p] = {} /\ finishTasks[p] = {}
    BY <1>f, <1>n DEF Discipline, PlaceOfThread, Driving
  <1>4. NoStrandedWork'
    <2> SUFFICES ASSUME NEW v \in board, ~bLooked'[v]
                 PROVE  NoCachedEvents(v)' /\ ~IsFinish(v)'
      BY <1>f DEF NoStrandedWork
    <2>1. v # t /\ v \in Task /\ ~bLooked[v]
      BY <1>f, <1>n
    <2> QED BY <2>1, <1>g DEF NoStrandedWork, NoCachedEvents
  <1>5. IndexesMirror'
    BY <1>f DEF IndexesMirror
  <1>6. CASE bLooked[t]
    <2>1. bLooked' = bLooked /\ UNCHANGED <<call, cur, pc>>
      BY <1>6, <1>f, <1>l, <1>n
    <2>2. Discipline'
      <3> USE DEF Discipline
      <3>1. TodoOnBoard' /\ PlaceOfThread' /\ SweptTask' /\ IdleOnBoard'
        BY <1>f, <2>1 DEF TodoOnBoard, PlaceOfThread, SweptTask, IdleOnBoard
      <3>2. DrivenTask'
        BY <1>f, <2>1, <1>g DEF DrivenTask, PlaceOfThread, Driving
      <3>3. FinishedTask'
        BY <1>f, <1>g, <1>n DEF FinishedTask
      <3> QED BY <3>1, <3>2, <3>3
    <2>3. OneDriver'
      BY <1>f, <2>1, SameHeld DEF OneDriver, HeldOnce, Held
    <2> QED BY <1>4, <1>5, <2>2, <2>3
  <1>7. CASE ~bLooked[t]
    <2>1. /\ call' = [call EXCEPT ![p] = "notice"] /\ cur' = [cur EXCEPT ![p] = t]
          /\ pc' = [pc EXCEPT ![p] = "fetch"]
      BY <1>7, <1>l
    <2>2. t \notin inApp /\ \A q \in Thread : t \notin Held(q)
      BY <1>f, <1>7 DEF IndexesMirror, OneDriver, LockIsHeld
    <2>3. t # NoTask
      BY NoTaskAssumption
    <2>4. Discipline'
      <3> USE DEF Discipline
      <3>1. TodoOnBoard' /\ IdleOnBoard'
        BY <1>f, <1>n DEF TodoOnBoard, IdleOnBoard
      <3>2. PlaceOfThread'
        BY <1>f, <1>n, <2>1 DEF PlaceOfThread, Driving
      <3>3. DrivenTask'
        BY <1>f, <1>n, <2>1, <1>g DEF DrivenTask, PlaceOfThread, Driving
      <3>4. FinishedTask'
        BY <1>f, <1>g, <1>n DEF FinishedTask
      <3>5. SweptTask'
        BY <1>f, <1>n, <2>1 DEF SweptTask
      <3> QED BY <3>1, <3>2, <3>3, <3>4, <3>5
    <2>5. OneDriver'
      <3>1. \A q \in Thread : Held(q)' = IF q = p THEN Held(q) \cup {t} ELSE Held(q)
        BY <1>f, <1>n, <1>x, <2>1, <2>3 DEF Held
      <3>2. \A q \in Thread : cur'[q] \notin todo'[q] \cup finishTasks'[q]
        BY <1>f, <1>n, <1>x, <2>1 DEF OneDriver, HeldOnce
      <3>3. \A q \in Thread : todo'[q] \cap finishTasks'[q] = {}
        BY <1>f DEF OneDriver, HeldOnce
      <3>4. \A v \in Task : bLooked'[v] <=> (bLooked[v] \/ v \in {t})
        BY <1>f, <1>n
      <3>5. {t} \in SUBSET (Task \ inApp) /\ \A v \in {t} : ~bLooked[v]
        BY <2>2, <1>7
      <3> HIDE DEF IInv
      <3> QED BY <1>f, <3>1, <3>2, <3>3, <3>4, <3>5, LeaseKeeps
    <2> QED BY <1>4, <1>5, <2>4, <2>5
  <1> QED BY <1>6, <1>7

LEMMA AppendedType ==
  ASSUME NEW S, NEW D, NEW f \in [D -> Seq(S)], NEW u \in D, NEW e \in S
  PROVE  [f EXCEPT ![u] = Append(@, e)] \in [D -> Seq(S)]
  <1>1. Append(f[u], e) \in Seq(S)
    OBVIOUS
  <1>2. ASSUME NEW T, NEW x \in T, f \in [D -> T]
        PROVE  [f EXCEPT ![u] = x] \in [D -> T]
    BY <1>2
  <1> QED BY <1>1, <1>2

LEMMA AcceptType ==
  ASSUME TypeOK, NEW p \in Thread, NEW t \in Task, NEW c \in Conn,
         NEW k \in {"send", "recv", "fail"}, Accept(p, t, EventOf(k, c)),
         failList' \in [Task -> Seq(Event)], recvList' \in [Task -> Seq(Event)],
         sendCloseList' \in [Task -> Seq(Event)]
  PROVE  TypeOK' /\ EventOf(k, c) \in Event
  <1>1. EventOf(k, c) \in Event
    BY DEF EventOf, Event, TypeOK
  <1> DEFINE e == EventOf(k, c)
  <1> HIDE DEF e
  <1>2. /\ serial' \in 0 .. MaxNotices /\ owed' \in [Task -> SUBSET Event]
        /\ bLooked' \in [Task -> BOOLEAN]
        /\ UNCHANGED <<boardVars, taskState, waitingRemove, bTimeout, todo, finishTasks,
                       batch, connState, inApp, closed>>
    <2>1. /\ serial < MaxNotices /\ serial' = serial + 1
          /\ owed' = [owed EXCEPT ![t] = @ \cup {EventOf(k, c)}]
          /\ bLooked' = [bLooked EXCEPT ![t] = TRUE]
          /\ UNCHANGED <<boardVars, taskState, waitingRemove, bTimeout, todo, finishTasks,
                         batch, connState, inApp, closed>>
      BY DEF Accept, LockOrLeave
    <2>2. serial' \in 0 .. MaxNotices
      BY <2>1, MaxNoticesAssumption DEF TypeOK
    <2>3. owed' \in [Task -> SUBSET Event] /\ bLooked' \in [Task -> BOOLEAN]
      BY <1>1, <2>1 DEF TypeOK
    <2> QED BY <2>1, <2>2, <2>3
  <1>3. pc' \in [Thread -> Points] /\ call' \in [Thread -> Calls]
        /\ cur' \in [Thread -> Task \cup {NoTask}]
    BY DEF Accept, LockOrLeave, Drive, TypeOK, Points, Calls
  <1> QED BY <1>1, <1>2, <1>3 DEF TypeOK, boardVars

LEMMA NoticeRecvMsgInv ==
  ASSUME IInv, NEW p \in Thread, NEW t \in Task, NEW c \in Conn, NoticeRecvMsg(p, t, c)
  PROVE  IInv'
  <1>1. EventOf("recv", c) \in Event /\ TypeOK
    BY DEF IInv, EventOf, Event, TypeOK
  <1>2. /\ Accept(p, t, EventOf("recv", c)) /\ UNCHANGED <<failList, sendCloseList>>
        /\ recvList' = [recvList EXCEPT ![t] = Append(@, EventOf("recv", c))]
    BY DEF NoticeRecvMsg
  <1>3. /\ failList' \in [Task -> Seq(Event)] /\ recvList' \in [Task -> Seq(Event)]
        /\ sendCloseList' \in [Task -> Seq(Event)]
    BY <1>1, <1>2, AppendedType DEF TypeOK
  <1>4. TypeOK'
    BY <1>1, <1>2, <1>3, AcceptType
  <1>5. \A v \in Task : v # t => recvList'[v] = recvList[v]
    BY <1>1, <1>2 DEF TypeOK
  <1> QED BY <1>2, <1>4, <1>5, AcceptInv

LEMMA NoticeFailSendMsgInv ==
  ASSUME IInv, NEW p \in Thread, NEW t \in Task, NEW c \in Conn, NoticeFailSendMsg(p, t, c)
  PROVE  IInv'
  <1>1. EventOf("fail", c) \in Event /\ TypeOK
    BY DEF IInv, EventOf, Event, TypeOK
  <1>2. /\ Accept(p, t, EventOf("fail", c)) /\ UNCHANGED <<recvList, sendCloseList>>
        /\ failList' = [failList EXCEPT ![t] = Append(@, EventOf("fail", c))]
    BY DEF NoticeFailSendMsg
  <1>3. /\ failList' \in [Task -> Seq(Event)] /\ recvList' \in [Task -> Seq(Event)]
        /\ sendCloseList' \in [Task -> Seq(Event)]
    BY <1>1, <1>2, AppendedType DEF TypeOK
  <1>4. TypeOK'
    BY <1>1, <1>2, <1>3, AcceptType
  <1>5. \A v \in Task : v # t => failList'[v] = failList[v]
    BY <1>1, <1>2 DEF TypeOK
  <1> QED BY <1>2, <1>4, <1>5, AcceptInv

LEMMA NoticeEndSendMsgInv ==
  ASSUME IInv, NEW p \in Thread, NEW t \in Task, NEW c \in Conn, NoticeEndSendMsg(p, t, c)
  PROVE  IInv'
  <1>1. EventOf("send", c) \in Event /\ TypeOK
    BY DEF IInv, EventOf, Event, TypeOK
  <1>2. /\ Accept(p, t, EventOf("send", c)) /\ UNCHANGED <<failList, recvList>>
        /\ sendCloseList' = [sendCloseList EXCEPT ![t] = Append(@, EventOf("send", c))]
    BY DEF NoticeEndSendMsg
  <1>3. /\ failList' \in [Task -> Seq(Event)] /\ recvList' \in [Task -> Seq(Event)]
        /\ sendCloseList' \in [Task -> Seq(Event)]
    BY <1>1, <1>2, AppendedType DEF TypeOK
  <1>4. TypeOK'
    BY <1>1, <1>2, <1>3, AcceptType
  <1>5. \A v \in Task : v # t => sendCloseList'[v] = sendCloseList[v]
    BY <1>1, <1>2 DEF TypeOK
  <1> QED BY <1>2, <1>4, <1>5, AcceptInv

LEMMA NoticeConnClosedInv ==
  ASSUME IInv, NEW p \in Thread, NEW c \in Conn, NoticeConnClosed(p, c)
  PROVE  IInv'
  <1> DEFINE told == {t \in Task : <<c, t>> \in connTaskMap}
             S    == {t \in told : ~bLooked[t]}
             e    == EventOf("closed", c)
  <1>f. /\ pc[p] = "idle" /\ serial < MaxNotices /\ serial' = serial + 1
        /\ closed' = closed \cup {c}
        /\ owed' = [t \in Task |-> IF t \in told THEN owed[t] \cup {e} ELSE owed[t]]
        /\ bLooked' = [t \in Task |-> bLooked[t] \/ t \in told]
        /\ todo' = [todo EXCEPT ![p] = S]
        /\ call' = [call EXCEPT ![p] = "closed"]
        /\ pc' = [pc EXCEPT ![p] = "next"]
        /\ UNCHANGED <<board, connTaskMap, taskConnSet, taskState, waitingRemove, bTimeout,
                       failList, recvList, cur, finishTasks, batch, connState, inApp>>
    BY DEF NoticeConnClosed, boardVars
  <1>l. sendCloseList' = [t \in Task |-> IF t \in told THEN Append(sendCloseList[t], e)
                                                         ELSE sendCloseList[t]]
    BY DEF NoticeConnClosed
  <1>e. e \in Event
    BY DEF IInv, TypeOK, EventOf, Event
  <1> HIDE DEF e
  <1>t. told \subseteq board
    BY DEF IInv, IndexesMirror
  <1>n. bLooked \in [Task -> BOOLEAN] /\ call \in [Thread -> Calls] /\ board \subseteq Task
        /\ todo \in [Thread -> SUBSET Task] /\ pc \in [Thread -> Points]
        /\ sendCloseList \in [Task -> Seq(Event)] /\ owed \in [Task -> SUBSET Event]
        /\ serial \in 0 .. MaxNotices /\ closed \subseteq Conn
    BY DEF IInv, TypeOK
  <1> HIDE DEF told
  <1>1. TypeOK'
    <2>1. \A t \in Task : Append(sendCloseList[t], e) \in Seq(Event)
      BY <1>e, <1>n
    <2>2. sendCloseList' \in [Task -> Seq(Event)]
      BY <1>l, <2>1, <1>n
    <2>3. owed' \in [Task -> SUBSET Event] /\ bLooked' \in [Task -> BOOLEAN]
          /\ serial' \in 0 .. MaxNotices /\ closed' \subseteq Conn
      BY <1>f, <1>e, <1>n, MaxNoticesAssumption
    <2>4. pc' \in [Thread -> Points] /\ call' \in [Thread -> Calls]
          /\ todo' \in [Thread -> SUBSET Task]
      BY <1>f, <1>n, <1>t DEF Points, Calls
    <2> QED BY <1>f, <2>2, <2>3, <2>4 DEF TypeOK, IInv
  <1>2. S \in SUBSET board /\ \A t \in S : ~bLooked[t]
    BY <1>t
  <1>3. \A t \in Task : bLooked'[t] <=> (bLooked[t] \/ t \in S)
    BY <1>f, <1>n
  <1>4. /\ \A q \in Thread : q # p => call'[q] = call[q]
        /\ call'[p] # "timeout"
    BY <1>f, <1>n
  <1>5. \A t \in Task : IsFinish(t)' = IsFinish(t)
    BY <1>f DEF IsFinish
  <1>6. \A t \in board : ~bLooked'[t] => NoCachedEvents(t)' /\ ~IsFinish(t)'
    <2> SUFFICES ASSUME NEW t \in board, ~bLooked'[t]
                 PROVE  NoCachedEvents(t)' /\ ~IsFinish(t)'
      OBVIOUS
    <2>1. t \in Task /\ ~bLooked[t] /\ t \notin told
      BY <1>f, <1>n
    <2>2. sendCloseList'[t] = sendCloseList[t]
      BY <2>1, <1>l
    <2> QED BY <2>1, <2>2, <1>5, <1>f DEF IInv, NoStrandedWork, NoCachedEvents
  <1> HIDE DEF S
  <1> QED BY <1>f, <1>1, <1>2, <1>3, <1>4, <1>5, <1>6, LockAllInv DEF boardVars

LEMMA NoticeCheckTimeoutInv ==
  ASSUME IInv, NEW p \in Thread, NoticeCheckTimeout(p)
  PROVE  IInv'
  <1>0. PICK due \in SUBSET board :
          LET late == due \cup {t \in board : bTimeout[t]}
          IN  /\ bTimeout' = [t \in Task |-> bTimeout[t] \/ t \in late]
              /\ taskState' = [t \in Task |-> IF t \in late THEN "FINISH" ELSE taskState[t]]
              /\ bLooked' = [t \in Task |-> bLooked[t] \/ t \in late]
              /\ todo' = [todo EXCEPT ![p] = {t \in late : ~bLooked[t]}]
    BY DEF NoticeCheckTimeout
  <1> DEFINE late == due \cup {t \in board : bTimeout[t]}
             S    == {t \in late : ~bLooked[t]}
  <1>f. /\ pc[p] = "idle"
        /\ bTimeout' = [t \in Task |-> bTimeout[t] \/ t \in late]
        /\ taskState' = [t \in Task |-> IF t \in late THEN "FINISH" ELSE taskState[t]]
        /\ bLooked' = [t \in Task |-> bLooked[t] \/ t \in late]
        /\ todo' = [todo EXCEPT ![p] = S]
        /\ call' = [call EXCEPT ![p] = "timeout"]
        /\ pc' = [pc EXCEPT ![p] = "next"]
        /\ UNCHANGED <<boardVars, waitingRemove, failList, recvList, sendCloseList, cur,
                       finishTasks, batch, connState, inApp, histVars>>
    BY <1>0 DEF NoticeCheckTimeout, cacheVars
  <1>t. late \subseteq board
    OBVIOUS
  <1> HIDE DEF late
  <1>n. bLooked \in [Task -> BOOLEAN] /\ call \in [Thread -> Calls] /\ board \subseteq Task
        /\ todo \in [Thread -> SUBSET Task] /\ pc \in [Thread -> Points]
        /\ bTimeout \in [Task -> BOOLEAN] /\ taskState \in [Task -> TaskStates]
        /\ waitingRemove \in [Task -> BOOLEAN]
    BY DEF IInv, TypeOK
  <1>1. TypeOK'
    <2>1. /\ bTimeout' \in [Task -> BOOLEAN] /\ bLooked' \in [Task -> BOOLEAN]
          /\ taskState' \in [Task -> TaskStates]
      BY <1>f, <1>n DEF TaskStates
    <2>2. pc' \in [Thread -> Points] /\ call' \in [Thread -> Calls]
          /\ todo' \in [Thread -> SUBSET Task]
      BY <1>f, <1>n, <1>t DEF Points, Calls
    <2> QED BY <1>f, <2>1, <2>2 DEF TypeOK, IInv, boardVars, histVars
  <1>2. S \in SUBSET board /\ \A t \in S : ~bLooked[t] /\ bTimeout'[t]
    BY <1>f, <1>t, <1>n
  <1>3. \A t \in Task : bLooked'[t] <=> (bLooked[t] \/ t \in S)
    BY <1>f, <1>n
  <1>4. \A q \in Thread : q # p => call'[q] = call[q]
    BY <1>f, <1>n
  <1>5. \A t \in Task : (IsFinish(t) => IsFinish(t)') /\ (bTimeout[t] => bTimeout'[t])
    BY <1>f, <1>n DEF IsFinish
  <1>6. \A t \in board : ~bLooked'[t] => NoCachedEvents(t)' /\ ~IsFinish(t)'
    <2> SUFFICES ASSUME NEW t \in board, ~bLooked'[t]
                 PROVE  NoCachedEvents(t)' /\ ~IsFinish(t)'
      OBVIOUS
    <2>1. t \in Task /\ ~bLooked[t] /\ t \notin late
      BY <1>f, <1>n
    <2>2. NoCachedEvents(t) /\ ~IsFinish(t)
      BY <2>1 DEF IInv, NoStrandedWork
    <2>3. /\ taskState'[t] = taskState[t] /\ waitingRemove'[t] = waitingRemove[t]
          /\ bTimeout'[t] <=> bTimeout[t]
      BY <2>1, <1>f, <1>n
    <2> QED BY <2>2, <2>3, <1>f DEF NoCachedEvents, IsFinish
  <1> HIDE DEF S
  <1> QED BY <1>f, <1>1, <1>2, <1>3, <1>4, <1>5, <1>6, LockAllInv

LEMMA RemoveInv ==
  ASSUME IInv, NEW p \in Thread, NEW t \in Task, Remove(p, t)
  PROVE  IInv'
  <1> USE DEF IInv
  <1>f. /\ t \in board /\ waitingRemove' = [waitingRemove EXCEPT ![t] = TRUE]
        /\ UNCHANGED <<taskState, bTimeout, failList, recvList, sendCloseList, pc, call, cur,
                       todo, finishTasks, batch, connState, serial, closed, owed>>
    BY DEF Remove, cacheVars, threadVars, histVars
  <1>n. pc \in [Thread -> Points] /\ cur \in [Thread -> Task \cup {NoTask}]
        /\ finishTasks \in [Thread -> SUBSET Task] /\ todo \in [Thread -> SUBSET Task]
        /\ bLooked \in [Task -> BOOLEAN] /\ inApp \subseteq Task /\ board \subseteq Task
        /\ waitingRemove \in [Task -> BOOLEAN]
    BY DEF TypeOK
  <1>g. \A v \in Task : /\ IsFinish(v) => IsFinish(v)'
                        /\ v # t => IsFinish(v)' = IsFinish(v)
    BY <1>f, <1>n DEF IsFinish
  <1>o. t \notin inApp
    BY <1>f DEF IndexesMirror
  <1>1. CASE bLooked[t] /\ UNCHANGED <<boardVars, bLooked, inApp>>
    <2> USE <1>1 DEF boardVars
    <2>1. TypeOK'
      BY <1>f, <1>n DEF TypeOK
    <2>2. Discipline'
      <3> USE DEF Discipline
      <3>1. TodoOnBoard' /\ PlaceOfThread' /\ SweptTask' /\ IdleOnBoard'
        BY <1>f DEF TodoOnBoard, PlaceOfThread, SweptTask, IdleOnBoard
      <3>2. DrivenTask'
        BY <1>f, <1>g DEF DrivenTask, PlaceOfThread, Driving
      <3>3. FinishedTask'
        BY <1>f, <1>g, <1>n DEF FinishedTask
      <3> QED BY <3>1, <3>2, <3>3
    <2>3. OneDriver'
      BY <1>f, SameHeld DEF OneDriver, HeldOnce, Held
    <2>4. NoStrandedWork'
      BY <1>f, <1>g, <1>n DEF NoStrandedWork, NoCachedEvents
    <2>5. IndexesMirror'
      BY <1>f DEF IndexesMirror
    <2> QED BY <2>1, <2>2, <2>3, <2>4, <2>5
  <1>2. CASE /\ ~bLooked[t] /\ Unlink(t)
             /\ bLooked' = [bLooked EXCEPT ![t] = TRUE]
             /\ inApp' = inApp \cup {t}
    <2> DEFINE d == Detached(connTaskMap, taskConnSet, t)
    <2>0. board' = board \ {t} /\ connTaskMap' = d.map /\ taskConnSet' = d.set
      BY <1>2 DEF Unlink
    <2>d. /\ d.map \in SUBSET (Conn \X Task) /\ d.set \in SUBSET (Task \X Conn)
          /\ \A c \in Conn, v \in Task : <<c, v>> \in d.map <=> <<v, c>> \in d.set
          /\ \A c \in Conn, v \in Task : <<c, v>> \in d.map => v \in board \ {t}
      BY DetachedSound DEF IndexesMirror, TypeOK
    <2> HIDE DEF d
    <2>x. \A q \in Thread : t # cur[q] /\ t \notin todo[q] /\ t \notin finishTasks[q]
      <3>1. \A q \in Thread : t \notin Held(q)
        BY <1>2, <1>o DEF OneDriver, LockIsHeld
      <3> QED BY <3>1, NoTaskAssumption DEF Held
    <2>1. TypeOK'
      BY <1>f, <1>2, <1>n, <2>0, <2>d DEF TypeOK
    <2>2. Discipline'
      <3> USE DEF Discipline
      <3>1. TodoOnBoard' /\ IdleOnBoard'
        BY <1>f, <1>2, <1>n, <2>0, <2>x DEF TodoOnBoard, IdleOnBoard
      <3>2. PlaceOfThread' /\ SweptTask'
        BY <1>f DEF PlaceOfThread, SweptTask
      <3>3. DrivenTask'
        BY <1>f, <1>g, <2>0, <2>x DEF DrivenTask, PlaceOfThread, Driving
      <3>4. FinishedTask'
        BY <1>f, <1>g, <1>n, <2>0 DEF FinishedTask
      <3> QED BY <3>1, <3>2, <3>3, <3>4
    <2>3. OneDriver'
      <3>1. \A q \in Thread : Held(q)' = Held(q) /\ t \notin Held(q)
        BY <1>f, <2>x DEF Held
      <3>2. HeldApart' /\ HeldOnce'
        BY <1>f, <1>2, <2>x, <3>1 DEF OneDriver, HeldApart, HeldOnce
      <3>3. LockIsHeld'
        <4> SUFFICES ASSUME NEW v \in Task \ inApp'
                     PROVE  bLooked'[v] <=> \E q \in Thread : v \in Held(q)'
          BY DEF LockIsHeld
        <4>1. v # t /\ v \in Task \ inApp /\ bLooked'[v] = bLooked[v]
          BY <1>2, <1>n
        <4> QED BY <4>1, <3>1 DEF OneDriver, LockIsHeld
      <3> QED BY <3>2, <3>3 DEF OneDriver
    <2>4. NoStrandedWork'
      BY <1>f, <1>g, <1>2, <1>n, <2>0 DEF NoStrandedWork, NoCachedEvents
    <2>5. IndexesMirror'
      BY <1>2, <2>0, <2>d DEF IndexesMirror
    <2> QED BY <2>1, <2>2, <2>3, <2>4, <2>5
  <1> QED BY <1>1, <1>2 DEF Remove

LEMMA NextTaskInv == ASSUME IInv, NEW p \in Thread, NextTask(p) PROVE IInv'
  <1> USE DEF IInv
  <1>0. PICK t \in todo[p] : /\ todo' = [todo EXCEPT ![p] = @ \ {t}]
                             /\ Drive(p, call[p], t)
    BY DEF NextTask
  <1>n. pc \in [Thread -> Points] /\ cur \in [Thread -> Task \cup {NoTask}]
        /\ finishTasks \in [Thread -> SUBSET Task] /\ todo \in [Thread -> SUBSET Task]
        /\ call \in [Thread -> Calls] /\ inApp \subseteq Task /\ board \subseteq Task
    BY DEF TypeOK
  <1>f. /\ pc[p] = "next" /\ cur' = [cur EXCEPT ![p] = t] /\ pc' = [pc EXCEPT ![p] = "fetch"]
        /\ call' = call
        /\ UNCHANGED <<boardVars, taskVars, cacheVars, finishTasks, batch, connState, inApp,
                       histVars>>
    BY <1>0, <1>n DEF NextTask, Drive
  <1>u. UNCHANGED <<board, connTaskMap, taskConnSet, taskState, bLooked, waitingRemove,
                    bTimeout, failList, recvList, sendCloseList>>
    BY <1>f DEF boardVars, taskVars, cacheVars
  <1>x. t \in Task /\ t # NoTask /\ t \in board /\ cur[p] = NoTask
    BY <1>f, <1>n, NoTaskAssumption DEF Discipline, TodoOnBoard, PlaceOfThread, Driving
  <1>g. \A v \in Task : IsFinish(v)' = IsFinish(v)
    BY <1>u DEF IsFinish
  <1>1. TypeOK'
    BY <1>f, <1>0, <1>u, <1>n, <1>x DEF TypeOK, Points, histVars
  <1>2. Discipline'
    <2> USE DEF Discipline
    <2>1. TodoOnBoard' /\ IdleOnBoard'
      BY <1>0, <1>f, <1>u, <1>n DEF TodoOnBoard, IdleOnBoard
    <2>2. PlaceOfThread'
      BY <1>0, <1>f, <1>n, <1>x DEF PlaceOfThread, Driving
    <2>3. DrivenTask'
      BY <1>f, <1>u, <1>n, <1>x, <1>g DEF DrivenTask, PlaceOfThread, Driving
    <2>4. FinishedTask'
      BY <1>f, <1>u, <1>n, <1>g DEF FinishedTask
    <2>5. SweptTask'
      BY <1>0, <1>f, <1>u, <1>n, <1>x DEF SweptTask
    <2> QED BY <2>1, <2>2, <2>3, <2>4, <2>5
  <1>3. OneDriver'
    <2>1. \A q \in Thread : Held(q)' = Held(q)
      BY <1>0, <1>f, <1>n, <1>x DEF Held
    <2>2. t \notin finishTasks[p]
      BY DEF OneDriver, HeldOnce
    <2>3. \A q \in Thread : cur'[q] \notin todo'[q] \cup finishTasks'[q]
      BY <1>0, <1>f, <1>n, <2>2 DEF OneDriver, HeldOnce
    <2>4. \A q \in Thread : todo'[q] \cap finishTasks'[q] = {}
      BY <1>0, <1>f, <1>n DEF OneDriver, HeldOnce
    <2> QED BY <2>1, <2>3, <2>4, <1>f, <1>u, SameHeld
  <1>4. NoStrandedWork'
    BY <1>u, <1>g, <1>n DEF NoStrandedWork, NoCachedEvents
  <1>5. IndexesMirror'
    BY <1>f, <1>u DEF IndexesMirror
  <1> QED BY <1>1, <1>2, <1>3, <1>4, <1>5

LEMMA ReturnInv == ASSUME IInv, NEW p \in Thread, Return(p) PROVE IInv'
  <1> USE DEF IInv
  <1>n. pc \in [Thread -> Points] /\ cur \in [Thread -> Task \cup {NoTask}]
        /\ finishTasks \in [Thread -> SUBSET Task] /\ todo \in [Thread -> SUBSET Task]
        /\ call \in [Thread -> Calls] /\ inApp \subseteq Task /\ board \subseteq Task
    BY DEF TypeOK
  <1>f. /\ pc[p] = "next" /\ todo[p] = {} /\ inApp' = inApp \cup finishTasks[p]
        /\ finishTasks' = [finishTasks EXCEPT ![p] = {}]
        /\ call' = [call EXCEPT ![p] = "none"] /\ pc' = [pc EXCEPT ![p] = "idle"]
        /\ UNCHANGED <<cur, todo, batch, connState, histVars>>
    BY DEF Return
  <1>u. UNCHANGED <<board, connTaskMap, taskConnSet, taskState, bLooked, waitingRemove,
                    bTimeout, failList, recvList, sendCloseList>>
    BY DEF Return, boardVars, taskVars, cacheVars
  <1>x. cur[p] = NoTask /\ cur[p] \notin Task
    BY <1>f, <1>n DEF Discipline, PlaceOfThread, Driving
  <1>g. \A v \in Task : IsFinish(v)' = IsFinish(v)
    BY <1>u DEF IsFinish
  <1>o. \A t \in finishTasks[p] : /\ t \in Task /\ t \notin board
                                  /\ \A q \in Thread : q # p => t \notin Held(q)
    BY <1>n DEF Discipline, FinishedTask, OneDriver, HeldApart, Held
  <1>1. TypeOK'
    BY <1>f, <1>u, <1>n DEF TypeOK, Points, Calls, histVars
  <1>2. Discipline'
    <2> USE DEF Discipline
    <2>1. TodoOnBoard' /\ IdleOnBoard'
      BY <1>f, <1>u DEF TodoOnBoard, IdleOnBoard
    <2>2. PlaceOfThread'
      BY <1>f, <1>n, <1>x DEF PlaceOfThread, Driving
    <2>3. DrivenTask'
      BY <1>f, <1>u, <1>n, <1>g DEF DrivenTask, PlaceOfThread, Driving
    <2>4. FinishedTask'
      BY <1>f, <1>u, <1>n, <1>g DEF FinishedTask
    <2>5. SweptTask'
      BY <1>f, <1>u, <1>n DEF SweptTask
    <2> QED BY <2>1, <2>2, <2>3, <2>4, <2>5
  <1>3. OneDriver'
    <2>1. \A q \in Thread : Held(q)' = IF q = p THEN {} ELSE Held(q)
      BY <1>f, <1>n, <1>x DEF Held
    <2>2. Held(p) = finishTasks[p]
      BY <1>f, <1>x DEF Held
    <2>3. HeldApart'
      BY <2>1 DEF HeldApart, OneDriver
    <2>4. HeldOnce'
      BY <2>1, <1>f, <1>n, <1>o, <1>x DEF HeldOnce, OneDriver
    <2>5. LockIsHeld'
      <3> SUFFICES ASSUME NEW v \in Task \ inApp'
                   PROVE  bLooked'[v] <=> \E q \in Thread : v \in Held(q)'
        BY DEF LockIsHeld
      <3>1. v \in Task \ inApp /\ v \notin Held(p) /\ bLooked'[v] = bLooked[v]
        BY <2>2, <1>f, <1>u
      <3>2. bLooked[v] <=> \E q \in Thread : v \in Held(q)
        BY <3>1 DEF OneDriver, LockIsHeld
      <3> QED BY <3>1, <3>2, <2>1
    <2> QED BY <2>3, <2>4, <2>5 DEF OneDriver
  <1>4. NoStrandedWork'
    BY <1>u, <1>g, <1>n DEF NoStrandedWork, NoCachedEvents
  <1>5. IndexesMirror'
    BY <1>f, <1>u, <1>o DEF IndexesMirror
  <1> QED BY <1>1, <1>2, <1>3, <1>4, <1>5

-----------------------------------------------------------------------------
(* The invariant is inductive, and what follows from it.                     *)

LEMMA StutterInv == ASSUME IInv, UNCHANGED vars PROVE IInv'
  <1> USE DEF vars, boardVars, taskVars, cacheVars, threadVars, histVars
  <1>1. TypeOK' /\ Discipline'
    BY DEF IInv, TypeOK, Discipline, TodoOnBoard, PlaceOfThread, DrivenTask, FinishedTask,
           SweptTask, IdleOnBoard, IsFinish
  <1>2. OneDriver'
    BY DEF IInv, OneDriver, HeldApart, HeldOnce, LockIsHeld, Held
  <1>3. NoStrandedWork' /\ IndexesMirror'
    BY DEF IInv, NoStrandedWork, NoCachedEvents, IsFinish, IndexesMirror
  <1> QED BY <1>1, <1>2, <1>3 DEF IInv

LEMMA NextInv == ASSUME IInv, Next PROVE IInv'
  <1>1. PICK p \in Thread : Request(p, Conn) \/ DriverStep(p)
    BY DEF Next
  <1>2. CASE Request(p, Conn)
    BY <1>2, AddTaskInv, RemoveInv, NoticeRecvMsgInv, NoticeEndSendMsgInv,
       NoticeFailSendMsgInv, NoticeConnClosedInv, NoticeCheckTimeoutInv DEF Request
  <1>3. CASE DriverStep(p)
    BY <1>3, ActiveOkInv, ActiveFailInv, NextTaskInv, ReturnInv, FetchNothingInv,
       FetchEventsInv, DispatchInv, DispatchTimeoutInv, CheckFinishInv, FinishRemoveInv
    DEF DriverStep
  <1> QED BY <1>1, <1>2, <1>3

\* In every state of CwxTaskBoard the threads, the locks of the tasks and the
\* indexes agree.
THEOREM Inductive == Spec => []IInv
  <1>1. IInv /\ [Next]_vars => IInv'
    BY NextInv, StutterInv
  <1> QED BY InitInv, <1>1, PTL DEF Spec

\* Every variable keeps its type: the lists a round takes out, the marks of its
\* connections and the events owed stay well formed whatever the threads do.
THEOREM TypeCorrect == Spec => []TypeOK
  BY Inductive, PTL DEF IInv

\* For any number of threads and tasks, m_bLooked is an exclusive lease.
THEOREM DriverIsAlone == Spec => []OneDriver
  BY Inductive, PTL DEF IInv

\* No event and no finish mark is ever left on a task that nobody drives.
THEOREM NothingStranded == Spec => []NoStrandedWork
  BY Inductive, PTL DEF IInv

\* m_connTaskMap and m_taskConnSet agree and name no task off the board.
THEOREM MirrorKept == Spec => []IndexesMirror
  BY Inductive, PTL DEF IInv

\* The assertion of noticeCheckTimeout cannot fail.
THEOREM SweptIsFinished == Spec => []SweepFinishes
  <1>1. IInv => SweepFinishes
    BY NoTaskAssumption DEF IInv, Discipline, SweptTask, DrivenTask, PlaceOfThread,
       SweepFinishes, IsFinish, Driving
  <1> QED BY <1>1, Inductive, PTL

\* A task that goes back to the application is finished.
THEOREM HandedBackFinished == Spec => HandsBackFinished
  <1>1. IInv /\ [Next]_vars => [\A t \in inApp' \ inApp : IsFinish(t)']_vars
    <2> SUFFICES ASSUME IInv, Next, NEW t \in inApp' \ inApp PROVE IsFinish(t)'
      OBVIOUS
    <2>0. PICK p \in Thread : Request(p, Conn) \/ DriverStep(p)
      BY DEF Next
    <2>1. Return(p) \/ \E u \in Task : Remove(p, u)
      <3>1. ASSUME NEW u \in Task, NEW e, Accept(p, u, e) PROVE inApp' = inApp
        BY <3>1 DEF Accept
      <3>2. ASSUME NEW e, Called(p, e) PROVE inApp' = inApp
        BY <3>2 DEF Called
      <3>3. ASSUME NEW u \in Task, AddTask(p, u) PROVE inApp' = inApp \ {u}
        BY <3>3 DEF AddTask
      <3>4. ASSUME Request(p, Conn), ~\E u \in Task : Remove(p, u)
            PROVE  inApp' \subseteq inApp
        BY <3>1, <3>3, <3>4 DEF Request, NoticeRecvMsg, NoticeEndSendMsg, NoticeFailSendMsg,
           NoticeConnClosed, NoticeCheckTimeout
      <3>5. ASSUME DispatchEndSend(p) \/ DispatchRecv(p) \/ DispatchFail(p) \/ DispatchClosed(p)
            PROVE  inApp' = inApp
        BY <3>2, <3>5 DEF DispatchEndSend, DispatchRecv, DispatchFail, DispatchClosed
      <3>6. ASSUME DriverStep(p), ~Return(p) PROVE inApp' = inApp
        BY <3>5, <3>6 DEF DriverStep, ActiveOk, ActiveFail, NextTask, FetchNothing,
           FetchEvents, DispatchTimeout, CheckFinish, FinishRemove
      <3> QED BY <2>0, <3>4, <3>6
    <2>2. CASE Return(p)
      <3>1. t \in finishTasks[p] /\ UNCHANGED taskVars
        BY <2>2 DEF Return
      <3>2. IsFinish(t)
        BY <3>1 DEF IInv, Discipline, FinishedTask
      <3> QED BY <3>1, <3>2 DEF IsFinish, taskVars
    <2>3. CASE \E u \in Task : Remove(p, u)
      BY <2>3 DEF Remove, IsFinish, IInv, TypeOK
    <2> QED BY <2>1, <2>2, <2>3
  <1> QED BY <1>1, Inductive, PTL DEF HandsBackFinished, Spec

-----------------------------------------------------------------------------
(* Where the events are: the invariant behind OwedIsQueued, CallbackOrder     *)
(* and the refinement.  It rests on IInv, which is already proved.            *)

\* A list of events of the kinds of K accepted so far, the oldest first.
InOrder(s, K, n) ==
  /\ \A i \in DOMAIN s : s[i].kind \in K /\ s[i].no < n
  /\ \A i, j \in DOMAIN s : i < j => s[i].no < s[j].no
ListsInOrder ==
  /\ \A t \in Task : /\ InOrder(failList[t], {"fail"}, serial)
                     /\ InOrder(recvList[t], {"recv"}, serial)
                     /\ InOrder(sendCloseList[t], {"send", "closed"}, serial)
  /\ \A p \in Thread : /\ InOrder(batch[p].fail, {"fail"}, serial)
                       /\ InOrder(batch[p].recv, {"recv"}, serial)
                       /\ InOrder(batch[p].sendClose, {"send", "closed"}, serial)

\* A round is empty outside its callbacks, and holds only events older than
\* those that were cached for its task meanwhile.
RoundEnds == \A p \in Thread : pc[p] # "dispatch" => BatchDone(p)
RoundIsOlder ==
  \A p \in Thread : cur[p] \in Task =>
     \A e \in InRound(p), f \in Cached(cur[p]) : e.no < f.no

\* OwedIsQueued, told by who drives the task.
OwedDriven ==
  \A p \in Thread : cur[p] \in Task => owed[cur[p]] = Cached(cur[p]) \cup InRound(p)
OwedAtRest ==
  \A t \in Task \ inApp : (\A p \in Thread : cur[p] # t) => owed[t] = Cached(t)

EventsInv == ListsInOrder /\ RoundEnds /\ RoundIsOlder /\ OwedDriven /\ OwedAtRest

-----------------------------------------------------------------------------
(* What the board does to a list of events.                                  *)

LEMMA InOrderEmpty ==
  ASSUME NEW K, NEW n PROVE InOrder(<<>>, K, n) /\ EventsIn(<<>>) = {}
  BY DEF InOrder, EventsIn

LEMMA InOrderLater ==
  ASSUME NEW s \in Seq(Event), NEW K, NEW n \in Nat, InOrder(s, K, n)
  PROVE  InOrder(s, K, n + 1)
  <1>1. \A i \in DOMAIN s : s[i] \in Event
    OBVIOUS
  <1>2. \A i \in DOMAIN s : s[i].no \in Nat
    BY <1>1 DEF Event
  <1> QED BY <1>2 DEF InOrder

LEMMA InOrderAppend ==
  ASSUME NEW s \in Seq(Event), NEW K, NEW n \in Nat, InOrder(s, K, n),
         NEW e \in Event, e.kind \in K, e.no = n
  PROVE  /\ InOrder(Append(s, e), K, n + 1)
         /\ EventsIn(Append(s, e)) = EventsIn(s) \cup {e}
  <1> DEFINE u == Append(s, e)
  <1>1. /\ Len(s) \in Nat /\ DOMAIN s = 1 .. Len(s) /\ DOMAIN u = 1 .. Len(s) + 1
        /\ \A i \in 1 .. Len(s) : u[i] = s[i] /\ s[i] \in Event
        /\ u[Len(s) + 1] = e
    OBVIOUS
  <1> HIDE DEF u
  <1>2. InOrder(u, K, n + 1)
    <2>1. \A i \in 1 .. Len(s) : s[i].kind \in K /\ s[i].no < n /\ s[i].no \in Nat
      BY <1>1 DEF InOrder, Event
    <2>2. \A i, j \in 1 .. Len(s) : i < j => s[i].no < s[j].no
      BY <1>1 DEF InOrder
    <2>3. \A i \in DOMAIN u : i \in 1 .. Len(s) \/ i = Len(s) + 1
      BY <1>1
    <2>4. \A i \in DOMAIN u : u[i].kind \in K /\ u[i].no < n + 1
      BY <1>1, <2>1, <2>3
    <2>5. ASSUME NEW i \in DOMAIN u, NEW j \in DOMAIN u, i < j
          PROVE  u[i].no < u[j].no
      <3>1. i \in 1 .. Len(s)
        BY <1>1, <2>5
      <3> QED
        BY <1>1, <2>1, <2>2, <2>3, <2>5, <3>1
    <2> QED
      BY <2>4, <2>5 DEF InOrder
  <1>3. EventsIn(u) = EventsIn(s) \cup {e}
    BY <1>1 DEF EventsIn
  <1> QED BY <1>2, <1>3 DEF u

LEMMA InOrderTail ==
  ASSUME NEW s \in Seq(Event), s # <<>>, NEW K, NEW n, InOrder(s, K, n)
  PROVE  /\ InOrder(Tail(s), K, n)
         /\ Head(s) \in EventsIn(s)
         /\ EventsIn(Tail(s)) = EventsIn(s) \ {Head(s)}
         /\ \A e \in EventsIn(Tail(s)) : Head(s).no < e.no
  <1> DEFINE u == Tail(s)
  <1>1. /\ Len(s) \in Nat /\ DOMAIN s = 1 .. Len(s) /\ DOMAIN u = 1 .. Len(s) - 1
        /\ 1 <= Len(s) /\ Head(s) = s[1]
        /\ \A i \in 1 .. Len(s) - 1 : u[i] = s[i + 1]
        /\ \A i \in 1 .. Len(s) : s[i] \in Event
    OBVIOUS
  <1> HIDE DEF u
  <1>2. InOrder(u, K, n)
    <2>1. \A i \in DOMAIN u : i + 1 \in DOMAIN s /\ u[i] = s[i + 1]
      BY <1>1
    <2>2. \A i, j \in DOMAIN u : i < j => i + 1 < j + 1
      BY <1>1
    <2> QED BY <2>1, <2>2 DEF InOrder
  <1>3. \A e \in EventsIn(u) : s[1].no < e.no /\ e \in EventsIn(s)
    <2> SUFFICES ASSUME NEW i \in DOMAIN u PROVE s[1].no < u[i].no /\ u[i] \in EventsIn(s)
      BY DEF EventsIn
    <2>1. 1 \in DOMAIN s /\ i + 1 \in DOMAIN s /\ 1 < i + 1 /\ u[i] = s[i + 1]
      BY <1>1
    <2> QED BY <2>1 DEF InOrder, EventsIn
  <1>4. \A e \in EventsIn(s) : e = s[1] \/ e \in EventsIn(u)
    <2> SUFFICES ASSUME NEW i \in 1 .. Len(s), i # 1 PROVE s[i] \in EventsIn(u)
      BY <1>1 DEF EventsIn
    <2>1. i - 1 \in DOMAIN u /\ u[i - 1] = s[i]
      BY <1>1
    <2> QED BY <2>1 DEF EventsIn
  <1>5. s[1] \in EventsIn(s) /\ s[1].no \in Nat
    BY <1>1 DEF EventsIn, Event
  <1>6. s[1] \notin EventsIn(u)
    BY <1>3, <1>5
  <1> QED BY <1>1, <1>2, <1>3, <1>4, <1>5, <1>6 DEF u

LEMMA InOrderWithout ==
  ASSUME NEW s \in Seq(Event), NEW i \in DOMAIN s, NEW K, NEW n, InOrder(s, K, n)
  PROVE  /\ InOrder(Without(s, i), K, n)
         /\ s[i] \in EventsIn(s)
         /\ EventsIn(Without(s, i)) = EventsIn(s) \ {s[i]}
  <1> DEFINE u == Without(s, i)
  <1>1. /\ Len(s) \in Nat /\ DOMAIN s = 1 .. Len(s) /\ i \in 1 .. Len(s)
        /\ DOMAIN u = 1 .. Len(s) - 1
        /\ \A j \in 1 .. Len(s) - 1 : u[j] = IF j < i THEN s[j] ELSE s[j + 1]
    BY DEF Without
  <1>x. \A j \in DOMAIN s : s[j] \in Event
    OBVIOUS
  <1>y. \A j \in DOMAIN s : s[j].no \in Nat
    BY <1>x DEF Event
  <1> HIDE DEF u
  <1>2. InOrder(u, K, n)
    <2> DEFINE at(j) == IF j < i THEN j ELSE j + 1
    <2>1. \A j \in DOMAIN u : at(j) \in DOMAIN s /\ u[j] = s[at(j)]
      BY <1>1
    <2>2. \A j, k \in DOMAIN u : j < k => at(j) < at(k)
      BY <1>1
    <2> HIDE DEF at
    <2> QED BY <2>1, <2>2 DEF InOrder
  <1>3. \A e \in EventsIn(u) : e \in EventsIn(s) /\ e # s[i]
    <2> SUFFICES ASSUME NEW j \in 1 .. Len(s) - 1
                 PROVE  u[j] \in EventsIn(s) /\ u[j] # s[i]
      BY <1>1 DEF EventsIn
    <2>1. CASE j < i
      <3>1. u[j] = s[j] /\ j \in DOMAIN s /\ s[j].no < s[i].no
        BY <1>1, <2>1 DEF InOrder
      <3> QED BY <3>1, <1>1, <1>y DEF EventsIn
    <2>2. CASE ~(j < i)
      <3>1. u[j] = s[j + 1] /\ j + 1 \in DOMAIN s /\ s[i].no < s[j + 1].no
        BY <1>1, <2>2 DEF InOrder
      <3> QED BY <3>1, <1>1, <1>y DEF EventsIn
    <2> QED BY <2>1, <2>2
  <1>4. \A e \in EventsIn(s) : e = s[i] \/ e \in EventsIn(u)
    <2> SUFFICES ASSUME NEW j \in 1 .. Len(s), j # i PROVE s[j] \in EventsIn(u)
      BY <1>1 DEF EventsIn
    <2>1. CASE j < i
      <3>1. j \in DOMAIN u /\ u[j] = s[j]
        BY <1>1, <2>1
      <3> QED BY <3>1 DEF EventsIn
    <2>2. CASE ~(j < i)
      <3>1. j - 1 \in DOMAIN u /\ u[j - 1] = s[j]
        BY <1>1, <2>2
      <3> QED BY <3>1 DEF EventsIn
    <2> QED BY <2>1, <2>2
  <1>5. s[i] \in EventsIn(s)
    BY <1>1 DEF EventsIn
  <1> QED BY <1>2, <1>3, <1>4, <1>5 DEF u

-----------------------------------------------------------------------------
(* The invariant of the events, one lemma per kind of step.                  *)

LEMMA EventsInit == Init => EventsInv
  <1> SUFFICES ASSUME Init PROVE EventsInv
    OBVIOUS
  <1> USE InOrderEmpty, NoTaskAssumption DEF Init, EmptyBatch
  <1>1. ListsInOrder
    BY DEF ListsInOrder
  <1>2. RoundEnds /\ RoundIsOlder /\ OwedDriven /\ OwedAtRest
    BY DEF RoundEnds, RoundIsOlder, OwedDriven, OwedAtRest, BatchDone
  <1> QED BY <1>1, <1>2 DEF EventsInv

\* Steps that leave every list alone: a thread starts or stops to drive a task
\* only with an empty round, and no task comes back from the application.
LEMMA ListsKept ==
  ASSUME IInv, IInv', EventsInv, NEW p \in Thread,
         UNCHANGED <<cacheVars, serial, owed>>, inApp \subseteq inApp',
         \A q \in Thread : /\ batch'[q].fail = batch[q].fail
                           /\ batch'[q].recv = batch[q].recv
                           /\ batch'[q].sendClose = batch[q].sendClose
                           /\ q # p => cur'[q] = cur[q] /\ pc'[q] = pc[q],
         cur'[p] = cur[p] \/ BatchDone(p),
         pc'[p] # "dispatch" => BatchDone(p)
  PROVE  EventsInv'
  <1> USE DEF EventsInv, cacheVars
  <1>1. ListsInOrder'
    BY DEF ListsInOrder
  <1>2. RoundEnds'
    BY DEF RoundEnds, BatchDone
  <1>3. /\ \A q \in Thread : InRound(q)' = InRound(q) /\ (BatchDone(q) => InRound(q) = {})
        /\ \A t \in Task : Cached(t)' = Cached(t)
    BY InOrderEmpty DEF InRound, BatchDone, Cached
  <1>4. RoundIsOlder'
    BY <1>3 DEF RoundIsOlder
  <1>5. \A t \in Task \ inApp : (cur[p] = t => BatchDone(p)) /\ (\A q \in Thread : q # p => cur[q] # t)
                                 => owed[t] = Cached(t)
    <2> SUFFICES ASSUME NEW t \in Task \ inApp, cur[p] = t => BatchDone(p),
                        \A q \in Thread : q # p => cur[q] # t
                 PROVE  owed[t] = Cached(t)
      OBVIOUS
    <2>1. CASE cur[p] = t
      BY <2>1, <1>3 DEF OwedDriven
    <2>2. CASE cur[p] # t
      BY <2>2 DEF OwedAtRest
    <2> QED BY <2>1, <2>2
  <1>6. OwedDriven'
    <2> SUFFICES ASSUME NEW q \in Thread, cur'[q] \in Task
                 PROVE  owed[cur'[q]] = Cached(cur'[q]) \cup InRound(q)
      BY <1>3 DEF OwedDriven
    <2>1. CASE cur'[q] = cur[q]
      BY <2>1 DEF OwedDriven
    <2>2. CASE cur'[q] # cur[q]
      <3>1. q = p /\ BatchDone(p)
        BY <2>2
      <3>2. cur'[p] \notin inApp /\ \A r \in Thread : r # p => cur[r] # cur'[p]
        BY <3>1, NoTaskAssumption DEF IInv, OneDriver, HeldOnce, HeldApart, Held
      <3> QED BY <1>3, <1>5, <2>2, <3>1, <3>2
    <2> QED BY <2>1, <2>2
  <1>7. OwedAtRest'
    BY <1>3, <1>5 DEF OwedAtRest
  <1> QED BY <1>1, <1>2, <1>4, <1>6, <1>7

\* The steps that move neither an event nor a list.
LEMMA QuietSteps ==
  ASSUME IInv, IInv', EventsInv, NEW p \in Thread,
         \/ ActiveOk(p) \/ ActiveFail(p) \/ NextTask(p) \/ Return(p) \/ FetchNothing(p)
         \/ DispatchTimeout(p) \/ CheckFinish(p) \/ FinishRemove(p)
         \/ NoticeCheckTimeout(p) \/ \E t \in Task : Remove(p, t)
  PROVE  EventsInv'
  <1>0. /\ pc \in [Thread -> Points] /\ cur \in [Thread -> Task \cup {NoTask}]
        /\ batch \in [Thread -> Batch]
    BY DEF IInv, TypeOK
  <1>1. pc[p] # "dispatch" => BatchDone(p)
    BY DEF EventsInv, RoundEnds
  <1> USE DEF histVars, threadVars, EmptyBatch, BatchDone
  <1>2. CASE ActiveOk(p)
    BY <1>0, <1>1, <1>2, ListsKept DEF ActiveOk
  <1>3. CASE ActiveFail(p)
    BY <1>0, <1>1, <1>3, ListsKept DEF ActiveFail, EndDrive
  <1>4. CASE NextTask(p)
    BY <1>0, <1>1, <1>4, ListsKept DEF NextTask, Drive
  <1>5. CASE Return(p)
    BY <1>0, <1>1, <1>5, ListsKept DEF Return
  <1>6. CASE FetchNothing(p)
    BY <1>0, <1>1, <1>6, ListsKept DEF FetchNothing, EndDrive
  <1>7. CASE DispatchTimeout(p)
    BY <1>0, <1>1, <1>7, ListsKept DEF DispatchTimeout, Batch
  <1>8. CASE CheckFinish(p)
    BY <1>0, <1>1, <1>8, ListsKept DEF CheckFinish
  <1>9. CASE FinishRemove(p)
    BY <1>0, <1>1, <1>9, ListsKept DEF FinishRemove, EndDrive
  <1>10. CASE NoticeCheckTimeout(p)
    BY <1>0, <1>1, <1>10, ListsKept DEF NoticeCheckTimeout
  <1>11. CASE \E t \in Task : Remove(p, t)
    BY <1>0, <1>1, <1>11, ListsKept DEF Remove
  <1> QED BY <1>2, <1>3, <1>4, <1>5, <1>6, <1>7, <1>8, <1>9, <1>10, <1>11

\* An idle thread drives nothing; the task it adds was nobody's.
LEMMA AddTaskEvents ==
  ASSUME IInv, IInv', EventsInv, NEW p \in Thread, NEW t \in Task, AddTask(p, t)
  PROVE  EventsInv'
  <1> USE DEF EventsInv
  <1>1. /\ failList' = [failList EXCEPT ![t] = <<>>]
        /\ recvList' = [recvList EXCEPT ![t] = <<>>]
        /\ sendCloseList' = [sendCloseList EXCEPT ![t] = <<>>]
        /\ cur' = [cur EXCEPT ![p] = t] /\ pc' = [pc EXCEPT ![p] = "active"]
        /\ owed' = [owed EXCEPT ![t] = {}]
        /\ inApp' = inApp \ {t} /\ pc[p] = "idle"
        /\ UNCHANGED <<batch, serial>>
    BY DEF AddTask
  <1>2. /\ pc \in [Thread -> Points] /\ cur \in [Thread -> Task \cup {NoTask}]
        /\ failList \in [Task -> Seq(Event)] /\ recvList \in [Task -> Seq(Event)]
        /\ sendCloseList \in [Task -> Seq(Event)] /\ owed \in [Task -> SUBSET Event]
    BY DEF IInv, TypeOK
  <1>3. /\ \A q \in Thread : q # p => cur'[q] = cur[q] /\ cur[q] # t
        /\ cur[p] \notin Task /\ cur'[p] = t
    BY <1>1, <1>2, NoTaskAssumption
    DEF IInv, OneDriver, HeldApart, Held, Discipline, PlaceOfThread, Driving
  <1>4. /\ Cached(t)' = {} /\ \A u \in Task : u # t => Cached(u)' = Cached(u)
        /\ \A q \in Thread : InRound(q)' = InRound(q)
        /\ InRound(p) = {}
    <2>1. BatchDone(p)
      BY <1>1 DEF RoundEnds
    <2> QED BY <2>1, <1>1, <1>2, InOrderEmpty DEF Cached, InRound, BatchDone
  <1>5. ListsInOrder'
    BY <1>1, <1>2, InOrderEmpty DEF ListsInOrder
  <1>6. RoundEnds'
    BY <1>1, <1>2 DEF RoundEnds, BatchDone
  <1>7. RoundIsOlder'
    BY <1>3, <1>4 DEF RoundIsOlder
  <1>8. OwedDriven'
    BY <1>1, <1>2, <1>3, <1>4 DEF OwedDriven
  <1>9. OwedAtRest'
    BY <1>1, <1>2, <1>3, <1>4 DEF OwedAtRest
  <1> QED BY <1>5, <1>6, <1>7, <1>8, <1>9

\* Event e is cached on the tasks of S by an idle thread, and owed to them.
LEMMA EventsQueued ==
  ASSUME IInv, IInv', EventsInv, NEW p \in Thread, NEW S \in SUBSET (Task \ inApp),
         NEW e \in Event, e.no = serial, pc[p] = "idle",
         UNCHANGED <<batch, inApp>>, ListsInOrder',
         \A q \in Thread : q # p => cur'[q] = cur[q] /\ pc'[q] = pc[q],
         \A u \in Task : /\ owed'[u] = IF u \in S THEN owed[u] \cup {e} ELSE owed[u]
                         /\ Cached(u)' = IF u \in S THEN Cached(u) \cup {e} ELSE Cached(u)
  PROVE  EventsInv'
  <1> USE DEF EventsInv
  <1>1. BatchDone(p) /\ InRound(p) = {} /\ cur[p] \notin Task
    BY InOrderEmpty, NoTaskAssumption
    DEF RoundEnds, BatchDone, InRound, IInv, TypeOK, Discipline, PlaceOfThread, Driving
  <1>2. \A q \in Thread : InRound(q)' = InRound(q)
    BY DEF InRound
  <1>3. RoundEnds'
    BY <1>1 DEF RoundEnds, BatchDone
  <1>4. \A q \in Thread : \A d \in InRound(q) : d.no < e.no
    BY DEF InRound, EventsIn, ListsInOrder, InOrder
  <1>5. \A q \in Thread : cur'[q] \in Task =>
           Cached(cur[q])' = IF cur'[q] \in S THEN Cached(cur'[q]) \cup {e} ELSE Cached(cur'[q])
    BY DEF Cached
  <1>6. RoundIsOlder'
    <2> SUFFICES ASSUME NEW q \in Thread, cur'[q] \in Task, NEW d \in InRound(q),
                        NEW f \in Cached(cur[q])'
                 PROVE  d.no < f.no
      BY <1>2 DEF RoundIsOlder
    <2>1. q # p /\ cur'[q] = cur[q]
      BY <1>1
    <2>2. f = e \/ f \in Cached(cur[q])
      BY <2>1, <1>5
    <2> QED BY <2>1, <2>2, <1>4 DEF RoundIsOlder
  <1>7. OwedDriven'
    <2> SUFFICES ASSUME NEW q \in Thread, cur'[q] \in Task
                 PROVE  owed'[cur'[q]] = Cached(cur[q])' \cup InRound(q)
      BY <1>2 DEF OwedDriven
    <2>1. owed[cur'[q]] = Cached(cur'[q]) \cup InRound(q)
      <3>1. CASE q # p
        BY <3>1 DEF OwedDriven
      <3>2. CASE q = p
        <4>1. \A r \in Thread : r # p => cur'[r] # cur'[p]
          BY <3>2, NoTaskAssumption DEF IInv, OneDriver, HeldApart, Held
        <4>2. cur'[p] \notin inApp'
          BY <3>2, NoTaskAssumption DEF IInv, OneDriver, HeldOnce, Held
        <4>3. \A r \in Thread : cur[r] # cur'[p]
          BY <4>1, <1>1, <3>2
        <4> QED BY <4>2, <4>3, <3>2, <1>1 DEF OwedAtRest
      <3> QED BY <3>1, <3>2
    <2> QED BY <2>1, <1>5
  <1>8. OwedAtRest'
    <2> SUFFICES ASSUME NEW u \in Task \ inApp, \A q \in Thread : cur'[q] # u
                 PROVE  owed'[u] = Cached(u)'
      BY DEF OwedAtRest
    <2>1. \A q \in Thread : cur[q] # u
      BY <1>1
    <2>2. owed[u] = Cached(u)
      BY <2>1 DEF OwedAtRest
    <2> QED BY <2>2
  <1> QED BY <1>3, <1>6, <1>7, <1>8

LEMMA EventOfType ==
  ASSUME serial \in 0 .. MaxNotices, NEW c \in Conn,
         NEW k \in {"send", "recv", "fail", "closed"}
  PROVE  /\ EventOf(k, c) \in Event
         /\ EventOf(k, c).kind = k /\ EventOf(k, c).no = serial
  BY DEF EventOf, Event

\* What Accept leaves to the caller is the list the event goes to.
LEMMA AcceptEvents ==
  ASSUME IInv, IInv', EventsInv, NEW p \in Thread, NEW t \in Task, NEW c \in Conn,
         NoticeRecvMsg(p, t, c) \/ NoticeFailSendMsg(p, t, c) \/ NoticeEndSendMsg(p, t, c)
  PROVE  EventsInv'
  <1> USE MaxNoticesAssumption
  <1>1. /\ pc \in [Thread -> Points] /\ cur \in [Thread -> Task \cup {NoTask}]
        /\ failList \in [Task -> Seq(Event)] /\ recvList \in [Task -> Seq(Event)]
        /\ sendCloseList \in [Task -> Seq(Event)] /\ owed \in [Task -> SUBSET Event]
        /\ batch \in [Thread -> Batch] /\ serial \in 0 .. MaxNotices /\ serial \in Nat
    BY DEF IInv, TypeOK
  <1>2. /\ \A u \in Task : /\ failList[u] \in Seq(Event) /\ recvList[u] \in Seq(Event)
                           /\ sendCloseList[u] \in Seq(Event)
        /\ \A q \in Thread : /\ batch[q].fail \in Seq(Event) /\ batch[q].recv \in Seq(Event)
                             /\ batch[q].sendClose \in Seq(Event)
    BY <1>1 DEF Batch
  <1>3. ASSUME NEW e, Accept(p, t, e)
        PROVE  /\ pc[p] = "idle" /\ t \in board /\ serial' = serial + 1
               /\ owed' = [owed EXCEPT ![t] = @ \cup {e}]
               /\ UNCHANGED <<batch, inApp>>
               /\ \A q \in Thread : q # p => cur'[q] = cur[q] /\ pc'[q] = pc[q]
    BY <1>1, <1>3 DEF Accept, LockOrLeave, Drive
  <1>4. t \in board => t \notin inApp
    BY DEF IInv, IndexesMirror
  <1>5. ASSUME serial' = serial + 1, batch' = batch,
               \A u \in Task : /\ InOrder(failList'[u], {"fail"}, serial + 1)
                               /\ InOrder(recvList'[u], {"recv"}, serial + 1)
                               /\ InOrder(sendCloseList'[u], {"send", "closed"}, serial + 1)
        PROVE  ListsInOrder'
    BY <1>1, <1>2, <1>5, InOrderLater DEF EventsInv, ListsInOrder
  <1>6. /\ \A u \in Task : /\ InOrder(failList[u], {"fail"}, serial + 1)
                           /\ InOrder(recvList[u], {"recv"}, serial + 1)
                           /\ InOrder(sendCloseList[u], {"send", "closed"}, serial + 1)
        /\ InOrder(failList[t], {"fail"}, serial)
        /\ InOrder(recvList[t], {"recv"}, serial)
        /\ InOrder(sendCloseList[t], {"send", "closed"}, serial)
    BY <1>1, <1>2, InOrderLater DEF EventsInv, ListsInOrder
  <1>7. CASE NoticeRecvMsg(p, t, c)
    <2> DEFINE e == EventOf("recv", c)
    <2>1. e \in Event /\ e.kind = "recv" /\ e.no = serial
      BY <1>1, EventOfType
    <2> HIDE DEF e
    <2>2. /\ Accept(p, t, e) /\ recvList' = [recvList EXCEPT ![t] = Append(@, e)]
          /\ UNCHANGED <<failList, sendCloseList>>
      BY <1>7 DEF NoticeRecvMsg, e
    <2>3. /\ InOrder(Append(recvList[t], e), {"recv"}, serial + 1)
          /\ EventsIn(Append(recvList[t], e)) = EventsIn(recvList[t]) \cup {e}
      BY <1>1, <1>2, <1>6, <2>1, InOrderAppend
    <2>4. ListsInOrder'
      BY <1>1, <1>3, <1>5, <1>6, <2>2, <2>3
    <2>5. \A u \in Task : Cached(u)' = IF u \in {t} THEN Cached(u) \cup {e} ELSE Cached(u)
      BY <1>1, <2>2, <2>3 DEF Cached
    <2>6. /\ pc[p] = "idle" /\ t \in board /\ UNCHANGED <<batch, inApp>>
          /\ owed' = [owed EXCEPT ![t] = @ \cup {e}]
          /\ \A q \in Thread : q # p => cur'[q] = cur[q] /\ pc'[q] = pc[q]
      BY <1>3, <2>2
    <2>7. {t} \in SUBSET (Task \ inApp)
      BY <1>4, <2>6
    <2>8. \A u \in Task : owed'[u] = IF u \in {t} THEN owed[u] \cup {e} ELSE owed[u]
      BY <1>1, <2>6
    <2>9. \A u \in Task :
             /\ owed'[u] = IF u \in {t} THEN owed[u] \cup {e} ELSE owed[u]
             /\ Cached(u)' = IF u \in {t} THEN Cached(u) \cup {e} ELSE Cached(u)
      BY <2>5, <2>8
    <2> QED BY <2>1, <2>4, <2>6, <2>7, <2>9, EventsQueued
  <1>8. CASE NoticeFailSendMsg(p, t, c)
    <2> DEFINE e == EventOf("fail", c)
    <2>1. e \in Event /\ e.kind = "fail" /\ e.no = serial
      BY <1>1, EventOfType
    <2> HIDE DEF e
    <2>2. /\ Accept(p, t, e) /\ failList' = [failList EXCEPT ![t] = Append(@, e)]
          /\ UNCHANGED <<recvList, sendCloseList>>
      BY <1>8 DEF NoticeFailSendMsg, e
    <2>3. /\ InOrder(Append(failList[t], e), {"fail"}, serial + 1)
          /\ EventsIn(Append(failList[t], e)) = EventsIn(failList[t]) \cup {e}
      BY <1>1, <1>2, <1>6, <2>1, InOrderAppend
    <2>4. ListsInOrder'
      BY <1>1, <1>3, <1>5, <1>6, <2>2, <2>3
    <2>5. \A u \in Task : Cached(u)' = IF u \in {t} THEN Cached(u) \cup {e} ELSE Cached(u)
      BY <1>1, <2>2, <2>3 DEF Cached
    <2>6. /\ pc[p] = "idle" /\ t \in board /\ UNCHANGED <<batch, inApp>>
          /\ owed' = [owed EXCEPT ![t] = @ \cup {e}]
          /\ \A q \in Thread : q # p => cur'[q] = cur[q] /\ pc'[q] = pc[q]
      BY <1>3, <2>2
    <2>7. {t} \in SUBSET (Task \ inApp)
      BY <1>4, <2>6
    <2>8. \A u \in Task : owed'[u] = IF u \in {t} THEN owed[u] \cup {e} ELSE owed[u]
      BY <1>1, <2>6
    <2>9. \A u \in Task :
             /\ owed'[u] = IF u \in {t} THEN owed[u] \cup {e} ELSE owed[u]
             /\ Cached(u)' = IF u \in {t} THEN Cached(u) \cup {e} ELSE Cached(u)
      BY <2>5, <2>8
    <2> QED BY <2>1, <2>4, <2>6, <2>7, <2>9, EventsQueued
  <1>9. CASE NoticeEndSendMsg(p, t, c)
    <2> DEFINE e == EventOf("send", c)
    <2>1. e \in Event /\ e.kind = "send" /\ e.no = serial
      BY <1>1, EventOfType
    <2> HIDE DEF e
    <2>2. /\ Accept(p, t, e) /\ sendCloseList' = [sendCloseList EXCEPT ![t] = Append(@, e)]
          /\ UNCHANGED <<failList, recvList>>
      BY <1>9 DEF NoticeEndSendMsg, e
    <2>3. /\ InOrder(Append(sendCloseList[t], e), {"send", "closed"}, serial + 1)
          /\ EventsIn(Append(sendCloseList[t], e)) = EventsIn(sendCloseList[t]) \cup {e}
      BY <1>1, <1>2, <1>6, <2>1, InOrderAppend
    <2>4. ListsInOrder'
      BY <1>1, <1>3, <1>5, <1>6, <2>2, <2>3
    <2>5. \A u \in Task : Cached(u)' = IF u \in {t} THEN Cached(u) \cup {e} ELSE Cached(u)
      BY <1>1, <2>2, <2>3 DEF Cached
    <2>6. /\ pc[p] = "idle" /\ t \in board /\ UNCHANGED <<batch, inApp>>
          /\ owed' = [owed EXCEPT ![t] = @ \cup {e}]
          /\ \A q \in Thread : q # p => cur'[q] = cur[q] /\ pc'[q] = pc[q]
      BY <1>3, <2>2
    <2>7. {t} \in SUBSET (Task \ inApp)
      BY <1>4, <2>6
    <2>8. \A u \in Task : owed'[u] = IF u \in {t} THEN owed[u] \cup {e} ELSE owed[u]
      BY <1>1, <2>6
    <2>9. \A u \in Task :
             /\ owed'[u] = IF u \in {t} THEN owed[u] \cup {e} ELSE owed[u]
             /\ Cached(u)' = IF u \in {t} THEN Cached(u) \cup {e} ELSE Cached(u)
      BY <2>5, <2>8
    <2> QED BY <2>1, <2>4, <2>6, <2>7, <2>9, EventsQueued
  <1> QED BY <1>7, <1>8, <1>9

\* A close is cached on every task told of it; none is the application's.
LEMMA ConnClosedEvents ==
  ASSUME IInv, IInv', EventsInv, NEW p \in Thread, NEW c \in Conn, NoticeConnClosed(p, c)
  PROVE  EventsInv'
  <1> USE MaxNoticesAssumption
  <1> DEFINE told == {t \in Task : <<c, t>> \in connTaskMap}
             e    == EventOf("closed", c)
  <1>1. /\ serial \in 0 .. MaxNotices /\ serial \in Nat
        /\ pc \in [Thread -> Points]
        /\ \A u \in Task : /\ failList[u] \in Seq(Event) /\ recvList[u] \in Seq(Event)
                           /\ sendCloseList[u] \in Seq(Event)
        /\ \A q \in Thread : /\ batch[q].fail \in Seq(Event) /\ batch[q].recv \in Seq(Event)
                             /\ batch[q].sendClose \in Seq(Event)
    BY DEF IInv, TypeOK, Batch
  <1>2. e \in Event /\ e.kind = "closed" /\ e.no = serial
    BY <1>1, EventOfType
  <1>3. told \in SUBSET (Task \ inApp)
    BY DEF IInv, IndexesMirror
  <1>4. /\ pc[p] = "idle" /\ serial' = serial + 1 /\ UNCHANGED <<batch, inApp, cur>>
        /\ UNCHANGED <<failList, recvList>>
        /\ \A u \in Task : owed'[u] = IF u \in told THEN owed[u] \cup {e} ELSE owed[u]
        /\ \A u \in Task : sendCloseList'[u] = IF u \in told THEN Append(sendCloseList[u], e)
                                                             ELSE sendCloseList[u]
        /\ pc' = [pc EXCEPT ![p] = "next"]
    BY DEF NoticeConnClosed
  <1> HIDE DEF told, e
  <1>5. \A u \in Task : /\ InOrder(Append(sendCloseList[u], e), {"send", "closed"}, serial + 1)
                        /\ EventsIn(Append(sendCloseList[u], e)) = EventsIn(sendCloseList[u]) \cup {e}
    BY <1>1, <1>2, InOrderAppend DEF EventsInv, ListsInOrder
  <1>6. ListsInOrder'
    BY <1>1, <1>4, <1>5, InOrderLater DEF EventsInv, ListsInOrder
  <1>7. \A u \in Task : Cached(u)' = IF u \in told THEN Cached(u) \cup {e} ELSE Cached(u)
    BY <1>4, <1>5 DEF Cached
  <1>8. \A q \in Thread : q # p => cur'[q] = cur[q] /\ pc'[q] = pc[q]
    BY <1>1, <1>4
  <1> QED BY <1>2, <1>3, <1>4, <1>6, <1>7, <1>8, EventsQueued

\* The cached lists become the round, which was empty.
LEMMA FetchEventsEvents ==
  ASSUME IInv, IInv', EventsInv, NEW p \in Thread, FetchEvents(p)
  PROVE  EventsInv'
  <1> USE DEF EventsInv
  <1>0. PICK t : t = cur[p]
    OBVIOUS
  <1>1. /\ pc \in [Thread -> Points] /\ cur \in [Thread -> Task \cup {NoTask}]
        /\ failList \in [Task -> Seq(Event)] /\ recvList \in [Task -> Seq(Event)]
        /\ sendCloseList \in [Task -> Seq(Event)] /\ batch \in [Thread -> Batch]
    BY DEF IInv, TypeOK
  <1>2. /\ pc[p] = "fetch" /\ pc' = [pc EXCEPT ![p] = "dispatch"]
        /\ UNCHANGED <<cur, inApp, serial, owed>>
        /\ batch' = [batch EXCEPT ![p] = [fail |-> failList[t], recv |-> recvList[t],
                                          sendClose |-> sendCloseList[t],
                                          timeout |-> bTimeout[t]]]
        /\ failList' = [failList EXCEPT ![t] = <<>>]
        /\ recvList' = [recvList EXCEPT ![t] = <<>>]
        /\ sendCloseList' = [sendCloseList EXCEPT ![t] = <<>>]
    BY <1>0 DEF FetchEvents, TakeEvents, histVars
  <1>3. /\ t \in Task /\ t \notin inApp
        /\ \A q \in Thread : q # p => cur[q] # t
    BY <1>0, <1>2, Exclusive DEF Driving
  <1>4. /\ \A q \in Thread : q # p => batch'[q] = batch[q] /\ pc'[q] = pc[q]
        /\ batch'[p].fail = failList[t] /\ batch'[p].recv = recvList[t]
        /\ batch'[p].sendClose = sendCloseList[t] /\ pc'[p] = "dispatch"
        /\ \A u \in Task : u # t => /\ failList'[u] = failList[u]
                                    /\ recvList'[u] = recvList[u]
                                    /\ sendCloseList'[u] = sendCloseList[u]
        /\ failList'[t] = <<>> /\ recvList'[t] = <<>> /\ sendCloseList'[t] = <<>>
    BY <1>1, <1>2, <1>3
  <1>5. /\ InRound(p) = {} /\ InRound(p)' = Cached(t)
        /\ \A q \in Thread : q # p => InRound(q)' = InRound(q)
        /\ Cached(t)' = {} /\ \A u \in Task : u # t => Cached(u)' = Cached(u)
    <2>1. BatchDone(p)
      BY <1>2 DEF RoundEnds
    <2> QED BY <2>1, <1>4, InOrderEmpty DEF InRound, Cached, BatchDone
  <1>6. ListsInOrder'
    BY <1>2, <1>3, <1>4, InOrderEmpty DEF ListsInOrder
  <1>7. RoundEnds'
    BY <1>2, <1>4 DEF RoundEnds, BatchDone
  <1>8. \A q \in Thread : q # p /\ cur[q] \in Task => Cached(cur[q])' = Cached(cur[q])
    BY <1>2, <1>3, <1>4 DEF Cached
  <1>9. Cached(cur[p])' = {}
    BY <1>0, <1>2, <1>5 DEF Cached
  <1>10. RoundIsOlder'
    BY <1>2, <1>5, <1>8, <1>9 DEF RoundIsOlder
  <1>11. OwedDriven'
    BY <1>0, <1>2, <1>5, <1>8, <1>9 DEF OwedDriven
  <1>12. OwedAtRest'
    BY <1>0, <1>2, <1>3, <1>5 DEF OwedAtRest
  <1> QED BY <1>6, <1>7, <1>10, <1>11, <1>12

\* A callback takes event e out of the round: the oldest of its kind, and every
\* event that stays owed is younger or of a kind whose turn comes later.
TakesInTurn(p, e) ==
  /\ pc[p] = "dispatch" /\ Called(p, e)
  /\ e \in InRound(p) /\ InRound(p)' = InRound(p) \ {e}
  /\ \A q \in Thread : q # p => batch'[q] = batch[q]
  /\ \A f \in InRound(p) : f.no < e.no => CallRank[f.kind] > CallRank[e.kind]
  /\ ListsInOrder'

\* Each of the four callbacks of a round does so, by the order of its kind.
LEMMA DispatchTakes ==
  ASSUME IInv, EventsInv, NEW p \in Thread,
         \/ DispatchEndSend(p) \/ DispatchRecv(p) \/ DispatchFail(p) \/ DispatchClosed(p)
  PROVE  \E e \in Event : TakesInTurn(p, e)
  <1>1. /\ batch \in [Thread -> Batch]
        /\ batch[p].fail \in Seq(Event) /\ batch[p].recv \in Seq(Event)
        /\ batch[p].sendClose \in Seq(Event)
    BY DEF IInv, TypeOK, Batch
  <1>2. ASSUME NEW q \in Thread
        PROVE  /\ InOrder(batch[q].fail, {"fail"}, serial)
               /\ InOrder(batch[q].recv, {"recv"}, serial)
               /\ InOrder(batch[q].sendClose, {"send", "closed"}, serial)
    BY DEF EventsInv, ListsInOrder
  <1>3. /\ \A f \in EventsIn(batch[p].fail) : f.kind = "fail" /\ f \in Event
        /\ \A f \in EventsIn(batch[p].recv) : f.kind = "recv" /\ f \in Event
        /\ \A f \in EventsIn(batch[p].sendClose) : f.kind \in {"send", "closed"} /\ f \in Event
    BY <1>1, <1>2 DEF EventsIn, InOrder
  <1>4. \A f \in Event : f.no \in Nat
    BY DEF Event
  <1>5. ASSUME NEW e \in Event, Called(p, e), \A q \in Thread : q # p => batch'[q] = batch[q],
               InOrder(batch'[p].fail, {"fail"}, serial),
               InOrder(batch'[p].recv, {"recv"}, serial),
               InOrder(batch'[p].sendClose, {"send", "closed"}, serial)
        PROVE  ListsInOrder'
    BY <1>2, <1>5 DEF Called, cacheVars, EventsInv, ListsInOrder
  <1>6. CASE DispatchEndSend(p)
    <2> DEFINE s == batch[p].sendClose
    <2>1. PICK i \in Sends(s) : /\ \A j \in Sends(s) : i <= j
                                /\ batch' = [batch EXCEPT ![p].sendClose = Without(s, i)]
                                /\ Called(p, s[i])
      BY <1>6 DEF DispatchEndSend
    <2>2. i \in DOMAIN s /\ s[i] \in Event /\ s[i].kind = "send"
      BY <1>1 DEF Sends, IsSend
    <2>3. /\ InOrder(Without(s, i), {"send", "closed"}, serial)
          /\ s[i] \in EventsIn(s) /\ EventsIn(Without(s, i)) = EventsIn(s) \ {s[i]}
      BY <1>1, <1>2, <2>2, InOrderWithout
    <2>4. /\ batch'[p].sendClose = Without(s, i) /\ batch'[p].recv = batch[p].recv
          /\ batch'[p].fail = batch[p].fail
          /\ \A q \in Thread : q # p => batch'[q] = batch[q]
      BY <1>1, <2>1 DEF Batch
    <2>5. s[i] \in InRound(p) /\ InRound(p)' = InRound(p) \ {s[i]}
      BY <1>3, <2>2, <2>3, <2>4 DEF InRound
    <2>6. \A f \in EventsIn(s) : f.kind = "send" => ~(f.no < s[i].no)
      <3> SUFFICES ASSUME NEW j \in DOMAIN s, s[j].kind = "send" PROVE ~(s[j].no < s[i].no)
        BY DEF EventsIn
      <3>1. j \in Sends(s) /\ i <= j
        BY <2>1 DEF Sends, IsSend
      <3>2. i = j \/ i < j
        BY <3>1, <2>2, <1>1
      <3>3. s[i] = s[j] \/ s[i].no < s[j].no
        BY <3>2, <2>2, <1>2 DEF InOrder
      <3>4. s[j] \in Event
        BY <1>1
      <3> QED BY <3>3, <3>4, <2>2, <1>4
    <2>7. \A f \in InRound(p) : f.no < s[i].no => CallRank[f.kind] > CallRank[s[i].kind]
      BY <1>3, <2>2, <2>6 DEF InRound, CallRank
    <2>8. ListsInOrder'
      BY <1>2, <1>5, <2>1, <2>2, <2>3, <2>4
    <2> QED BY <1>6, <2>1, <2>2, <2>4, <2>5, <2>7, <2>8 DEF TakesInTurn, DispatchEndSend
  <1>7. CASE DispatchRecv(p)
    <2> DEFINE s == batch[p].recv
    <2>1. /\ s # <<>> /\ Sends(batch[p].sendClose) = {} /\ Called(p, Head(s))
          /\ batch' = [batch EXCEPT ![p].recv = Tail(s)] /\ pc[p] = "dispatch"
      BY <1>7 DEF DispatchRecv
    <2>3. /\ InOrder(Tail(s), {"recv"}, serial) /\ Head(s) \in EventsIn(s)
          /\ EventsIn(Tail(s)) = EventsIn(s) \ {Head(s)}
          /\ \A f \in EventsIn(Tail(s)) : Head(s).no < f.no
      BY <1>1, <1>2, <2>1, InOrderTail
    <2>4. /\ batch'[p].recv = Tail(s) /\ batch'[p].sendClose = batch[p].sendClose
          /\ batch'[p].fail = batch[p].fail
          /\ \A q \in Thread : q # p => batch'[q] = batch[q]
      BY <1>1, <2>1 DEF Batch
    <2>5. Head(s) \in InRound(p) /\ InRound(p)' = InRound(p) \ {Head(s)}
      BY <1>3, <2>3, <2>4 DEF InRound
    <2>6. /\ \A f \in EventsIn(batch[p].sendClose) : f.kind = "closed"
          /\ \A f \in EventsIn(s) : ~(f.no < Head(s).no)
      <3>1. \A f \in EventsIn(batch[p].sendClose) : f.kind # "send"
        BY <2>1 DEF Sends, IsSend, EventsIn
      <3>2. \A f \in EventsIn(s) : f = Head(s) \/ Head(s).no < f.no
        BY <2>3
      <3> QED BY <3>1, <3>2, <1>3, <1>4, <2>3
    <2>7. \A f \in InRound(p) : f.no < Head(s).no => CallRank[f.kind] > CallRank[Head(s).kind]
      BY <1>3, <2>3, <2>6 DEF InRound, CallRank
    <2>8. ListsInOrder'
      BY <1>2, <1>3, <1>5, <2>1, <2>3, <2>4
    <2> QED BY <1>3, <2>1, <2>3, <2>4, <2>5, <2>7, <2>8 DEF TakesInTurn
  <1>8. CASE DispatchFail(p)
    <2> DEFINE s == batch[p].fail
    <2>1. /\ s # <<>> /\ Sends(batch[p].sendClose) = {} /\ Called(p, Head(s))
          /\ batch[p].recv = <<>>
          /\ batch' = [batch EXCEPT ![p].fail = Tail(s)] /\ pc[p] = "dispatch"
      BY <1>8 DEF DispatchFail
    <2>3. /\ InOrder(Tail(s), {"fail"}, serial) /\ Head(s) \in EventsIn(s)
          /\ EventsIn(Tail(s)) = EventsIn(s) \ {Head(s)}
          /\ \A f \in EventsIn(Tail(s)) : Head(s).no < f.no
      BY <1>1, <1>2, <2>1, InOrderTail
    <2>4. /\ batch'[p].fail = Tail(s) /\ batch'[p].sendClose = batch[p].sendClose
          /\ batch'[p].recv = batch[p].recv
          /\ \A q \in Thread : q # p => batch'[q] = batch[q]
      BY <1>1, <2>1 DEF Batch
    <2>5. Head(s) \in InRound(p) /\ InRound(p)' = InRound(p) \ {Head(s)}
      BY <1>3, <2>3, <2>4 DEF InRound
    <2>6. /\ \A f \in EventsIn(batch[p].sendClose) : f.kind = "closed"
          /\ EventsIn(batch[p].recv) = {}
          /\ \A f \in EventsIn(s) : ~(f.no < Head(s).no)
      <3>1. \A f \in EventsIn(batch[p].sendClose) : f.kind # "send"
        BY <2>1 DEF Sends, IsSend, EventsIn
      <3>2. \A f \in EventsIn(s) : f = Head(s) \/ Head(s).no < f.no
        BY <2>3
      <3>3. EventsIn(batch[p].recv) = {}
        BY <2>1, InOrderEmpty
      <3> QED BY <3>1, <3>2, <3>3, <1>3, <1>4, <2>3
    <2>7. \A f \in InRound(p) : f.no < Head(s).no => CallRank[f.kind] > CallRank[Head(s).kind]
      BY <1>3, <2>3, <2>6 DEF InRound, CallRank
    <2>8. ListsInOrder'
      BY <1>2, <1>3, <1>5, <2>1, <2>3, <2>4
    <2> QED BY <1>3, <2>1, <2>3, <2>4, <2>5, <2>7, <2>8 DEF TakesInTurn
  <1>9. CASE DispatchClosed(p)
    <2> DEFINE s == batch[p].sendClose
    <2>1. /\ s # <<>> /\ Sends(s) = {} /\ Called(p, Head(s))
          /\ batch[p].recv = <<>> /\ batch[p].fail = <<>>
          /\ batch' = [batch EXCEPT ![p].sendClose = Tail(s)] /\ pc[p] = "dispatch"
      BY <1>9 DEF DispatchClosed
    <2>3. /\ InOrder(Tail(s), {"send", "closed"}, serial) /\ Head(s) \in EventsIn(s)
          /\ EventsIn(Tail(s)) = EventsIn(s) \ {Head(s)}
          /\ \A f \in EventsIn(Tail(s)) : Head(s).no < f.no
      BY <1>1, <1>2, <2>1, InOrderTail
    <2>4. /\ batch'[p].sendClose = Tail(s) /\ batch'[p].fail = batch[p].fail
          /\ batch'[p].recv = batch[p].recv
          /\ \A q \in Thread : q # p => batch'[q] = batch[q]
      BY <1>1, <2>1 DEF Batch
    <2>5. Head(s) \in InRound(p) /\ InRound(p)' = InRound(p) \ {Head(s)}
      BY <1>3, <2>3, <2>4 DEF InRound
    <2>6. /\ EventsIn(batch[p].recv) = {} /\ EventsIn(batch[p].fail) = {}
          /\ \A f \in EventsIn(s) : ~(f.no < Head(s).no)
      <3>2. \A f \in EventsIn(s) : f = Head(s) \/ Head(s).no < f.no
        BY <2>3
      <3>3. EventsIn(batch[p].recv) = {} /\ EventsIn(batch[p].fail) = {}
        BY <2>1, InOrderEmpty
      <3> QED BY <3>2, <3>3, <1>3, <1>4, <2>3
    <2>7. \A f \in InRound(p) : f.no < Head(s).no => CallRank[f.kind] > CallRank[Head(s).kind]
      BY <2>6 DEF InRound
    <2>8. ListsInOrder'
      BY <1>2, <1>3, <1>5, <2>1, <2>3, <2>4
    <2> QED BY <1>3, <2>1, <2>3, <2>4, <2>5, <2>7, <2>8 DEF TakesInTurn
  <1> QED BY <1>6, <1>7, <1>8, <1>9

LEMMA DispatchEvents ==
  ASSUME IInv, IInv', EventsInv, NEW p \in Thread, NEW e \in Event, TakesInTurn(p, e)
  PROVE  EventsInv'
  <1> USE DEF EventsInv
  <1>0. PICK t : t = cur[p]
    OBVIOUS
  <1>1. /\ pc[p] = "dispatch" /\ ListsInOrder'
        /\ owed' = [owed EXCEPT ![t] = @ \ {e}]
        /\ UNCHANGED <<cacheVars, pc, cur, inApp, serial>>
        /\ e \in InRound(p) /\ InRound(p)' = InRound(p) \ {e}
        /\ \A q \in Thread : q # p => batch'[q] = batch[q]
    BY <1>0 DEF TakesInTurn, Called
  <1>2. /\ t \in Task /\ t \notin inApp
        /\ \A q \in Thread : q # p => cur[q] # t
    BY <1>0, <1>1, Exclusive DEF Driving
  <1>3. \A q \in Thread : q # p => InRound(q)' = InRound(q)
    BY <1>1 DEF InRound
  <1>4. owed \in [Task -> SUBSET Event] /\ e.no \in Nat
    BY DEF IInv, TypeOK, Event
  <1>5. e \notin Cached(t)
    BY <1>0, <1>1, <1>2, <1>4 DEF RoundIsOlder
  <1>6. RoundEnds'
    BY <1>1 DEF RoundEnds, BatchDone
  <1>7. \A u \in Task : Cached(u)' = Cached(u)
    BY <1>1 DEF Cached, cacheVars
  <1>8. \A q \in Thread : Cached(cur[q])' = Cached(cur[q])
    BY <1>1 DEF Cached, cacheVars
  <1>9. RoundIsOlder'
    BY <1>1, <1>3, <1>8 DEF RoundIsOlder
  <1>10. OwedDriven'
    BY <1>0, <1>1, <1>2, <1>3, <1>4, <1>5, <1>8 DEF OwedDriven
  <1>11. OwedAtRest'
    BY <1>0, <1>1, <1>2, <1>4, <1>7 DEF OwedAtRest
  <1> QED BY <1>1, <1>6, <1>9, <1>10, <1>11

LEMMA EventsStep == ASSUME IInv, IInv', EventsInv, [Next]_vars PROVE EventsInv'
  <1>1. CASE UNCHANGED vars
    BY <1>1 DEF vars, cacheVars, threadVars, histVars, EventsInv, ListsInOrder, RoundEnds,
       RoundIsOlder, OwedDriven, OwedAtRest, BatchDone, InRound, Cached
  <1>2. CASE Next
    <2>1. PICK p \in Thread : Request(p, Conn) \/ DriverStep(p)
      BY <1>2 DEF Next
    <2>2. CASE Request(p, Conn)
      BY <2>2, AddTaskEvents, AcceptEvents, ConnClosedEvents, QuietSteps DEF Request
    <2>3. CASE DriverStep(p)
      <3>1. CASE DispatchEndSend(p) \/ DispatchRecv(p) \/ DispatchFail(p) \/ DispatchClosed(p)
        BY <3>1, DispatchTakes, DispatchEvents
      <3> QED BY <2>3, <3>1, QuietSteps, FetchEventsEvents DEF DriverStep
    <2> QED BY <2>1, <2>2, <2>3
  <1> QED BY <1>1, <1>2

\* Every event the board accepted keeps its place among the lists: the step that
\* would lose, keep twice or reorder one does not exist.
THEOREM EventsInductive == Spec => [](IInv /\ EventsInv)
  <1>1. IInv /\ IInv' /\ EventsInv /\ [Next]_vars => EventsInv'
    BY EventsStep
  <1> QED BY EventsInit, <1>1, Inductive, PTL DEF Spec

\* Nothing a task is owed is lost or kept twice: every event the board accepted
\* and has not given to its callback is in one of the task's lists or in the
\* round of its one driver, and never in both.
THEOREM NothingLost == Spec => []OwedIsQueued
  <1>1. IInv /\ EventsInv => OwedIsQueued
    <2> SUFFICES ASSUME IInv, EventsInv, NEW t \in Task \ inApp
                 PROVE  /\ owed[t] = Cached(t) \cup UNION {InRound(p) : p \in {q \in Thread : cur[q] = t}}
                        /\ \A p \in Thread : cur[p] = t => Cached(t) \cap InRound(p) = {}
      BY DEF OwedIsQueued
    <2> DEFINE rounds == UNION {InRound(p) : p \in {q \in Thread : cur[q] = t}}
    <2>1. CASE \A p \in Thread : cur[p] # t
      <3>1. rounds = {}
        BY <2>1
      <3> QED BY <2>1, <3>1 DEF EventsInv, OwedAtRest
    <2>2. ASSUME NEW p \in Thread, cur[p] = t
          PROVE  /\ owed[t] = Cached(t) \cup rounds
                 /\ \A q \in Thread : cur[q] = t => Cached(t) \cap InRound(q) = {}
      <3>1. \A q \in Thread : cur[q] = t => q = p
        BY <2>2, NoTaskAssumption DEF IInv, OneDriver, HeldApart, Held
      <3>2. rounds = InRound(p)
        BY <2>2, <3>1
      <3>3. \A e \in InRound(p) : e \in Event
        BY DEF IInv, TypeOK, Batch, InRound, EventsIn
      <3>4. \A e \in InRound(p) : e.no \in Nat
        BY <3>3 DEF Event
      <3>5. Cached(t) \cap InRound(p) = {}
        BY <2>2, <3>4 DEF EventsInv, RoundIsOlder
      <3> HIDE DEF rounds
      <3> QED BY <2>2, <3>1, <3>2, <3>5 DEF EventsInv, OwedDriven
    <2> QED BY <2>1, <2>2
  <1> QED BY <1>1, EventsInductive, PTL

\* Only a callback takes an event away from those owed.
LEMMA OwedShrinks ==
  ASSUME IInv, EventsInv, Next, NEW t \in Task \ inApp, ~(owed[t] \subseteq owed'[t])
  PROVE  \E p \in Thread, e \in Event : TakesInTurn(p, e) /\ cur[p] = t
  <1>1. owed \in [Task -> SUBSET Event]
    BY DEF IInv, TypeOK
  <1>2. PICK p \in Thread : Request(p, Conn) \/ DriverStep(p)
    BY DEF Next
  <1>3. ~Request(p, Conn)
    <2>1. ASSUME NEW u \in Task, AddTask(p, u) PROVE owed[t] \subseteq owed'[t]
      BY <1>1, <2>1 DEF AddTask
    <2>2. ASSUME NEW u \in Task, Remove(p, u) PROVE owed[t] \subseteq owed'[t]
      BY <2>2 DEF Remove, histVars
    <2>3. ASSUME NEW u \in Task, NEW e, Accept(p, u, e) PROVE owed[t] \subseteq owed'[t]
      BY <1>1, <2>3 DEF Accept
    <2>4. ASSUME NEW c \in Conn, NoticeConnClosed(p, c) PROVE owed[t] \subseteq owed'[t]
      BY <2>4 DEF NoticeConnClosed
    <2>5. ASSUME NoticeCheckTimeout(p) PROVE owed[t] \subseteq owed'[t]
      BY <2>5 DEF NoticeCheckTimeout, histVars
    <2> QED BY <2>1, <2>2, <2>3, <2>4, <2>5
            DEF Request, NoticeRecvMsg, NoticeFailSendMsg, NoticeEndSendMsg
  <1>4. DispatchEndSend(p) \/ DispatchRecv(p) \/ DispatchFail(p) \/ DispatchClosed(p)
    BY <1>2, <1>3 DEF DriverStep, ActiveOk, ActiveFail, NextTask, Return, FetchNothing,
       FetchEvents, DispatchTimeout, CheckFinish, FinishRemove, histVars
  <1>5. PICK e \in Event : TakesInTurn(p, e)
    BY <1>4, DispatchTakes
  <1>6. owed' = [owed EXCEPT ![cur[p]] = @ \ {e}]
    BY <1>5 DEF TakesInTurn, Called
  <1>7. cur[p] = t
    BY <1>1, <1>6
  <1> QED BY <1>5, <1>7

\* The callbacks of a task follow the order in which its events were accepted,
\* up to the order of the kinds inside a round.
THEOREM CalledInOrder == Spec => CallbackOrder
  <1> DEFINE Step == \A t \in Task \ inApp : \A e \in owed[t] \ owed'[t], f \in owed'[t] :
                        f.no < e.no => CallRank[f.kind] > CallRank[e.kind]
  <1>1. IInv /\ EventsInv /\ Next => Step
    <2> SUFFICES ASSUME IInv, EventsInv, Next, NEW t \in Task \ inApp,
                        NEW e \in owed[t] \ owed'[t], NEW f \in owed'[t], f.no < e.no
                 PROVE  CallRank[f.kind] > CallRank[e.kind]
      OBVIOUS
    <2>1. PICK p \in Thread, d \in Event : TakesInTurn(p, d) /\ cur[p] = t
      BY OwedShrinks
    <2>2. owed \in [Task -> SUBSET Event]
      BY DEF IInv, TypeOK
    <2>3. owed' = [owed EXCEPT ![t] = @ \ {d}]
      BY <2>1 DEF TakesInTurn, Called
    <2>4. e = d /\ f \in owed[t] /\ f \in Event /\ e \in InRound(p)
      BY <2>1, <2>2, <2>3 DEF TakesInTurn
    <2>5. f \in Cached(t) \cup InRound(p)
      BY <2>1, <2>4 DEF EventsInv, OwedDriven
    <2>6. f \notin Cached(t)
      <3>1. f.no \in Nat /\ e.no \in Nat
        BY <2>4 DEF Event
      <3>2. f \in Cached(t) => e.no < f.no
        BY <2>1, <2>4 DEF EventsInv, RoundIsOlder
      <3> QED BY <3>1, <3>2
    <2> QED BY <2>1, <2>4, <2>5, <2>6 DEF TakesInTurn
  <1>2. IInv /\ EventsInv /\ [Next]_vars => [Step]_vars
    BY <1>1
  <1> HIDE DEF Step
  <1>3. Spec => [][Step]_vars
    BY <1>2, EventsInductive, PTL DEF Spec
  <1> QED BY <1>3 DEF CallbackOrder, Step

-----------------------------------------------------------------------------
(* The board implements the lease.                                           *)

Owners == [t \in Task |-> Owner(t)]

\* The owner is well defined: nobody shares a task.
LEMMA OwnerOf ==
  ASSUME OneDriver, NEW t \in Task
  PROVE  /\ t \in inApp => Owner(t) = App
         /\ t \notin inApp => \A p \in Thread : t \in Held(p) => Owner(t) = p
         /\ t \notin inApp /\ (\A p \in Thread : t \notin Held(p)) => Owner(t) = Board
  BY DEF Owner, OneDriver, HeldApart

LEMMA OwnerOfNext ==
  ASSUME OneDriver', NEW t \in Task
  PROVE  /\ t \in inApp' => Owner(t)' = App
         /\ t \notin inApp' => \A p \in Thread : t \in Held(p)' => Owner(t)' = p
         /\ t \notin inApp' /\ (\A p \in Thread : t \notin Held(p)') => Owner(t)' = Board
  BY DEF Owner, OneDriver, HeldApart

\* Nobody holds an unlocked task: the board owns it.
LEMMA UnlockedIsBoards ==
  ASSUME IInv, NEW t \in Task, t \notin inApp
  PROVE  Owner(t) = Board <=> ~bLooked[t]
  <1>1. bLooked[t] <=> \E p \in Thread : t \in Held(p)
    BY DEF IInv, OneDriver, LockIsHeld
  <1> QED BY <1>1, OwnerOf, OwnersAssumption DEF IInv

LEMMA OwnersKept ==
  ASSUME IInv, IInv', inApp' = inApp, \A q \in Thread : Held(q)' = Held(q)
  PROVE  Owners' = Owners
  <1>1. \A t \in Task : Owner(t)' = Owner(t)
    <2> SUFFICES ASSUME NEW t \in Task PROVE Owner(t)' = Owner(t)
      OBVIOUS
    <2>1. OneDriver /\ OneDriver'
      BY DEF IInv
    <2> QED BY <2>1, OwnerOf, OwnerOfNext
  <1> QED BY <1>1 DEF Owners

\* Thread p takes the unlocked tasks of S.
LEMMA OwnersLeased ==
  ASSUME IInv, IInv', inApp' = inApp, NEW p \in Thread, NEW S \in SUBSET (Task \ inApp),
         \A q \in Thread : q # p => Held(q)' = Held(q),
         Held(p)' = Held(p) \cup {t \in S : ~bLooked[t]}
  PROVE  /\ Owners' = [t \in Task |-> IF t \in S /\ Owners[t] = Board THEN p ELSE Owners[t]]
         /\ \A t \in S : Owners[t] # App
  <1>1. \A t \in Task : Owner(t)' = IF t \in S /\ Owner(t) = Board THEN p ELSE Owner(t)
    <2> SUFFICES ASSUME NEW t \in Task
                 PROVE  Owner(t)' = IF t \in S /\ Owner(t) = Board THEN p ELSE Owner(t)
      OBVIOUS
    <2>1. OneDriver /\ OneDriver'
      BY DEF IInv
    <2>2. CASE t \in inApp
      BY <2>1, <2>2, OwnerOf, OwnerOfNext, OwnersAssumption
    <2>3. CASE t \notin inApp /\ t \in S /\ ~bLooked[t]
      BY <2>1, <2>3, OwnerOfNext, UnlockedIsBoards
    <2>4. CASE t \notin inApp /\ ~(t \in S /\ ~bLooked[t])
      <3>1. ~(t \in S /\ Owner(t) = Board)
        BY <2>4, UnlockedIsBoards
      <3>2. \A q \in Thread : t \in Held(q)' <=> t \in Held(q)
        BY <2>4
      <3>3. Owner(t)' = Owner(t)
        BY <2>1, <2>4, <3>2, OwnerOf, OwnerOfNext
      <3> QED BY <3>1, <3>3
    <2> QED BY <2>2, <2>3, <2>4
  <1>2. \A t \in S : Owner(t) # App
    <2> SUFFICES ASSUME NEW t \in S PROVE Owner(t) # App
      OBVIOUS
    <2>1. OneDriver /\ t \in Task /\ t \notin inApp
      BY DEF IInv
    <2> QED BY <2>1, OwnerOf, OwnersAssumption
  <1> QED BY <1>1, <1>2 DEF Owners

\* The tasks of S go back to the application.
LEMMA OwnersHandedBack ==
  ASSUME IInv, IInv', NEW S \in SUBSET Task, inApp' = inApp \cup S,
         \A q \in Thread : Held(q)' = Held(q) \ S
  PROVE  Owners' = [t \in Task |-> IF t \in S THEN App ELSE Owners[t]]
  <1>1. \A t \in Task : Owner(t)' = IF t \in S THEN App ELSE Owner(t)
    <2> SUFFICES ASSUME NEW t \in Task PROVE Owner(t)' = IF t \in S THEN App ELSE Owner(t)
      OBVIOUS
    <2>1. OneDriver /\ OneDriver'
      BY DEF IInv
    <2>2. CASE t \in S
      BY <2>1, <2>2, OwnerOfNext
    <2>3. CASE t \notin S
      <3>1. \A q \in Thread : t \in Held(q)' <=> t \in Held(q)
        BY <2>3
      <3> QED BY <2>1, <2>3, <3>1, OwnerOf, OwnerOfNext
    <2> QED BY <2>2, <2>3
  <1> QED BY <1>1 DEF Owners

LEMMA LeaseInit == Init => Lease!Init
  <1> SUFFICES ASSUME Init PROVE Lease!Init
    OBVIOUS
  <1>1. \A t \in Task : Owner(t) = App
    BY DEF Init, Owner
  <1> QED BY <1>1 DEF Init, Lease!Init

LEMMA LeaseStutters ==
  ASSUME IInv, IInv', NEW p \in Thread,
         \/ ActiveOk(p) \/ ActiveFail(p) \/ NextTask(p) \/ FetchEvents(p)
         \/ DispatchTimeout(p) \/ CheckFinish(p) \/ FinishRemove(p)
         \/ \E t \in Task : Remove(p, t) /\ bLooked[t]
  PROVE  UNCHANGED Lease!vars
  <1>1. /\ cur \in [Thread -> Task \cup {NoTask}] /\ todo \in [Thread -> SUBSET Task]
        /\ finishTasks \in [Thread -> SUBSET Task] /\ pc \in [Thread -> Points]
    BY DEF IInv, TypeOK
  <1> USE DEF threadVars, histVars
  <1>2. inApp' = inApp /\ owed' = owed /\ \A q \in Thread : Held(q)' = Held(q)
    <2>1. CASE ActiveOk(p)
      BY <2>1 DEF ActiveOk, Held
    <2>2. CASE ActiveFail(p) \/ FinishRemove(p)
      <3>1. /\ inApp' = inApp /\ owed' = owed /\ todo' = todo
            /\ finishTasks' = [finishTasks EXCEPT ![p] = @ \cup {cur[p]}]
            /\ cur' = [cur EXCEPT ![p] = NoTask] /\ pc[p] \in {"active", "remove"}
        BY <2>2 DEF ActiveFail, FinishRemove, EndDrive
      <3>2. cur[p] \in Task /\ cur[p] # NoTask
        BY <3>1, Exclusive DEF Driving
      <3> QED BY <1>1, <3>1, <3>2 DEF Held
    <2>3. CASE NextTask(p)
      <3>1. PICK t \in todo[p] : /\ todo' = [todo EXCEPT ![p] = @ \ {t}]
                                 /\ cur' = [cur EXCEPT ![p] = t]
        BY <2>3 DEF NextTask, Drive
      <3>2. /\ inApp' = inApp /\ owed' = owed /\ finishTasks' = finishTasks
            /\ pc[p] = "next"
        BY <2>3 DEF NextTask
      <3>3. cur[p] = NoTask /\ t # NoTask
        BY <1>1, <3>1, <3>2, NoTaskAssumption DEF IInv, Discipline, PlaceOfThread, Driving
      <3> QED BY <1>1, <3>1, <3>2, <3>3 DEF Held
    <2>4. CASE FetchEvents(p)
      BY <2>4 DEF FetchEvents, Held
    <2>5. CASE DispatchTimeout(p)
      BY <2>5 DEF DispatchTimeout, Held
    <2>6. CASE CheckFinish(p)
      BY <2>6 DEF CheckFinish, Held
    <2>7. CASE \E t \in Task : Remove(p, t) /\ bLooked[t]
      BY <2>7 DEF Remove, Held
    <2> QED BY <2>1, <2>2, <2>3, <2>4, <2>5, <2>6, <2>7
  <1>3. Owners' = Owners
    BY <1>2, OwnersKept
  <1> QED BY <1>2, <1>3 DEF Owners, Lease!vars

LEMMA LeaseActivate ==
  ASSUME IInv, IInv', NEW p \in Thread, NEW t \in Task, AddTask(p, t)
  PROVE  Lease!Activate(p, t)
  <1>1. /\ cur \in [Thread -> Task \cup {NoTask}] /\ owed \in [Task -> SUBSET Event]
        /\ inApp \subseteq Task
    BY DEF IInv, TypeOK
  <1>2. /\ t \in inApp /\ inApp' = inApp \ {t} /\ owed' = [owed EXCEPT ![t] = {}]
        /\ cur' = [cur EXCEPT ![p] = t] /\ pc[p] = "idle" /\ UNCHANGED <<todo, finishTasks>>
    BY DEF AddTask
  <1>3. /\ OneDriver /\ OneDriver'
        /\ cur[p] \notin Task /\ t # NoTask
    BY <1>2, NoTaskAssumption DEF IInv, Discipline, PlaceOfThread, Driving
  <1>4. /\ t \in Held(p)'
        /\ \A u \in Task : u # t => \A q \in Thread : u \in Held(q)' <=> u \in Held(q)
    BY <1>1, <1>2, <1>3 DEF Held
  <1>5. Owner(t) = App /\ Owner(t)' = p
    BY <1>2, <1>3, <1>4, OwnerOf, OwnerOfNext
  <1>6. \A u \in Task : u # t => Owner(u)' = Owner(u)
    <2> SUFFICES ASSUME NEW u \in Task, u # t PROVE Owner(u)' = Owner(u)
      OBVIOUS
    <2> QED BY <1>2, <1>3, <1>4, OwnerOf, OwnerOfNext
  <1>7. Owners[t] = App /\ Owners' = [Owners EXCEPT ![t] = p]
    BY <1>5, <1>6 DEF Owners
  <1> QED BY <1>2, <1>7 DEF Owners, Lease!Activate

LEMMA LeasePost ==
  ASSUME IInv, IInv', NEW p \in Thread, NEW t \in Task, NEW c \in Conn,
         NoticeRecvMsg(p, t, c) \/ NoticeFailSendMsg(p, t, c) \/ NoticeEndSendMsg(p, t, c)
  PROVE  Lease!Next
  <1>1. /\ cur \in [Thread -> Task \cup {NoTask}] /\ owed \in [Task -> SUBSET Event]
        /\ serial \in 0 .. MaxNotices
    BY DEF IInv, TypeOK
  <1>2. PICK e \in Event : Accept(p, t, e)
    BY <1>1, EventOfType DEF NoticeRecvMsg, NoticeFailSendMsg, NoticeEndSendMsg
  <1>3. /\ pc[p] = "idle" /\ t \in board /\ owed' = [owed EXCEPT ![t] = @ \cup {e}]
        /\ UNCHANGED <<todo, finishTasks, inApp>>
        /\ cur' = IF bLooked[t] THEN cur ELSE [cur EXCEPT ![p] = t]
    BY <1>2 DEF Accept, LockOrLeave, Drive
  <1>4. t \notin inApp /\ cur[p] = NoTask /\ t # NoTask
    BY <1>1, <1>3, NoTaskAssumption DEF IInv, IndexesMirror, Discipline, PlaceOfThread, Driving
  <1>5. /\ \A q \in Thread : q # p => Held(q)' = Held(q)
        /\ Held(p)' = Held(p) \cup {u \in {t} : ~bLooked[u]}
    BY <1>1, <1>3, <1>4 DEF Held
  <1> DEFINE S == {t}
  <1>6. S \in SUBSET (Task \ inApp)
    BY <1>4
  <1>7. owed' = [u \in Task |-> IF u \in S THEN owed[u] \cup {e} ELSE owed[u]]
    BY <1>1, <1>3
  <1> HIDE DEF S
  <1>8. /\ Owners' = [u \in Task |-> IF u \in S /\ Owners[u] = Board THEN p ELSE Owners[u]]
        /\ \A u \in S : Owners[u] # App
    BY <1>3, <1>5, <1>6, OwnersLeased DEF S
  <1>9. Lease!Post(p, S, e)
    BY <1>7, <1>8 DEF Owners, Lease!Post, Lease!LeaseIdle
  <1> QED BY <1>6, <1>9 DEF Lease!Next

LEMMA LeasePostClosed ==
  ASSUME IInv, IInv', NEW p \in Thread, NEW c \in Conn, NoticeConnClosed(p, c)
  PROVE  Lease!Next
  <1> DEFINE S == {t \in Task : <<c, t>> \in connTaskMap}
             e == EventOf("closed", c)
  <1>1. e \in Event
    BY EventOfType DEF IInv, TypeOK
  <1>2. /\ pc[p] = "idle" /\ UNCHANGED <<cur, finishTasks, inApp>>
        /\ owed' = [u \in Task |-> IF u \in S THEN owed[u] \cup {e} ELSE owed[u]]
        /\ todo' = [todo EXCEPT ![p] = {t \in S : ~bLooked[t]}]
    BY DEF NoticeConnClosed
  <1>3. todo \in [Thread -> SUBSET Task] /\ todo[p] = {}
    BY <1>2 DEF IInv, TypeOK, Discipline, PlaceOfThread
  <1>4. S \in SUBSET (Task \ inApp)
    BY DEF IInv, IndexesMirror
  <1> HIDE DEF S, e
  <1>5. /\ \A q \in Thread : q # p => Held(q)' = Held(q)
        /\ Held(p)' = Held(p) \cup {u \in S : ~bLooked[u]}
    BY <1>2, <1>3 DEF Held
  <1>6. /\ Owners' = [u \in Task |-> IF u \in S /\ Owners[u] = Board THEN p ELSE Owners[u]]
        /\ \A u \in S : Owners[u] # App
    BY <1>2, <1>4, <1>5, OwnersLeased
  <1>7. Lease!Post(p, S, e)
    BY <1>2, <1>6 DEF Owners, Lease!Post, Lease!LeaseIdle
  <1> QED BY <1>1, <1>4, <1>7 DEF Lease!Next

LEMMA LeaseMark ==
  ASSUME IInv, IInv', NEW p \in Thread, NoticeCheckTimeout(p)
  PROVE  Lease!Next
  <1>1. PICK due \in SUBSET board :
             todo' = [todo EXCEPT ![p] = {t \in due \cup {u \in board : bTimeout[u]} : ~bLooked[t]}]
    BY DEF NoticeCheckTimeout
  <1> DEFINE S == due \cup {u \in board : bTimeout[u]}
  <1>2. /\ pc[p] = "idle" /\ UNCHANGED <<cur, finishTasks, inApp, owed>>
        /\ todo' = [todo EXCEPT ![p] = {t \in S : ~bLooked[t]}]
    BY <1>1 DEF NoticeCheckTimeout, histVars
  <1>3. todo \in [Thread -> SUBSET Task] /\ todo[p] = {}
    BY <1>2 DEF IInv, TypeOK, Discipline, PlaceOfThread
  <1>4. S \in SUBSET (Task \ inApp)
    BY DEF IInv, IndexesMirror, TypeOK
  <1> HIDE DEF S
  <1>5. /\ \A q \in Thread : q # p => Held(q)' = Held(q)
        /\ Held(p)' = Held(p) \cup {u \in S : ~bLooked[u]}
    BY <1>2, <1>3 DEF Held
  <1>6. /\ Owners' = [u \in Task |-> IF u \in S /\ Owners[u] = Board THEN p ELSE Owners[u]]
        /\ \A u \in S : Owners[u] # App
    BY <1>2, <1>4, <1>5, OwnersLeased
  <1>7. Lease!MarkTasks(p, S)
    BY <1>2, <1>6 DEF Owners, Lease!MarkTasks, Lease!LeaseIdle
  <1> QED BY <1>4, <1>7 DEF Lease!Next

\* A task nobody drives is owed nothing: what NoStrandedWork and OwedAtRest say
\* together.  The abstract step that takes an idle task back needs it.
LEMMA LeaseTakeIdle ==
  ASSUME IInv, IInv', EventsInv, NEW p \in Thread, NEW t \in Task, Remove(p, t), ~bLooked[t]
  PROVE  Lease!Next
  <1>1. /\ t \in board /\ inApp' = inApp \cup {t}
        /\ UNCHANGED <<cur, todo, finishTasks, owed>>
    BY DEF Remove, threadVars, histVars
  <1>2. t \notin inApp /\ \A q \in Thread : t \notin Held(q)
    BY <1>1 DEF IInv, IndexesMirror, OneDriver, LockIsHeld
  <1>3. Owners[t] = Board
    BY <1>2, UnlockedIsBoards DEF Owners
  <1>4. \A q \in Thread : cur[q] # t
    BY <1>2, NoTaskAssumption DEF Held
  <1>5. owed[t] = {}
    <2>1. owed[t] = Cached(t)
      BY <1>2, <1>4 DEF EventsInv, OwedAtRest
    <2>2. failList[t] = <<>> /\ recvList[t] = <<>> /\ sendCloseList[t] = <<>>
      BY <1>1 DEF IInv, NoStrandedWork, NoCachedEvents
    <2> QED BY <2>1, <2>2, InOrderEmpty DEF Cached
  <1>6. \A q \in Thread : Held(q)' = Held(q) \ {t}
    BY <1>1, <1>2 DEF Held
  <1>7. Owners' = [u \in Task |-> IF u \in {t} THEN App ELSE Owners[u]]
    BY <1>1, <1>6, OwnersHandedBack
  <1>8. Lease!TakeIdle(t)
    BY <1>1, <1>3, <1>5, <1>7 DEF Owners, Lease!TakeIdle, Lease!HandBack
  <1> QED BY <1>8 DEF Lease!Next

LEMMA LeaseFinish ==
  ASSUME IInv, IInv', NEW p \in Thread, Return(p)
  PROVE  Lease!Next
  <1>1. /\ cur \in [Thread -> Task \cup {NoTask}] /\ todo \in [Thread -> SUBSET Task]
        /\ finishTasks \in [Thread -> SUBSET Task]
    BY DEF IInv, TypeOK
  <1> DEFINE S == finishTasks[p]
  <1>2. /\ pc[p] = "next" /\ todo[p] = {} /\ inApp' = inApp \cup S
        /\ finishTasks' = [finishTasks EXCEPT ![p] = {}] /\ UNCHANGED <<cur, todo, owed>>
    BY DEF Return, histVars
  <1>3. cur[p] = NoTask /\ S \subseteq Task /\ S \in SUBSET Task
    BY <1>1, <1>2 DEF IInv, Discipline, PlaceOfThread, Driving
  <1>4. Held(p) = S /\ Held(p)' = {}
    BY <1>1, <1>2, <1>3 DEF Held
  <1>5. \A q \in Thread : q # p => Held(q)' = Held(q) /\ Held(q) \cap S = {}
    BY <1>1, <1>2, <1>4 DEF Held, IInv, OneDriver, HeldApart
  <1>6. \A t \in S : Owners[t] = p
    <2> SUFFICES ASSUME NEW t \in S PROVE Owner(t) = p
      BY <1>3 DEF Owners
    <2>1. OneDriver /\ t \in Task /\ t \in Held(p) /\ t \notin inApp
      BY <1>3, <1>4 DEF IInv, OneDriver, HeldOnce
    <2> QED BY <2>1, OwnerOf
  <1> HIDE DEF S
  <1>7. \A q \in Thread : Held(q)' = Held(q) \ S
    BY <1>4, <1>5
  <1>8. PICK R : R = S
    OBVIOUS
  <1>9. Owners' = [t \in Task |-> IF t \in R THEN App ELSE Owners[t]]
    BY <1>2, <1>3, <1>7, <1>8, OwnersHandedBack
  <1>10. Lease!Finish(p, R)
    BY <1>2, <1>6, <1>8, <1>9 DEF Owners, Lease!Finish, Lease!HandBack
  <1> QED BY <1>3, <1>8, <1>10 DEF Lease!Next

\* The driver gives a task up with nothing cached and its round done.
LEMMA LeaseRelease ==
  ASSUME IInv, IInv', EventsInv, NEW p \in Thread, FetchNothing(p)
  PROVE  Lease!Next
  <1>0. PICK t : t = cur[p]
    OBVIOUS
  <1>1. cur \in [Thread -> Task \cup {NoTask}] /\ owed \in [Task -> SUBSET Event]
    BY DEF IInv, TypeOK
  <1>2. /\ pc[p] = "fetch" /\ NoCachedEvents(t) /\ cur' = [cur EXCEPT ![p] = NoTask]
        /\ UNCHANGED <<inApp, owed, todo, finishTasks>>
    BY <1>0 DEF FetchNothing, NothingToDo, EndDrive, histVars
  <1>3. /\ t \in Task /\ t \notin inApp /\ t # NoTask /\ t \in Held(p)
        /\ t \notin todo[p] /\ t \notin finishTasks[p]
        /\ \A q \in Thread : q # p => t \notin Held(q)
    BY <1>0, <1>2, Exclusive DEF Driving, Held
  <1>4. /\ \A q \in Thread : t \notin Held(q)'
        /\ \A u \in Task : u # t => \A q \in Thread : u \in Held(q)' <=> u \in Held(q)
    BY <1>0, <1>1, <1>2, <1>3 DEF Held
  <1>5. OneDriver /\ OneDriver'
    BY DEF IInv
  <1>6. Owner(t) = p /\ Owner(t)' = Board
    BY <1>2, <1>3, <1>4, <1>5, OwnerOf, OwnerOfNext
  <1>7. \A u \in Task : u # t => Owner(u)' = Owner(u)
    <2> SUFFICES ASSUME NEW u \in Task, u # t PROVE Owner(u)' = Owner(u)
      OBVIOUS
    <2> QED BY <1>2, <1>4, <1>5, OwnerOf, OwnerOfNext
  <1>8. Owners[t] = p /\ Owners' = [Owners EXCEPT ![t] = Board]
    BY <1>3, <1>6, <1>7 DEF Owners
  <1>9. owed[t] = {}
    <2>1. owed[t] = Cached(t) \cup InRound(p)
      BY <1>0, <1>3 DEF EventsInv, OwedDriven
    <2>2. BatchDone(p)
      BY <1>2 DEF EventsInv, RoundEnds
    <2> QED BY <1>2, <2>1, <2>2, InOrderEmpty DEF Cached, InRound, NoCachedEvents, BatchDone
  <1>10. Lease!Release(p, t)
    BY <1>2, <1>8, <1>9 DEF Owners, Lease!Release
  <1> QED BY <1>3, <1>10 DEF Lease!Next

LEMMA LeaseDeliver ==
  ASSUME IInv, IInv', EventsInv, NEW p \in Thread, NEW e \in Event, TakesInTurn(p, e)
  PROVE  Lease!Next
  <1>0. PICK t : t = cur[p]
    OBVIOUS
  <1>1. /\ pc[p] = "dispatch" /\ owed' = [owed EXCEPT ![t] = @ \ {e}]
        /\ UNCHANGED <<cur, inApp, todo, finishTasks>> /\ e \in InRound(p)
    BY <1>0 DEF TakesInTurn, Called
  <1>2. t \in Task /\ t \notin inApp /\ t # NoTask /\ t \in Held(p)
    BY <1>0, <1>1, Exclusive DEF Driving, Held
  <1>3. Owners' = Owners
    BY <1>1, OwnersKept DEF Held
  <1>4. Owners[t] = p
    BY <1>2, OwnerOf DEF Owners, IInv
  <1>5. e \in owed[t]
    BY <1>0, <1>1, <1>2 DEF EventsInv, OwedDriven
  <1>6. Lease!Deliver(p, t, e)
    BY <1>1, <1>3, <1>4, <1>5 DEF Owners, Lease!Deliver
  <1> QED BY <1>2, <1>6 DEF Lease!Next

LEMMA LeaseNext ==
  ASSUME IInv, IInv', EventsInv, [Next]_vars
  PROVE  [Lease!Next]_(Lease!vars)
  <1>1. CASE UNCHANGED vars
    <2>1. inApp' = inApp /\ owed' = owed /\ \A q \in Thread : Held(q)' = Held(q)
      BY <1>1 DEF vars, threadVars, histVars, Held
    <2> QED BY <2>1, OwnersKept DEF Owners, Lease!vars
  <1>2. CASE Next
    <2>1. PICK p \in Thread : Request(p, Conn) \/ DriverStep(p)
      BY <1>2 DEF Next
    <2>2. CASE Request(p, Conn)
      <3>1. ASSUME NEW t \in Task, AddTask(p, t) PROVE Lease!Next
        BY <3>1, LeaseActivate DEF Lease!Next
      <3> QED BY <2>2, <3>1, LeasePost, LeasePostClosed, LeaseMark, LeaseTakeIdle,
                 LeaseStutters DEF Request
    <2>3. CASE DriverStep(p)
      <3>1. CASE DispatchEndSend(p) \/ DispatchRecv(p) \/ DispatchFail(p) \/ DispatchClosed(p)
        BY <3>1, DispatchTakes, LeaseDeliver
      <3> QED BY <2>3, <3>1, LeaseStutters, LeaseFinish, LeaseRelease DEF DriverStep
    <2> QED BY <2>1, <2>2, <2>3
  <1> QED BY <1>1, <1>2

\* The board implements the lease, for any threads, tasks and connections: one
\* owner per task, callbacks only from the owner, events only for a task the
\* application gave away, and no release while anything is due.
THEOREM BoardImplementsLease == Spec => LeaseSpec
  <1>1. IInv /\ IInv' /\ EventsInv /\ [Next]_vars => [Lease!Next]_(Lease!vars)
    BY LeaseNext
  <1> QED BY LeaseInit, <1>1, EventsInductive, PTL DEF Spec, LeaseSpec, Lease!Spec
==============================================================================
