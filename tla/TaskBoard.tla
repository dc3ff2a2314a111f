------------------------------ MODULE TaskBoard ------------------------------
(***************************************************************************)
(* CwxTaskBoard (lib/cmn): the registry of asynchronous tasks.  Any thread *)
(* may tell the board that something happened to a task (a message was     *)
(* sent, failed or received, a connection closed, time passed, the task is *)
(* to be removed).  The board caches the event on the task under m_lock;   *)
(* the first thread to find the task unlocked sets m_bLooked and becomes   *)
(* its driver: it runs dispatchEvent, which takes the cached events out    *)
(* under m_lock and calls the task's virtual functions outside of it,      *)
(* until nothing is left or the task is finished.  A finished task is      *)
(* taken off the board and handed back to the thread that drove it.        *)
(*                                                                         *)
(* Every critical section of m_lock is one action, and so is every         *)
(* callback and the unlocked read of isFinish() that ends a round.         *)
(***************************************************************************)
EXTENDS Naturals, Sequences, FiniteSets

CONSTANTS
  Thread,      \* the threads that call the board
  Task,        \* the task objects; each has its own task id
  Conn,        \* connection ids
  NoTask,      \* the null CwxTaskBoardTask*
  App, Board,  \* owners of a task that no thread runs, for TaskLease
  MaxNotices   \* bound on the events accepted in a behaviour

ASSUME NoTaskAssumption == NoTask \notin Task
ASSUME OwnersAssumption == App \notin Thread /\ Board \notin Thread /\ App # Board
ASSUME MaxNoticesAssumption == MaxNotices \in Nat

VARIABLES
  board,         \* m_pTaskMap, and the chain from m_pTaskHead to m_pTaskTail
  connTaskMap,   \* keys of m_connTaskMap: <<conn, task>>
  taskConnSet,   \* m_taskConnSet: <<task, conn>>
  taskState,     \* m_ucTaskState
  bLooked,       \* m_bLooked: some thread drives the task
  waitingRemove, \* m_bWaitingRemove
  bTimeout,      \* m_bTimeout
  failList,      \* m_failSendMsgList
  recvList,      \* m_recvMsgList
  sendCloseList, \* m_sendCloseConnList
  inApp,         \* the tasks that belong to the application, off the board
  pc, call,      \* where each thread is, and in which function of the board
  cur,           \* pTask of the thread's dispatchEvent
  todo,          \* locked tasks the thread has still to dispatch
  finishTasks,   \* finished tasks the call will return
  batch,         \* the lists a round of dispatchEvent took out, and bTimeout
  connState,     \* connStateMap of the round
  serial,        \* events accepted so far
  closed,        \* connections noticeConnClosed has run for
  owed           \* history: events accepted and not yet given to a callback

taskVars   == <<taskState, bLooked, waitingRemove, bTimeout>>
cacheVars  == <<failList, recvList, sendCloseList>>
boardVars  == <<board, connTaskMap, taskConnSet>>
threadVars == <<pc, call, cur, todo, finishTasks, batch, connState>>
histVars   == <<serial, closed, owed>>
vars == <<boardVars, taskVars, cacheVars, threadVars, inApp, histVars>>

TaskStates == {"INIT", "FINISH", "USER"}
Event      == [kind : {"send", "recv", "fail", "closed"}, conn : Conn,
               no : 0 .. MaxNotices]
Batch      == [fail : Seq(Event), recv : Seq(Event), sendClose : Seq(Event),
               timeout : BOOLEAN]
ConnMark   == {"none", "used", "finished", "closed"}
EmptyBatch == [fail |-> <<>>, recv |-> <<>>, sendClose |-> <<>>, timeout |-> FALSE]
NoConns    == [c \in Conn |-> "none"]
Calls      == {"none", "active", "notice", "closed", "timeout"}
Points     == {"idle", "active", "next", "fetch", "dispatch", "remove"}

TypeOK ==
  /\ board \subseteq Task
  /\ connTaskMap \subseteq Conn \X Task
  /\ taskConnSet \subseteq Task \X Conn
  /\ taskState \in [Task -> TaskStates]
  /\ bLooked \in [Task -> BOOLEAN]
  /\ waitingRemove \in [Task -> BOOLEAN]
  /\ bTimeout \in [Task -> BOOLEAN]
  /\ failList \in [Task -> Seq(Event)]
  /\ recvList \in [Task -> Seq(Event)]
  /\ sendCloseList \in [Task -> Seq(Event)]
  /\ inApp \subseteq Task
  /\ pc \in [Thread -> Points]
  /\ call \in [Thread -> Calls]
  /\ cur \in [Thread -> Task \cup {NoTask}]
  /\ todo \in [Thread -> SUBSET Task]
  /\ finishTasks \in [Thread -> SUBSET Task]
  /\ batch \in [Thread -> Batch]
  /\ connState \in [Thread -> [Conn -> ConnMark]]
  /\ serial \in 0 .. MaxNotices
  /\ closed \subseteq Conn
  /\ owed \in [Task -> SUBSET Event]

\* A board after init(), and task objects just built by the application.
Init ==
  /\ board = {} /\ connTaskMap = {} /\ taskConnSet = {}
  /\ taskState = [t \in Task |-> "INIT"]
  /\ bLooked = [t \in Task |-> FALSE]
  /\ waitingRemove = [t \in Task |-> FALSE]
  /\ bTimeout = [t \in Task |-> FALSE]
  /\ failList = [t \in Task |-> <<>>]
  /\ recvList = [t \in Task |-> <<>>]
  /\ sendCloseList = [t \in Task |-> <<>>]
  /\ inApp = Task
  /\ pc = [p \in Thread |-> "idle"]
  /\ call = [p \in Thread |-> "none"]
  /\ cur = [p \in Thread |-> NoTask]
  /\ todo = [p \in Thread |-> {}]
  /\ finishTasks = [p \in Thread |-> {}]
  /\ batch = [p \in Thread |-> EmptyBatch]
  /\ connState = [p \in Thread |-> NoConns]
  /\ serial = 0
  /\ closed = {}
  /\ owed = [t \in Task |-> {}]

-----------------------------------------------------------------------------
(* The task's own predicates, and the board's helpers that run under m_lock. *)

\* CwxTaskBoardTask::isFinish.  A definition followed by _ and a word is the
\* same code with one plausible slip; the runs must tell the two apart.
IsFinish(t) == waitingRemove[t] \/ bTimeout[t] \/ taskState[t] = "FINISH"

NoCachedEvents(t) ==
  failList[t] = <<>> /\ recvList[t] = <<>> /\ sendCloseList[t] = <<>>

\* What dispatchEvent requires before it gives a task up.
NothingToDo_ignoresEvents(t) == ~IsFinish(t)
NothingToDo_ignoresMarks(t) == NoCachedEvents(t)
NothingToDo(t) == ~IsFinish(t) /\ NoCachedEvents(t)

\* _remove: out of the map, the chain and both connection indexes; the entries
\* of m_connTaskMap are found through m_taskConnSet.
Detached_keepsConns(map, set, t) ==
  [map |-> map, set |-> IF t \in board THEN {x \in set : x[1] # t} ELSE set]
Detached(map, set, t) ==
  IF t \notin board THEN [map |-> map, set |-> set]
  ELSE [map |-> {x \in map : x[2] # t \/ <<t, x[1]>> \notin set},
        set |-> {x \in set : x[1] # t}]

Unlink(t) ==
  /\ board' = board \ {t}
  /\ connTaskMap' = Detached(connTaskMap, taskConnSet, t).map
  /\ taskConnSet' = Detached(connTaskMap, taskConnSet, t).set

\* What connStateMap of the last round does to the indexes.
Applied(p, t) ==
  LET marked(m) == {c \in Conn : connState[p][c] \in m}
      added     == marked({"used"})
      dropped   == marked({"finished", "closed"})
  IN  [map |-> (connTaskMap \cup {<<c, t>> : c \in added})
                 \ {<<c, t>> : c \in dropped},
       set |-> (taskConnSet \cup {<<t, c>> : c \in added})
                 \ {<<t, c>> : c \in dropped}]

\* The thread starts, or goes on, to dispatch the events of t.
Drive(p, f, t) ==
  /\ call' = [call EXCEPT ![p] = f]
  /\ cur' = [cur EXCEPT ![p] = t]
  /\ pc' = [pc EXCEPT ![p] = "fetch"]

\* dispatchEvent returns; "next" goes on with the caller's list.
EndDrive(p) ==
  /\ cur' = [cur EXCEPT ![p] = NoTask]
  /\ pc' = [pc EXCEPT ![p] = "next"]
  /\ batch' = [batch EXCEPT ![p] = EmptyBatch]
  /\ connState' = [connState EXCEPT ![p] = NoConns]

-----------------------------------------------------------------------------
(* noticeActiveTask: _addTask under the lock, the noticeActive callback,     *)
(* then dispatchEvent, or removal when the callback fails.                   *)

AddTask(p, t) ==
  /\ pc[p] = "idle" /\ t \in inApp
  /\ t \notin board                                    \* _isExist
  /\ board' = board \cup {t}
  /\ waitingRemove' = [waitingRemove EXCEPT ![t] = FALSE]   \* clearBase
  /\ bTimeout' = [bTimeout EXCEPT ![t] = FALSE]
  /\ failList' = [failList EXCEPT ![t] = <<>>]
  /\ recvList' = [recvList EXCEPT ![t] = <<>>]
  /\ sendCloseList' = [sendCloseList EXCEPT ![t] = <<>>]
  /\ bLooked' = [bLooked EXCEPT ![t] = TRUE]
  /\ inApp' = inApp \ {t}
  /\ call' = [call EXCEPT ![p] = "active"]
  /\ cur' = [cur EXCEPT ![p] = t]
  /\ pc' = [pc EXCEPT ![p] = "active"]
  /\ owed' = [owed EXCEPT ![t] = {}]
  /\ UNCHANGED <<connTaskMap, taskConnSet, taskState, todo, finishTasks, batch,
                 connState, serial, closed>>

\* The callback succeeds and leaves the task in a state of its choice.
ActiveOk(p) ==
  /\ pc[p] = "active"
  /\ \E s \in {"USER", "FINISH"} : taskState' = [taskState EXCEPT ![cur[p]] = s]
  /\ pc' = [pc EXCEPT ![p] = "fetch"]
  /\ UNCHANGED <<boardVars, bLooked, waitingRemove, bTimeout, cacheVars, call, cur,
                 todo, finishTasks, batch, connState, inApp, histVars>>

\* The callback returns -1: the task is finished and taken off the board.
ActiveFail(p) ==
  /\ pc[p] = "active"
  /\ taskState' = [taskState EXCEPT ![cur[p]] = "FINISH"]
  /\ Unlink(cur[p])
  /\ finishTasks' = [finishTasks EXCEPT ![p] = @ \cup {cur[p]}]
  /\ EndDrive(p)
  /\ UNCHANGED <<bLooked, waitingRemove, bTimeout, cacheVars, call, todo, inApp,
                 histVars>>

-----------------------------------------------------------------------------
(* noticeRecvMsg, noticeFailSendMsg, noticeEndSendMsg.  A task that is not   *)
(* on the board is refused (-1) and nothing changes.                         *)

\* The locked section after the event is queued: lock an unlocked task.
LockOrLeave_always(p, t) ==
  bLooked' = [bLooked EXCEPT ![t] = TRUE] /\ Drive(p, "notice", t)
LockOrLeave_never(p, t) == UNCHANGED <<bLooked, call, cur, pc>>
LockOrLeave(p, t) ==
  /\ bLooked' = [bLooked EXCEPT ![t] = TRUE]
  /\ IF bLooked[t] THEN UNCHANGED <<call, cur, pc>> ELSE Drive(p, "notice", t)

EventOf(k, c) == [kind |-> k, conn |-> c, no |-> serial]

Accept(p, t, e) ==
  /\ pc[p] = "idle" /\ t \in board
  /\ serial < MaxNotices
  /\ serial' = serial + 1
  /\ owed' = [owed EXCEPT ![t] = @ \cup {e}]
  /\ LockOrLeave(p, t)
  /\ UNCHANGED <<boardVars, taskState, waitingRemove, bTimeout, todo, finishTasks,
                 batch, connState, inApp, closed>>

NoticeRecvMsg(p, t, c) ==
  /\ Accept(p, t, EventOf("recv", c))
  /\ recvList' = [recvList EXCEPT ![t] = Append(@, EventOf("recv", c))]
  /\ UNCHANGED <<failList, sendCloseList>>

NoticeFailSendMsg(p, t, c) ==
  /\ Accept(p, t, EventOf("fail", c))
  /\ failList' = [failList EXCEPT ![t] = Append(@, EventOf("fail", c))]
  /\ UNCHANGED <<recvList, sendCloseList>>

NoticeEndSendMsg(p, t, c) ==
  /\ Accept(p, t, EventOf("send", c))
  /\ sendCloseList' = [sendCloseList EXCEPT ![t] = Append(@, EventOf("send", c))]
  /\ UNCHANGED <<failList, recvList>>

\* noticeConnClosed: the close is cached on every task associated with the
\* connection, and the unlocked ones are locked for this thread.
NoticeConnClosed(p, c) ==
  LET told == {t \in Task : <<c, t>> \in connTaskMap}
  IN  /\ pc[p] = "idle"
      /\ serial < MaxNotices
      /\ serial' = serial + 1
      /\ closed' = closed \cup {c}
      /\ owed' = [t \in Task |-> IF t \in told THEN owed[t] \cup {EventOf("closed", c)}
                                              ELSE owed[t]]
      /\ sendCloseList' = [t \in Task |->
                             IF t \in told THEN Append(sendCloseList[t], EventOf("closed", c))
                                           ELSE sendCloseList[t]]
      /\ bLooked' = [t \in Task |-> bLooked[t] \/ t \in told]
      /\ todo' = [todo EXCEPT ![p] = {t \in told : ~bLooked[t]}]
      /\ call' = [call EXCEPT ![p] = "closed"]
      /\ pc' = [pc EXCEPT ![p] = "next"]
      /\ UNCHANGED <<boardVars, taskState, waitingRemove, bTimeout, failList, recvList,
                     cur, finishTasks, batch, connState, inApp>>

\* noticeCheckTimeout: checkTimeout runs on every task of the chain, also on
\* the locked ones; due are those whose deadline has passed.
NoticeCheckTimeout(p) ==
  /\ pc[p] = "idle"
  /\ \E due \in SUBSET board :
    LET late == due \cup {t \in board : bTimeout[t]}
    IN
       /\ bTimeout' = [t \in Task |-> bTimeout[t] \/ t \in late]
       /\ taskState' = [t \in Task |-> IF t \in late THEN "FINISH" ELSE taskState[t]]
       /\ bLooked' = [t \in Task |-> bLooked[t] \/ t \in late]
       /\ todo' = [todo EXCEPT ![p] = {t \in late : ~bLooked[t]}]
  /\ call' = [call EXCEPT ![p] = "timeout"]
  /\ pc' = [pc EXCEPT ![p] = "next"]
  /\ UNCHANGED <<boardVars, waitingRemove, cacheVars, cur, finishTasks, batch,
                 connState, inApp, histVars>>

\* remove: a locked task is only marked, an unlocked one is returned at once.
Remove(p, t) ==
  /\ pc[p] = "idle" /\ t \in board
  /\ waitingRemove' = [waitingRemove EXCEPT ![t] = TRUE]
  /\ \/ /\ bLooked[t]
        /\ UNCHANGED <<boardVars, bLooked, inApp>>
     \/ /\ ~bLooked[t]
        /\ Unlink(t)
        /\ bLooked' = [bLooked EXCEPT ![t] = TRUE]
        /\ inApp' = inApp \cup {t}
  /\ UNCHANGED <<taskState, bTimeout, cacheVars, threadVars, histVars>>

\* The loop over the locked tasks of noticeConnClosed and noticeCheckTimeout,
\* and the return of every call: finished tasks go back to the application.
NextTask(p) ==
  /\ pc[p] = "next"
  /\ \E t \in todo[p] :
       /\ todo' = [todo EXCEPT ![p] = @ \ {t}]
       /\ Drive(p, call[p], t)
  /\ UNCHANGED <<boardVars, taskVars, cacheVars, finishTasks, batch, connState, inApp,
                 histVars>>

Return(p) ==
  /\ pc[p] = "next" /\ todo[p] = {}
  /\ inApp' = inApp \cup finishTasks[p]
  /\ finishTasks' = [finishTasks EXCEPT ![p] = {}]
  /\ call' = [call EXCEPT ![p] = "none"]
  /\ pc' = [pc EXCEPT ![p] = "idle"]
  /\ UNCHANGED <<boardVars, taskVars, cacheVars, cur, todo, batch, connState, histVars>>

-----------------------------------------------------------------------------
(* dispatchEvent.                                                            *)

\* Top of the loop, under m_lock, with nothing to do: give the task up.
FetchNothing(p) ==
  LET t == cur[p] IN
  /\ pc[p] = "fetch"
  /\ NothingToDo(t)
  /\ connTaskMap' = Applied(p, t).map
  /\ taskConnSet' = Applied(p, t).set
  /\ bLooked' = [bLooked EXCEPT ![t] = FALSE]
  /\ EndDrive(p)
  /\ UNCHANGED <<board, taskState, waitingRemove, bTimeout, cacheVars, call, todo,
                 finishTasks, inApp, histVars>>

\* fetchWaitingMsg: the cached lists move to the round.
TakeEvents_keepsRecv(t) ==
  /\ failList' = [failList EXCEPT ![t] = <<>>]
  /\ sendCloseList' = [sendCloseList EXCEPT ![t] = <<>>]
  /\ UNCHANGED recvList
TakeEvents(t) ==
  /\ failList' = [failList EXCEPT ![t] = <<>>]
  /\ recvList' = [recvList EXCEPT ![t] = <<>>]
  /\ sendCloseList' = [sendCloseList EXCEPT ![t] = <<>>]

\* Top of the loop with events or a finished task: take the lists out, and
\* take a finished task off the board before its last callbacks run.
FetchEvents(p) ==
  LET t == cur[p]
      a == Applied(p, t)
  IN  /\ pc[p] = "fetch"
      /\ ~NothingToDo(t)
      /\ batch' = [batch EXCEPT ![p] = [fail |-> failList[t], recv |-> recvList[t],
                                        sendClose |-> sendCloseList[t],
                                        timeout |-> bTimeout[t]]]
      /\ TakeEvents(t)
      /\ connState' = [connState EXCEPT ![p] = NoConns]
      /\ IF IsFinish(t)
         THEN /\ board' = board \ {t}
              /\ connTaskMap' = Detached(a.map, a.set, t).map
              /\ taskConnSet' = Detached(a.map, a.set, t).set
         ELSE /\ connTaskMap' = a.map
              /\ taskConnSet' = a.set
              /\ UNCHANGED board
      /\ pc' = [pc EXCEPT ![p] = "dispatch"]
      /\ UNCHANGED <<taskVars, call, cur, todo, finishTasks, inApp, histVars>>

\* What a callback does to the state of its task: it may finish it, or move it
\* on to another user state.  A task does not revive itself, but its write can
\* undo the FINISH that checkTimeout set meanwhile.
SetTaskState(t) ==
  \/ UNCHANGED taskState
  \/ taskState' = [taskState EXCEPT ![t] = "FINISH"]
  \/ /\ taskState[t] # "FINISH" \/ bTimeout[t]
     /\ taskState' = [taskState EXCEPT ![t] = "USER"]

\* One callback on the driven task: it takes event e away from those owed.
Called(p, e) ==
  /\ owed' = [owed EXCEPT ![cur[p]] = @ \ {e}]
  /\ SetTaskState(cur[p])
  /\ UNCHANGED <<boardVars, bLooked, waitingRemove, bTimeout, cacheVars, pc, call, cur,
                 todo, finishTasks, inApp, serial, closed>>

Mark(p, c, m) == connState' = [connState EXCEPT ![p][c] = m]

IsSend(e) == e.kind = "send"
Sends(s)  == {i \in DOMAIN s : IsSend(s[i])}
Without(s, i) == [j \in 1 .. Len(s) - 1 |-> IF j < i THEN s[j] ELSE s[j + 1]]

\* noticeEndSendMsg callbacks come first; bConnAppendMsg says whether the task
\* waits for a reply on the connection.
DispatchEndSend(p) ==
  LET s == batch[p].sendClose
  IN  /\ pc[p] = "dispatch"
      /\ \E i \in Sends(s) :
           /\ \A j \in Sends(s) : i <= j
           /\ \E m \in {"used", "finished"} : Mark(p, s[i].conn, m)
           /\ batch' = [batch EXCEPT ![p].sendClose = Without(s, i)]
           /\ Called(p, s[i])

DispatchRecv_unordered(p) ==
  LET s == batch[p].recv
  IN  /\ pc[p] = "dispatch" /\ s # <<>>
      /\ \E m \in {"used", "finished"} : Mark(p, Head(s).conn, m)
      /\ batch' = [batch EXCEPT ![p].recv = Tail(s)]
      /\ Called(p, Head(s))
DispatchRecv(p) ==
  LET s == batch[p].recv
  IN  /\ pc[p] = "dispatch" /\ Sends(batch[p].sendClose) = {} /\ s # <<>>
      /\ \E m \in {"used", "finished"} : Mark(p, Head(s).conn, m)
      /\ batch' = [batch EXCEPT ![p].recv = Tail(s)]
      /\ Called(p, Head(s))

DispatchFail(p) ==
  LET s == batch[p].fail
  IN  /\ pc[p] = "dispatch" /\ Sends(batch[p].sendClose) = {}
      /\ batch[p].recv = <<>> /\ s # <<>>
      /\ batch' = [batch EXCEPT ![p].fail = Tail(s)]
      /\ Called(p, Head(s))
      /\ UNCHANGED connState

DispatchClosed(p) ==
  LET s == batch[p].sendClose
  IN  /\ pc[p] = "dispatch" /\ Sends(s) = {} /\ s # <<>>
      /\ batch[p].recv = <<>> /\ batch[p].fail = <<>>
      /\ Mark(p, Head(s).conn, "closed")
      /\ batch' = [batch EXCEPT ![p].sendClose = Tail(s)]
      /\ Called(p, Head(s))

BatchDone(p) ==
  batch[p].sendClose = <<>> /\ batch[p].recv = <<>> /\ batch[p].fail = <<>>

DispatchTimeout(p) ==
  /\ pc[p] = "dispatch" /\ BatchDone(p) /\ batch[p].timeout
  /\ batch' = [batch EXCEPT ![p].timeout = FALSE]
  /\ SetTaskState(cur[p])
  /\ UNCHANGED <<boardVars, bLooked, waitingRemove, bTimeout, cacheVars, pc, call, cur,
                 todo, finishTasks, connState, inApp, serial, closed, owed>>

\* After the callbacks, isFinish() is read without the lock.
CheckFinish(p) ==
  /\ pc[p] = "dispatch" /\ BatchDone(p) /\ ~batch[p].timeout
  /\ pc' = [pc EXCEPT ![p] = IF IsFinish(cur[p]) THEN "remove" ELSE "fetch"]
  /\ UNCHANGED <<boardVars, taskVars, cacheVars, call, cur, todo, finishTasks, batch,
                 connState, inApp, histVars>>

\* _remove under the lock, whether or not the round began with one; FINISH.
FinishRemove(p) ==
  /\ pc[p] = "remove"
  /\ Unlink(cur[p])
  /\ finishTasks' = [finishTasks EXCEPT ![p] = @ \cup {cur[p]}]
  /\ EndDrive(p)
  /\ UNCHANGED <<taskVars, cacheVars, call, todo, inApp, histVars>>

-----------------------------------------------------------------------------
DriverStep(p) ==
  \/ ActiveOk(p) \/ ActiveFail(p)
  \/ NextTask(p) \/ Return(p)
  \/ FetchNothing(p) \/ FetchEvents(p)
  \/ DispatchEndSend(p) \/ DispatchRecv(p) \/ DispatchFail(p)
  \/ DispatchClosed(p) \/ DispatchTimeout(p)
  \/ CheckFinish(p) \/ FinishRemove(p)

\* The calls a thread may make; sends, receives and closes name a connection of C.
Request(p, C) ==
  \/ \E t \in Task : AddTask(p, t) \/ Remove(p, t)
  \/ \E t \in Task, c \in C : NoticeRecvMsg(p, t, c) \/ NoticeEndSendMsg(p, t, c)
  \/ \E t \in Task, c \in Conn : NoticeFailSendMsg(p, t, c)
  \/ \E c \in C : NoticeConnClosed(p, c)
  \/ NoticeCheckTimeout(p)

Next == \E p \in Thread : Request(p, Conn) \/ DriverStep(p)

Spec == Init /\ [][Next]_vars

\* A driver that can run does run: the board's threads are never parked for
\* good and the callbacks return.
FairSpec == Spec /\ \A p \in Thread : WF_vars(DriverStep(p))

\* The callers that report what a connection did in the order it did it: its close
\* is reported once, and no message is sent or received on it afterwards.
OrderedNext == \E p \in Thread : Request(p, Conn \ closed) \/ DriverStep(p)
OrderedSpec == Init /\ [][OrderedNext]_vars
-----------------------------------------------------------------------------
(* Properties.                                                               *)

\* The tasks a thread is responsible for: the one it drives, those it locked
\* and has not reached yet, and the finished ones its call has yet to return.
Held(p) == todo[p] \cup finishTasks[p] \cup ({cur[p]} \ {NoTask})

\* m_bLooked is an exclusive lease: a task is held by at most one thread, by
\* none while the application owns it, and by one exactly when a task that is
\* not the application's is marked locked.  Two drivers of one task, or a task
\* handed back twice (and deleted twice), would break it.
HeldApart == \A p, q \in Thread : p # q => Held(p) \cap Held(q) = {}
HeldOnce  == \A p \in Thread : /\ Held(p) \cap inApp = {}
                               /\ todo[p] \cap finishTasks[p] = {}
                               /\ cur[p] \notin todo[p] \cup finishTasks[p]
LockIsHeld == \A t \in Task \ inApp : bLooked[t] <=> \E p \in Thread : t \in Held(p)
OneDriver == HeldApart /\ HeldOnce /\ LockIsHeld

\* The refinement: a task's owner is the application, the thread that holds it,
\* or else the board.
Owner(t) == IF t \in inApp THEN App
            ELSE IF \E p \in Thread : t \in Held(p)
                 THEN CHOOSE p \in Thread : t \in Held(p)
                 ELSE Board
Lease == INSTANCE TaskLease WITH Event <- Event, owner <- [t \in Task |-> Owner(t)],
                                 due <- owed

\* The board implements the lease: see TaskLease for what that promises.
LeaseSpec == Lease!Spec

\* No event and no request to finish is left on a task nobody drives: the
\* check "no event, not finished" and the release of the lock are one step, and
\* every caller that queues looks at the lock in the same step.
NoStrandedWork ==
  \A t \in board : ~bLooked[t] => NoCachedEvents(t) /\ ~IsFinish(t)

\* The two connection indexes are mirror images and name only tasks on the
\* board, so a task handed back to the application (and then deleted) can never
\* be reached through m_connTaskMap when a connection closes.
IndexesMirror ==
  /\ \A c \in Conn, t \in Task : <<c, t>> \in connTaskMap <=> <<t, c>> \in taskConnSet
  /\ \A c \in Conn, t \in Task : <<c, t>> \in connTaskMap => t \in board
  /\ board \cap inApp = {}

\* noticeCheckTimeout asserts that every task it dispatches comes back FINISH,
\* whatever the callbacks and the other threads do to its state.
SweepFinishes ==
  \A p \in Thread : pc[p] = "fetch" /\ call[p] = "timeout" => IsFinish(cur[p])

\* What a driver relies on between its critical sections: tasks it locked stay
\* on the board until it takes them off; it returns to the top of the loop only
\* with a task that is still on the board; a task it took off is finished and
\* stays finished, whatever its callbacks and the sweep write to its state.
Driving == {"active", "fetch", "dispatch", "remove"}
TodoOnBoard == \A p \in Thread : todo[p] \subseteq board
PlaceOfThread ==
  \A p \in Thread : /\ pc[p] = "idle" => todo[p] = {} /\ finishTasks[p] = {}
                    /\ cur[p] \in Task <=> pc[p] \in Driving
DrivenTask ==
  \A p \in Thread : /\ pc[p] \in {"active", "fetch"} => cur[p] \in board
                    /\ pc[p] = "dispatch" /\ cur[p] \notin board => IsFinish(cur[p])
                    /\ pc[p] = "remove" => IsFinish(cur[p])
FinishedTask == \A p \in Thread : \A t \in finishTasks[p] : t \notin board /\ IsFinish(t)
SweptTask    == \A p \in Thread : call[p] = "timeout" =>
                   \A t \in todo[p] \cup ({cur[p]} \ {NoTask}) : bTimeout[t]
IdleOnBoard  == \A t \in Task \ inApp : ~bLooked[t] => t \in board
Discipline   == /\ TodoOnBoard /\ PlaceOfThread /\ DrivenTask
                /\ FinishedTask /\ SweptTask /\ IdleOnBoard

\* What the board took over and has not given to the task is in exactly one of
\* its lists or in its driver's round: nothing is lost, nothing is kept twice.
EventsIn(s) == {s[i] : i \in DOMAIN s}
Cached(t)   == EventsIn(failList[t]) \cup EventsIn(recvList[t]) \cup EventsIn(sendCloseList[t])
InRound(p)  == EventsIn(batch[p].fail) \cup EventsIn(batch[p].recv)
                 \cup EventsIn(batch[p].sendClose)
OwedIsQueued ==
  \A t \in Task \ inApp :
    /\ owed[t] = Cached(t) \cup UNION {InRound(p) : p \in {q \in Thread : cur[q] = t}}
    /\ \A p \in Thread : cur[p] = t => Cached(t) \cap InRound(p) = {}

\* A finished task is what the application gets back: the return value 1 of the
\* board's functions says so.
HandsBackFinished == [][\A t \in inApp' \ inApp : IsFinish(t)']_vars

\* Callbacks follow the order in which the events were accepted, as far as one
\* round of dispatchEvent orders the kinds: an earlier event of the same kind,
\* or of a kind that is called before, has had its callback.
CallRank == [send |-> 1, recv |-> 2, fail |-> 3, closed |-> 4]
CallbackOrder ==
  [][\A t \in Task \ inApp : \A e \in owed[t] \ owed'[t], f \in owed'[t] :
        f.no < e.no => CallRank[f.kind] > CallRank[e.kind]]_vars

\* Every accepted event reaches its callback, unless the task is over.
EventuallyCalled ==
  \A t \in Task, n \in 0 .. MaxNotices - 1 :
    (\E e \in owed[t] : e.no = n) ~> (t \in inApp \/ ~\E e \in owed[t] : e.no = n)

\* A task that timed out or was marked by remove() leaves the board and is
\* given back, even when the mark came while another thread was driving it.
MarkedLeaves ==
  \A t \in Task : (t \in board /\ (waitingRemove[t] \/ bTimeout[t])) ~> (t \in inApp)

\* "noticeConnClosed: tells the task that a connection it waits for a reply on
\* was closed": a task at rest waits on no connection whose close was reported.
CloseReachesWaiter ==
  \A c \in closed, t \in board : ~bLooked[t] => <<c, t>> \notin connTaskMap
==============================================================================
