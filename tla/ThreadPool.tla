----------------------------- MODULE ThreadPool -----------------------------
(***************************************************************************)
(* CwxThreadPool (lib/cmn): N worker threads around one CwxMsgQueue.       *)
(* start() creates the threads one after the other and stop() deactivates  *)
(* the queue, joins them in the same order and flushes what is left, each  *)
(* with m_lock held from beginning to end.  A worker is CwxThread's        *)
(* threadMain: pop a message, dispatch it, pop the next, until pop fails.  *)
(* The queue is MsgQueue; its calls carry no time limit here.              *)
(***************************************************************************)
EXTENDS Naturals, Sequences

CONSTANTS
  N,           \* getThreadNum()
  Producer,    \* other threads that append messages
  Controller,  \* threads that call start() and stop()
  Chained,     \* workers whose handlers append to their own pool
  MayFail,     \* whether creating a thread may fail
  Msg, NoMsg, Length, Ends, Hwm   \* as in MsgQueue

Worker == 0 .. N - 1

ASSUME PoolAssumption ==
  /\ N \in Nat \ {0}
  /\ Producer \cap Worker = {}
  /\ Chained \subseteq Worker
  /\ MayFail \in BOOLEAN
  /\ NoMsg \notin Msg

VARIABLES
  queue, curLength, curCount, state, highWaterMark, pc, pending, \* of MsgQueue
  threadArr,  \* m_threadArr: what is in each slot
  life,       \* each worker's thread: not created, running or finished
  held,       \* the message a worker dispatches
  ctl, index  \* what a controller does with m_lock held, and at which slot

Q == INSTANCE MsgQueue WITH Thread <- Worker \cup Producer, Lwm <- Hwm, NewHwms <- {}

poolVars == <<threadArr, life, held, ctl, index>>
mqVars   == <<queue, curLength, curCount, state, highWaterMark, pc, pending>>
vars     == <<mqVars, poolVars>>

\* "none": m_threadArr is NULL; "garbage": new[] left the slot uninitialised;
\* "failed": a CwxThread whose m_tid no spawn has set.
Slots == {"none", "garbage", "failed", "started"}

TypeOK ==
  /\ Q!TypeOK
  /\ threadArr \in [Worker -> Slots]
  /\ life \in [Worker -> {"none", "running", "done"}]
  /\ held \in [Worker -> Msg \cup {NoMsg}]
  /\ ctl \in [Controller -> {"idle", "starting", "joining", "flush"}]
  /\ index \in [Controller -> Worker]

Init ==
  /\ Q!Init
  /\ threadArr = [w \in Worker |-> "none"]
  /\ life = [w \in Worker |-> "none"]
  /\ held = [w \in Worker |-> NoMsg]
  /\ ctl = [c \in Controller |-> "idle"]
  /\ index = [c \in Controller |-> 0]

-----------------------------------------------------------------------------
(* start() and stop().                                                       *)

Unlocked  == \A c \in Controller : ctl[c] = "idle"
NoThreads == \A w \in Worker : threadArr[w] = "none"

Goto(c, phase, i) == /\ ctl' = [ctl EXCEPT ![c] = phase]
                     /\ index' = [index EXCEPT ![c] = i]

\* _stop, up to the first join: only the call that finds the queue active
\* joins the threads, every call flushes the queue.
EnterStop_keepsActive(c) ==
  /\ Goto(c, IF NoThreads \/ state # "ACTIVATED" THEN "flush" ELSE "joining", 0)
  /\ UNCHANGED mqVars
EnterStop(c) ==
  \/ Q!Deactivate /\ Goto(c, IF NoThreads THEN "flush" ELSE "joining", 0)
  \/ /\ state = "DEACTIVATED"
     /\ Goto(c, "flush", 0)
     /\ UNCHANGED mqVars

Start(c) ==
  /\ Unlocked /\ NoThreads
  /\ threadArr' = [w \in Worker |-> "garbage"]
  /\ Goto(c, "starting", 0)
  /\ UNCHANGED <<mqVars, life, held>>

\* One turn of start's loop; the last one returns 0.
Spawn(c) ==
  LET w == index[c] IN
  /\ ctl[c] = "starting"
  /\ threadArr' = [threadArr EXCEPT ![w] = "started"]
  /\ life' = [life EXCEPT ![w] = "running"]
  /\ IF w + 1 < N THEN Goto(c, "starting", w + 1) ELSE Goto(c, "idle", 0)
  /\ UNCHANGED <<mqVars, held>>

SpawnFails(c) ==
  /\ MayFail /\ ctl[c] = "starting"
  /\ threadArr' = [threadArr EXCEPT ![index[c]] = "failed"]
  /\ EnterStop(c)
  /\ UNCHANGED <<life, held>>

Stop(c) ==
  /\ Unlocked
  /\ EnterStop(c)
  /\ UNCHANGED <<threadArr, life, held>>

\* One turn of _stop's loop.  A started thread is waited for; joining what a
\* failed start left in the other slots is undefined: the process ends here,
\* or the loop goes on.
Joined_noWait(w) == TRUE
Joined(w) == threadArr[w] = "started" => life[w] = "done"

Join(c) ==
  /\ ctl[c] = "joining"
  /\ Joined(index[c])
  /\ IF index[c] + 1 < N THEN Goto(c, "joining", index[c] + 1) ELSE Goto(c, "flush", 0)
  /\ UNCHANGED <<mqVars, threadArr, life, held>>

FlushAndReturn(c) ==
  /\ ctl[c] = "flush"
  /\ Q!Flush
  /\ Goto(c, "idle", 0)
  /\ UNCHANGED <<threadArr, life, held>>

-----------------------------------------------------------------------------
(* threadMain.                                                               *)

Popping(w) == life[w] = "running" /\ held[w] = NoMsg

WorkerTakes(w) ==
  /\ Popping(w)
  /\ Q!Take(w)
  /\ held' = [held EXCEPT ![w] = Head(queue)]
  /\ UNCHANGED <<threadArr, life, ctl, index>>

WorkerSleeps(w) == Popping(w) /\ Q!SleepEmpty(w) /\ UNCHANGED poolVars

WorkerExits(w) ==
  /\ Popping(w)
  /\ Q!RefuseDequeue(w)
  /\ life' = [life EXCEPT ![w] = "done"]
  /\ UNCHANGED <<threadArr, held, ctl, index>>

\* The handler returns and the message is freed.
Handled(w) ==
  /\ held[w] # NoMsg /\ pc[w] = "idle"
  /\ held' = [held EXCEPT ![w] = NoMsg]
  /\ UNCHANGED <<mqVars, threadArr, life, ctl, index>>

-----------------------------------------------------------------------------
(* append and appendHead, by other threads and by chained handlers.          *)

MayAppend(p) == p \in Producer \/ (p \in Chained /\ held[p] # NoMsg)

Appends(p) ==
  /\ MayAppend(p)
  /\ \E r \in Q!Requests :
       /\ r.msg # NoMsg /\ \A w \in Worker : held[w] # r.msg
       /\ Q!RefuseEnqueue(p, r) \/ Q!SleepFull(p, r) \/ Q!Put(p, r)
  /\ UNCHANGED poolVars

Spurious(p) == Q!Spurious(p) /\ UNCHANGED poolVars

WorkerStep(w) == WorkerTakes(w) \/ WorkerSleeps(w) \/ WorkerExits(w) \/ Handled(w)
ControllerStep(c) == Spawn(c) \/ SpawnFails(c) \/ Join(c) \/ FlushAndReturn(c)

Next ==
  \/ \E c \in Controller : Start(c) \/ Stop(c) \/ ControllerStep(c)
  \/ \E w \in Worker : WorkerStep(w)
  \/ \E p \in Worker \cup Producer : Appends(p) \/ Spurious(p)

Spec == Init /\ [][Next]_vars

\* Running threads run, handlers return, and a thread in start() or stop()
\* goes on.  Nothing is assumed of appends, spurious wake-ups and the decision
\* to start or stop.
Fairness == /\ \A w \in Worker : WF_vars(WorkerStep(w))
            /\ \A p \in Worker \cup Producer : WF_vars(pc[p] = "wokenFull" /\ Appends(p))
            /\ \A c \in Controller : WF_vars(ControllerStep(c))
FairSpec == Spec /\ Fairness

-----------------------------------------------------------------------------
(* Properties.                                                               *)

\* signal() is only called for the first message on an empty queue, and it is
\* enough: while messages are queued some running worker is not asleep for one.
SomeoneAwake ==
  queue # <<>> /\ state = "ACTIVATED" /\ (\E w \in Worker : life[w] = "running")
    => \E w \in Worker : life[w] = "running" /\ pc[w] # "empty"

\* When stop() has returned no handler runs, none will, and nothing is queued:
\* what the handlers use may be destroyed.
StoppedIsQuiet ==
  state = "DEACTIVATED" /\ Unlocked
    => queue = <<>> /\ \A w \in Worker : held[w] = NoMsg

\* Once the pool is started a queued message is dispatched or flushed, however
\* many are appended: true when all go to the tail, appendHead can starve what
\* is behind it, and handlers that append can block every worker on a full queue.
Queued(m) == \E i \in DOMAIN queue : queue[i] = m
HandlerBlocked == \E w \in Worker : pc[w] = "full"
AppendedIsHandled == \A m \in Msg : Queued(m) /\ ~NoThreads ~> ~Queued(m) \/ HandlerBlocked

\* stop() ends: every worker leaves its wait, and every blocked append of a
\* handler is released, so that the joins do not wait for ever.
StopEnds == \A c \in Controller : ctl[c] \in {"joining", "flush"} ~> ctl[c] = "idle"
==============================================================================
