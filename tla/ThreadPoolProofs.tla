-------------------------- MODULE ThreadPoolProofs --------------------------
(***************************************************************************)
(* Proofs about ThreadPool, for any number of workers, producers and       *)
(* controllers and any messages: queued messages keep a worker awake, and  *)
(* a stopped pool is quiet.                                                *)
(***************************************************************************)
EXTENDS ThreadPool, TLAPS

Threads == Worker \cup Producer

ShapeOK ==
  /\ queue \in Seq(Msg)
  /\ state \in {"ACTIVATED", "DEACTIVATED"}
  /\ pc \in [Threads -> Q!Places]
  /\ threadArr \in [Worker -> Slots]
  /\ life \in [Worker -> {"none", "running", "done"}]
  /\ held \in [Worker -> Msg \cup {NoMsg}]
  /\ ctl \in [Controller -> {"idle", "starting", "joining", "flush"}]
  /\ index \in [Controller -> Worker]

CountIsLength == curCount = Len(queue)

\* A worker waits for messages only while it runs and dispatches none, and for
\* room only while its handler appends; a producer never waits for messages.
Roles ==
  /\ \A w \in Worker :
       /\ held[w] # NoMsg => life[w] = "running"
       /\ pc[w] \in {"empty", "wokenEmpty"} => life[w] = "running" /\ held[w] = NoMsg
       /\ pc[w] \in {"full", "wokenFull"} => held[w] # NoMsg
  /\ \A p \in Producer : pc[p] \notin {"empty", "wokenEmpty"}

\* m_lock, and what start and _stop know of the slots they went through.
Control ==
  /\ \A c, d \in Controller : ctl[c] # "idle" /\ ctl[d] # "idle" => c = d
  /\ \A w \in Worker : life[w] # "none" => threadArr[w] = "started"
  /\ \A c \in Controller : ctl[c] = "starting" =>
       \A w \in Worker : w >= index[c] => life[w] = "none"
  /\ \A c \in Controller : ctl[c] = "joining" =>
       /\ state = "DEACTIVATED"
       /\ \A w \in Worker : w < index[c] => life[w] # "running"

\* After the joins of the stop that deactivated the queue no message is held,
\* after its flush none is queued; a closed queue accepts none later.
Quiet ==
  state = "DEACTIVATED" =>
    /\ (\A c \in Controller : ctl[c] # "joining") => \A w \in Worker : held[w] = NoMsg
    /\ (\A c \in Controller : ctl[c] \notin {"joining", "flush"}) => queue = <<>>

IInv == ShapeOK /\ CountIsLength /\ Roles /\ SomeoneAwake /\ Control /\ Quiet

-----------------------------------------------------------------------------
(* What the steps do to the places of the threads.                           *)

\* Signal and return: the caller is in no call, a sleeper may be woken.
LEMMA Signalled ==
  ASSUME ShapeOK, NEW p \in Threads, NEW cond \in {"full", "empty"}, pc[p] # cond,
         Q!SignalAndReturn(p, cond)
  PROVE  /\ pc' \in [Threads -> Q!Places]
         /\ pc'[p] = "idle"
         /\ \A q \in Threads \ {p} :
              \/ pc'[q] = pc[q]
              \/ pc[q] = "full" /\ pc'[q] = "wokenFull"
              \/ pc[q] = "empty" /\ pc'[q] = "wokenEmpty"
         /\ (\E q \in Threads : pc[q] = cond)
              => \E q \in Threads : pc[q] = cond /\ pc'[q] = Q!Woken(cond)
  BY DEF ShapeOK, Threads, Q!SignalAndReturn, Q!Back, Q!Woken, Q!Places

\* The kinds of steps the proofs tell apart: an append, a worker's pop that
\* took a message, one that slept, one that failed, and so on.  Only m_curLength
\* and pending are left open.
Moved(p, to) == /\ pc' = [pc EXCEPT ![p] = to]
                /\ UNCHANGED <<queue, curCount, state>>

LEMMA AppendEffects ==
  ASSUME NEW p \in Threads, Appends(p), ShapeOK
  PROVE  /\ UNCHANGED poolVars
         /\ MayAppend(p)
         /\ pc[p] \in {"idle", "wokenFull"}
         /\ \/ Moved(p, "idle") /\ state = "DEACTIVATED"
            \/ Moved(p, "full")
            \/ /\ state = "ACTIVATED" /\ state' = state
               /\ curCount' = curCount + 1
               /\ \E m \in Msg : queue' = <<m>> \o queue \/ queue' = Append(queue, m)
               /\ IF curCount' = 1 THEN Q!SignalAndReturn(p, "empty")
                                   ELSE pc' = [pc EXCEPT ![p] = "idle"]
<1>1. PICK r \in Q!Requests : /\ r.msg # NoMsg
                              /\ Q!RefuseEnqueue(p, r) \/ Q!SleepFull(p, r) \/ Q!Put(p, r)
  BY DEF Appends
<1>2. r.msg \in Msg
  BY <1>1 DEF Q!Requests, Q!Request
<1>3. UNCHANGED poolVars /\ MayAppend(p) /\ pc[p] \in {"idle", "wokenFull"}
  BY <1>1 DEF Appends, Q!RefuseEnqueue, Q!SleepFull, Q!Put, Q!AtEnqueue
<1>4. CASE Q!RefuseEnqueue(p, r)
  BY <1>1, <1>3, <1>4 DEF Q!RefuseEnqueue, Q!Admitted, Q!Return, Q!Back, Q!contents, Moved,
                          ShapeOK
<1>5. CASE Q!SleepFull(p, r)
  BY <1>3, <1>5 DEF Q!SleepFull, Q!contents, Moved
<1>6. CASE Q!Put(p, r)
  BY <1>2, <1>3, <1>6 DEF Q!Put, Q!Admitted, Q!Return, Q!Back, Q!IsFirst
<1> QED BY <1>1, <1>4, <1>5, <1>6

LEMMA TakeEffects ==
  ASSUME NEW w \in Worker, WorkerTakes(w), ShapeOK
  PROVE  /\ life[w] = "running" /\ held[w] = NoMsg /\ state = "ACTIVATED"
         /\ pc[w] \in {"idle", "wokenEmpty"}
         /\ queue # <<>> /\ queue' = Tail(queue) /\ curCount' = curCount - 1
         /\ held' = [held EXCEPT ![w] = Head(queue)]
         /\ UNCHANGED <<state, threadArr, life, ctl, index>>
         /\ Q!SignalAndReturn(w, "full") \/ pc' = [pc EXCEPT ![w] = "idle"]
  BY DEF WorkerTakes, Popping, Q!Take, Q!AtDequeue, Q!Admitted, Q!IsEmpty, Q!Return, Q!Back

LEMMA SleepEffects ==
  ASSUME NEW w \in Worker, WorkerSleeps(w)
  PROVE  /\ life[w] = "running" /\ held[w] = NoMsg /\ queue = <<>>
         /\ Moved(w, "empty") /\ UNCHANGED poolVars
  BY DEF WorkerSleeps, Popping, Q!SleepEmpty, Q!IsEmpty, Q!contents, Moved

LEMMA ExitEffects ==
  ASSUME NEW w \in Worker, WorkerExits(w), ShapeOK
  PROVE  /\ life[w] = "running" /\ held[w] = NoMsg /\ state = "DEACTIVATED"
         /\ pc[w] \in {"idle", "wokenEmpty"}
         /\ Moved(w, "idle") /\ life' = [life EXCEPT ![w] = "done"]
         /\ UNCHANGED <<threadArr, held, ctl, index>>
  BY DEF WorkerExits, Popping, Q!RefuseDequeue, Q!AtDequeue, Q!Admitted, Q!Return, Q!Back,
         Q!contents, Moved, ShapeOK

LEMMA SpuriousEffects ==
  ASSUME NEW p \in Threads, Spurious(p)
  PROVE  /\ \/ pc[p] = "full" /\ Moved(p, "wokenFull")
            \/ pc[p] = "empty" /\ Moved(p, "wokenEmpty")
         /\ UNCHANGED poolVars
  BY DEF Spurious, Q!Spurious, Q!Woken, Q!contents, Moved

\* Deactivate wakes everyone.
LEMMA EnterStopEffects ==
  ASSUME NEW c \in Controller, EnterStop(c), ShapeOK
  PROVE  /\ state' = "DEACTIVATED" /\ UNCHANGED <<queue, curCount>>
         /\ \/ /\ state = "ACTIVATED"
               /\ pc' = [q \in Threads |-> Q!Woken(pc[q])]
               /\ \/ NoThreads /\ Goto(c, "flush", 0)
                  \/ Goto(c, "joining", 0)
            \/ state = "DEACTIVATED" /\ pc' = pc /\ Goto(c, "flush", 0)
  BY DEF EnterStop, Q!Deactivate, Q!WakeAll, Q!contents, mqVars, Threads, ShapeOK

\* A step of the pool is one of these.
LEMMA StepKinds ==
  ASSUME Next
  PROVE  \/ \E c \in Controller : \/ Start(c) \/ Stop(c) \/ Spawn(c) \/ SpawnFails(c)
                                  \/ Join(c) \/ FlushAndReturn(c)
         \/ \E w \in Worker : WorkerTakes(w) \/ WorkerSleeps(w) \/ WorkerExits(w) \/ Handled(w)
         \/ \E p \in Threads : Appends(p) \/ Spurious(p)
  BY DEF Next, ControllerStep, WorkerStep, Threads

-----------------------------------------------------------------------------
(* Every step keeps the invariant, part by part.                             *)

LEMMA ShapeStep ==
  ASSUME IInv, Next PROVE ShapeOK' /\ CountIsLength'
<1> USE DEF IInv, ShapeOK, CountIsLength
<1>0. <<>> \in Seq(Msg) /\ 0 \in Worker
  BY PoolAssumption DEF Worker
<1>1. ASSUME NEW c \in Controller, Start(c) PROVE ShapeOK' /\ CountIsLength'
  BY <1>0, <1>1 DEF Start, Goto, mqVars, Slots
<1>2. ASSUME NEW c \in Controller, EnterStop(c),
             UNCHANGED <<life, held>>, threadArr' \in [Worker -> Slots]
      PROVE  ShapeOK' /\ CountIsLength'
  <2>1. \A q \in Threads : Q!Woken(pc[q]) \in Q!Places
    BY DEF Q!Woken, Q!Places
  <2>2. pc' \in [Threads -> Q!Places]
    BY <1>2, <2>1, EnterStopEffects
  <2>3. ctl' \in [Controller -> {"idle", "starting", "joining", "flush"}]
        /\ index' \in [Controller -> Worker]
    BY <1>0, <1>2, EnterStopEffects DEF Goto
  <2> QED BY <1>2, <2>2, <2>3, EnterStopEffects
<1>3. ASSUME NEW c \in Controller, Stop(c) \/ SpawnFails(c) PROVE ShapeOK' /\ CountIsLength'
  BY <1>2, <1>3 DEF Stop, SpawnFails, Slots
<1>4. ASSUME NEW c \in Controller, Spawn(c) PROVE ShapeOK' /\ CountIsLength'
  <2>0. index[c] + 1 < N => index[c] + 1 \in Worker
    BY PoolAssumption DEF Worker
  <2>1. index' \in [Controller -> Worker]
    BY <1>0, <1>4, <2>0 DEF Spawn, Goto
  <2>2. ctl' \in [Controller -> {"idle", "starting", "joining", "flush"}]
    BY <1>4 DEF Spawn, Goto
  <2> QED BY <1>4, <2>1, <2>2 DEF Spawn, mqVars, Slots
<1>5. ASSUME NEW c \in Controller, Join(c) PROVE ShapeOK' /\ CountIsLength'
  <2>0. index[c] + 1 < N => index[c] + 1 \in Worker
    BY PoolAssumption DEF Worker
  <2>1. index' \in [Controller -> Worker]
    BY <1>0, <1>5, <2>0 DEF Join, Goto
  <2>2. ctl' \in [Controller -> {"idle", "starting", "joining", "flush"}]
    BY <1>5 DEF Join, Goto
  <2> QED BY <1>5, <2>1, <2>2 DEF Join, mqVars
<1>6. ASSUME NEW c \in Controller, FlushAndReturn(c) PROVE ShapeOK' /\ CountIsLength'
  BY <1>0, <1>6 DEF FlushAndReturn, Goto, Q!Flush, Q!Emptied
<1>7. ASSUME NEW w \in Worker, WorkerTakes(w) PROVE ShapeOK' /\ CountIsLength'
  <2>1. w \in Threads
    BY DEF Threads
  <2>2. pc' \in [Threads -> Q!Places]
    BY <1>7, <2>1, TakeEffects, Signalled DEF Q!Places
  <2>3. Head(queue) \in Msg /\ Tail(queue) \in Seq(Msg) /\ Len(Tail(queue)) = Len(queue) - 1
    BY <1>7, TakeEffects
  <2>4. held' \in [Worker -> Msg \cup {NoMsg}]
    BY <1>7, <2>3, TakeEffects
  <2>5. UNCHANGED <<state, threadArr, life, ctl, index>>
    BY <1>7, TakeEffects
  <2>6. queue' = Tail(queue) /\ curCount' = curCount - 1
    BY <1>7, TakeEffects
  <2> QED BY <2>2, <2>3, <2>4, <2>5, <2>6
<1>8. ASSUME NEW w \in Worker, WorkerSleeps(w) \/ WorkerExits(w) \/ Handled(w)
      PROVE  ShapeOK' /\ CountIsLength'
  BY <1>8, SleepEffects, ExitEffects DEF Handled, Moved, poolVars, mqVars, Q!Places
<1>9. ASSUME NEW p \in Threads, Appends(p) PROVE ShapeOK' /\ CountIsLength'
  <2>1. pc' \in [Threads -> Q!Places]
    BY <1>9, AppendEffects, Signalled DEF Moved, Q!Places
  <2>2. \A m \in Msg : /\ <<m>> \o queue \in Seq(Msg) /\ Len(<<m>> \o queue) = Len(queue) + 1
                       /\ Append(queue, m) \in Seq(Msg)
                       /\ Len(Append(queue, m)) = Len(queue) + 1
    OBVIOUS
  <2>3. queue' \in Seq(Msg) /\ curCount' = Len(queue') /\ state' = state
    BY <1>9, <2>2, AppendEffects DEF Moved
  <2> QED BY <1>9, <2>1, <2>3, AppendEffects DEF poolVars
<1>10. ASSUME NEW p \in Threads, Spurious(p) PROVE ShapeOK' /\ CountIsLength'
  BY <1>10, SpuriousEffects DEF Moved, poolVars, Q!Places
<1> QED BY <1>1, <1>3, <1>4, <1>5, <1>6, <1>7, <1>8, <1>9, <1>10, StepKinds

LEMMA RolesStep ==
  ASSUME IInv, Next PROVE Roles'
<1> USE DEF IInv, ShapeOK, Roles
<1>0. Worker \cap Producer = {} /\ NoMsg \notin Msg /\ Chained \subseteq Worker
      /\ \A w \in Worker : w \in Threads
  BY PoolAssumption DEF Threads
<1>1. ASSUME NEW c \in Controller, Start(c) \/ Spawn(c) \/ Join(c) \/ FlushAndReturn(c)
      PROVE  Roles'
  BY <1>1 DEF Start, Spawn, Join, FlushAndReturn, Q!Flush, mqVars
<1>2. ASSUME NEW c \in Controller, Stop(c) \/ SpawnFails(c) PROVE Roles'
  <2>1. EnterStop(c) /\ UNCHANGED <<life, held>>
    BY <1>2 DEF Stop, SpawnFails
  <2>2. \A q \in Threads : pc'[q] = pc[q] \/ pc'[q] = Q!Woken(pc[q])
    BY <2>1, EnterStopEffects
  <2> QED BY <1>0, <2>1, <2>2 DEF Q!Woken, Threads
<1>3. ASSUME NEW w \in Worker, WorkerTakes(w) PROVE Roles'
  <2>1. /\ pc'[w] = "idle"
        /\ \A q \in Threads \ {w} : \/ pc'[q] = pc[q]
                                    \/ pc[q] = "full" /\ pc'[q] = "wokenFull"
                                    \/ pc[q] = "empty" /\ pc'[q] = "wokenEmpty"
    BY <1>0, <1>3, TakeEffects, Signalled
  <2> QED BY <1>0, <1>3, <2>1, TakeEffects DEF Threads
<1>4. ASSUME NEW w \in Worker, WorkerSleeps(w) \/ WorkerExits(w) \/ Handled(w) PROVE Roles'
  <2>1. CASE WorkerSleeps(w)
    <3>1. pc'[w] = "empty" /\ \A q \in Threads \ {w} : pc'[q] = pc[q]
      BY <1>0, <2>1, SleepEffects DEF Moved
    <3>2. life[w] = "running" /\ held[w] = NoMsg /\ UNCHANGED <<life, held>>
      BY <2>1, SleepEffects DEF poolVars
    <3> QED BY <1>0, <3>1, <3>2 DEF Threads
  <2>2. CASE WorkerExits(w)
    <3>1. pc'[w] = "idle" /\ \A q \in Threads \ {w} : pc'[q] = pc[q]
      BY <1>0, <2>2, ExitEffects DEF Moved
    <3>2. held[w] = NoMsg /\ held' = held /\ \A v \in Worker \ {w} : life'[v] = life[v]
      BY <2>2, ExitEffects
    <3> QED BY <1>0, <3>1, <3>2 DEF Threads
  <2>3. CASE Handled(w)
    BY <1>0, <2>3 DEF Handled, mqVars
  <2> QED BY <1>4, <2>1, <2>2, <2>3
<1>5. ASSUME NEW p \in Threads, Appends(p) PROVE Roles'
  <2>1. /\ pc'[p] \in {"idle", "full"}
        /\ \A q \in Threads \ {p} : \/ pc'[q] = pc[q]
                                    \/ pc[q] = "full" /\ pc'[q] = "wokenFull"
                                    \/ pc[q] = "empty" /\ pc'[q] = "wokenEmpty"
    BY <1>5, AppendEffects, Signalled DEF Moved
  <2>2. UNCHANGED <<life, held>> /\ (p \in Worker => held[p] # NoMsg)
    BY <1>0, <1>5, AppendEffects DEF poolVars, MayAppend
  <2> QED BY <1>0, <2>1, <2>2 DEF Threads
<1>6. ASSUME NEW p \in Threads, Spurious(p) PROVE Roles'
  BY <1>0, <1>6, SpuriousEffects DEF Moved, poolVars, Threads
<1> QED BY <1>1, <1>2, <1>3, <1>4, <1>5, <1>6, StepKinds

\* The first message on an empty queue wakes a worker if all sleep; a worker
\* falls asleep only on an empty queue.
LEMMA AwakeStep ==
  ASSUME IInv, Next PROVE SomeoneAwake'
<1> USE DEF IInv, ShapeOK, SomeoneAwake
<1>0. Worker \cap Producer = {} /\ Chained \subseteq Worker /\ \A w \in Worker : w \in Threads
  BY PoolAssumption DEF Threads
<1>1. ASSUME NEW c \in Controller, Start(c) \/ Join(c) PROVE SomeoneAwake'
  BY <1>1 DEF Start, Join, mqVars
<1>2. ASSUME NEW c \in Controller, Spawn(c) PROVE SomeoneAwake'
  BY <1>2 DEF Spawn, mqVars, Roles
<1>3. ASSUME NEW c \in Controller, Stop(c) \/ SpawnFails(c) PROVE SomeoneAwake'
  BY <1>3, EnterStopEffects DEF Stop, SpawnFails
<1>4. ASSUME NEW c \in Controller, FlushAndReturn(c) PROVE SomeoneAwake'
  BY <1>4 DEF FlushAndReturn, Q!Flush, Q!Emptied
<1>5. ASSUME NEW w \in Worker, WorkerTakes(w) PROVE SomeoneAwake'
  <2>1. pc'[w] = "idle"
    BY <1>0, <1>5, TakeEffects, Signalled
  <2> QED BY <1>5, <2>1, TakeEffects
<1>6. ASSUME NEW w \in Worker, WorkerSleeps(w) \/ WorkerExits(w) PROVE SomeoneAwake'
  BY <1>6, SleepEffects, ExitEffects DEF Moved
<1>7. ASSUME NEW w \in Worker, Handled(w) PROVE SomeoneAwake'
  BY <1>7 DEF Handled, mqVars
<1>8. ASSUME NEW p \in Threads, Appends(p) PROVE SomeoneAwake'
  <2>0. life' = life
    BY <1>8, AppendEffects DEF poolVars
  <2>1. CASE Moved(p, "idle") \/ Moved(p, "full")
    BY <1>0, <2>0, <2>1 DEF Moved
  <2>2. CASE ~(Moved(p, "idle") \/ Moved(p, "full"))
    <3>1. /\ pc[p] # "empty" /\ state' = state /\ curCount' = curCount + 1
          /\ IF curCount' = 1 THEN Q!SignalAndReturn(p, "empty")
                              ELSE pc' = [pc EXCEPT ![p] = "idle"]
      BY <1>8, <2>2, AppendEffects
    <3>2. CASE curCount' = 1
      <4>1. Q!SignalAndReturn(p, "empty")
        BY <3>1, <3>2
      <4>2. /\ \A q \in Threads : pc'[q] = "empty" => pc[q] = "empty"
            /\ (\E q \in Threads : pc[q] = "empty")
                  => \E q \in Threads : pc[q] = "empty" /\ pc'[q] = "wokenEmpty"
        BY <3>1, <4>1, Signalled DEF Q!Woken
      <4>3. \A q \in Threads : pc[q] = "empty" => q \in Worker /\ life[q] = "running"
        BY DEF Roles, Threads
      <4> QED BY <1>0, <2>0, <4>2, <4>3
    <3>3. CASE curCount' # 1
      <4>1. queue # <<>>
        BY <3>1, <3>3 DEF CountIsLength
      <4>2. pc' = [pc EXCEPT ![p] = "idle"]
        BY <3>1, <3>3
      <4> QED BY <1>0, <2>0, <3>1, <4>1, <4>2
    <3> QED BY <3>2, <3>3
  <2> QED BY <2>1, <2>2
<1>9. ASSUME NEW p \in Threads, Spurious(p) PROVE SomeoneAwake'
  BY <1>0, <1>9, SpuriousEffects DEF Moved, poolVars
<1> QED BY <1>1, <1>2, <1>3, <1>4, <1>5, <1>6, <1>7, <1>8, <1>9, StepKinds

\* Steps outside start() and stop() leave the slots and m_lock alone; on a
\* closed queue they move no message but to its end.
ControlKept ==
  /\ UNCHANGED <<state, threadArr, ctl, index>>
  /\ \A w \in Worker : life'[w] = life[w] \/ (life[w] = "running" /\ life'[w] = "done")
  /\ state = "DEACTIVATED" =>
       /\ queue' = queue
       /\ \A w \in Worker : held'[w] = held[w] \/ held'[w] = NoMsg

LEMMA ThreadSteps ==
  ASSUME IInv,
         \/ \E w \in Worker : WorkerTakes(w) \/ WorkerSleeps(w) \/ WorkerExits(w) \/ Handled(w)
         \/ \E p \in Threads : Appends(p) \/ Spurious(p)
  PROVE  ControlKept
<1>0. state \in {"ACTIVATED", "DEACTIVATED"} /\ ShapeOK
      /\ life \in [Worker -> {"none", "running", "done"}]
      /\ held \in [Worker -> Msg \cup {NoMsg}]
  BY DEF IInv, ShapeOK
<1>1. ASSUME NEW w \in Worker, WorkerTakes(w) PROVE ControlKept
  <2>1. state = "ACTIVATED" /\ UNCHANGED <<state, threadArr, ctl, index, life>>
    BY <1>0, <1>1, TakeEffects
  <2> QED BY <2>1 DEF ControlKept
<1>2. ASSUME NEW w \in Worker, WorkerSleeps(w) PROVE ControlKept
  <2>1. UNCHANGED <<state, threadArr, ctl, index, life, queue, held>>
    BY <1>2, SleepEffects DEF Moved, poolVars
  <2> QED BY <2>1 DEF ControlKept
<1>3. ASSUME NEW w \in Worker, WorkerExits(w) PROVE ControlKept
  <2>1. /\ UNCHANGED <<state, threadArr, ctl, index, queue, held>>
        /\ life[w] = "running" /\ life' = [life EXCEPT ![w] = "done"]
    BY <1>0, <1>3, ExitEffects DEF Moved
  <2> QED BY <1>0, <2>1 DEF ControlKept
<1>4. ASSUME NEW w \in Worker, Handled(w) PROVE ControlKept
  <2>1. /\ UNCHANGED <<state, threadArr, ctl, index, queue, life>>
        /\ held' = [held EXCEPT ![w] = NoMsg]
    BY <1>4 DEF Handled, mqVars
  <2> QED BY <1>0, <2>1 DEF ControlKept
<1>5. ASSUME NEW p \in Threads, Appends(p) PROVE ControlKept
  <2>1. /\ UNCHANGED <<state, threadArr, ctl, index, life, held>>
        /\ state = "DEACTIVATED" => queue' = queue
    BY <1>0, <1>5, AppendEffects DEF Moved, poolVars
  <2> QED BY <2>1 DEF ControlKept
<1>6. ASSUME NEW p \in Threads, Spurious(p) PROVE ControlKept
  <2>1. UNCHANGED <<state, threadArr, ctl, index, life, queue, held>>
    BY <1>6, SpuriousEffects DEF Moved, poolVars
  <2> QED BY <2>1 DEF ControlKept
<1> QED BY <1>1, <1>2, <1>3, <1>4, <1>5, <1>6

LEMMA ControlStep ==
  ASSUME IInv, Next PROVE Control'
<1> USE DEF IInv, ShapeOK, Control
<1>1. ASSUME NEW c \in Controller, Start(c) PROVE Control'
  BY <1>1 DEF Start, Goto, Unlocked, NoThreads, mqVars
<1>2. ASSUME NEW c \in Controller, Spawn(c) PROVE Control'
  <2>1. /\ UNCHANGED <<state>>
        /\ threadArr' = [threadArr EXCEPT ![index[c]] = "started"]
        /\ life' = [life EXCEPT ![index[c]] = "running"]
        /\ index[c] \in Worker
        /\ \A d \in Controller \ {c} : ctl'[d] = "idle"
        /\ \/ ctl'[c] = "starting" /\ index'[c] = index[c] + 1
           \/ ctl'[c] = "idle"
    BY <1>2 DEF Spawn, Goto, mqVars
  <2>2. \A w \in Worker : w >= index[c] + 1 => w >= index[c] /\ w # index[c]
    BY <2>1 DEF Worker
  <2> QED BY <1>2, <2>1, <2>2 DEF Spawn
<1>3. ASSUME NEW c \in Controller, EnterStop(c), UNCHANGED life,
             \A d \in Controller \ {c} : ctl[d] = "idle",
             \A w \in Worker : life[w] # "none" => threadArr'[w] = "started"
      PROVE  Control'
  <2>1. /\ state' = "DEACTIVATED"
        /\ \A d \in Controller \ {c} : ctl'[d] = "idle"
        /\ ctl'[c] = "flush" \/ (ctl'[c] = "joining" /\ index'[c] = 0)
    BY <1>3, EnterStopEffects DEF Goto
  <2>2. \A w \in Worker : ~(w < 0)
    BY DEF Worker
  <2> QED BY <1>3, <2>1, <2>2
<1>4. ASSUME NEW c \in Controller, Stop(c) PROVE Control'
  BY <1>3, <1>4 DEF Stop, Unlocked
<1>5. ASSUME NEW c \in Controller, SpawnFails(c) PROVE Control'
  <2>1. index[c] \in Worker /\ index[c] >= index[c] /\ ctl[c] = "starting"
    BY <1>5 DEF SpawnFails, Worker
  <2>2. life[index[c]] = "none"
    BY <2>1
  <2>3. \A w \in Worker : life[w] # "none" => threadArr'[w] = "started"
    BY <1>5, <2>2 DEF SpawnFails
  <2>4. \A d \in Controller \ {c} : ctl[d] = "idle"
    BY <2>1
  <2> QED BY <1>3, <1>5, <2>3, <2>4 DEF SpawnFails
<1>6. ASSUME NEW c \in Controller, Join(c) PROVE Control'
  <2>1. /\ UNCHANGED <<state, threadArr, life>>
        /\ ctl[c] = "joining" /\ index[c] \in Worker
        /\ threadArr[index[c]] = "started" => life[index[c]] = "done"
        /\ \A d \in Controller \ {c} : ctl'[d] = "idle"
        /\ ctl'[c] = "flush" \/ (ctl'[c] = "joining" /\ index'[c] = index[c] + 1)
    BY <1>6 DEF Join, Joined, Goto, mqVars
  <2>2. life[index[c]] # "running"
    BY <2>1
  <2>3. \A w \in Worker : w < index[c] + 1 => w < index[c] \/ w = index[c]
    BY <2>1 DEF Worker
  <2> QED BY <2>1, <2>2, <2>3
<1>7. ASSUME NEW c \in Controller, FlushAndReturn(c) PROVE Control'
  BY <1>7 DEF FlushAndReturn, Goto, Q!Flush
<1>8. ASSUME ControlKept PROVE Control'
  BY <1>8 DEF ControlKept
<1> QED BY <1>1, <1>2, <1>4, <1>5, <1>6, <1>7, <1>8, ThreadSteps, StepKinds

LEMMA QuietStep ==
  ASSUME IInv, Next PROVE Quiet'
<1> USE DEF IInv, ShapeOK, Quiet
<1>1. ASSUME NEW c \in Controller, Start(c) \/ Spawn(c) PROVE Quiet'
  BY <1>1 DEF Start, Spawn, Goto, Unlocked, mqVars
<1>2. ASSUME NEW c \in Controller, Stop(c) \/ SpawnFails(c) PROVE Quiet'
  <2>1. EnterStop(c) /\ UNCHANGED held /\ ctl[c] \in {"idle", "starting"}
        /\ \A d \in Controller \ {c} : ctl[d] = "idle"
    BY <1>2 DEF Stop, SpawnFails, Unlocked, Control
  <2>2. ctl'[c] \in {"joining", "flush"}
    BY <2>1, EnterStopEffects DEF Goto
  <2>3. CASE ctl'[c] = "joining"
    BY <2>2, <2>3
  <2>4. CASE ctl'[c] = "flush" /\ state = "DEACTIVATED"
    BY <2>1, <2>2, <2>4
  <2>5. CASE ctl'[c] = "flush" /\ state = "ACTIVATED"
    <3>1. NoThreads
      BY <2>1, <2>5, EnterStopEffects DEF Goto
    <3>2. \A w \in Worker : held[w] = NoMsg
      BY <3>1 DEF NoThreads, Control, Roles
    <3> QED BY <2>1, <2>2, <3>2
  <2> QED BY <2>2, <2>3, <2>4, <2>5
<1>3. ASSUME NEW c \in Controller, Join(c) PROVE Quiet'
  <2>1. UNCHANGED <<state, held, queue>> /\ ctl'[c] \in {"joining", "flush"}
    BY <1>3 DEF Join, Goto, mqVars
  <2>2. ctl'[c] = "flush" => \A w \in Worker : held[w] = NoMsg
    <3> SUFFICES ASSUME ctl'[c] = "flush", NEW w \in Worker PROVE held[w] = NoMsg
      OBVIOUS
    <3>1. ctl[c] = "joining" /\ ~(index[c] + 1 < N) /\ index[c] \in Worker
          /\ (threadArr[index[c]] = "started" => life[index[c]] = "done")
      BY <1>3 DEF Join, Joined, Goto
    <3>2. w < index[c] \/ w = index[c]
      BY <3>1, PoolAssumption DEF Worker
    <3>3. life[w] # "running"
      BY <3>1, <3>2 DEF Control
    <3> QED BY <3>3 DEF Roles
  <2> QED BY <2>1, <2>2
<1>4. ASSUME NEW c \in Controller, FlushAndReturn(c) PROVE Quiet'
  <2>1. /\ queue' = <<>> /\ UNCHANGED <<state, held>>
        /\ \A d \in Controller : ctl[d] # "joining"
    BY <1>4 DEF FlushAndReturn, Q!Flush, Q!Emptied, Control
  <2> QED BY <2>1
<1>5. ASSUME ControlKept PROVE Quiet'
  BY <1>5 DEF ControlKept
<1> QED BY <1>1, <1>2, <1>3, <1>4, <1>5, ThreadSteps, StepKinds

\* In every state of CwxThreadPool the workers, the callers and the queue agree.
THEOREM Inductive == Spec => []IInv
<1>1. Init => IInv
  <2> SUFFICES ASSUME Init PROVE IInv
    OBVIOUS
  <2>1. 0 \in Worker /\ <<>> \in Seq(Msg) /\ Len(<<>>) = 0
    BY PoolAssumption DEF Worker
  <2> QED BY <2>1 DEF Init, Q!Init, Q!Places, IInv, ShapeOK, CountIsLength, Roles, SomeoneAwake,
                      Control, Quiet, Threads, Slots
<1>2. IInv /\ [Next]_vars => IInv'
  <2> SUFFICES ASSUME IInv, [Next]_vars PROVE IInv'
    OBVIOUS
  <2>1. CASE Next
    BY <2>1, ShapeStep, RolesStep, AwakeStep, ControlStep, QuietStep DEF IInv
  <2>2. CASE UNCHANGED vars
    BY <2>2 DEF vars, mqVars, poolVars, IInv, ShapeOK, CountIsLength, Roles, SomeoneAwake,
                Control, Quiet
  <2> QED BY <2>1, <2>2
<1> QED BY <1>1, <1>2, PTL DEF Spec

\* Queued messages keep a worker awake, for any number of workers.
THEOREM NeverAllAsleep == Spec => []SomeoneAwake
<1>1. IInv => SomeoneAwake
  BY DEF IInv
<1> QED BY <1>1, Inductive, PTL

\* After stop() no message is queued and none is being dispatched.
THEOREM QuietAfterStop == Spec => []StoppedIsQuiet
<1>1. IInv => StoppedIsQuiet
  BY DEF IInv, Quiet, StoppedIsQuiet, Unlocked
<1> QED BY <1>1, Inductive, PTL
==============================================================================
