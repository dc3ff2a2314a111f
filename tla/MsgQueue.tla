------------------------------ MODULE MsgQueue ------------------------------
(***************************************************************************)
(* CwxMsgQueue (lib/cmn): the producer/consumer queue behind every thread  *)
(* and thread pool.  A call that must wait sleeps on m_notFullCond or      *)
(* m_notEmptyCond, which releases m_lock; after it wakes up it holds       *)
(* m_lock again and goes on at the top of its wait loop.  So an action is  *)
(* what one thread does from the moment it has m_lock to the moment it     *)
(* returns or goes to sleep.  A call on a deactivated queue fails, at its  *)
(* entry and after each sleep alike.                                       *)
(***************************************************************************)
EXTENDS Naturals, Sequences

CONSTANTS
  Thread,    \* the threads that call the queue
  Msg,       \* the message blocks
  NoMsg,     \* the null CwxMsgBlock*
  Length,    \* length() of every message
  Ends,      \* where producers put messages: "head" is enqueue, "tail" enqueue_tail
  Hwm, Lwm,  \* the arguments of the constructor
  NewHwms    \* the values setHwm is called with

ASSUME NoMsgAssumption  == NoMsg \notin Msg
ASSUME LengthAssumption == Length \in [Msg -> Nat]
ASSUME EndsAssumption   == Ends \subseteq {"head", "tail"}
ASSUME WatermarkAssumption == Hwm \in Nat /\ Lwm \in Nat /\ NewHwms \subseteq Nat

VARIABLES
  queue,          \* the chain from m_head to m_tail
  curLength,      \* m_curLength
  curCount,       \* m_curCount
  state,          \* m_state
  highWaterMark,  \* m_highWaterMark (m_lowWaterMark is never read)
  pc,             \* where each thread is: in no call, asleep, or woken
  pending         \* the message, and its end, of a producer that had to sleep

contents  == <<queue, curLength, curCount>>
queueVars == <<contents, state, highWaterMark, pc, pending>>

Places  == {"idle", "full", "empty", "wokenFull", "wokenEmpty"}
Request == [msg : Msg \cup {NoMsg}, end : {"head", "tail"}]
Nothing == [msg |-> NoMsg, end |-> "tail"]

TypeOK ==
  /\ queue \in Seq(Msg)
  /\ curLength \in Nat /\ curCount \in Nat
  /\ state \in {"ACTIVATED", "DEACTIVATED"}
  /\ highWaterMark \in Nat
  /\ pc \in [Thread -> Places]
  /\ pending \in [Thread -> Request]

\* The constructor stores its two arguments the other way round.
Init ==
  /\ queue = <<>> /\ curLength = 0 /\ curCount = 0
  /\ state = "ACTIVATED"
  /\ highWaterMark = Lwm
  /\ pc = [p \in Thread |-> "idle"]
  /\ pending = [p \in Thread |-> Nothing]

-----------------------------------------------------------------------------
(* Helpers.  A definition followed by _ and a word is the same code with one *)
(* plausible slip; the runs must tell the two apart.                         *)

IsFull_strict == curLength > highWaterMark
IsFull  == curLength >= highWaterMark
IsEmpty == queue = <<>>

\* m_state lets the call go on: read at entry, and again after every sleep.
Admitted_notReread(p) == state = "ACTIVATED" \/ pc[p] \in {"wokenFull", "wokenEmpty"}
Admitted(p) == state = "ACTIVATED"

\* A message block belongs to one caller, or to the queue.
Available(m) == /\ \A i \in DOMAIN queue : queue[i] # m
                /\ \A p \in Thread : pending[p].msg # m

AtEnqueue(p, r) == \/ pc[p] = "idle" /\ (r.msg = NoMsg \/ Available(r.msg))
                   \/ pc[p] = "wokenFull" /\ pending[p] = r
AtDequeue(p)    == pc[p] \in {"idle", "wokenEmpty"}

Woken(x) == CASE x = "full"  -> "wokenFull"
              [] x = "empty" -> "wokenEmpty"
              [] OTHER       -> x

Back(p) == [pc EXCEPT ![p] = "idle"]

\* The message just stored is the only one.
IsFirst_late == curCount = 1
IsFirst == curCount' = 1

\* pthread_cond_signal, by a thread that returns right after it.
SignalAndReturn(p, cond) ==
  IF \E q \in Thread : pc[q] = cond
  THEN \E q \in {r \in Thread : pc[r] = cond} :
          pc' = [Back(p) EXCEPT ![q] = Woken(cond)]
  ELSE pc' = Back(p)

Return(p) == pc' = Back(p)

\* pthread_cond_broadcast on both conditions.
WakeAll == pc' = [q \in Thread |-> Woken(pc[q])]

-----------------------------------------------------------------------------
(* enqueue and enqueue_tail.                                                 *)

RefuseEnqueue(p, r) ==
  /\ AtEnqueue(p, r)
  /\ \/ ~Admitted(p)
     \/ ~IsFull /\ r.msg = NoMsg
  /\ Return(p)
  /\ pending' = [pending EXCEPT ![p] = Nothing]
  /\ UNCHANGED <<contents, state, highWaterMark>>

SleepFull(p, r) ==
  /\ AtEnqueue(p, r) /\ Admitted(p) /\ IsFull
  /\ pc' = [pc EXCEPT ![p] = "full"]
  /\ pending' = [pending EXCEPT ![p] = r]
  /\ UNCHANGED <<contents, state, highWaterMark>>

Put(p, r) ==
  /\ AtEnqueue(p, r) /\ Admitted(p) /\ ~IsFull /\ r.msg # NoMsg
  /\ queue' = IF r.end = "head" THEN <<r.msg>> \o queue ELSE Append(queue, r.msg)
  /\ curCount' = curCount + 1
  /\ curLength' = curLength + Length[r.msg]
  /\ IF IsFirst THEN SignalAndReturn(p, "empty") ELSE Return(p)
  /\ pending' = [pending EXCEPT ![p] = Nothing]
  /\ UNCHANGED <<state, highWaterMark>>

-----------------------------------------------------------------------------
(* dequeue.                                                                  *)

RefuseDequeue(p) ==
  /\ AtDequeue(p) /\ ~Admitted(p)
  /\ Return(p)
  /\ UNCHANGED <<contents, state, highWaterMark, pending>>

SleepEmpty(p) ==
  /\ AtDequeue(p) /\ Admitted(p) /\ IsEmpty
  /\ pc' = [pc EXCEPT ![p] = "empty"]
  /\ UNCHANGED <<contents, state, highWaterMark, pending>>

\* A producer is woken only when this message made the queue not full.
Take(p) ==
  /\ AtDequeue(p) /\ Admitted(p) /\ ~IsEmpty
  /\ queue' = Tail(queue)
  /\ curCount' = curCount - 1
  /\ curLength' = curLength - Length[Head(queue)]
  /\ UNCHANGED <<state, highWaterMark, pending>>
  /\ IF IsFull /\ ~IsFull' THEN SignalAndReturn(p, "full") ELSE Return(p)

-----------------------------------------------------------------------------
(* A sleep can end without a signal: the deadline of a timed call passes, or *)
(* pthread_cond_wait returns spuriously.                                     *)

TimedOut(p) ==
  /\ pc[p] \in {"full", "empty"}
  /\ Return(p)
  /\ pending' = [pending EXCEPT ![p] = Nothing]
  /\ UNCHANGED <<contents, state, highWaterMark>>

Spurious(p) ==
  /\ pc[p] \in {"full", "empty"}
  /\ pc' = [pc EXCEPT ![p] = Woken(@)]
  /\ UNCHANGED <<contents, state, highWaterMark, pending>>

-----------------------------------------------------------------------------
(* The control calls.  flush frees the messages and wakes nobody; setHwm     *)
(* takes no lock and wakes nobody.                                           *)

Emptied == queue' = <<>> /\ curLength' = 0 /\ curCount' = 0

Deactivate ==
  /\ state = "ACTIVATED"
  /\ WakeAll
  /\ state' = "DEACTIVATED"
  /\ UNCHANGED <<contents, highWaterMark, pending>>

Activate ==
  /\ state' = "ACTIVATED"
  /\ UNCHANGED <<contents, highWaterMark, pc, pending>>

Flush == Emptied /\ UNCHANGED <<state, highWaterMark, pc, pending>>

Close ==
  /\ IF state = "ACTIVATED" THEN WakeAll ELSE UNCHANGED pc
  /\ state' = "DEACTIVATED"
  /\ Emptied
  /\ UNCHANGED <<highWaterMark, pending>>

SetHwm(n) ==
  /\ highWaterMark' = n
  /\ UNCHANGED <<contents, state, pc, pending>>

-----------------------------------------------------------------------------
Requests == {r \in Request : r.end \in Ends}

Enqueue(p) == \E r \in Requests : RefuseEnqueue(p, r) \/ SleepFull(p, r) \/ Put(p, r)
Dequeue(p) == RefuseDequeue(p) \/ SleepEmpty(p) \/ Take(p)

Next ==
  \/ \E p \in Thread : Enqueue(p) \/ Dequeue(p) \/ TimedOut(p) \/ Spurious(p)
  \/ Deactivate \/ Activate \/ Flush \/ Close
  \/ \E n \in NewHwms : SetHwm(n)

Spec == Init /\ [][Next]_queueVars

-----------------------------------------------------------------------------
(* Properties.                                                               *)

\* Deactivating ends every wait: nobody sleeps on a deactivated queue, so a
\* pool that is stopped can join its threads.  The state is read under the same
\* lock as it is set, before every sleep, and the broadcast reaches both kinds
\* of sleepers.
NobodySleepsClosed == state = "DEACTIVATED" => \A p \in Thread : pc[p] \notin {"full", "empty"}

\* The first message on an empty queue wakes a sleeping consumer, whatever was
\* flushed, taken or timed out before it: the counter signal() depends on is
\* right whenever the queue is empty.
FirstMessageWakes ==
  [][queue = <<>> /\ queue' # <<>> /\ (\E p \in Thread : pc[p] = "empty")
       => \E p \in Thread : pc[p] = "empty" /\ pc'[p] = "wokenEmpty"]_queueVars

\* The calls implement a bounded deque: a message is stored only below the high
\* water mark of what is really queued, and taken from the head, both only
\* while the queue is active.
Deque == INSTANCE BoundedDeque WITH items <- queue, open <- state = "ACTIVATED",
                                    limit <- highWaterMark
DequeSpec == Deque!Spec
==============================================================================
