---------------------------- MODULE ReactorProofs ----------------------------
(***************************************************************************)
(* Proofs about Reactor, for any number of threads, calls and notices: the *)
(* pipe never holds more than two bytes, no wake-up of a sleeping owner is *)
(* lost while the program is not being stopped, a caller waits for at most *)
(* one poll, and notices are handled once each, in the order of the        *)
(* queueing.                                                               *)
(***************************************************************************)
EXTENDS Reactor, SequenceTheorems, TLAPS

Outstanding == IF bPipeEmpty THEN 0 ELSE 1

\* The owner has read its byte, or was not told of one, and not yet taken the
\* notices.
ByteIsRead == owner \in {"check", "hook"} \/ (owner = "dispatch" /\ ~ready)

\* One byte can be left over from before the notices were taken, and only one
\* more is written until they are taken again.
PipeInv ==
  /\ bytes <= 1 + Outstanding
  /\ ByteIsRead /\ ~bStopped => bytes <= Outstanding

\* What the flag m_bPipeEmpty promises, and to whom.  A queued notice and a
\* caller the owner has not let in yet keep the flag down; while the owner is
\* between taking the notices and its next epoll_wait, a flag that is down
\* stands for a byte in the pipe.
WakeInv ==
  /\ notices # <<>> => ~bPipeEmpty
  /\ owner = "opened" \/ (~bStop /\ owner \in {"lock", "polling"}) =>
       \A t \in Thread : pc[t] = "waiting" => ~bPipeEmpty
  /\ owner = "opened" \/ (~bStopped /\ owner \in {"lock", "polling", "handling", "gate"}) =>
       (~bPipeEmpty => bytes > 0)

\* A caller keeps m_rwLock from its first step to its last, which keeps the
\* owner from passing the gate; it is not overtaken before its first poll.
GateInv ==
  \A t \in Thread :
    /\ pc[t] \in {"entered", "waiting", "in", "leaving"} => reads[t] > 0
    /\ pc[t] \in {"entered", "waiting"} => polls[t] <= 1
    /\ pc[t] \in {"entered", "waiting"} /\ owner \in {"opened", "lock"} => polls[t] = 0

IInv == TypeOK /\ PipeInv /\ WakeInv /\ GateInv

\* What the two calls that write the wake-up byte do to the pipe.
LEMMA RaiseEffect ==
  ASSUME TypeOK, Raise
  PROVE  /\ bytes' \in Nat /\ bPipeEmpty' \in BOOLEAN /\ ~bPipeEmpty'
         /\ bPipeEmpty => bytes' = bytes + 1
         /\ ~bPipeEmpty => bytes' = bytes
  <1>1. bytes \in Nat /\ bPipeEmpty' = FALSE
    BY DEF TypeOK, Raise
  <1>2. bPipeEmpty => bytes' = bytes + 1
    BY Zenon DEF Raise
  <1>3. ~bPipeEmpty => bytes' = bytes
    BY Zenon DEF Raise
  <1>4. bytes' \in Nat
    BY <1>1, <1>2, <1>3
  <1> QED
    BY <1>1, <1>2, <1>3, <1>4

\* The next notice of the history is one of those TypeOK allows.
LEMMA PutEffect ==
  ASSUME TypeOK, posted < MaxNotices, PutNotice(posted + 1)
  PROVE  notices' \in Seq(1 .. MaxNotices) /\ posted + 1 \in 0 .. MaxNotices
  <1>1. posted + 1 \in 1 .. MaxNotices
    BY ReactorAssumption DEF TypeOK
  <1> QED
    BY <1>1, ReactorAssumption DEF TypeOK, PutNotice

-----------------------------------------------------------------------------

\* A step keeps the types: a release finds m_rwLock held, a read finds a byte.
LEMMA TypeStep == IInv /\ [Next]_vars => TypeOK'
  <1> SUFFICES ASSUME IInv, [Next]_vars PROVE TypeOK'
    OBVIOUS
  <1> USE ReactorAssumption DEF IInv, TypeOK, GateInv, pipeVars, ownerVars, threadVars
  <1>1. CASE BeginRun
    BY <1>1 DEF BeginRun, At
  <1>2. CASE LockToPoll
    BY <1>2 DEF LockToPoll, LockFree, At
  <1>3. CASE Dispatched
    <2>1. CASE ready /\ ~bStopped
      <3>1. bytes > 0 /\ bytes' = bytes - 1 /\ UNCHANGED <<notices, bPipeEmpty>>
        BY <1>3, <2>1 DEF Dispatched, ReadByte
      <3>2. bytes' \in Nat
        BY <3>1 DEF TypeOK
      <3> QED
        BY <1>3, <3>1, <3>2 DEF Dispatched, At
    <2>2. CASE ~(ready /\ ~bStopped)
      BY <1>3, <2>2 DEF Dispatched, At
    <2> QED
      BY <2>1, <2>2
  <1>4. CASE CheckStop
    BY <1>4 DEF CheckStop
  <1>5. CASE Hook
    BY <1>5 DEF Hook, Noticed, At
  <1>6. CASE HookStopped
    BY <1>6 DEF HookStopped, At
  <1>7. CASE Handle
    BY <1>7 DEF Handle
  <1>8. CASE AllHandled
    BY <1>8 DEF AllHandled, At
  <1>9. CASE Gate
    BY <1>9 DEF Gate
  <1>10. CASE PollReturns
    BY <1>10 DEF PollReturns, At
  <1>11. CASE PollInterrupted
    BY <1>11 DEF PollInterrupted, At
  <1>12. CASE PollFails
    BY <1>12 DEF PollFails, At
  <1>13. CASE OwnerPosts
    <2>1. Raise /\ PutNotice(posted + 1) /\ posted < MaxNotices
      BY <1>13 DEF OwnerPosts, PutNotice
    <2> QED
      BY <1>13, <2>1, RaiseEffect, PutEffect DEF OwnerPosts
  <1>14. CASE OwnerPostFails
    <2>1. CASE WriteFails /\ bStop' = TRUE
      BY <1>14, <2>1 DEF OwnerPostFails, WriteFails
    <2>2. CASE NoticeDummy /\ UNCHANGED bStop
      <3>1. Raise /\ UNCHANGED notices
        BY <2>2 DEF NoticeDummy
      <3> QED
        BY <1>14, <2>2, <3>1, RaiseEffect DEF OwnerPostFails, InHandler
    <2> QED
      BY <1>14, <2>1, <2>2 DEF OwnerPostFails
  <1>15. CASE OwnerStops
    BY <1>15 DEF OwnerStops, InHandler
  <1>16. ASSUME NEW t \in Thread, Post(t) PROVE TypeOK'
    <2>1. Raise /\ PutNotice(posted + 1) /\ posted < MaxNotices
      BY <1>16 DEF Post, PutNotice
    <2> QED
      BY <1>16, <2>1, RaiseEffect, PutEffect DEF Post, Goto
  <1>17. ASSUME NEW t \in Thread, PostFails(t) PROVE TypeOK'
    BY <1>17 DEF PostFails, WriteFails, Goto
  <1>18. ASSUME NEW t \in Thread, AcquireRead(t) PROVE TypeOK'
    BY <1>18 DEF AcquireRead, Goto
  <1>19. ASSUME NEW t \in Thread, Dummy(t) PROVE TypeOK'
    <2>1. Raise /\ UNCHANGED notices
      BY <1>19 DEF Dummy, NoticeDummy
    <2> QED
      BY <1>19, <2>1, RaiseEffect DEF Dummy, AfterDummy, Goto
  <1>20. ASSUME NEW t \in Thread, DummyFails(t) PROVE TypeOK'
    BY <1>20 DEF DummyFails, WriteFails, AfterDummy, Goto
  <1>21. ASSUME NEW t \in Thread, LockForOp(t) PROVE TypeOK'
    BY <1>21 DEF LockForOp, LockFree, Goto
  <1>22. ASSUME NEW t \in Thread, Unlock(t) PROVE TypeOK'
    BY <1>22 DEF Unlock, Goto
  <1>23. ASSUME NEW t \in Thread, Release(t) PROVE TypeOK'
    BY <1>23 DEF Release, Goto
  <1>24. ASSUME NEW t \in Thread, LockForStop(t) PROVE TypeOK'
    BY <1>24 DEF LockForStop, LockFree, Goto
  <1>25. ASSUME NEW t \in Thread, NEW c \in Calls, Call(t, c) PROVE TypeOK'
    BY <1>25 DEF Call, Goto
  <1>26. CASE UNCHANGED vars
    BY <1>26 DEF vars
  <1> QED
    BY <1>1, <1>2, <1>3, <1>4, <1>5, <1>6, <1>7, <1>8, <1>9, <1>10, <1>11,
       <1>12, <1>13, <1>14, <1>15, <1>16, <1>17, <1>18, <1>19, <1>20, <1>21,
       <1>22, <1>23, <1>24, <1>25, <1>26
    DEF Next, OwnerRuns, CallRuns

\* A step keeps the bound on the bytes in the pipe.
LEMMA PipeStep == IInv /\ [Next]_vars => PipeInv'
  <1> SUFFICES ASSUME IInv, [Next]_vars PROVE PipeInv'
    OBVIOUS
  <1> USE ReactorAssumption DEF IInv, TypeOK, PipeInv, ByteIsRead, Outstanding,
             pipeVars, ownerVars, threadVars
  <1>1. CASE BeginRun
    BY <1>1 DEF BeginRun, At
  <1>2. CASE LockToPoll
    BY <1>2 DEF LockToPoll, LockFree, At
  <1>3. CASE Dispatched
    BY <1>3 DEF Dispatched, ReadByte, At
  <1>4. CASE CheckStop
    BY <1>4 DEF CheckStop
  <1>5. CASE Hook
    BY <1>5 DEF Hook, Noticed, At
  <1>6. CASE HookStopped
    BY <1>6 DEF HookStopped, At
  <1>7. CASE Handle
    BY <1>7 DEF Handle
  <1>8. CASE AllHandled
    BY <1>8 DEF AllHandled, At
  <1>9. CASE Gate
    BY <1>9 DEF Gate
  <1>10. CASE PollReturns
    <2>1. CASE bytes > 0
      BY <1>10, <2>1 DEF PollReturns, At
    <2>2. CASE bytes = 0
      BY <1>10, <2>2 DEF PollReturns, At
    <2> QED
      BY <2>1, <2>2
  <1>11. CASE PollInterrupted
    BY <1>11 DEF PollInterrupted, At
  <1>12. CASE PollFails
    BY <1>12 DEF PollFails, At
  <1>13. CASE OwnerPosts
    BY <1>13 DEF OwnerPosts, PutNotice, Raise, InHandler
  <1>14. CASE OwnerPostFails
    <2>1. CASE WriteFails /\ bStop' = TRUE
      BY <1>14, <2>1 DEF OwnerPostFails, WriteFails
    <2>2. CASE NoticeDummy /\ UNCHANGED bStop
      <3>1. Raise /\ UNCHANGED notices
        BY <2>2 DEF NoticeDummy
      <3> QED
        BY <1>14, <2>2, <3>1, RaiseEffect DEF OwnerPostFails, InHandler
    <2> QED
      BY <1>14, <2>1, <2>2 DEF OwnerPostFails
  <1>15. CASE OwnerStops
    BY <1>15 DEF OwnerStops, InHandler
  <1>16. ASSUME NEW t \in Thread, Post(t) PROVE PipeInv'
    BY <1>16 DEF Post, PutNotice, Raise, Goto
  <1>17. ASSUME NEW t \in Thread, PostFails(t) PROVE PipeInv'
    BY <1>17 DEF PostFails, WriteFails, Goto
  <1>18. ASSUME NEW t \in Thread, AcquireRead(t) PROVE PipeInv'
    BY <1>18 DEF AcquireRead, Goto
  <1>19. ASSUME NEW t \in Thread, Dummy(t) PROVE PipeInv'
    BY <1>19 DEF Dummy, NoticeDummy, Raise, AfterDummy, Goto
  <1>20. ASSUME NEW t \in Thread, DummyFails(t) PROVE PipeInv'
    BY <1>20 DEF DummyFails, WriteFails, AfterDummy, Goto
  <1>21. ASSUME NEW t \in Thread, LockForOp(t) PROVE PipeInv'
    BY <1>21 DEF LockForOp, LockFree, Goto
  <1>22. ASSUME NEW t \in Thread, Unlock(t) PROVE PipeInv'
    BY <1>22 DEF Unlock, Goto
  <1>23. ASSUME NEW t \in Thread, Release(t) PROVE PipeInv'
    BY <1>23 DEF Release, Goto
  <1>24. ASSUME NEW t \in Thread, LockForStop(t) PROVE PipeInv'
    BY <1>24 DEF LockForStop, LockFree, Goto
  <1>25. ASSUME NEW t \in Thread, NEW c \in Calls, Call(t, c) PROVE PipeInv'
    BY <1>25 DEF Call, Goto
  <1>26. CASE UNCHANGED vars
    BY <1>26 DEF vars
  <1> QED
    BY <1>1, <1>2, <1>3, <1>4, <1>5, <1>6, <1>7, <1>8, <1>9, <1>10, <1>11,
       <1>12, <1>13, <1>14, <1>15, <1>16, <1>17, <1>18, <1>19, <1>20, <1>21,
       <1>22, <1>23, <1>24, <1>25, <1>26
    DEF Next, OwnerRuns, CallRuns

\* A step keeps the promise of the flag m_bPipeEmpty.
LEMMA WakeStep == IInv /\ [Next]_vars => WakeInv'
  <1> SUFFICES ASSUME IInv, [Next]_vars PROVE WakeInv'
    OBVIOUS
  <1> USE ReactorAssumption DEF IInv, TypeOK, WakeInv, GateInv, PipeInv, Outstanding, ByteIsRead,
             pipeVars, ownerVars, threadVars
  <1>1. CASE BeginRun
    BY <1>1 DEF BeginRun, At
  <1>2. CASE LockToPoll
    BY <1>2 DEF LockToPoll, LockFree, At
  <1>3. CASE Dispatched
    BY <1>3 DEF Dispatched, ReadByte, At
  <1>4. CASE CheckStop
    BY <1>4 DEF CheckStop
  <1>5. CASE Hook
    BY <1>5 DEF Hook, Noticed, At
  <1>6. CASE HookStopped
    BY <1>6 DEF HookStopped, At
  <1>7. CASE Handle
    BY <1>7 DEF Handle
  <1>8. CASE AllHandled
    BY <1>8 DEF AllHandled, At
  <1>9. CASE Gate
    BY <1>9 DEF Gate
  <1>10. CASE PollReturns
    BY <1>10 DEF PollReturns, At
  <1>11. CASE PollInterrupted
    BY <1>11 DEF PollInterrupted, At
  <1>12. CASE PollFails
    BY <1>12 DEF PollFails, At
  <1>13. CASE OwnerPosts
    BY <1>13 DEF OwnerPosts, PutNotice, Raise, InHandler
  <1>14. CASE OwnerPostFails
    <2>1. CASE WriteFails /\ bStop' = TRUE
      BY <1>14, <2>1 DEF OwnerPostFails, WriteFails
    <2>2. CASE NoticeDummy /\ UNCHANGED bStop
      <3>1. Raise /\ UNCHANGED notices
        BY <2>2 DEF NoticeDummy
      <3> QED
        BY <1>14, <2>2, <3>1, RaiseEffect DEF OwnerPostFails, InHandler
    <2> QED
      BY <1>14, <2>1, <2>2 DEF OwnerPostFails
  <1>15. CASE OwnerStops
    BY <1>15 DEF OwnerStops, InHandler
  <1>16. ASSUME NEW t \in Thread, Post(t) PROVE WakeInv'
    BY <1>16 DEF Post, PutNotice, Raise, Goto
  <1>17. ASSUME NEW t \in Thread, PostFails(t) PROVE WakeInv'
    BY <1>17 DEF PostFails, WriteFails, Goto
  <1>18. ASSUME NEW t \in Thread, AcquireRead(t) PROVE WakeInv'
    BY <1>18 DEF AcquireRead, Goto
  <1>19. ASSUME NEW t \in Thread, Dummy(t) PROVE WakeInv'
    BY <1>19 DEF Dummy, NoticeDummy, Raise, AfterDummy, Goto
  <1>20. ASSUME NEW t \in Thread, DummyFails(t) PROVE WakeInv'
    BY <1>20 DEF DummyFails, WriteFails, AfterDummy, Goto
  <1>21. ASSUME NEW t \in Thread, LockForOp(t) PROVE WakeInv'
    BY <1>21 DEF LockForOp, LockFree, Goto
  <1>22. ASSUME NEW t \in Thread, Unlock(t) PROVE WakeInv'
    BY <1>22 DEF Unlock, Goto
  <1>23. ASSUME NEW t \in Thread, Release(t) PROVE WakeInv'
    BY <1>23 DEF Release, Goto
  <1>24. ASSUME NEW t \in Thread, LockForStop(t) PROVE WakeInv'
    BY <1>24 DEF LockForStop, LockFree, Goto
  <1>25. ASSUME NEW t \in Thread, NEW c \in Calls, Call(t, c) PROVE WakeInv'
    BY <1>25 DEF Call, Goto
  <1>26. CASE UNCHANGED vars
    BY <1>26 DEF vars
  <1> QED
    BY <1>1, <1>2, <1>3, <1>4, <1>5, <1>6, <1>7, <1>8, <1>9, <1>10, <1>11,
       <1>12, <1>13, <1>14, <1>15, <1>16, <1>17, <1>18, <1>19, <1>20, <1>21,
       <1>22, <1>23, <1>24, <1>25, <1>26
    DEF Next, OwnerRuns, CallRuns

\* A step keeps what the callers hold and how often they are overtaken.
LEMMA GateStep == IInv /\ [Next]_vars => GateInv'
  <1> SUFFICES ASSUME IInv, [Next]_vars PROVE GateInv'
    OBVIOUS
  <1> USE ReactorAssumption DEF IInv, TypeOK, GateInv, pipeVars, ownerVars, threadVars
  <1>1. CASE BeginRun
    BY <1>1 DEF BeginRun, At
  <1>2. CASE LockToPoll
    BY <1>2 DEF LockToPoll, LockFree, At
  <1>3. CASE Dispatched
    BY <1>3 DEF Dispatched, ReadByte, At
  <1>4. CASE CheckStop
    BY <1>4 DEF CheckStop
  <1>5. CASE Hook
    BY <1>5 DEF Hook, Noticed, At
  <1>6. CASE HookStopped
    BY <1>6 DEF HookStopped, At
  <1>7. CASE Handle
    BY <1>7 DEF Handle
  <1>8. CASE AllHandled
    BY <1>8 DEF AllHandled, At
  <1>9. CASE Gate
    BY <1>9 DEF Gate
  <1>10. CASE PollReturns
    BY <1>10 DEF PollReturns, At
  <1>11. CASE PollInterrupted
    BY <1>11 DEF PollInterrupted, At
  <1>12. CASE PollFails
    BY <1>12 DEF PollFails, At
  <1>13. CASE OwnerPosts
    BY <1>13 DEF OwnerPosts, PutNotice, Raise, InHandler
  <1>14. CASE OwnerPostFails
    <2>1. CASE WriteFails /\ bStop' = TRUE
      BY <1>14, <2>1 DEF OwnerPostFails, WriteFails
    <2>2. CASE NoticeDummy /\ UNCHANGED bStop
      <3>1. Raise /\ UNCHANGED notices
        BY <2>2 DEF NoticeDummy
      <3> QED
        BY <1>14, <2>2, <3>1, RaiseEffect DEF OwnerPostFails, InHandler
    <2> QED
      BY <1>14, <2>1, <2>2 DEF OwnerPostFails
  <1>15. CASE OwnerStops
    BY <1>15 DEF OwnerStops, InHandler
  <1>16. ASSUME NEW t \in Thread, Post(t) PROVE GateInv'
    BY <1>16 DEF Post, PutNotice, Raise, Goto
  <1>17. ASSUME NEW t \in Thread, PostFails(t) PROVE GateInv'
    BY <1>17 DEF PostFails, WriteFails, Goto
  <1>18. ASSUME NEW t \in Thread, AcquireRead(t) PROVE GateInv'
    BY <1>18 DEF AcquireRead, Goto
  <1>19. ASSUME NEW t \in Thread, Dummy(t) PROVE GateInv'
    BY <1>19 DEF Dummy, NoticeDummy, Raise, AfterDummy, Goto
  <1>20. ASSUME NEW t \in Thread, DummyFails(t) PROVE GateInv'
    BY <1>20 DEF DummyFails, WriteFails, AfterDummy, Goto
  <1>21. ASSUME NEW t \in Thread, LockForOp(t) PROVE GateInv'
    BY <1>21 DEF LockForOp, LockFree, Goto
  <1>22. ASSUME NEW t \in Thread, Unlock(t) PROVE GateInv'
    BY <1>22 DEF Unlock, Goto
  <1>23. ASSUME NEW t \in Thread, Release(t) PROVE GateInv'
    BY <1>23 DEF Release, Goto
  <1>24. ASSUME NEW t \in Thread, LockForStop(t) PROVE GateInv'
    BY <1>24 DEF LockForStop, LockFree, Goto
  <1>25. ASSUME NEW t \in Thread, NEW c \in Calls, Call(t, c) PROVE GateInv'
    BY <1>25 DEF Call, Goto
  <1>26. CASE UNCHANGED vars
    BY <1>26 DEF vars
  <1> QED
    BY <1>1, <1>2, <1>3, <1>4, <1>5, <1>6, <1>7, <1>8, <1>9, <1>10, <1>11,
       <1>12, <1>13, <1>14, <1>15, <1>16, <1>17, <1>18, <1>19, <1>20, <1>21,
       <1>22, <1>23, <1>24, <1>25, <1>26
    DEF Next, OwnerRuns, CallRuns

-----------------------------------------------------------------------------
\* The invariant the theorems rest on.
THEOREM Inductive == Spec => []IInv
  <1>1. Init => IInv
    <2> SUFFICES ASSUME Init PROVE IInv
      OBVIOUS
    <2>1. <<>> \in Seq(1 .. MaxNotices)
      OBVIOUS
    <2>2. TypeOK
      <3>1. /\ notices \in Seq(1 .. MaxNotices)
            /\ batch \in Seq(1 .. MaxNotices)
            /\ handled \in Seq(1 .. MaxNotices)
        BY <2>1 DEF Init, PipeInit
      <3>2. /\ bPipeEmpty \in BOOLEAN /\ bytes \in Nat
            /\ calls \in 0 .. MaxCalls /\ posted \in 0 .. MaxNotices
        BY ReactorAssumption DEF Init, PipeInit
      <3> QED
        BY <3>1, <3>2 DEF Init, TypeOK
    <2>3. PipeInv
      BY DEF Init, PipeInit, PipeInv, Outstanding
    <2>4. WakeInv
      BY DEF Init, PipeInit, WakeInv
    <2>5. GateInv
      BY DEF Init, GateInv
    <2> QED
      BY <2>2, <2>3, <2>4, <2>5 DEF IInv
  <1>2. IInv /\ [Next]_vars => IInv'
    BY TypeStep, PipeStep, WakeStep, GateStep DEF IInv
  <1> QED
    BY <1>1, <1>2, PTL DEF Spec

\* m_bPipeEmpty keeps the notice pipe from filling up, so the write under the
\* pipe's lock never blocks, however many threads post.
THEOREM PipeStaysSmall == Spec => []PipeBounded
  <1>1. IInv => PipeBounded
    BY DEF IInv, TypeOK, PipeInv, Outstanding, PipeBounded
  <1> QED
    BY <1>1, Inductive, PTL

\* A queued notice, and a caller that waits for m_lock, have a byte in the pipe
\* while the owner sleeps in epoll_wait.
THEOREM NoWakeIsLost == Spec => []WakeIsOwed
  <1>1. IInv => WakeIsOwed
    BY DEF IInv, TypeOK, WakeInv, WakeIsOwed
  <1> QED
    BY <1>1, Inductive, PTL

\* The write lock between two polls lets a waiting caller in after at most one
\* more poll, however many callers there are.
THEOREM CallersAreServed == Spec => []ServedWithinOnePoll
  <1>1. IInv => ServedWithinOnePoll
    BY DEF IInv, GateInv, ServedWithinOnePoll
  <1> QED
    BY <1>1, Inductive, PTL

-----------------------------------------------------------------------------
(* The order of the notices.                                                 *)

\* The list noticeEvent works through is empty outside noticeEvent.
TakenInv == owner # "handling" => batch = <<>>

LEMMA CountingSeq ==
  ASSUME NEW n \in Nat, NEW S, \A i \in 1 .. n : i \in S
  PROVE  [i \in 1 .. n |-> i] \in Seq(S)
  OBVIOUS

\* A notice that is queued goes to the end of the line, whatever part of the
\* line has been handled or taken.
LEMMA QueuedLast ==
  ASSUME TypeOK, NoticesInOrder, posted < MaxNotices
  PROVE  handled \o batch \o Append(notices, posted + 1) = [i \in 1 .. posted + 1 |-> i]
  <1> DEFINE N    == 1 .. MaxNotices
             line == handled \o batch
             all  == line \o notices
  <1>1. /\ handled \in Seq(N) /\ batch \in Seq(N) /\ notices \in Seq(N)
        /\ posted \in Nat /\ posted + 1 \in N
    BY ReactorAssumption DEF TypeOK
  <1>2. line \in Seq(N)
    BY <1>1, ConcatProperties
  <1>3. all \in Seq(N)
    BY <1>1, <1>2, ConcatProperties
  <1>4. Append(notices, posted + 1) = notices \o <<posted + 1>>
    BY <1>1, AppendIsConcat
  <1>5. <<posted + 1>> \in Seq(N)
    BY <1>1
  <1>6. line \o (notices \o <<posted + 1>>) = all \o <<posted + 1>>
    BY <1>1, <1>2, <1>5, ConcatAssociative
  <1>7. all \o <<posted + 1>> = Append(all, posted + 1)
    BY <1>1, <1>3, AppendIsConcat
  <1>8. all = [i \in 1 .. posted |-> i]
    BY DEF NoticesInOrder
  <1> HIDE DEF all, line
  <1>9. Len(all) = posted
    BY <1>1, <1>8
  <1>10. Append(all, posted + 1) = [i \in 1 .. posted + 1 |-> i]
    <2>1. /\ Append(all, posted + 1) \in Seq(N)
          /\ Len(Append(all, posted + 1)) = posted + 1
          /\ \A i \in 1 .. posted : Append(all, posted + 1)[i] = all[i]
          /\ Append(all, posted + 1)[posted + 1] = posted + 1
      BY <1>1, <1>3, <1>9, AppendProperties
    <2>2. \A i \in 1 .. posted + 1 : Append(all, posted + 1)[i] = i
      BY <1>1, <1>8, <2>1
    <2>3. [i \in 1 .. posted + 1 |-> i] \in Seq(N)
      <3>1. PICK n : n = posted + 1
        OBVIOUS
      <3>2. n \in Nat /\ \A i \in 1 .. n : i \in N
        BY <1>1, <3>1, ReactorAssumption
      <3> HIDE DEF N
      <3>3. [i \in 1 .. n |-> i] \in Seq(N)
        BY <3>2, CountingSeq
      <3> QED BY <3>1, <3>3
    <2>4. Len([i \in 1 .. posted + 1 |-> i]) = posted + 1
      BY <1>1
    <2> DEFINE a == Append(all, posted + 1)
               b == [i \in 1 .. posted + 1 |-> i]
    <2>6. /\ a \in Seq(N) /\ b \in Seq(N) /\ Len(a) = Len(b)
          /\ \A i \in 1 .. Len(a) : a[i] = b[i]
      BY <1>1, <2>1, <2>2, <2>3, <2>4
    <2> HIDE DEF a, b
    <2>7. a = b
      BY <2>6, SeqEqual
    <2> QED BY <2>7 DEF a, b
  <1> QED BY <1>4, <1>6, <1>7, <1>10 DEF line

\* Handling the first of the notices taken moves it, and nothing else.
LEMMA HandledFirst ==
  ASSUME TypeOK, batch # <<>>
  PROVE  Append(handled, Head(batch)) \o Tail(batch) = handled \o batch
  <1> DEFINE N == 1 .. MaxNotices
  <1>1. /\ handled \in Seq(N) /\ batch \in Seq(N)
        /\ Head(batch) \in N /\ Tail(batch) \in Seq(N)
    <2>1. handled \in Seq(N) /\ batch \in Seq(N)
      BY DEF TypeOK
    <2> HIDE DEF N
    <2> QED BY <2>1, HeadTailProperties
  <1>2. Append(handled, Head(batch)) = handled \o <<Head(batch)>>
    BY <1>1, AppendIsConcat
  <1>3. <<Head(batch)>> \in Seq(N)
    BY <1>1
  <1>4. <<Head(batch)>> \o Tail(batch) = batch
    BY <1>1
  <1> QED BY <1>1, <1>2, <1>3, <1>4, ConcatAssociative

LEMMA OrderStep ==
  ASSUME IInv, TakenInv, NoticesInOrder, [Next]_vars PROVE (TakenInv /\ NoticesInOrder)'
  <1> USE DEF IInv, pipeVars, ownerVars, threadVars
  <1>1. ASSUME posted < MaxNotices, PutNotice(posted + 1), posted' = posted + 1,
               UNCHANGED <<handled, batch, owner>>
        PROVE  (TakenInv /\ NoticesInOrder)'
    BY <1>1, QueuedLast DEF PutNotice, TakenInv, NoticesInOrder
  <1>2. CASE \E t \in Thread : Post(t)
    BY <1>1, <1>2 DEF Post
  <1>3. CASE OwnerPosts
    BY <1>1, <1>3 DEF OwnerPosts
  <1>4. CASE Hook
    <2>1. /\ batch = <<>> /\ batch' = notices /\ notices' = <<>> /\ owner' = "handling"
          /\ UNCHANGED <<handled, posted>>
      BY <1>4 DEF Hook, At, Noticed, TakenInv
    <2> DEFINE N == 1 .. MaxNotices
    <2>2. handled \in Seq(N) /\ notices \in Seq(N)
      BY DEF TypeOK
    <2>3. handled \o <<>> = handled
      BY <2>2, ConcatEmptySeq
    <2>4. (handled \o notices) \o <<>> = handled \o notices
      <3>1. handled \o notices \in Seq(N)
        BY <2>2, ConcatProperties
      <3> QED BY <3>1, ConcatEmptySeq
    <2> QED BY <2>1, <2>3, <2>4 DEF NoticesInOrder, TakenInv
  <1>5. CASE Handle
    BY <1>5, HandledFirst DEF Handle, NoticesInOrder, TakenInv
  <1>6. ASSUME UNCHANGED <<handled, batch, notices, posted>>,
               owner' = "handling" => owner = "handling",
               owner = "handling" /\ owner' # "handling" => batch = <<>>
        PROVE  (TakenInv /\ NoticesInOrder)'
    BY <1>6 DEF TakenInv, NoticesInOrder
  <1>7. CASE UNCHANGED vars
    BY <1>6, <1>7 DEF vars
  <1>8. CASE \/ BeginRun \/ LockToPoll \/ Dispatched \/ CheckStop \/ HookStopped
             \/ AllHandled \/ Gate
    BY <1>6, <1>8 DEF BeginRun, LockToPoll, Dispatched, CheckStop, HookStopped, AllHandled,
       Gate, At, ReadByte
  <1>9. CASE \/ PollReturns \/ PollInterrupted \/ PollFails \/ OwnerPostFails \/ OwnerStops
    BY <1>6, <1>9 DEF PollReturns, PollInterrupted, PollFails, OwnerPostFails, OwnerStops,
       At, WriteFails, NoticeDummy
  <1>10. CASE \E t \in Thread : PostFails(t) \/ CallRuns(t) \/ \E c \in Calls : Call(t, c)
    BY <1>6, <1>10 DEF PostFails, CallRuns, Call, AcquireRead, Dummy, DummyFails, LockForOp,
       Unlock, Release, LockForStop, WriteFails, NoticeDummy
  <1> QED BY <1>2, <1>3, <1>4, <1>5, <1>7, <1>8, <1>9, <1>10 DEF Next, OwnerRuns

\* Notices are handled once each and in the order in which they were queued,
\* whatever other threads and the handlers queue, call and stop meanwhile.
THEOREM NoticesKeepOrder == Spec => []NoticesInOrder
  <1>1. Init => TakenInv /\ NoticesInOrder
    <2> SUFFICES ASSUME Init PROVE TakenInv /\ NoticesInOrder
      OBVIOUS
    <2>1. handled = <<>> /\ batch = <<>> /\ notices = <<>> /\ posted = 0
      BY DEF Init, PipeInit
    <2>2. <<>> \o <<>> = <<>> /\ <<>> = [i \in 1 .. 0 |-> i]
      OBVIOUS
    <2> QED BY <2>1, <2>2 DEF TakenInv, NoticesInOrder
  <1>2. IInv /\ TakenInv /\ NoticesInOrder /\ [Next]_vars => (TakenInv /\ NoticesInOrder)'
    BY OrderStep
  <1> QED BY <1>1, <1>2, Inductive, PTL DEF Spec
=============================================================================
