------------------------------- MODULE Reactor -------------------------------
(***************************************************************************)
(* CwxAppReactor (lib/app): one owner thread runs the event loop, any      *)
(* other thread may post a notice, call an operation of the reactor or     *)
(* stop it.  m_lock is held by the owner while it polls, so a caller takes *)
(* m_rwLock for reading, wakes the owner through the notice pipe and waits *)
(* for m_lock; the owner takes m_rwLock for writing between two polls, and *)
(* so lets the callers that are waiting go first.  What the operations do  *)
(* to the engine is not modelled here, only who is in it and when; what    *)
(* happens on a descriptor, a timer or a signal is "some event".           *)
(***************************************************************************)
EXTENDS NoticePipe

CONSTANTS
  Thread,     \* the threads that are not the owner
  Calls,      \* what they call: "op" is any operation on a handler
  MayFail,    \* whether a write to the pipe may fail
  MaxCalls,   \* bound on the calls, over all threads
  MaxNotices  \* bound on the notices that get queued

ASSUME ReactorAssumption ==
  /\ Calls \subseteq {"op", "stop"}
  /\ MayFail \in BOOLEAN
  /\ MaxCalls \in Nat
  /\ MaxNotices \in Nat

VARIABLES
  bStop,    \* m_bStop of the reactor
  bStopped, \* m_bStopped of the framework
  owner,    \* where the owner is in run()
  ready,    \* whether this epoll_wait reported the pipe
  batch,    \* the notices noticeEvent has taken and not yet handled
  pc, call, \* where each other thread is, and in which call
  reads,    \* how often each thread holds m_rwLock for reading
  calls,    \* calls made so far
  posted, handled, polls  \* history: notices queued so far, notices handled
                          \* in order, polls begun since a caller took m_rwLock

pipeVars   == <<notices, bPipeEmpty, bytes>>
ownerVars  == <<owner, ready, batch, handled>>
threadVars == <<pc, call, reads, calls>>
vars == <<pipeVars, ownerVars, threadVars, bStop, bStopped, posted, polls>>

TypeOK ==
  /\ notices \in Seq(1 .. MaxNotices) /\ bPipeEmpty \in BOOLEAN /\ bytes \in Nat
  /\ bStop \in BOOLEAN /\ bStopped \in BOOLEAN
  /\ owner \in {"opened", "lock", "polling", "dispatch", "check", "hook",
                "handling", "gate", "done"}
  /\ ready \in BOOLEAN
  /\ batch \in Seq(1 .. MaxNotices) /\ handled \in Seq(1 .. MaxNotices)
  /\ pc \in [Thread -> {"idle", "posted", "called", "entered", "waiting", "in", "leaving"}]
  /\ call \in [Thread -> {"op", "stop"}]
  /\ reads \in [Thread -> Nat]
  /\ calls \in 0 .. MaxCalls /\ posted \in 0 .. MaxNotices
  /\ polls \in [Thread -> Nat]

\* open() has left the reactor stopped, with the notice handler registered.
Init ==
  /\ PipeInit
  /\ bStop = TRUE /\ bStopped = FALSE
  /\ owner = "opened" /\ ready = FALSE
  /\ batch = <<>> /\ handled = <<>>
  /\ pc = [t \in Thread |-> "idle"]
  /\ call = [t \in Thread |-> "op"]
  /\ reads = [t \in Thread |-> 0]
  /\ calls = 0 /\ posted = 0
  /\ polls = [t \in Thread |-> 0]

\* m_lock: the owner holds it to poll, a caller to be in the engine.
LockFree == /\ owner \notin {"polling", "dispatch"}
            /\ \A t \in Thread : pc[t] # "in"

-----------------------------------------------------------------------------
(* The other threads.                                                        *)

Goto(t, next) == pc' = [pc EXCEPT ![t] = next]

\* reactor()->notice(item): the item first, then noticeDummy.  A failed write
\* loses the item; what noticeDummy returns is what the caller gets.
Post(t) ==
  /\ pc[t] = "idle"
  /\ posted < MaxNotices
  /\ PutNotice(posted + 1)
  /\ posted' = posted + 1
  /\ Goto(t, "posted")
  /\ UNCHANGED <<ownerVars, call, reads, calls, bStop, bStopped, polls>>

PostFails(t) ==
  /\ MayFail /\ pc[t] = "idle"
  /\ posted < MaxNotices
  /\ WriteFails
  /\ Goto(t, "posted")
  /\ UNCHANGED <<ownerVars, call, reads, calls, bStop, bStopped, posted, polls>>

\* The framework's stop() raises its own flag before it stops the reactor.
Call(t, c) ==
  /\ pc[t] = "idle"
  /\ calls < MaxCalls
  /\ calls' = calls + 1
  /\ call' = [call EXCEPT ![t] = c]
  /\ bStopped' = (bStopped \/ c = "stop")
  /\ Goto(t, "called")
  /\ UNCHANGED <<pipeVars, ownerVars, reads, bStop, posted, polls>>

AcquireRead(t) ==
  /\ pc[t] = "called"
  /\ reads' = [reads EXCEPT ![t] = @ + 1]
  /\ polls' = [polls EXCEPT ![t] = 0]
  /\ Goto(t, "entered")
  /\ UNCHANGED <<pipeVars, ownerVars, call, calls, bStop, bStopped, posted>>

AfterDummy(t) == IF pc[t] = "entered" THEN "waiting" ELSE "idle"

Dummy(t) ==
  /\ pc[t] \in {"posted", "entered"}
  /\ NoticeDummy
  /\ Goto(t, AfterDummy(t))
  /\ UNCHANGED <<ownerVars, call, reads, calls, bStop, bStopped, posted, polls>>

\* The call goes on; the reactor's loop is told to end.  Bound: a write fails
\* only once the loop has begun, whose start would take the stop back.
DummyFails(t) ==
  /\ MayFail /\ owner # "opened"
  /\ pc[t] \in {"posted", "entered"}
  /\ WriteFails
  /\ bStop' = TRUE
  /\ Goto(t, AfterDummy(t))
  /\ UNCHANGED <<ownerVars, call, reads, calls, bStopped, posted, polls>>

LockForOp(t) ==
  /\ pc[t] = "waiting" /\ call[t] = "op"
  /\ LockFree
  /\ Goto(t, "in")
  /\ UNCHANGED <<pipeVars, ownerVars, call, reads, calls, bStop, bStopped, posted, polls>>

Unlock(t) ==
  /\ pc[t] = "in"
  /\ Goto(t, "leaving")
  /\ UNCHANGED <<pipeVars, ownerVars, call, reads, calls, bStop, bStopped, posted, polls>>

Release(t) ==
  /\ pc[t] = "leaving"
  /\ reads' = [reads EXCEPT ![t] = @ - 1]
  /\ Goto(t, "idle")
  /\ UNCHANGED <<pipeVars, ownerVars, call, calls, bStop, bStopped, posted, polls>>

\* stop() returns from inside the locked block: m_lock is released by its
\* guard, the release of m_rwLock is never reached.
LockForStop(t) ==
  /\ pc[t] = "waiting" /\ call[t] = "stop"
  /\ LockFree
  /\ bStop' = TRUE
  /\ Goto(t, "idle")
  /\ UNCHANGED <<pipeVars, ownerVars, call, reads, calls, bStopped, posted, polls>>

-----------------------------------------------------------------------------
(* The owner, in CwxAppFramework::run and CwxAppReactor::run.                *)

At(here, next) == owner = here /\ owner' = next

BeginRun ==
  /\ At("opened", "lock")
  /\ bStop' = FALSE
  /\ bStopped' = FALSE
  /\ UNCHANGED <<pipeVars, ready, batch, handled, threadVars, posted, polls>>

\* A caller that holds m_rwLock sees one more poll begin.
LockToPoll ==
  /\ LockFree
  /\ At("lock", "polling")
  /\ polls' = [t \in Thread |-> IF pc[t] \in {"entered", "waiting"} THEN polls[t] + 1 ELSE polls[t]]
  /\ UNCHANGED <<pipeVars, ready, batch, handled, threadVars, bStop, bStopped, posted>>

\* epoll_wait returns because of the pipe, of another event, or of both.  No
\* timeout is set: without an event it does not return.
PollReturns ==
  /\ At("polling", "dispatch")
  /\ ready' = (bytes > 0)
  /\ UNCHANGED <<pipeVars, batch, handled, threadVars, bStop, bStopped, posted, polls>>

\* epoll_wait reports an event before a signal.  -1 with EINTR skips the
\* dispatch; -1 with another error ends the loop.
PollInterrupted ==
  /\ bytes = 0
  /\ At("polling", "check")
  /\ ready' = FALSE
  /\ UNCHANGED <<pipeVars, batch, handled, threadVars, bStop, bStopped, posted, polls>>

PollFails ==
  /\ MayFail
  /\ At("polling", "done")
  /\ UNCHANGED <<pipeVars, ready, batch, handled, threadVars, bStop, bStopped, posted, polls>>

\* The handlers of one poll have run; the notice handler reads its byte unless
\* the framework is stopping.
Dispatched ==
  /\ At("dispatch", "check")
  /\ IF ready /\ ~bStopped THEN ReadByte ELSE UNCHANGED pipeVars
  /\ ready' = FALSE
  /\ UNCHANGED <<batch, handled, threadVars, bStop, bStopped, posted, polls>>

CheckStop ==
  /\ owner = "check"
  /\ owner' = IF bStop THEN "done" ELSE "hook"
  /\ UNCHANGED <<pipeVars, ready, batch, handled, threadVars, bStop, bStopped, posted, polls>>

\* hook: a framework that is stopping leaves the notices alone.
Hook ==
  /\ ~bStopped
  /\ At("hook", "handling")
  /\ Noticed
  /\ batch' = notices
  /\ UNCHANGED <<ready, handled, threadVars, bStop, bStopped, posted, polls>>

HookStopped ==
  /\ bStopped
  /\ At("hook", "gate")
  /\ UNCHANGED <<pipeVars, ready, batch, handled, threadVars, bStop, bStopped, posted, polls>>

\* One innerNotice handler runs; it may call the reactor, without a lock.
Handle ==
  /\ owner = "handling" /\ batch # <<>>
  /\ handled' = Append(handled, Head(batch))
  /\ batch' = Tail(batch)
  /\ UNCHANGED <<pipeVars, owner, ready, threadVars, bStop, bStopped, posted, polls>>

AllHandled ==
  /\ batch = <<>>
  /\ At("handling", "gate")
  /\ UNCHANGED <<pipeVars, ready, batch, handled, threadVars, bStop, bStopped, posted, polls>>

\* m_rwLock.acquire_write() and release(), then the loop's condition.
Gate_open ==
  /\ owner = "gate"
  /\ owner' = IF bStop THEN "done" ELSE "lock"
  /\ UNCHANGED <<pipeVars, ready, batch, handled, threadVars, bStop, bStopped, posted, polls>>
Gate ==
  /\ owner = "gate"
  /\ \A t \in Thread : reads[t] = 0
  /\ owner' = IF bStop THEN "done" ELSE "lock"
  /\ UNCHANGED <<pipeVars, ready, batch, handled, threadVars, bStop, bStopped, posted, polls>>

\* A handler the owner runs may post a notice itself, or stop the program.
InHandler == owner = "dispatch" \/ (owner = "handling" /\ batch # <<>>)

OwnerPosts ==
  /\ InHandler
  /\ posted < MaxNotices
  /\ PutNotice(posted + 1)
  /\ posted' = posted + 1
  /\ UNCHANGED <<ownerVars, threadVars, bStop, bStopped, polls>>

\* The item is lost; noticeDummy fails as well, or succeeds this time.
OwnerPostFails ==
  /\ MayFail /\ InHandler
  /\ posted < MaxNotices
  /\ bPipeEmpty
  /\ \/ (WriteFails /\ bStop' = TRUE)
     \/ (NoticeDummy /\ UNCHANGED bStop)
  /\ UNCHANGED <<ownerVars, threadVars, bStopped, posted, polls>>

OwnerStops ==
  /\ InHandler
  /\ bStop' = TRUE
  /\ bStopped' = TRUE
  /\ UNCHANGED <<pipeVars, ownerVars, threadVars, posted, polls>>

OwnerRuns == \/ BeginRun \/ LockToPoll \/ Dispatched \/ CheckStop
             \/ Hook \/ HookStopped \/ Handle \/ AllHandled \/ Gate

CallRuns(t) == \/ AcquireRead(t) \/ Dummy(t) \/ DummyFails(t) \/ LockForOp(t)
               \/ Unlock(t) \/ Release(t) \/ LockForStop(t)

Next == \/ OwnerRuns
        \/ PollReturns \/ PollInterrupted \/ PollFails
        \/ OwnerPosts \/ OwnerPostFails \/ OwnerStops
        \/ \E t \in Thread : \/ Post(t) \/ PostFails(t) \/ CallRuns(t)
                             \/ \E c \in Calls : Call(t, c)

Spec == Init /\ [][Next]_vars

\* Every thread runs, and epoll_wait returns when the pipe holds a byte.  No
\* other event is promised, nor that anything is posted, called or stopped.
Fairness == /\ WF_vars(OwnerRuns)
            /\ WF_vars(bytes > 0 /\ PollReturns)
            /\ \A t \in Thread : WF_vars(CallRuns(t))

FairSpec == Spec /\ Fairness

-----------------------------------------------------------------------------
(* Properties.                                                               *)

\* The flag m_bPipeEmpty keeps the pipe from filling up: it never holds more
\* than two bytes, one the owner has not read and one written since, so the
\* blocking write under the pipe's lock never blocks.
PipeBounded == bytes <= 2

\* No lost wake-up: while the owner sleeps in epoll_wait, a queued notice or a
\* caller that waits for m_lock has a byte in the pipe, unless the program is
\* already being stopped (as it is after a write to the pipe has failed).
WakeIsOwed ==
  owner = "polling" /\ ~bStop /\ ~bStopped
    /\ (notices # <<>> \/ \E t \in Thread : pc[t] = "waiting")
  => bytes > 0

\* The writer's turn between two polls serves the callers: from the moment a
\* caller holds m_rwLock until it has m_lock, the owner begins at most one poll.
ServedWithinOnePoll ==
  \A t \in Thread : pc[t] \in {"entered", "waiting"} => polls[t] <= 1

\* Notices are handled once each, in the order they were queued, whatever was
\* queued while the owner was taking or handling the list.
NoticesInOrder == handled \o batch \o notices = [i \in 1 .. posted |-> i]

\* A queued notice is handled, unless the program is being stopped or the loop
\* ends, or a stop() that came before run() has left its read lock behind
\* (finding reactor_stop).
Leaked == \E t \in Thread : pc[t] = "idle" /\ reads[t] > 0

EveryNoticeHandled ==
  \A i \in 1 .. MaxNotices :
    posted >= i ~> (Len(handled) >= i \/ bStop \/ bStopped \/ owner = "done" \/ Leaked)

\* CwxAppReactor.h on stop(): it stops the loop, from any thread.
StopEnds ==
  \A t \in Thread :
    (pc[t] = "called" /\ call[t] = "stop" /\ owner # "opened") ~> owner = "done"
=============================================================================
