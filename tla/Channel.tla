------------------------------ MODULE Channel ------------------------------
(***************************************************************************)
(* CwxAppChannel: the event loop of a worker thread, which owns it.  The    *)
(* worker (as in the example echo_channel_svr) takes what other threads     *)
(* appended to its queue and calls dispatch(), again and again.             *)
(*                                                                          *)
(* dispatch() holds m_lock while it polls, calls handlers and walks the     *)
(* redo set.  The redo set is one of two: the walk takes it, and what is    *)
(* registered meanwhile goes to the other.  Other threads operate on the    *)
(* channel with the protocol of the reactor: read lock, a byte in the pipe, *)
(* m_lock, operation, release.                                              *)
(*                                                                          *)
(* A handler that is closed and deleted while the walk has not reached it   *)
(* stays in the set that is walked.  What happens once the walk calls it is *)
(* undefined, and not followed: the owner is then at "undefined".           *)
(*                                                                          *)
(* Not followed either: an epoll_wait that fails with anything but EINTR.   *)
(***************************************************************************)
EXTENDS Naturals, FiniteSets

CONSTANTS
  Caller,    \* threads other than the owner
  Handler,   \* handler objects (addresses)
  NoHandler,
  ReadSize,  \* bytes the notice handler reads at once
  PipeSize,  \* bytes the pipe holds
  MaxCalls   \* bound: calls of other threads

ASSUME ChannelAssumption ==
  /\ NoHandler \notin Handler /\ IsFiniteSet(Caller)
  /\ ReadSize \in Nat \ {0} /\ PipeSize \in Nat \ {0} /\ MaxCalls \in Nat

VARIABLES
  at,      \* where the owner is
  turn,    \* the handler whose callback runs
  bytes,   \* in the notice pipe
  reads,   \* read locks on m_rwLock
  bStop,   \* m_bStop
  alive,   \* the handlers that exist
  cur,     \* *m_pCurRedoSet
  walk,    \* what the walk of the redo set has not reached yet
  bRedo,   \* m_bRedo of each handler
  posted,  \* messages in the worker's queue
  pc,      \* where each caller is
  calls,   \* calls made
  polls    \* history: polls begun since a caller took the read lock

redo  == <<alive, cur, walk, bRedo>>
lock  == <<bytes, reads, bStop>>
tell  == <<posted, pc, calls>>
vars  == <<at, turn, redo, lock, tell, polls>>

TypeOK ==
  /\ at \in {"queue", "poll", "events", "redo", "check", "gate", "undefined"}
  /\ turn \in Handler \cup {NoHandler}
  /\ bytes \in 0 .. PipeSize /\ reads \in 0 .. MaxCalls /\ bStop \in BOOLEAN
  /\ alive \subseteq Handler /\ cur \subseteq Handler /\ walk \subseteq Handler
  /\ bRedo \in [Handler -> BOOLEAN]
  /\ posted \in 0 .. MaxCalls
  /\ pc \in [Caller -> {"idle", "tell", "read", "wait", "release"}]
  /\ calls \in 0 .. MaxCalls
  /\ polls \in [Caller -> Nat]

\* open()
Init ==
  /\ at = "queue" /\ turn = NoHandler
  /\ bytes = 0 /\ reads = 0 /\ bStop = FALSE
  /\ alive = {} /\ cur = {} /\ walk = {}
  /\ bRedo = [h \in Handler |-> FALSE]
  /\ posted = 0 /\ pc = [c \in Caller |-> "idle"] /\ calls = 0
  /\ polls = [c \in Caller |-> 0]

-----------------------------------------------------------------------------
(* The redo set.                                                             *)

RegRedo_again(h) ==
  /\ cur' = cur \cup {h} /\ bRedo' = [bRedo EXCEPT ![h] = TRUE]
  /\ UNCHANGED <<alive, walk>>

RegRedo_walked(h) ==
  /\ IF bRedo[h] THEN UNCHANGED <<cur, walk, bRedo>>
     ELSE /\ bRedo' = [bRedo EXCEPT ![h] = TRUE]
          /\ IF at = "redo" THEN walk' = walk \cup {h} /\ UNCHANGED cur
             ELSE cur' = cur \cup {h} /\ UNCHANGED walk
  /\ UNCHANGED alive

\* _regRedoHander: once, until it was called or erased.
RegRedo(h) ==
  /\ IF bRedo[h] THEN UNCHANGED <<cur, bRedo>>
     ELSE cur' = cur \cup {h} /\ bRedo' = [bRedo EXCEPT ![h] = TRUE]
  /\ UNCHANGED <<alive, walk>>

\* _eraseRedoHander: only from the current set.
EraseRedo(h) ==
  /\ IF h \in cur THEN cur' = cur \ {h} /\ bRedo' = [bRedo EXCEPT ![h] = FALSE]
     ELSE UNCHANGED <<cur, bRedo>>
  /\ UNCHANGED <<alive, walk>>

\* CwxAppHandler4Channel::close: onConnClosed says whether it is deleted.
CloseHandler(h) ==
  /\ IF h \in cur THEN cur' = cur \ {h} /\ bRedo' = [bRedo EXCEPT ![h] = FALSE]
     ELSE UNCHANGED <<cur, bRedo>>
  /\ alive' \in {alive, alive \ {h}}
  /\ UNCHANGED walk

-----------------------------------------------------------------------------
(* The owner.                                                                *)

Owns(here) == at = here
Idles == UNCHANGED <<lock, tell, polls>>

\* ThreadDoQueue: takes a message, and opens a handler for it.
TakePosted ==
  /\ Owns("queue") /\ posted > 0
  /\ posted' = posted - 1
  /\ \/ UNCHANGED redo
     \/ \E h \in Handler \ alive :
          /\ alive' = alive \cup {h} /\ bRedo' = [bRedo EXCEPT ![h] = FALSE]
          /\ UNCHANGED <<cur, walk>>
  /\ UNCHANGED <<at, turn, lock, pc, calls, polls>>

\* dispatch() of a channel that is not stopped.
Dispatch ==
  /\ Owns("queue") /\ posted = 0 /\ ~bStop
  /\ at' = "poll"
  /\ polls' = [c \in Caller |-> IF pc[c] \in {"read", "wait"} THEN polls[c] + 1 ELSE 0]
  /\ UNCHANGED <<turn, redo, lock, tell>>

\* epoll_wait returns for the pipe, another event, the timeout or a signal.  The
\* notice handler reads some bytes.
PollReturns ==
  /\ Owns("poll")
  /\ at' = "events"
  /\ bytes' = IF bytes > ReadSize THEN bytes - ReadSize ELSE 0
  /\ UNCHANGED <<turn, redo, reads, bStop, tell, polls>>

\* A handler has an event.
CallHandler(h) ==
  /\ Owns("events") /\ turn = NoHandler /\ h \in alive
  /\ turn' = h
  /\ UNCHANGED <<at, redo>> /\ Idles

\* What a callback may do, to its own handler and to others.
Callback(h) ==
  /\ turn # NoHandler /\ h \in alive
  /\ RegRedo(h) \/ EraseRedo(h) \/ CloseHandler(h)
  /\ UNCHANGED <<at, turn>> /\ Idles

Return ==
  /\ turn # NoHandler
  /\ turn' = NoHandler
  /\ UNCHANGED <<at, redo>> /\ Idles

\* Not from a callback that had its own handler deleted: it returns 0.
ReturnError ==
  /\ turn # NoHandler /\ turn \in alive
  /\ CloseHandler(turn) /\ turn' = NoHandler
  /\ UNCHANGED at /\ Idles

\* All events are handed out: the redo set is taken and the other one is used.
SwapRedo ==
  /\ Owns("events") /\ turn = NoHandler
  /\ walk' = cur /\ cur' = {}
  /\ at' = "redo"
  /\ UNCHANGED <<turn, alive, bRedo>> /\ Idles

CallRedo(h) ==
  /\ Owns("redo") /\ turn = NoHandler /\ h \in walk \cap alive
  /\ walk' = walk \ {h} /\ bRedo' = [bRedo EXCEPT ![h] = FALSE]
  /\ turn' = h
  /\ UNCHANGED <<at, alive, cur>> /\ Idles

\* The walk writes to a deleted handler and calls it.
CallDeleted ==
  /\ Owns("redo") /\ turn = NoHandler /\ walk \ alive # {}
  /\ at' = "undefined"
  /\ UNCHANGED <<turn, redo>> /\ Idles

\* The walk is over and m_lock released.
WalkDone ==
  /\ Owns("redo") /\ turn = NoHandler /\ walk = {}
  /\ at' = "check"
  /\ UNCHANGED <<turn, redo>> /\ Idles

CheckStop ==
  /\ Owns("check")
  /\ at' = IF bStop THEN "queue" ELSE "gate"
  /\ UNCHANGED <<turn, redo>> /\ Idles

Gate_open ==
  /\ Owns("gate")
  /\ at' = "queue"
  /\ UNCHANGED <<turn, redo>> /\ Idles

\* m_rwLock.acquire_write(), release(): lets the callers in.
Gate ==
  /\ Owns("gate") /\ reads = 0
  /\ at' = "queue"
  /\ UNCHANGED <<turn, redo>> /\ Idles

\* Between two dispatches the owner may register a handler, and stop.
OwnerRegRedo(h) ==
  /\ Owns("queue") /\ h \in alive
  /\ RegRedo(h)
  /\ UNCHANGED <<at, turn>> /\ Idles

OwnerStops ==
  /\ Owns("queue") \/ turn # NoHandler
  /\ bStop' = TRUE
  /\ UNCHANGED <<at, turn, redo, bytes, reads, tell, polls>>

-----------------------------------------------------------------------------
(* Other threads.                                                            *)

LockFree == at \in {"queue", "check", "gate"}

Goto(c, there) == pc' = [pc EXCEPT ![c] = there]

\* notice(): the result of write is ignored.
Raise == bytes' = IF bytes < PipeSize THEN bytes + 1 ELSE bytes

\* The application appends a message to the worker's queue, and tells the
\* channel when it is the only one there.
Tells_whenNone(length) == length < 1

Tells(length) == length <= 1

Post(c) ==
  /\ pc[c] = "idle" /\ calls < MaxCalls
  /\ calls' = calls + 1 /\ posted' = posted + 1
  /\ IF Tells(posted + 1) THEN Goto(c, "tell") ELSE UNCHANGED pc
  /\ UNCHANGED <<at, turn, redo, lock, polls>>

Tell(c) ==
  /\ pc[c] = "tell"
  /\ Raise /\ Goto(c, "idle")
  /\ UNCHANGED <<at, turn, redo, reads, bStop, posted, calls, polls>>

AcquireRead(c) ==
  /\ pc[c] = "idle" /\ calls < MaxCalls
  /\ calls' = calls + 1 /\ reads' = reads + 1
  /\ Goto(c, "read") /\ polls' = [polls EXCEPT ![c] = 0]
  /\ UNCHANGED <<at, turn, redo, bytes, bStop, posted>>

Notice(c) ==
  /\ pc[c] = "read"
  /\ Raise /\ Goto(c, "wait")
  /\ UNCHANGED <<at, turn, redo, reads, bStop, posted, calls, polls>>

\* m_lock, the operation, unlock: of the redo set, or of the engine (not here).
Operate(c) ==
  /\ pc[c] = "wait" /\ LockFree
  /\ \/ UNCHANGED redo
     \/ \E h \in alive : RegRedo(h) \/ EraseRedo(h)
  /\ Goto(c, "release")
  /\ UNCHANGED <<at, turn, lock, posted, calls, polls>>

Release(c) ==
  /\ pc[c] = "release"
  /\ reads' = reads - 1 /\ Goto(c, "idle")
  /\ UNCHANGED <<at, turn, redo, bytes, bStop, posted, calls, polls>>

\* stop() returns from inside the locked block: the read lock stays.
Stop(c) ==
  /\ pc[c] = "wait" /\ LockFree
  /\ bStop' = TRUE
  /\ Goto(c, "idle")
  /\ UNCHANGED <<at, turn, redo, bytes, reads, posted, calls, polls>>

-----------------------------------------------------------------------------
Owner ==
  \/ TakePosted \/ Dispatch \/ PollReturns \/ SwapRedo \/ WalkDone \/ CheckStop \/ Gate
  \/ Return \/ ReturnError \/ OwnerStops \/ CallDeleted
  \/ \E h \in Handler : CallHandler(h) \/ Callback(h) \/ CallRedo(h) \/ OwnerRegRedo(h)

Call(c) == Tell(c) \/ Notice(c) \/ Operate(c) \/ Release(c) \/ Stop(c)

Next == Owner \/ \E c \in Caller : Post(c) \/ AcquireRead(c) \/ Call(c)

Spec == Init /\ [][Next]_vars

\* The owner goes on, its callbacks return and events end; of the poll nothing
\* is promised but that it sees a byte in the pipe.  Callers go on.
Fairness ==
  /\ WF_vars(TakePosted \/ Dispatch \/ (bytes > 0 /\ PollReturns) \/ SwapRedo
             \/ WalkDone \/ CheckStop \/ Gate)
  /\ SF_vars(SwapRedo)
  /\ WF_vars(Return \/ ReturnError)
  /\ WF_vars(CallDeleted \/ \E h \in Handler : CallRedo(h))
  /\ \A c \in Caller : WF_vars(Call(c))

FairSpec == Spec /\ Fairness

-----------------------------------------------------------------------------
(* Properties.                                                               *)

\* A live handler is marked for redo exactly as long as a set leads to it, and
\* one set does, once: registered twice, erased or closed in a callback, in an
\* onRedo, or by another thread.  The set that is registered in never leads to a
\* deleted handler, and nothing outlives the walk: a handler deleted before the
\* walk reached it is met in this walk or not at all.
RedoKept ==
  /\ cur \cap walk = {} /\ cur \subseteq alive
  /\ walk # {} => at \in {"redo", "undefined"}
  /\ \A h \in alive : bRedo[h] <=> h \in cur \cup walk

\* What a handler that closes relies on when it takes itself out of the redo set
\* and is deleted: no redo leads to it any more.  It is violated, see README: the
\* set that is being walked is not looked at.
RedoLeadsToLive == cur \cup walk \subseteq alive

\* A handler registered for redo is called, erased or closed at last, even when
\* every onRedo registers again, unless the owner sleeps in the poll for good
\* (registering wakes nobody) or has called a deleted handler.
RedoIsCalled ==
  \A h \in Handler :
    []<>(at # "poll") =>
      ((h \in alive /\ bRedo[h]) ~> (h \notin alive \/ ~bRedo[h] \/ bStop \/ at = "undefined"))

\* A caller waits for at most one poll to end, whatever the other callers do.
ServedWithinOneDispatch == \A c \in Caller : polls[c] <= 1

\* A message appended to the queue of the worker is taken, although only the
\* first of a row is followed by a notice and no timeout is promised, as long as
\* the owner has not called a deleted handler.
PostedIsTaken == posted > 0 ~> (posted = 0 \/ bStop \/ at = "undefined")
=============================================================================
