# CWINUX in TLA+

CWINUX is a C++ framework for network servers on Linux: an event loop
(`lib/app`), the threads, queues and task board it hands work to (`lib/cmn`)
and thin wrappers of sockets (`lib/net`).  It has no test suite; its documents
are binary, so what the program says of itself is in the comments of its
headers.  This project models the parts in which several threads, callbacks or
late events meet, checks them with TLC and proves what matters most with TLAPS.

Run a model with `tlc -config X.cfg MCModule`, a proof with `tlapm M.tla`.
`PROJECT.json` lists runs, the source lines of every definition, what each
property would catch (`mutants`), the hazards and the theorems.

## 1. Inventory

| component | state | operations | interacts with | hard behaviour | correct when |
|---|---|---|---|---|---|
| **Task board** `CwxTaskBoard` | task map, time chain, two connection indexes; per task its state, lock flag, mark bits and three event lists | add, notices (sent, failed, received, closed, timeout), remove, dispatch | any thread; calls the task's virtual functions unlocked | events arrive while a thread drives the task; callbacks read stale state | one driver per task; no event stranded or lost; indexes never name a deleted task |
| **Message queue** `CwxMsgQueue` | chain, counts, two marks, state, two condition variables | push and pop at both ends, timeouts, activate, deactivate, close, flush, marks | thread pools | few signals, spurious wake-ups, close under sleepers | a bounded deque; no sleeper forgotten |
| **Thread pool** `CwxThreadPool` | slots, `m_lock`, the queue | start, stop, append | owner, handlers | handlers append to their own full pool; a thread fails to start | queued work is handled; stop returns and leaves nothing |
| **Notice pipe** `CwxAppNoticePipe` | chain of notices, `m_bPipeEmpty`, a pipe | notice, noticeDummy, noticed | reactor, all threads | one byte for many notices, failing writes | nobody sleeps beside a notice |
| **Reactor** `CwxAppReactor` | `m_lock`, `m_rwLock`, `m_bStop`, the connection map | run, stop, register / remove / suspend / resume, notice | framework, engine, all threads | the owner holds the lock while it sleeps | callers get in, stop ends, the engine has one user |
| **Event engine** `CwxAppEpoll` | handler and mask per descriptor, epoll set, signal handlers, timer heap | register, remove, suspend, resume, timers, signals, poll | reactor, handlers, kernel | callbacks change the table in the middle of a batch | the kernel watches what the masks say; events reach live handlers; timers fire once |
| **Send queue** `CwxAppHandler4Msg` | the message being sent, waiting messages, a counter | putMsg, non-block send, clear | connections, user callbacks | partial sends, callbacks that take over the message | every message is sent or reported once |
| **Connections** `CwxAppHandler4TcpConn`, acceptors, connectors | connection state, retries | connect, accept, close, reconnect | engine, framework | reconnect after a late failure | created and closed are told once, in order |
| **Framework** `CwxAppFramework` | `m_bStopped`, the notices' handlers | run, stop, hook, the `notice*` calls | everything | calls from any thread become notices | notices are handled once, in order |
| **Channel** `CwxAppChannel` | a reactor with two redo sets | as the reactor, and redo | threads that own one | a handler erased while the redo set is walked | as the reactor; a handler marked for redo is called; a redo reaches live handlers only (it does not: run `channel_redo`) |
| **Listen manager**, **process manager**, **fork manager** | a map of listens; child pid, state and heartbeat; callbacks | listen, suspend, resume, close; start, watch, restart | framework; signals | signals between two assignments | never two workers; a child that ends is replaced (but in the orders of section 7) |
| **Id lockers**, **thread pool Ex** | reference-counted lock per id; queue per worker | lock, unlock; append | any thread | a lock recycled under a waiter | mutual exclusion per id |
| **Caches, pools, containers, packages, text, files, sockets, C and web server interfaces, examples** | | | | sequential code | out of this project or later |

How they fit: another thread calls the framework, which posts a *notice* to the
reactor's notice pipe; the byte in the pipe wakes the owner out of
`epoll_wait`; after the poll the hook handles the notices; a message to send
goes to the connection's send queue; a received message goes through a thread
pool's queue to a worker, which may tell the task board; the task's driver
calls the task, which sends again through a notice.

## 2. Plan

1. **Task board**: `TaskBoard`, `TaskIndex`, abstract `TaskLease` and
   `RecentList`, `TaskBoardProofs`.  *Done.*
2. **Queue and pool**: `MsgQueue`, abstract `BoundedDeque`, `ThreadPool` (which
   composes the queue with its workers), `LibraryProofs`, `ThreadPoolProofs`.
   *Done.*
3. **Reactor loop**: `NoticePipe`, `Reactor` (composes it with the loop and the
   callers), `ReactorProofs`.  *Done.*
4. **Event engine and connections**: `EventEngine`, `TcpConn` (which composes the
   engine with the life of a connection and the reactor's loop); `TimeHeap` and
   the abstract `TimerSet`; `TcpConnProofs`.  *Done.*
5. **Send queue and receiving side**: `SendQueue`, `SendQueueProofs`; `RecvMsg`.
   *Done.*
6. **Channel** (the reactor with redo sets): `Channel`, `ChannelProofs`.
   **Process manager**: `ProcessMgr`, `ProcessMgrProofs`.  **Id lockers**:
   `IdLock`, proved in `LibraryProofs` with the queue.  *Done.*
7. To come: thread pool Ex with its queues, ids of connections, signals of the
   engine, pools of objects, package rules.

Every safety property that a run expects to hold, and every refinement, is proved for
all values of the constants; what is left to TLC is said at the end of section 6.

## 3. The modules

### Task board: `TaskBoard.tla`, `TaskLease.tla`, `TaskIndex.tla`, `RecentList.tla`

`TaskBoard` models the life of tasks under several threads.  Every critical
section of `m_lock` is one action; so is every callback of a task and the
unlocked `isFinish()` that ends a round of `dispatchEvent`.  A thread has a `pc`
(where it is), `call` (which function of the board it is in), `cur`
(`pTask` of its `dispatchEvent`), `todo` (the locked tasks it still has to
dispatch, as in `noticeConnClosed`, which locks several), `batch` (the lists a
round took out) and `connState` (`connStateMap`, the answers of the callbacks,
applied at the next fetch).  A message is reduced to its kind, its connection
and a serial number; what the user's callbacks decide (keep waiting or not, a
new task state) is chosen freely.  `owed` and `closed` are history
variables.  `NoticeConnClosed` may run more than once for a connection
in `Spec`; `OrderedSpec`, used for the finding, restricts it to what the
framework does: once per connection id, and no event of it afterwards.

`TaskLease` is what the board promises: a task belongs to the application, lies
on the board, or is leased to one thread, and goes back to the application with nothing due.
(That it is finished when it goes back is the theorem `HandedBackFinished`.)  `TaskBoard` implements it (`LeaseSpec`, `owner` mapped from `inApp`
and the threads' `cur` and `todo`).

`TaskIndex` models the inside of the board's map: ids that wrap around
(`_getNextTaskId`), the doubly linked time chain and `reset()`, which joins the
application's iteration.  `RecentList` is the list the chain stands for.

### Queue and pool: `MsgQueue.tla`, `BoundedDeque.tla`, `ThreadPool.tla`

`MsgQueue` has the threads asleep on each condition variable as sets and each
woken thread in a state of its own, so a woken thread must take the mutex again
and re-test its condition; `Spurious` wakes anyone.  `pthread_cond_signal` wakes
one sleeper if there is one.  Pushes and pops at both ends, with and without
timeout, activate, deactivate, close, flush and `setHwm` are actions.  Messages
are model values with a length.  `m_lowWaterMark` is stored and never read, so it
is no variable; the constructor's swap of the marks is in `Init`.

`ThreadPool` is built on an instance of `MsgQueue`: workers are threads that pop and run a handler
(which may append to the pool), controllers start and stop the pool under its
`m_lock`, starting a thread may fail half way.

### Reactor: `NoticePipe.tla`, `Reactor.tla`

`NoticePipe` has the chain, the flag and the number of bytes; `Reactor` EXTENDS
it with the owner's loop (`lock`, `polling`, `dispatch`, `check`, `hook`,
`handling`, `gate`), the callers (read lock, wake-up, `m_lock`, operation,
unlock, release) and the two stop flags.  `m_lock` and the write lock are not
variables: who holds them follows from where the threads are, and `reads`
counts the read locks because `stop()` leaks one.  The framework's `run()` polls
with no timeout of its own, so only the pipe or "some event" wakes the owner, and
no fairness is given to events: the wake-up must come from the pipe.

### Engine and connections: `EventEngine.tla`, `TcpConn.tla`

`EventEngine` has what the engine knows (`handler` and `mask` of a descriptor,
the time heap as `timer`), what the kernel knows (`watch`), what handlers know
(`fdOf`, `regIO`) and the reactor's two id tables.  Each function of the engine
is an operator that says what one call does to these; `CanSuspend` and
`CanResume` say when `epoll_ctl` agrees.

`TcpConn` EXTENDS it with the connections and the loop.  The owner's callbacks run
one after the other; `cur` is the object whose code runs and `step` what it does
next (`event`, `connect`, `open`, `pause`, `close`, `put`), because `close` may
call `connect`, which may call `open` and `close` again, and because `stop()` may
come between any two of them.  `phase` is where the owner is: waiting, handing out
the `batch` of events, timers, the timers of a clock that was set back (`late`),
the hook.  A message is only there or not (`queued`); what the peer, the kernel
and the callbacks answer is chosen freely. 

`TimeHeap` is the array of timers that `EventEngine` reduces to "set" and "past": the
operations of `CwxMinHeap`, and the handlers' own record of their places, as values;
`ScheduleTimer`, `CancelTimer` and `Timeout` are what the engine does with them.
`TimerSet` is what it promises: timers set to a moment or to none, of which an
earliest is called.

Notice handlers run in the hook, without `m_lock` (see hazard RI:23); an
operation of another thread is let in only between two of them, so a torn
operation on the engine is not in the model.

### One connection's messages: `SendQueue.tla`, `RecvMsg.tla`

`SendQueue` models an object of `CwxAppHandler4Msg` or, with `kind = "channel"`,
its twin `CwxAppHandler4Channel`: where the two differ (the counter, how many
messages one `handle_output` sends, who may put a message), `kind` decides.  A
message is first with the application, then in `notices`, in `waiting`, is `cur`,
and is `ended` when it was freed or a callback kept it.  `wire` and `accepted` are
histories of the present connection.  `handle_output` is cut after each message,
because `stop()` may come there; `run` says whether one is under way or `close()`
is due.

`RecvMsg` is `handle_input`: the bytes of a connection are positions in what
the peer sent, a read takes any number of those that are there, and a block
remembers where its first byte came from.

### Channel: `Channel.tla`

`CwxAppChannel` with the loop of a worker thread around it: `at` is where the owner
is, `turn` the handler whose callback runs, `cur` and `walk` the two redo sets.
A callback may close and delete any handler, also one the walk has not reached: the
walk then calls a deleted object (`CallDeleted`), after which nothing is defined and
the model stops (`at = "undefined"`).
Other threads follow the protocol of the reactor (`read`, `wait`, `release`), and
append to the worker's queue and wake it (`tell`).  The pipe is a real one: it
holds `PipeSize` bytes and the handler reads `ReadSize` of them at once.

### Process manager: `ProcessMgr.tla`

`at` is where the loop of `start()` is, `frames` the signal handlers that interrupt
it and each other, cut between their assignments; `mPid`, `state`, `late` and
`bExit` are what they share.  A worker waits for the lock file the manager
holds around `fork`, sets itself up, runs, and ends when it is told to, when it
crashes, when it fails to start and when its parent is gone.  Identifiers are used
again once waited for.

### Id lockers: `IdLock.tla`

`CwxRwIdLockMgr` and, with `Mode = {"write"}`, `CwxMutexIdLockMgr`.  Finding the
object (under the manager's mutex) and getting its lock are two actions.
`MCStructures` puts `MsgQueue`, `TaskIndex`, `IdLock`, `RecvMsg` and `TimeHeap`, which
do not meet, side by side in one run: its first state chooses which of them the behaviour
is of.

## 4. The runs

| run | module, cfg | properties | what it shows |
|---|---|---|---|
| `board_safety` | `MCTaskBoard`, `TaskBoardSafety.cfg` | `NoStrandedWork`, `IndexesMirror`, `LeaseSpec` | Two threads, two tasks, one connection, two events: no work is stranded on a task nobody drives, the indexes mirror each other, and the board implements TaskLease: one driver at a time, who drops nothing that is due when he lets go of the task. |
| `board_events` | `MCTaskBoard`, `TaskBoardOrder.cfg` | `OwedIsQueued`, `CallbackOrder`, `EventuallyCalled`, `MarkedLeaves` | Two threads, one task, three events, drivers that keep running: no event is lost, doubled, never called or called out of the order one round guarantees, and a timed out or removed task is given back. |
| `board_close_race` (violation) | `MCTaskBoard`, `TaskBoardClose.cfg` | `CloseReachesWaiter` | A connection closes while its send-complete callback runs: the task then registers as waiting on the closed connection and is never told. |
| `pool` | `MCThreadPool`, `ThreadPool.cfg` | `SomeoneAwake`, `StoppedIsQuiet`, `StopEnds`, `AppendedIsHandled` | Two workers whose handlers append, two producers, two threads that start and stop, thread creation that may fail: queued messages keep a worker out of its wait for messages and are handled unless a handler blocks on its own full pool, stop() returns even then, and a stopped pool runs nothing and holds nothing. |
| `reactor` | `MCReactor`, `Reactor.cfg` | `WakeIsOwed`, `ServedWithinOnePoll`, `NoticesInOrder`, `EveryNoticeHandled` | Two threads post, operate on handlers and stop beside the owner, with writes and polls that may fail: no wake-up of a sleeping owner is lost while the program is not being stopped, a caller waits for at most one poll, notices are handled once, in order and at last, although no event is promised but the pipe. |
| `reactor_stop` (violation) | `MCReactor`, `ReactorStop.cfg` | `StopEnds` | stop() by another thread returns with m_rwLock still held for reading; the owner, past its check of m_bStop, waits for the write lock for ever. |
| `conn` | `MCTcpConn`, `TcpConn.cfg` | `KernelMatches`, `EventReachesOwner`, `ConnMapAgrees`, `NoneForgotten`, `RecycledIsUnknown`, `SendersAreWatched` | Two connection objects, two descriptors and two ids, connected and accepted, suspended, resumed, sending, failing, timing out, retrying, recycled and stopped at any moment: the engine, the kernel, the connection map and the connections agree, no live connection is forgotten and no recycled one is remembered. |
| `send` | `MCSendQueue`, `SendQueue.cfg` | `OwnedOnce`, `WireWhole`, `FailureTold`, `EveryMessageEnds` | Three messages of two bytes, an object that comes up twice, as a connection and as a channel's handler, with partial and failing writes, refused messages, closing messages and a stop at any moment: each message is in one place, the peer gets whole messages in order, each failure is told once, and a message on a connection that is read ends. |
| `process` | `MCProcessMgr`, `ProcessMgr.cfg` | `OneWorker`, `WorkerIsKnown`, `Replaced`, `StopEndsAll` | The manager's loop, its four signal handlers cut into their assignments and nested two deep, workers that crash, hang, fail to start or lose their parent, two commands of the operator: never two workers, every running worker is the one the manager knows, a dead or hung one is replaced unless the manager has lost it (Lost: its end is overwritten in m_unState, or handled just before a kill with m_pid 0), and a stop ends manager and worker. |
| `channel` | `MCChannel`, `Channel.cfg` | `RedoKept`, `ServedWithinOneDispatch`, `RedoIsCalled`, `PostedIsTaken` | Two handlers that register, erase, close and delete themselves and each other from callbacks and from onRedo, in the walk too, two other threads that post, operate and stop, a pipe that fills up: a live handler is in one of the redo sets exactly while it is marked, and what is registered during the walk never leads to a deleted one; a caller waits for one poll at most; and until the owner has called a deleted handler (run channel_redo), a redo is called and no posted message is left beside a sleeping worker. |
| `channel_redo` (violation) | `MCChannel`, `ChannelRedo.cfg` | `RedoLeadsToLive` | An onRedo closes and deletes a handler that the walk has not reached: it is taken out of the current set only, and the walk still leads to it. |
| `structures` | `MCStructures`, `Structures.cfg` | `NobodySleepsClosed`, `DequeSpec`, `IndexAgrees`, `ChainSpec`, `LockExclusive`, `ReceivedWhole`, `TimerSpec` | Five parts side by side.  Three threads, three messages of lengths 0, 1 and 2, both ends, timeouts, every control call and a moving high water mark: the queue implements a bounded deque and closing it releases every sleeper.  Three tasks and six ids: pointer chain and map of the board hold the same tasks, ids wrap around, the pointers implement a list.  Three threads, two numbers and four lock objects that are recycled: readers and writers of a number exclude each other.  Headers of two bytes and data of 0 to 2 arriving in any pieces on two connections of one object: the application gets whole messages.  Six timers, two moments: whatever is rescheduled or cancelled, the earliest is called first. |

Bounds.  Two threads are enough for every race the properties are about (a
driver and one who tells; an owner and a caller; a consumer and a producer),
three where a signal can go to the wrong one (queue, pool).  Events, notices and
calls are counted and stop at `MaxNotices`, `MaxCalls`: two events per task give
one that is being dispatched and one that arrives meanwhile, four give a whole
batch of every kind; three ids more than tasks make ids wrap.  The safety
theorems of section 6 need none of these bounds.

What the newer models leave out by their bounds:

* `SendQueue`: messages of `Size` bytes (empty ones are refused by the code); a
  counter of 32 bits with `Modulus` 8; a channel handler's `onConnClosed` that
  answers 1 (the application keeps the object); a notice that closes its
  connection after `stop()`.
* `ProcessMgr`: two identifiers make one be used again beside a stale `m_pid`; two
  handlers nest; the operator asks twice.  A worker may end at any moment, also before
  its pid is stored and when its lock fails.  In some orders the manager then loses
  it and never replaces it (`Lost`, section 7); `Replaced` makes exactly this exception.
* `Channel`: what a deleted handler that is called does is not followed; `epoll_wait` fails with `EINTR` only; a pipe of two bytes read one at a
  time, so that it can be full.
* `IdLock`: a thread locks one number at a time; the manager exists before the
  threads do.  Three threads on two numbers and four objects recycle an object
  between two numbers while a third waits.
* `RecvMsg`: the raw mode (`isRawData`) is not followed.  A suspension out of the middle of
  `handle_input` is followed where it fails (the object keeps the message it handed
  over); one that succeeds changes nothing of the object.
* `TimeHeap`: six handlers are the fewest with which the last of the heap must rise
  when one is erased (its parent lies in the other half), two moments give both ties
  and an order.  A handler is registered with a limit only when it has no timer, as
  `registerHandler` asserts.  Taking a timer out and calling it is one action; the branch
  for a clock that was set back, which takes out all of them first and calls them
  afterwards, is in `TcpConn` (`late`).
* `Reactor`: two threads, two calls, two notices, with operations and a stop in the
  same run.

Deadlock is checked in the runs of the board.  It is not in the
others, which may really stop: in the pool a handler that appends to its own full
pool may block for good; the loops of the reactor and of a channel end when they are
stopped, and the leaked lock of finding `reactor_stop` blocks the owner for good; the
manager exits; messages, connections and the peer's bytes are used up.

## 5. Fairness

* `TaskBoard!FairSpec`: weak fairness of each driver's next step, and nothing on
  the threads that tell: a driver is a loop with no wait but the mutex.  Callbacks
  are assumed to return.
* `ThreadPool`: weak fairness of each running worker, of each thread in start()
  or stop(), and of a producer that was woken; spurious wake-ups, appends and the
  decision to start or stop are not assumed (a sleeper stays asleep until it is
  signalled).
* `Reactor!FairSpec`: weak fairness of the owner and of each caller; an event
  other than the pipe may never come.
* `SendQueue!FairSpec`: weak fairness of the handling of notices, of
  `handle_output` and of a close that is due (one thread does them in turn); strong
  fairness of sending the rest of a message: a peer that keeps reading takes it at
  last.  A peer that never reads again while its connection stays up is so
  excluded; one that closes is not.  Nothing makes messages or connections come.
* `Channel!FairSpec`: weak fairness of the owner's steps, of a poll that has a byte to
  see, of callbacks that return, and of callers; strong fairness of the swap of
  the redo sets, that is, the events of one poll end (epoll returns finitely many).
* `ProcessMgr!FairSpec`: strong fairness of the loop and of delivering the end of a
  child, as handlers interrupt the one and other signals may be delivered first;
  of `fork`, which may fail a while; weak fairness of handlers, workers and time.
  Workers are not assumed to beat, crash or hang.
* `TcpConn`: none, its properties are safety properties.

## 6. The proofs

All theorems are about every value of the constants, under the `ASSUME`s of the
modules (null values outside the sets, bounds in `Nat`).  Each proof module
defines `IInv`, proves that `Init` implies it and each action preserves it (one
lemma per action or group of actions), and gets the theorems from it.

* `TaskBoardProofs`: `IInv` = `TypeOK`, `Discipline`, `OneDriver`,
  `NoStrandedWork`, `IndexesMirror`.  `OneDriver` is not inductive alone: it
  needs `Discipline` (what a thread holds in each phase, that tasks to dispatch
  are on the board, that finished tasks are off it).  Theorems: `DriverIsAlone`,
  `NothingStranded`, `MirrorKept`, `SweptIsFinished`, `HandedBackFinished`.
  The events need a second invariant, `EventsInv`: each list is in the order of
  acceptance (`ListsInOrder`), a round is empty outside its callbacks
  (`RoundEnds`) and older than what was cached for its task meanwhile
  (`RoundIsOlder`), and what a task is owed is what its lists and the round of its
  driver hold (`OwedDriven`, `OwedAtRest`).  `OwedIsQueued` (`NothingLost`) is a
  consequence; `CallbackOrder` (`CalledInOrder`) follows because each callback
  takes the head of a list of the older round.  `BoardImplementsLease` maps the
  owner of a task to the application, to the thread whose `cur` or `todo` has it,
  or to the board, and `due` to what is owed; every action is then a step of
  `TaskLease` or a stutter, the release only of a task that is owed nothing.
* `LibraryProofs`, first part (`MsgQueue`): the shape of the queue, `m_curCount` equal
  to the length of the chain, `m_curLength` equal to what is queued, no sleeper
  once closed.  The queued length is the number of bytes of the chain, each named
  by its place (`BoundedDeque!Bytes`): what a message adds at either end, or takes
  away, is then a fact about disjoint finite sets and a bijection that shifts the
  places, and needs no induction over the chain.  Theorems `ClosedReleasesAll`,
  `FirstMessageIsSignalled`, `QueueTyped`, and the refinement `QueueIsADeque`.
* `ThreadPoolProofs`: adds who may be where in which phase of start and stop.
  `SomeoneAwake` needs that a worker was woken or is running whenever the
  count is not zero, which rests on the count being the length.  Theorems
  `NeverAllAsleep`, `QuietAfterStop`.
* `ReactorProofs`: what `m_bPipeEmpty` promises in every phase of the loop
  (`PipeInv`, `WakeInv`) and that a caller who holds the read lock sees at most
  one more poll (`GateInv`).  Theorems `PipeStaysSmall`, `NoWakeIsLost`,
  `CallersAreServed`.  `NoticesKeepOrder` needs besides that the list the hook took
  is empty when it takes the next (`TakenInv`).
* `SendQueueProofs`: `OwnedOnce` and `FailureTold` need each other: that a failing
  message was not told of before follows from its not having ended
  (`ToldWhenEnded`), and that it has not ended from its being held.  Theorems
  `EachInOnePlace`, `FailuresAreTold`.  `MessagesStayWhole` has an invariant of its own,
  `OrderInv`: the chain is in the order of the putting, behind the message being
  sent (`ChainInv`), and while a connection is up what was written ends where
  `m_curSndingMsg` goes on (`EndInv`); a failure or a close in the middle of a
  message leaves a part of it, after which the connection writes nothing more.
* `ChannelProofs`: the marks of the live handlers and the two redo sets (`RedoKept`), the
  read locks as the number of callers that hold one, which needs that callers are
  finite (`ReadInv`), and where a caller may be for its count of polls (`PollInv`).
  Theorems `RedoSetsAreSound`, `CallersAreServed`, and `AstrayOnlyByClose`: what
  `channel_redo` finds begins with the closing of a handler the walk has not reached,
  and in no other way.
* `ProcessMgrProofs`: at most one process was started and not waited for
  (`AtMostOne`, with the places where there is none), `m_pid` is forgotten only
  then (`Forgets`), and names the worker but between `fork` and its
  assignment, when the worker waits for the lock (`Known`).  Theorems `NeverTwo`,
  `RunningIsKnown`.  The exception of `Replaced` rests on a second invariant, `KInv`:
  a SIGCHLD that is pending is that of a worker that ended (`Told`), a worker is started
  only from STOPPED with no pid and no handler under way (`Starting`), and a manager that
  is STOPPED has forgotten the pid, but while it handles the end (`Stopped`).  So a
  manager loses its worker only at the places section 7 names
  (`LostOnlyByOverwriting`), has then no worker at all (`LostHasNoWorker`) and never
  starts one again (`LostStaysLost`).
* `LibraryProofs`, second part (`IdLock`): the 16 bit counter of an object equals the
  number of threads that wait for it or hold it; this is where `CountAssumption` (fewer threads than the
  counter has values) is needed.  Theorems `Exclusive`, `OneObjectPerId`.
* `LibraryProofs`, third part (`RecvMsg`): `RecvInv`, what was read is exactly the
  part of the stream up to the place the object has reached: the beginning of the
  coming message, the bytes of its header, those of its data.  Every element of the
  sent stream knows where its message begins (`at`), which puts "the beginning of the
  k-th message" without a recursion.  Theorems `RecvInductive`,
  `MessagesAreReceivedWhole`.
* `LibraryProofs`, fourth part (`TaskIndex`): `IndexInv`, there is a sequence of tasks,
  each once, whose links in both directions the pointers are, and whose members are
  what the map holds.  `_addTask` puts in front, `_remove` takes out at a place; both
  are shown on the sequence.  That the walk along the pointers meets exactly the
  sequence, and ends, is proved by least counterexample (`Least`), that an id is free
  by counting the tasks.  Theorems `IndexInductive`, `ChainAndMapAgree`, and the
  refinement `PointersAreAList` of `RecentList`.
* `LibraryProofs`, fifth part (`TimeHeap`): `HeapInv`, the array is a heap of the timers
  that are set, and each handler knows its place or that it has none.  In the middle of an
  operation the array has a hole: `HoleAt` says that without the hole it is a heap, also
  from the parent of the hole to its children, and `Fits` that the children are not
  earlier than the element to be put there.  `RiseKeeps` and `SinkKeeps` carry these
  over one turn of `shift_up` and `shift_down`, `LoopRuns` shows that a loop whose turns stay in a set
  of states has a run, and `AllNumbers` (from the well-founded order of the numbers, as
  the induction theorems take an operator) carries them over all turns.  `erase` has
  the two cases that deserve it: the element that fills the place rises or
  sinks, or is the erased one itself.  Theorems `HeapInductive` and the refinement
  `EarliestIsCalled` of `TimerSet`.

* `TcpConnProofs`: the largest argument.  `TableInv`: the handler table, the masks,
  the kernel's interest, the two id tables, the timers and each connection's own
  record agree, with the one exception of objects a stopped framework deleted
  while the table still named them.  `ControlInv`: every live connection is the one
  whose code runs (and then it has what its next step needs, `Working`), or waits to
  be called after the clock was set back (`Taken`), or rests under a timer or a
  descriptor (`Resting`); and the events still in the batch are those of registered
  connections that do not run.  Neither half is inductive without the other: that
  `registerHandler` finds its place free follows from `Working`, and `Working` of the
  next connection to be called from the tables.  TLC checked the invariant on the
  instance of the run before it was proved.  Theorems `KernelAgrees`,
  `EventsAreDelivered`, `IdsLead`, `EveryoneWaits`, `CacheIsForgotten`,
  `SendersWake`: with them every property of that run is proved.

With these, every invariant, every action property and every refinement that a run
expects to hold is proved.  Only model-checked are the ten liveness properties
(`EventuallyCalled`, `MarkedLeaves`, `StopEnds`, `AppendedIsHandled`,
`EveryNoticeHandled`, `EveryMessageEnds`, `Replaced`, `StopEndsAll`, `RedoIsCalled`,
`PostedIsTaken`): the installed provers treat neither fairness nor ENABLED.  The three
properties that TLC refutes (section 7) have no theorem, of course.

## 7. Findings

* `reactor_stop` (`StopEnds`, src/cwinux/lib/app/src/CwxAppReactor.cpp:176): CwxAppReactor::stop() called by a thread that is not the owner returns from inside the locked block, so m_rwLock.release() on line 178 is never reached and the read lock stays held; an owner that has already passed its check of m_bStop blocks in m_rwLock.acquire_write() (line 157) for ever and run() never returns.  CwxAppReactor.h:79 says of stop(): "停止架构事件的循环处理，多线程安全，任意线程都可以调用。" (stops the event loop, thread safe, any thread may call it).
* `channel_redo` (`RedoLeadsToLive`, src/cwinux/lib/app/include/CwxAppChannel.inl:417): CwxAppChannel::_eraseRedoHander looks for the handler in *m_pCurRedoSet only, while dispatch() walks the other set (CwxAppChannel.cpp:133-157).  CwxAppHandler4Channel::close (CwxAppHandler4Channel.cpp:75-86) relies on eraseRedoHander and then deletes the handler; called from the onRedo of another handler it leaves the deleted one in the set that is walked, and the walk writes its m_bRedo and calls its onRedo.  CwxAppChannel.h:154 says of eraseRedoHander: "删除redo handler。多线程安全，任意线程都可以调用。" (removes the redo handler), with "false：不存在" (false: it is not there) in line 156, and CwxAppHandler4Channel.h:106 of a close: "-1：从engine中将handle移除并删除。" (the handler is removed and deleted).
* `board_close_race` (`CloseReachesWaiter`, src/cwinux/lib/cmn/src/CwxTaskBoard.cpp:343): dispatchEvent applies the answer of noticeEndSendMsg (keep waiting on the connection) only at its next fetch, lines 304-317.  If the connection closes while the callback runs, CwxTaskBoard::noticeConnClosed (lines 191-218) looks the connection up in m_connTaskMap, finds no task and tells nobody; the task then registers on a connection that is already closed and is never told.  CwxTaskBoard.h:116 says of the notice: "@brief 通知Task等待回复消息的一条连接关闭。" (tells the task that a connection it waits on for a reply was closed).

Other disagreements met while modelling, for which no run is kept:

* A task that times out while its driver reads `isFinish()` unlocked may be
  finished without `noticeTimeout` (CwxTaskBoard.cpp:402).
* `CwxMsgQueue`: a second message that arrives before the consumer woken by the
  first has run wakes nobody, so a consumer can sleep in `pop` beside a queued
  message until the other comes back (CwxMsgQueue.cpp:84, CwxThread.h:102 "blocks
  if the queue is empty"); a pool keeps going with fewer workers awake than
  messages.  `flush` does not wake producers that sleep on a full queue
  (CwxMsgQueue.cpp:117).  The constructor stores the marks the other way round
  (CwxMsgQueue.cpp:11).
* `CwxThreadPool::start` that fails half way joins slots that were never
  initialised (CwxThreadPool.cpp:53).
* A connection that waits for its retry and was registered before has no
  descriptor: `callback` then writes to `m_connId[-1]` (CwxAppReactor.cpp:191),
  which on the usual layout is `m_bStop` (CwxAppReactor.h:350): a `stop()` made
  since the last check is forgotten.
* A stopped framework deletes a connection that is still in the engine's tables
  (CwxAppHandler4TcpConn.cpp:42-47).  The acceptor reads `isStopListen()` of a
  handler it has just closed (CwxAppTcpAcceptor.cpp:113-114).
* `noticeResumeConn` and `noticeSuspendConn` return -1 on success
  (CwxAppFramework.cpp:551-567: the result is tested as a boolean).  A resume of a
  connection that is connecting makes it watched for reading, against the
  assertion in CwxAppHandler4Msg.cpp:113.
* `noticeCloseConn` of a connection that has never been established finds
  nothing: it is in the connection map only after that (CwxAppFramework.cpp:1312).
* CwxAppConnInfo.h:39 lists ESTABLISHING and FAILED as what may follow TIMEOUT;
  a retry whose connect is pending goes from TIMEOUT to CONNECTING.
* A message put on a connection that was closed a moment before, in the same
  notice (CwxAppFramework.cpp:1206-1218), waits on an object that may be another
  connection by then.
* A connection without read and write events is still told of hang-ups by epoll,
  which nobody handles: the loop spins until it is closed.

* A resume of a suspended connection that has nothing to send fails with `EEXIST`:
  `addEvent` adds the descriptor (CwxAppEpoll.h:162) that `delEvent` kept in the
  epoll set with no events (CwxAppEpoll.inl:38-64).  A message put on such a
  connection is never sent (CwxAppHandler4Msg.inl:62 promises the contrary).
* `noticeTcpConnect` (CwxAppFramework.cpp:370) does not reset `m_bActiveClose` of a
  recycled object: a first attempt that fails is then not tried again.
* `stop()` that raises `m_bStopped` between dispatch and hook makes the hook skip
  its notices; `m_bPipeEmpty` stays false, stop's own wake-up writes nothing,
  and the owner may sleep on while `stop()` waits for `m_lock`.
* A message with CLOSE_NOTICE or RECONN_NOTICE stays `m_curSndingMsg` when `close()`
  comes: `onFailSendMsg` is called for a message that was sent.
* `m_uiWaitingMsgNum` is set to 1 by a message put on an empty chain while another
  is being sent (CwxAppHandler4Msg.inl:46); when both are sent it wraps to 2^32 - 1,
  and the queue is full until the next open (CwxAppHandler4Msg.h:102).
* A suspend that fails inside `handle_input` leaves `m_recvMsgData` of a message that
  was handed over; the data phase tests `errno` after a `recv()` that returned 0
  (CwxAppHandler4Msg.cpp:312-324, CwxAppHandler4Channel.cpp:315-325).
* `instance()` of both lock managers publishes `m_pInstance` before `init()`;
  `rdLock` (CwxRwIdLocker.inl:48) and `lock` (CwxMutexIdLocker.inl:47) return no
  value.
* `-r restart` sends SIGQUIT (CwxAppFramework.cpp:135), which the manager takes as
  stop (CwxAppProcessMgr.cpp:201-208).  A SIGQUIT while `m_pid` is 0 is ignored.
* The process manager can lose its worker for good (`Lost` in `ProcessMgr`), which is
  the exception `Replaced` makes.  (a) The worker ends before its pid and state are
  stored, for instance by the `exit(0)` of a lock that fails: SIGCHLD is handled, then
  the pid of a dead process and "running" are stored over what the handler wrote
  (CwxAppProcessMgr.cpp:229-236).  (b) Its end is handled inside the handler for stop
  or restart, which then marks the worker as stopping.  (c) Its end is handled between
  the tests of `start()` and its `kill`: `m_pid` is 0 and the manager kills its own
  process group (lines 79-97).  There are no other orders, and no way back:
  `LostOnlyByOverwriting`, `LostStaysLost`.
* `CwxAppListenMgr::close` declares `iter` twice; after the lock it dereferences the
  outer one, which was never set (CwxAppListenMgr.cpp:56, 66): closing a listen is
  undefined.  (The inner one would be no better: it was erased.)
* `removeSignal` does not clear `m_arrSignals`: a signal that came before a callback of the
  same poll removed its handler is answered by calling a NULL handler
  (CwxAppEpoll.cpp:301-331, 541-545, an assertion only).
* `registerHandler` with a limit, of a handler that has a timer, changes its moment in
  place before the heap refuses it (CwxAppEpoll.cpp:160-163): without assertions the
  order of the heap is lost.
* The `ullLastTime` by which `poll` sees that the clock was set back is static
  (CwxAppEpoll.cpp:458): all engines of a process share it, so only one of them notices.
* `CwxThreadPoolEx::stop` closes and joins one worker after the other
  (CwxThreadPoolEx.cpp:45-51): a handler that waits for room in the queue of a later
  worker, which waits for room in its own, is never released.
* `noticeFork` (CwxAppFramework.cpp:596-600) wakes nobody.
* A channel's `stop()` leaks the read lock as the reactor's does; a channel that is
  opened again then hangs at its gate (CwxAppChannel.cpp:194).  An onRedo that erases
  (without closing) a handler the walk has not reached does not take it out of the walk
  either (CwxAppChannel.inl:417): it is called although erased.  `regRedoHander` of another thread wakes nobody.
* The owner's operations between two dispatches of a channel take no lock and race
  with those of other threads.

## 8. Not modelled

* **Event engine**: registerHandler, removeHandler, suspendHandler, resumeHandler, timers and poll (EventEngine), and the order of the timers (TimeHeap, which implements TimerSet).  Not modelled: signals, forkReinit and destruction.
* **TCP connections: accept, connect, send, close, retry**: The life of a CwxAppHandler4TcpConn on the engine.  Not modelled: which messages wait in the send queue and who owns them, the receive buffer, suspending the listener, connections whose descriptor the application watches itself.
* **Reactor**: The run loop with its two locks, stop, and every operation of another thread as one call into the engine.  Modelled by the engine: what the operations change. Not modelled: the bOnce and timeout forms of run(), forkReinit.
* **Framework: notices, hook, stop**: run, stop, hook, noticeEvent, and sendMsgByConn as it posts notices (Reactor) and as what its messages become (SendQueue).  Not modelled: start-up and configuration, the handlers of the notices that listen and of those on channels, the user callbacks.
* **Receiving side**: handle_input and recvPackage as they cut the stream into messages.  Not modelled: raw data, the suspension of reading that succeeds (it ends the event; what it does to the masks is in TcpConn), the fields of the header other than its length.
* **Channel reactor**: dispatch, stop, the two redo sets, the notices, every operation of another thread, and the worker that owns the channel.  What the operations do to the engine is that of EventEngine.  Not modelled: the tables of connections, timers and signals of a channel, the bOnce form.
* **Unix connections**: The code of the TCP connections again, without the pending state of a connect; TcpConn stands for both.
* **Listen manager**: One map of listens, used by the owner; close() dereferences an iterator that was never set (section 7), so that closing a listen has no defined outcome to check.
* **Fork manager**: One list of callbacks behind a lock; the fork itself leaves the model.
* **Handler cache**: A free list per handler type used by the owner only.
* **Aio window**: A set of sequence numbers with accessors, used by no code of the repository: what it must do is up to a caller that is not here.
* **Io, stdio, time and signal handlers**: Thin adapters from the engine to a callback of the framework.
* **Application configuration**: Plain data with accessors.
* **Thread pools Ex and Thrift**: Ex has a queue per worker, each of which is the queue and worker loop of ThreadPool with one worker; Thrift is the same loop on a queue that counts messages instead of bytes.  Their composition (handlers that append to one another's queues while the workers are stopped one by one, section 7) is not modelled.
* **Read-write lock, mutex, thread-specific data**: Wrappers of pthread primitives; the primitives are modelled where the modules use them.
* **Commander**: A registry of event handlers filled before threads start; sequential.
* **Caches and pools**: Free lists behind a lock.  CwxLruCache does not compile: insert() declares size twice, and two functions name a member index_ that is not there (CwxLruCache.h); there is no program to model.
* **Containers**: Sequential data structures; those the modelled components use are sequences and sets there, except CwxMinHeap, which is TimeHeap.
* **Expression machines**: String matching: sequential code over character data.
* **Packages and message header**: Encoding and decoding of key-value packages: byte layout, better tested than model-checked; the header checksum and length rules may follow.
* **Utilities**: Pure functions, formatting and file I/O.
* **Character set tables**: Tables.
* **Sockets and addresses**: Wrappers of system calls: pure I/O, modelled by their outcomes where a component calls them.
* **Client interfaces**: Ports of the package code to C and server plug-ins.
* **Examples**: Sample programs.
