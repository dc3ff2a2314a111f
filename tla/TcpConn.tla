------------------------------ MODULE TcpConn ------------------------------
(***************************************************************************)
(* CwxAppHandler4TcpConn on top of the engine: how a TCP connection is     *)
(* accepted or connected, talks, fails, waits for its next attempt and is  *)
(* recycled, while the reactor's loop delivers events and timers.          *)
(*                                                                         *)
(* The loop's callbacks run one after the other in the owner thread, with  *)
(* m_lock held; the framework's notices run between two polls.  A callback *)
(* is cut into steps where it reads the framework's stop flag anew or      *)
(* calls the engine again, since stop() may be called at any moment.       *)
(* What the kernel, the peer and the application's on...() functions       *)
(* answer is chosen freely.  The acceptor's own descriptor is not in the   *)
(* tables; it has an event whenever a connection arrives.                  *)
(***************************************************************************)
EXTENDS EventEngine

VARIABLES
  state,       \* m_conn.getState()
  place,       \* unused (new, or in the handler cache), asked for, live, deleted
  id,          \* m_conn.getConnId()
  active,      \* m_conn.isActiveConn()
  activeClose, \* m_conn.isActiveClose()
  queued,      \* a message is being sent or waits (not isEmpty())
  bStopped,    \* m_bStopped of the framework
  bStop,       \* m_bStop of the reactor
  phase,       \* where the owner is in CwxAppReactor::run
  batch,       \* the events of this poll that are still to be dispatched
  late,        \* handlers whose timers poll() took when the clock was set back
  cur, step,   \* the handler that runs, and what it does next
  event,       \* the rest of the mask handle_event was given
  latePut      \* a message is still to be put on cur when its close() returns

Conn == Handler

connVars == <<state, place, id, active, activeClose, queued>>
stopVars == <<bStopped, bStop>>
loopVars == <<phase, batch, late>>
runVars  == <<cur, step, event, latePut>>
vars == <<engine, connVars, stopVars, loopVars, runVars>>

States == {"IDLE", "CONNECTING", "TIMEOUT", "ESTABLISHING", "ESTABLISHED", "FAILED"}
Events == [fd : Fd, ready : SUBSET RW, owner : Handler]

TypeOK ==
  /\ EngineTypeOK
  /\ state \in [Conn -> States]
  /\ place \in [Conn -> {"unused", "asked", "live", "deleted"}]
  /\ id \in [Conn -> ConnId \cup {NoConn}]
  /\ active \in [Conn -> BOOLEAN] /\ activeClose \in [Conn -> BOOLEAN]
  /\ queued \in [Conn -> BOOLEAN]
  /\ bStopped \in BOOLEAN /\ bStop \in BOOLEAN
  /\ phase \in {"out", "hook", "events", "timers", "late", "ended"}
  /\ batch \in SUBSET Events
  /\ late \in SUBSET Handler
  /\ cur \in Handler \cup {None}
  /\ step \in {"none", "event", "connect", "open", "pause", "close", "put"}
  /\ event \in SUBSET {"read", "write", "timeout"}
  /\ latePut \in BOOLEAN

Init ==
  /\ EngineInit
  /\ state = [h \in Conn |-> "IDLE"]
  /\ place = [h \in Conn |-> "unused"]
  /\ id = [h \in Conn |-> NoConn]
  /\ active = [h \in Conn |-> FALSE] /\ activeClose = [h \in Conn |-> FALSE]
  /\ queued = [h \in Conn |-> FALSE]
  /\ bStopped = FALSE /\ bStop = FALSE
  /\ phase = "out" /\ batch = {} /\ late = {}
  /\ cur = None /\ step = "none" /\ event = {} /\ latePut = FALSE

-----------------------------------------------------------------------------
(* Helpers.                                                                  *)

\* The kernel gives a descriptor that is not open.
Fresh(fd) == \A h \in Conn : fdOf[h] # fd

\* getNextConnId: not in the map, and not given to a connection that will
\* enter it.  (The counter has 32 bits and is never near its end here.)
FreshId(c) ==
  connMap[c] = None /\ \A h \in Conn : id[h] = c => place[h] = "unused"

Run(h, s) == cur' = h /\ step' = s

\* The callback of h returns; after a failed resume its message is put yet.
Return(h) ==
  /\ IF latePut THEN Run(h, "put") ELSE Run(None, "none")
  /\ event' = {}
  /\ UNCHANGED latePut

Continue(h, s) == Run(h, s) /\ UNCHANGED <<event, latePut>>

\* The part of handle_event that dealt with m is done.
Did(h, m) == event' = event \ {m} /\ UNCHANGED <<cur, step, latePut>>

\* A live connection found by its id.  (One deleted by a stopped framework is
\* still in the map; what a later call does with freed memory is not followed.)
Holds(c, h) == connMap[c] = h /\ place[h] = "live"

-----------------------------------------------------------------------------
(* CwxAppReactor::run and CwxAppEpoll::poll.                                 *)

\* epoll_wait reports some of the watched descriptors, each with some of what
\* is asked of it, or with a hang-up alone.
Wait ==
  /\ phase = "out"
  /\ \E fds \in SUBSET {fd \in Fd : Watched(fd)} : \E ready \in [fds -> SUBSET RW] :
       /\ \A fd \in fds : ready[fd] \subseteq watch[fd]
       /\ batch' = {[fd |-> fd, ready |-> ready[fd], owner |-> handler[fd]] : fd \in fds}
  /\ phase' = "events"
  /\ UNCHANGED <<engine, connVars, stopVars, runVars, late>>

\* The handler found in the table now, whoever it was at epoll_wait.
Dispatch(e) ==
  /\ phase = "events" /\ cur = None /\ e \in batch
  /\ handler[e.fd] # None
  /\ TakeEvent(e.fd)
  /\ batch' = batch \ {e}
  /\ Run(handler[e.fd], "event") /\ event' = e.ready
  /\ UNCHANGED <<fdOf, regIO, connMap, connVars, stopVars, phase, late, latePut>>

EventsDone ==
  /\ phase = "events" /\ cur = None /\ batch = {}
  /\ phase' = "timers"
  /\ UNCHANGED <<engine, connVars, stopVars, runVars, batch, late>>

EventsDoneClockSet ==
  /\ phase = "events" /\ cur = None /\ batch = {}
  /\ TakeAllTimers
  /\ late' = {TimedOut(h) : h \in {g \in Handler : timer[g] # "none"}}
  /\ phase' = "late"
  /\ UNCHANGED <<fdOf, regIO, connId, connMap, connVars, stopVars, runVars, batch>>

\* CwxAppReactor::callback forgets the connection id of a handler that was
\* registered with a descriptor.  Without one it writes to m_connId[-1]: the
\* word before the array, which holds m_bStop.
ForgetId(h) ==
  CASE ~regIO[h]       -> UNCHANGED <<connId, bStop>>
    [] regIO[h] /\ fdOf[h] # NoFd ->
         connId' = [connId EXCEPT ![fdOf[h]] = NoConn] /\ UNCHANGED bStop
    [] OTHER           -> bStop' = FALSE /\ UNCHANGED connId

CallTimeout(h) ==
  /\ ForgetId(h)
  /\ Run(h, "event") /\ event' = {"timeout"}
  /\ UNCHANGED <<fdOf, regIO, connMap, connVars, bStopped, phase, batch, latePut>>

FireTimer(h) ==
  /\ phase = "timers" /\ cur = None
  /\ timer[h] = "past" /\ TimedOut(h) # None
  /\ TakeTimer(h)
  /\ CallTimeout(TimedOut(h))
  /\ UNCHANGED late

FireLate(h) ==
  /\ phase = "late" /\ cur = None
  /\ h \in late /\ late' = late \ {h}
  /\ CallTimeout(h)
  /\ UNCHANGED tables

\* The hook does nothing once the framework is stopped.
PollDone ==
  /\ cur = None
  /\ \/ phase = "timers" /\ \A h \in Handler : timer[h] # "past"
     \/ phase = "late" /\ late = {}
  /\ phase' = IF bStop THEN "ended" ELSE IF bStopped THEN "out" ELSE "hook"
  /\ UNCHANGED <<engine, connVars, stopVars, runVars, batch, late>>

HookDone ==
  /\ phase = "hook" /\ cur = None
  /\ phase' = IF bStop THEN "ended" ELSE "out"
  /\ UNCHANGED <<engine, connVars, stopVars, runVars, batch, late>>

EndLoop ==
  /\ phase = "out" /\ bStop
  /\ phase' = "ended"
  /\ UNCHANGED <<engine, connVars, stopVars, runVars, batch, late>>

\* A moment passes; poll() compares with the time it read when it began.
Tick(h) ==
  /\ phase \in {"out", "hook"}
  /\ timer[h] = "running"
  /\ timer' = [timer EXCEPT ![h] = "past"]
  /\ UNCHANGED <<handler, mask, watch, fdOf, regIO, connId, connMap,
                 connVars, stopVars, loopVars, runVars>>

-----------------------------------------------------------------------------
(* What other threads do.                                                    *)

\* CwxAppFramework::stop sets the flag at once; the reactor's flag is set by
\* a callback of the owner, or under m_lock and so between two polls.
StopApp ==
  /\ ~bStopped /\ bStopped' = TRUE
  /\ UNCHANGED <<engine, connVars, bStop, loopVars, runVars>>

StopReactor ==
  /\ bStopped /\ ~bStop
  /\ phase \in {"out", "hook"} \/ step = "event"
  /\ bStop' = TRUE
  /\ UNCHANGED <<engine, connVars, bStopped, loopVars, runVars>>

\* A new object, or one from the cache with what its last use left in it.
AskConnect(h, c) ==
  /\ place[h] = "unused" /\ FreshId(c)
  /\ place' = [place EXCEPT ![h] = "asked"]
  /\ id' = [id EXCEPT ![h] = c]
  /\ active' = [active EXCEPT ![h] = TRUE]
  /\ UNCHANGED <<engine, state, activeClose, queued, stopVars, loopVars, runVars>>

SuspendConn(c) ==
  /\ phase \in {"out", "hook"} /\ cur = None
  /\ \E h \in Conn :
       /\ Holds(c, h) /\ Registered(h)
       /\ CanSuspend(fdOf[h], {"read"}) /\ Suspend(fdOf[h], {"read"})
  /\ UNCHANGED <<fdOf, regIO, connId, connMap, connVars, stopVars, loopVars, runVars>>

ResumeConn(c) ==
  /\ phase \in {"out", "hook"} /\ cur = None
  /\ \E h \in Conn :
       /\ Holds(c, h) /\ Registered(h)
       /\ CanResume(fdOf[h], {"read"}) /\ Resume(fdOf[h], {"read"})
  /\ UNCHANGED <<fdOf, regIO, connId, connMap, connVars, stopVars, loopVars, runVars>>

-----------------------------------------------------------------------------
(* The notices, carried out by the hook.                                     *)

Noticed == phase = "hook" /\ cur = None

InnerConnect(h) ==
  /\ Noticed /\ place[h] = "asked"
  /\ place' = [place EXCEPT ![h] = "live"]
  /\ Continue(h, "connect")
  /\ UNCHANGED <<engine, state, id, active, activeClose, queued, stopVars, loopVars>>

InnerClose(c) ==
  /\ Noticed
  /\ \E h \in Conn :
       /\ Holds(c, h)
       /\ activeClose' = [activeClose EXCEPT ![h] = TRUE]
       /\ Continue(h, "close")
  /\ UNCHANGED <<engine, state, place, id, active, queued, stopVars, loopVars>>

InnerReconnect(c) ==
  /\ Noticed
  /\ \E h \in Conn :
       /\ Holds(c, h) /\ active[h] /\ state[h] # "CONNECTING"
       /\ activeClose' = [activeClose EXCEPT ![h] = FALSE]
       /\ Continue(h, "close")
  /\ UNCHANGED <<engine, state, place, id, active, queued, stopVars, loopVars>>

\* A message may carry the wish to suspend or to resume reading.
InnerSend(c) ==
  /\ Noticed
  /\ \E h \in Conn :
       LET fd == fdOf[h] IN
       /\ Holds(c, h) /\ state[h] = "ESTABLISHED"
       /\ \/ Run(h, "put") /\ UNCHANGED tables
          \/ CanSuspend(fd, {"read"}) /\ Suspend(fd, {"read"}) /\ Run(h, "put")
          \/ CanResume(fd, {"read"}) /\ Resume(fd, {"read"}) /\ Run(h, "put")
          \/ ~CanResume(fd, {"read"}) /\ Run(h, "close") /\ UNCHANGED tables
  /\ latePut' = (step' = "close")
  /\ UNCHANGED <<fdOf, regIO, connId, connMap, connVars, stopVars, loopVars, event>>

\* putMsg: nothing if the queue is full or the object is gone; the writer is
\* woken when no message waits (one may be half sent: again).
PutMsg_asleep(h) ==
  /\ cur = h /\ step = "put"
  /\ queued' = [queued EXCEPT ![h] = @ \/ place[h] # "deleted"]
  /\ Run(None, "none") /\ latePut' = FALSE /\ event' = {}
  /\ UNCHANGED <<engine, state, place, id, active, activeClose, stopVars, loopVars>>

PutMsg(h) ==
  LET wakes == Registered(h) /\ CanResume(fdOf[h], {"write"}) IN
  /\ cur = h /\ step = "put"
  /\ \/ UNCHANGED <<tables, queued>>
     \/ /\ place[h] # "deleted"
        /\ queued' = [queued EXCEPT ![h] = TRUE]
        /\ \E again \in BOOLEAN :
             IF wakes /\ (again \/ ~queued[h]) THEN Resume(fdOf[h], {"write"})
             ELSE UNCHANGED tables
  /\ Run(None, "none") /\ latePut' = FALSE /\ event' = {}
  /\ UNCHANGED <<fdOf, regIO, connId, connMap, state, place, id, active, activeClose,
                 stopVars, loopVars>>

-----------------------------------------------------------------------------
(* How a connection comes up.                                                *)

\* The acceptor's handle_event, once per connection: makeHander and open.
Accept(h, fd, c) ==
  /\ phase = "events" /\ cur = None /\ ~bStopped
  /\ place[h] = "unused" /\ FreshId(c) /\ Fresh(fd)
  /\ place' = [place EXCEPT ![h] = "live"]
  /\ state' = [state EXCEPT ![h] = "ESTABLISHING"]
  /\ id' = [id EXCEPT ![h] = c]
  /\ active' = [active EXCEPT ![h] = FALSE]
  /\ fdOf' = [fdOf EXCEPT ![h] = fd]
  /\ Continue(h, "open")
  /\ UNCHANGED <<tables, regIO, connId, connMap, activeClose, queued,
                 stopVars, loopVars>>

\* CwxAppTcpConnector::connect: refused at once, connected at once, or pending.
Connect(h) ==
  /\ cur = h /\ step = "connect"
  /\ \/ fdOf' = [fdOf EXCEPT ![h] = NoFd] /\ Continue(h, "close") /\ UNCHANGED state
     \/ \E fd \in Fd, s \in {"ESTABLISHING", "CONNECTING"} :
          /\ Fresh(fd)
          /\ fdOf' = [fdOf EXCEPT ![h] = fd]
          /\ state' = [state EXCEPT ![h] = s]
          /\ Continue(h, "open")
  /\ UNCHANGED <<tables, regIO, connId, connMap, place, id, active, activeClose,
                 queued, stopVars, loopVars>>

Opening(h) == cur = h /\ step = "open"

OpenStopped(h) ==
  /\ Opening(h) /\ bStopped
  /\ Continue(h, "close")
  /\ UNCHANGED <<engine, connVars, stopVars, loopVars>>

\* Wait for the connection, with or without a limit.
OpenConnecting(h) ==
  /\ Opening(h) /\ ~bStopped /\ state[h] = "CONNECTING"
  /\ \/ \E limit \in BOOLEAN : RegisterHandler(h, {"write"}, limit, NoConn) /\ Return(h)
     \/ RegisterFails(h, NoConn) /\ Continue(h, "close")
  /\ UNCHANGED <<fdOf, connVars, stopVars, loopVars>>

\* clear(), then the socket is made non-blocking, the application is asked
\* (it may ask for the connection to be suspended), and it is registered.
OpenEstablishing(h) ==
  /\ Opening(h) /\ ~bStopped /\ state[h] = "ESTABLISHING"
  /\ activeClose' = [activeClose EXCEPT ![h] = FALSE]
  /\ queued' = [queued EXCEPT ![h] = FALSE]
  /\ \/ /\ \E s \in {"FAILED", "ESTABLISHING"} : state' = [state EXCEPT ![h] = s]
        /\ Continue(h, "close") /\ UNCHANGED engine
     \/ /\ RegisterHandler(h, PRead, FALSE, id[h]) /\ UNCHANGED fdOf
        /\ state' = [state EXCEPT ![h] = "ESTABLISHED"]
        /\ Return(h) \/ Continue(h, "pause")
     \/ /\ RegisterFails(h, id[h]) /\ Continue(h, "close") /\ UNCHANGED <<fdOf, state>>
  /\ UNCHANGED <<place, id, active, stopVars, loopVars>>

Pause(h) ==
  /\ cur = h /\ step = "pause"
  /\ IF CanSuspend(fdOf[h], {"read"}) THEN Suspend(fdOf[h], {"read"}) ELSE UNCHANGED tables
  /\ Return(h)
  /\ UNCHANGED <<fdOf, regIO, connId, connMap, connVars, stopVars, loopVars>>

-----------------------------------------------------------------------------
(* handle_event.                                                             *)

Handling(h, s) == cur = h /\ step = "event" /\ state[h] = s

\* Too late, refused (getsockopt), or connected.
OnConnecting(h) ==
  /\ Handling(h, "CONNECTING")
  /\ \/ Continue(h, "close") /\ UNCHANGED state
     \/ /\ "timeout" \notin event
        /\ state' = [state EXCEPT ![h] = "ESTABLISHING"]
        /\ Continue(h, "open")
  /\ UNCHANGED <<engine, place, id, active, activeClose, queued, stopVars, loopVars>>

\* The moment to connect again.
OnTimeout(h) ==
  /\ Handling(h, "TIMEOUT") /\ "timeout" \in event
  /\ IF bStopped THEN Return(h) ELSE Continue(h, "connect")
  /\ UNCHANGED <<engine, connVars, stopVars, loopVars>>

Writing(h) == Handling(h, "ESTABLISHED") /\ "write" \in event
Reading(h) == Handling(h, "ESTABLISHED") /\ "write" \notin event /\ "read" \in event

NotWhenStopped(h) ==
  /\ bStopped
  /\ \/ Writing(h) /\ Did(h, "write")
     \/ Reading(h) /\ Did(h, "read")
  /\ UNCHANGED <<engine, connVars, stopVars, loopVars>>

\* Nothing is left, or the application wants nothing of it sent.
OutputEmpty(h) ==
  LET fd == fdOf[h] IN
  /\ Writing(h) /\ ~bStopped
  /\ queued' = [queued EXCEPT ![h] = FALSE]
  /\ IF CanSuspend(fd, {"write"})
     THEN Suspend(fd, {"write"}) /\ Did(h, "write")
     ELSE UNCHANGED tables /\ Continue(h, "close")
  /\ UNCHANGED <<fdOf, regIO, connId, connMap, state, place, id, active, activeClose,
                 stopVars, loopVars>>

\* A message is sent, and others are left or not.  onEndSendMsg may suspend or
\* resume reading; there may be a limit on the messages sent in one go.
OutputSent(h) ==
  LET fd == fdOf[h] IN
  /\ Writing(h) /\ ~bStopped /\ queued[h]
  /\ \E more \in BOOLEAN : queued' = [queued EXCEPT ![h] = more]
  /\ \/ UNCHANGED tables
     \/ CanSuspend(fd, {"read"}) /\ Suspend(fd, {"read"})
     \/ CanResume(fd, {"read"}) /\ Resume(fd, {"read"})
  /\ Did(h, "write") \/ UNCHANGED runVars
  /\ UNCHANGED <<fdOf, regIO, connId, connMap, state, place, id, active, activeClose,
                 stopVars, loopVars>>

OutputPart(h) ==
  /\ Writing(h) /\ ~bStopped /\ queued[h]
  /\ Did(h, "write")
  /\ UNCHANGED <<engine, connVars, stopVars, loopVars>>

\* The socket fails, a resume fails, or the message asks for a reconnection or
\* (CLOSE_NOTICE) for the end.
OutputEnds(h) ==
  /\ Writing(h) /\ ~bStopped /\ queued[h]
  /\ \E closes \in BOOLEAN : activeClose' = [activeClose EXCEPT ![h] = @ \/ closes]
  /\ Continue(h, "close")
  /\ UNCHANGED <<engine, state, place, id, active, queued, stopVars, loopVars>>

\* The application may suspend reading with the message it is given.
Input(h) ==
  LET fd == fdOf[h] IN
  /\ Reading(h) /\ ~bStopped
  /\ \/ Did(h, "read") /\ UNCHANGED tables
     \/ CanSuspend(fd, {"read"}) /\ Suspend(fd, {"read"}) /\ Did(h, "read")
     \/ Continue(h, "close") /\ UNCHANGED tables
  /\ UNCHANGED <<fdOf, regIO, connId, connMap, connVars, stopVars, loopVars>>

\* What is asked for is done, or it was a hang-up alone, which nobody sees.
Handled(h) ==
  /\ Handling(h, "ESTABLISHED") /\ event \cap RW = {}
  /\ Return(h)
  /\ UNCHANGED <<engine, connVars, stopVars, loopVars>>

-----------------------------------------------------------------------------
(* close.                                                                    *)

Closing(h) == cur = h /\ step = "close"

\* Once the framework is stopped the object is deleted, and its descriptor
\* closed with it; the engine and the maps are not told.
CloseStopped(h) ==
  LET fd == fdOf[h] IN
  /\ Closing(h) /\ bStopped
  /\ timer' = WithoutTimer(h)
  /\ watch' = IF fd = NoFd THEN watch ELSE WithoutWatch(fd)
  /\ fdOf' = [fdOf EXCEPT ![h] = NoFd]
  /\ place' = [place EXCEPT ![h] = "deleted"]
  /\ queued' = [queued EXCEPT ![h] = FALSE]
  /\ Return(h)
  /\ UNCHANGED <<handler, mask, regIO, connId, connMap, state, id, active, activeClose,
                 stopVars, loopVars>>

\* A connection that has come this far takes its descriptor out of the engine.
Removes(h) == fdOf[h] # NoFd /\ state[h] \in {"CONNECTING", "ESTABLISHING", "ESTABLISHED"}

Unregister(h) ==
  LET fd == fdOf[h] IN
  /\ handler' = IF Removes(h) THEN WithoutHandler(fd) ELSE handler
  /\ mask' = IF Removes(h) THEN WithoutMask(fd) ELSE mask
  /\ watch' = IF fd = NoFd THEN watch ELSE WithoutWatch(fd)
  /\ connId' = IF Removes(h) /\ handler[fd] # None
               THEN [connId EXCEPT ![fd] = NoConn] ELSE connId

TimersLeft_late(h) == IF state[h] = "TIMEOUT" THEN WithoutTimer(h) ELSE timer
TimersLeft(h) == IF Removes(h) THEN TimersWithout(fdOf[h])
                 ELSE IF state[h] = "TIMEOUT" THEN WithoutTimer(h) ELSE timer

\* The removal of a connection that was connecting drops the id recorded
\* with its descriptor, too.
MapLeft(h) ==
  LET fd == fdOf[h] IN
  IF Removes(h) /\ state[h] = "CONNECTING" /\ handler[fd] # None /\ connId[fd] # NoConn
  THEN [connMap EXCEPT ![connId[fd]] = None] ELSE connMap

\* removeFromConnMap: the handler has no descriptor by now.
MapWithout_kept(h) == MapLeft(h)
MapWithout(h) == [MapLeft(h) EXCEPT ![id[h]] = IF @ = h THEN None ELSE @]

\* All messages of an established connection are returned.  An active
\* connection that nobody closed on purpose tries again, at once or later, if
\* connClosed or onFailConnect agrees; any other goes back to the cache.
Close(h) ==
  LET again == active[h] /\ ~activeClose[h] IN
  /\ Closing(h) /\ ~bStopped
  /\ Unregister(h)
  /\ fdOf' = [fdOf EXCEPT ![h] = NoFd]
  /\ queued' = [queued EXCEPT ![h] = @ /\ state[h] # "ESTABLISHED"]
  /\ \/ /\ again
        /\ state' = [state EXCEPT ![h] = "TIMEOUT"]
        /\ timer' = [TimersLeft(h) EXCEPT ![h] = "running"]
        /\ connMap' = MapLeft(h)
        /\ Return(h)
        /\ UNCHANGED place
     \/ /\ again
        /\ state' = [state EXCEPT ![h] = "FAILED"]
        /\ timer' = TimersLeft(h)
        /\ connMap' = MapLeft(h)
        /\ Continue(h, "connect")
        /\ UNCHANGED place
     \/ /\ state' = [state EXCEPT ![h] = "FAILED"]
        /\ timer' = TimersLeft(h)
        /\ connMap' = MapWithout(h)
        /\ place' = [place EXCEPT ![h] = "unused"]
        /\ Return(h)
  /\ UNCHANGED <<regIO, id, active, activeClose, stopVars, loopVars>>

-----------------------------------------------------------------------------
Opens(h)   == OpenStopped(h) \/ OpenConnecting(h) \/ OpenEstablishing(h) \/ Pause(h)
Outputs(h) == OutputEmpty(h) \/ OutputSent(h) \/ OutputPart(h) \/ OutputEnds(h)
Handles(h) == OnConnecting(h) \/ OnTimeout(h) \/ NotWhenStopped(h) \/ Outputs(h)
              \/ Input(h) \/ Handled(h)
Notices(c) == InnerClose(c) \/ InnerReconnect(c) \/ InnerSend(c)

Next ==
  \/ Wait \/ EventsDone \/ EventsDoneClockSet \/ PollDone \/ HookDone \/ EndLoop
  \/ StopApp \/ StopReactor
  \/ \E e \in batch : Dispatch(e)
  \/ \E h \in Conn : \/ FireTimer(h) \/ FireLate(h) \/ Tick(h)
                     \/ InnerConnect(h) \/ Connect(h) \/ Opens(h) \/ Handles(h)
                     \/ Close(h) \/ CloseStopped(h) \/ PutMsg(h)
  \/ \E h \in Conn, c \in ConnId : \/ AskConnect(h, c)
                                   \/ \E fd \in Fd : Accept(h, fd, c)
  \/ \E c \in ConnId : SuspendConn(c) \/ ResumeConn(c) \/ Notices(c)

Spec == Init /\ [][Next]_vars

-----------------------------------------------------------------------------
(* Properties.                                                               *)

\* Three records of one thing agree: what epoll watches a descriptor for is
\* what the engine's mask says, and nothing without a handler is watched.
KernelMatches ==
  \A fd \in Fd :
    /\ handler[fd] = None => ~Watched(fd)
    /\ handler[fd] # None /\ place[handler[fd]] = "live" => watch[fd] = mask[fd] \cap RW

\* An event in the batch still finds, when its turn comes, the handler that
\* was registered when epoll_wait returned; and a timer of a handler with a
\* descriptor finds that handler.  poll() has only an assertion for the first
\* (a NULL handler is called), and for the second not even that.
EventReachesOwner ==
  /\ \A e \in batch : handler[e.fd] = e.owner
  /\ \A h \in Handler : timer[h] # "none" => TimedOut(h) = h

\* A connection id leads to the connection that has it: m_connId of a
\* descriptor, m_connMap and the connection's own record agree.
ConnMapAgrees ==
  /\ \A fd \in Fd : connId[fd] # NoConn =>
       /\ connMap[connId[fd]] = handler[fd] /\ handler[fd] # None
       /\ id[handler[fd]] = connId[fd]
  /\ \A c \in ConnId : connMap[c] # None =>
       id[connMap[c]] = c /\ place[connMap[c]] \in {"live", "deleted"}

\* A live connection is never forgotten: when its own code does not run, it
\* waits for a timer, or the engine knows it under its descriptor, and knows
\* its id if it is established.
NoneForgotten ==
  \A h \in Conn : place[h] = "live" /\ cur # h /\ h \notin late /\ ~bStopped =>
    \/ state[h] = "TIMEOUT" /\ fdOf[h] = NoFd /\ timer[h] # "none"
    \/ state[h] = "CONNECTING" /\ Registered(h) /\ "write" \in mask[fdOf[h]]
    \/ /\ state[h] = "ESTABLISHED" /\ Registered(h) /\ "persist" \in mask[fdOf[h]]
       /\ connId[fdOf[h]] = id[h]

\* A connection in the cache, which may become another one at any moment, is
\* known to nobody: no descriptor, no timer, no id leads to it.
RecycledIsUnknown ==
  \A h \in Conn : place[h] \in {"unused", "asked"} =>
    /\ fdOf[h] = NoFd /\ timer[h] = "none" /\ h \notin late
    /\ \A fd \in Fd : handler[fd] # h
    /\ \A c \in ConnId : connMap[c] # h
    /\ \A e \in batch : e.owner # h

\* A connection that has something to send, and is read, is watched for
\* writing, as long as nothing fails: its message will be sent.
SendersAreWatched ==
  \A h \in Conn : state[h] = "ESTABLISHED" /\ Registered(h) /\ queued[h]
                  /\ "read" \in mask[fdOf[h]] /\ cur # h
    => "write" \in mask[fdOf[h]]
=============================================================================
