--------------------------- MODULE TcpConnProofs ---------------------------
(***************************************************************************)
(* Proofs about TcpConn, for any connections, descriptors and ids, whether *)
(* or not epoll_ctl may fail: the engine's tables, the kernel's and the    *)
(* connections' own records agree, and a live connection is never          *)
(* forgotten.                                                              *)
(*                                                                         *)
(* The invariant has two halves.  TableInv relates the tables: what is in  *)
(* them about a descriptor, an id, a timer and a connection.  ControlInv   *)
(* says what the tables are like for each of those the loop has in hand:   *)
(* the connection whose code runs, those whose event or timer is still to  *)
(* be handed out, and those that wait.  A step touches one connection;     *)
(* OnlyTouches and its lemmas keep the others, so that each action's lemma *)
(* is about that one.                                                      *)
(***************************************************************************)
EXTENDS TcpConn, TLAPS

USE DEF Conn

-----------------------------------------------------------------------------
(* The invariant.                                                            *)

\* The handler's timer has ended, and the engine does not have its descriptor.
Loose(h) == timer[h] = "none" /\ ~Registered(h)

\* The engine has just taken the handler out to call it.
Taken(h) ==
  /\ Loose(h)
  /\ \/ state[h] = "TIMEOUT" /\ fdOf[h] = NoFd
     \/ state[h] = "CONNECTING" /\ fdOf[h] # NoFd

\* The handler waits for its timer or for its descriptor.
Resting(h) ==
  \/ state[h] = "TIMEOUT" /\ fdOf[h] = NoFd /\ (timer[h] # "none" \/ bStopped)
  \/ Registered(h)

\* A descriptor without a handler is not watched.  One with a handler leads to
\* a live connection that has this descriptor, watched as its mask says, or, once
\* the framework is stopped, to one that close() deleted and left in the table.
FdOK(fd) ==
  /\ handler[fd] = None => ~Watched(fd)
  /\ handler[fd] # None =>
       \/ /\ place[handler[fd]] = "deleted" /\ bStopped
          /\ ~Watched(fd)
       \/ /\ place[handler[fd]] = "live" /\ fdOf[handler[fd]] = fd
          /\ watch[fd] = mask[fd] \cap RW
          /\ \/ /\ state[handler[fd]] = "CONNECTING"
                /\ "write" \in mask[fd] /\ "persist" \notin mask[fd]
             \/ /\ state[handler[fd]] = "ESTABLISHED" /\ "persist" \in mask[fd]
                /\ connId[fd] = id[handler[fd]]

\* So for every descriptor.
FdsInv == \A fd \in Fd : FdOK(fd)

\* No two connections have one descriptor.
UniqueFds == \A g, h \in Conn : fdOf[g] = fdOf[h] /\ fdOf[g] # NoFd => g = h

\* The id of a descriptor and the connection map name the same connection, which
\* is established and has that id.
MapInv ==
  /\ \A fd \in Fd : connId[fd] # NoConn =>
       /\ handler[fd] # None /\ connMap[connId[fd]] = handler[fd]
       /\ id[handler[fd]] = connId[fd] /\ state[handler[fd]] = "ESTABLISHED"
  /\ \A c \in ConnId : connMap[c] # None =>
       id[connMap[c]] = c /\ place[connMap[c]] \in {"live", "deleted"}

\* A connection that is not live has neither descriptor nor timer; one that was
\* asked for or lives has an id.
PlaceInv ==
  \A h \in Conn :
    /\ place[h] # "live" => fdOf[h] = NoFd /\ timer[h] = "none"
    /\ place[h] \in {"unused", "asked"} => state[h] \in {"IDLE", "FAILED"}
    /\ place[h] \in {"asked", "live"} => id[h] # NoConn
    /\ place[h] = "deleted" => bStopped

\* A timer is that of a connection that waits for its next try, or of a pending
\* connect.
TimerInv ==
  \A h \in Conn : timer[h] # "none" =>
    \/ state[h] = "TIMEOUT" /\ fdOf[h] = NoFd
    \/ state[h] = "CONNECTING" /\ Registered(h)

\* A live connection whose code does not run is at rest, or was taken with all
\* other timers when the clock was set back and is still to be called.
RestInv ==
  \A h \in Conn : place[h] = "live" /\ cur # h =>
     IF h \in late THEN Taken(h) ELSE Resting(h)

\* What the code of h may count on when it comes to its next step.
Working(h) ==
  /\ step # "put" => place[h] = "live"
  /\ step = "event" => \/ /\ state[h] = "ESTABLISHED" /\ Registered(h)
                          /\ "write" \in event => "write" \in mask[fdOf[h]]
                       \/ /\ Taken(h)
                          /\ state[h] = "TIMEOUT" => "timeout" \in event
  /\ step = "connect" => /\ fdOf[h] = NoFd /\ timer[h] = "none"
                         /\ state[h] \in {"IDLE", "FAILED", "TIMEOUT"}
  /\ step = "open" => /\ fdOf[h] # NoFd /\ Loose(h)
                      /\ state[h] \in {"CONNECTING", "ESTABLISHING"}
  /\ step = "pause" => state[h] = "ESTABLISHED" /\ Registered(h)
  /\ step = "close" => Loose(h) \/ Resting(h)
  /\ step = "put" /\ place[h] = "live" => Resting(h)

\* The connection whose code runs is one of no other list.
WorkInv == cur # None => step # "none" /\ cur \notin late /\ Working(cur)

\* The events still to be handed out are those of registered handlers, not of
\* the one that runs, and ask for no more than was registered.
LoopInv ==
  /\ phase \in {"out", "ended"} => cur = None
  /\ phase # "late" => late = {}
  /\ \A h \in late : place[h] = "live"
  /\ phase # "events" => batch = {}
  /\ \A e \in batch : /\ handler[e.fd] = e.owner /\ fdOf[e.owner] = e.fd /\ e.owner # cur
                      /\ e.ready \subseteq mask[e.fd]
  /\ \A e, f \in batch : e.fd = f.fd => e = f

\* A connection with a message, and that is read, is watched for writing.
SendersInv ==
  \A h \in Conn : state[h] = "ESTABLISHED" /\ Registered(h) /\ queued[h]
                  /\ "read" \in mask[fdOf[h]] => "write" \in mask[fdOf[h]]

\* The tables agree.
TableInv == FdsInv /\ UniqueFds /\ MapInv /\ PlaceInv /\ TimerInv /\ SendersInv

\* Everyone runs, waits for its turn or rests.
ControlInv == RestInv /\ WorkInv /\ LoopInv

\* The inductive invariant.
IInv == TypeOK /\ TableInv /\ ControlInv

-----------------------------------------------------------------------------
(* Types.                                                                    *)

\* The four parts of the type invariant: the engine's, that of the connections,
\* of the loop and of the code that runs.
ConnTypes ==
  /\ state \in [Conn -> States]
  /\ place \in [Conn -> {"unused", "asked", "live", "deleted"}]
  /\ id \in [Conn -> ConnId \cup {NoConn}]
  /\ active \in [Conn -> BOOLEAN] /\ activeClose \in [Conn -> BOOLEAN]
  /\ queued \in [Conn -> BOOLEAN]
LoopTypes ==
  /\ bStopped \in BOOLEAN /\ bStop \in BOOLEAN
  /\ phase \in {"out", "hook", "events", "timers", "late", "ended"}
  /\ batch \in SUBSET Events
  /\ late \in SUBSET Handler
RunTypes ==
  /\ cur \in Handler \cup {None}
  /\ step \in {"none", "event", "connect", "open", "pause", "close", "put"}
  /\ event \in SUBSET {"read", "write", "timeout"}
  /\ latePut \in BOOLEAN

LEMMA TypeParts == /\ TypeOK <=> EngineTypeOK /\ ConnTypes /\ LoopTypes /\ RunTypes
                   /\ TypeOK' <=> (EngineTypeOK /\ ConnTypes /\ LoopTypes /\ RunTypes)'
  BY DEF TypeOK, ConnTypes, LoopTypes, RunTypes

\* The fragments of the engine.
LEMMA MaskTypes ==
  ASSUME EngineTypeOK, NEW fd, NEW s \in SUBSET RW, Suspend(fd, s) \/ Resume(fd, s)
         \/ UNCHANGED tables,
         UNCHANGED <<fdOf, regIO, connId, connMap>>
  PROVE  EngineTypeOK'
  <1>1. CASE UNCHANGED tables
    BY <1>1 DEF EngineTypeOK, tables
  <1>2. CASE Suspend(fd, s) \/ Resume(fd, s)
    <2>1. mask' \in [Fd -> SUBSET Masks]
      BY <1>2 DEF EngineTypeOK, Suspend, Resume, Suspendable, Resumable, RW, Masks
    <2>2. watch' \in [Fd -> {NotWatched} \cup SUBSET RW]
      BY <1>2 DEF EngineTypeOK, Suspend, Resume, Suspendable, Resumable, RW, Masks
    <2>3. UNCHANGED <<handler, timer>>
      BY <1>2 DEF Suspend, Resume
    <2> QED BY <2>1, <2>2, <2>3 DEF EngineTypeOK
  <1> QED BY <1>1, <1>2

\* Taking a handler out for its event keeps the types of the engine.
LEMMA TakeEventTypes ==
  ASSUME EngineTypeOK, NEW fd \in Fd, handler[fd] # None, TakeEvent(fd), UNCHANGED <<fdOf, regIO, connMap>>
  PROVE  EngineTypeOK'
  <1>1. timer' \in [Handler -> {"none", "running", "past"}]
    BY DEF EngineTypeOK, TakeEvent, WithoutTimer
  <1>2. handler' \in [Fd -> Handler \cup {None}] /\ mask' \in [Fd -> SUBSET Masks]
    BY DEF EngineTypeOK, TakeEvent, WithoutHandler, WithoutMask
  <1>3. watch' \in [Fd -> {NotWatched} \cup SUBSET RW] /\ connId' \in [Fd -> ConnId \cup {NoConn}]
    BY DEF EngineTypeOK, TakeEvent, WithoutWatch
  <1> QED BY <1>1, <1>2, <1>3 DEF EngineTypeOK

\* So does taking it out for its timer.
LEMMA TakeTimerTypes ==
  ASSUME EngineTypeOK, NEW h \in Handler, TakeTimer(h)
  PROVE  /\ handler' \in [Fd -> Handler \cup {None}] /\ mask' \in [Fd -> SUBSET Masks]
         /\ watch' \in [Fd -> {NotWatched} \cup SUBSET RW] /\ timer' \in [Handler -> {"none", "running", "past"}]
  <1>1. CASE fdOf[h] = NoFd
    BY <1>1 DEF EngineTypeOK, TakeTimer, WithoutTimer
  <1>2. CASE fdOf[h] # NoFd
    <2>1. EngineRemove(fdOf[h])
      BY <1>2 DEF TakeTimer
    <2>2. handler' \in [Fd -> Handler \cup {None}] /\ mask' \in [Fd -> SUBSET Masks]
       BY <2>1 DEF EngineTypeOK, EngineRemove, WithoutHandler, WithoutMask
    <2>3. watch' \in [Fd -> {NotWatched} \cup SUBSET RW] 
       BY <2>1 DEF EngineTypeOK, EngineRemove, WithoutWatch
    <2>4. timer' \in [Handler -> {"none", "running", "past"}]
       BY <2>1 DEF EngineTypeOK, EngineRemove, TimersWithout, WithoutTimer
    <2> QED BY <2>2, <2>3, <2>4
  <1> QED BY <1>1, <1>2

LEMMA EngineTypesKept == EngineTypeOK /\ UNCHANGED engine => EngineTypeOK'
  BY DEF EngineTypeOK, engine, tables
LEMMA ConnTypesKept == ConnTypes /\ UNCHANGED connVars => ConnTypes'
  BY DEF ConnTypes, connVars
LEMMA RunTypesKept == RunTypes /\ UNCHANGED runVars => RunTypes'
  BY DEF RunTypes, runVars
LEMMA LoopTypesKept == LoopTypes /\ UNCHANGED <<stopVars, loopVars>> => LoopTypes'
  BY DEF LoopTypes, stopVars, loopVars

\* The loop and the flags that stop it.
LEMMA LoopStepTypes ==
  ASSUME TypeOK, FdsInv, TimerInv, Wait \/ EventsDone \/ EventsDoneClockSet \/ PollDone \/ HookDone \/ EndLoop
                 \/ StopApp \/ StopReactor
  PROVE TypeOK'
  <1>0. EngineTypeOK /\ ConnTypes /\ LoopTypes /\ RunTypes
    BY TypeParts
  <1>1. CASE Wait
    <2>1. PICK fds \in SUBSET {fd \in Fd : Watched(fd)} : \E ready \in [fds -> SUBSET RW] :
             batch' = {[fd |-> fd, ready |-> ready[fd], owner |-> handler[fd]] : fd \in fds}
      BY <1>1 DEF Wait
    <2>2. PICK ready \in [fds -> SUBSET RW] :
             batch' = {[fd |-> fd, ready |-> ready[fd], owner |-> handler[fd]] : fd \in fds}
      BY <2>1
    <2>3. \A fd \in fds : fd \in Fd /\ ready[fd] \in SUBSET RW /\ handler[fd] \in Handler
      <3> SUFFICES ASSUME NEW fd \in fds
                   PROVE  fd \in Fd /\ ready[fd] \in SUBSET RW /\ handler[fd] \in Handler
        OBVIOUS
      <3>1. fd \in Fd /\ Watched(fd)
        OBVIOUS
      <3> QED BY <3>1, <1>0 DEF FdsInv, FdOK, EngineTypeOK
    <2>4. batch' \in SUBSET Events
      BY <2>2, <2>3 DEF Events
    <2>5. phase' = "events" /\ UNCHANGED <<engine, connVars, stopVars, runVars, late>>
      BY <1>1 DEF Wait
    <2>6. LoopTypes'
      BY <1>0, <2>4, <2>5 DEF LoopTypes, stopVars
    <2> QED BY <1>0, <2>5, <2>6, TypeParts, EngineTypesKept, ConnTypesKept, RunTypesKept
  <1>2. CASE EventsDone \/ PollDone \/ HookDone \/ EndLoop
    <2>1. phase' \in {"out", "hook", "timers", "ended"} /\ UNCHANGED <<engine, connVars, stopVars, runVars, batch, late>>
      BY <1>2 DEF EventsDone, PollDone, HookDone, EndLoop
    <2>2. LoopTypes'
      BY <1>0, <2>1 DEF LoopTypes, stopVars
    <2> QED BY <1>0, <2>1, <2>2, TypeParts, EngineTypesKept, ConnTypesKept, RunTypesKept
  <1>4. CASE StopApp \/ StopReactor
    <2>1. bStopped' \in BOOLEAN /\ bStop' \in BOOLEAN /\ UNCHANGED <<engine, connVars, loopVars, runVars>>
      BY <1>0, <1>4 DEF StopApp, StopReactor, LoopTypes
    <2>2. LoopTypes'
      BY <1>0, <2>1 DEF LoopTypes, loopVars
    <2> QED BY <1>0, <2>1, <2>2, TypeParts, EngineTypesKept, ConnTypesKept, RunTypesKept
  <1>3. CASE EventsDoneClockSet
    <2>1. /\ phase' = "late" /\ UNCHANGED <<fdOf, regIO, connId, connMap, connVars, stopVars, runVars, batch>>
          /\ TakeAllTimers /\ late' = {TimedOut(h) : h \in {g \in Handler : timer[g] # "none"}}
      BY <1>3 DEF EventsDoneClockSet
    <2>2. EngineTypeOK'
      <3>1. handler' \in [Fd -> Handler \cup {None}] /\ mask' \in [Fd -> SUBSET Masks]
        BY <1>0, <2>1 DEF TakeAllTimers, EngineTypeOK
      <3>2. /\ watch' \in [Fd -> {NotWatched} \cup SUBSET RW]
            /\ timer' \in [Handler -> {"none", "running", "past"}]
        BY <1>0, <2>1 DEF TakeAllTimers, EngineTypeOK
      <3> QED BY <1>0, <2>1, <3>1, <3>2 DEF EngineTypeOK
    <2>3. \A h \in Handler : timer[h] # "none" => TimedOut(h) \in Handler
      BY <1>0 DEF TimerInv, TimedOut, Registered
    <2>4. LoopTypes'
      BY <1>0, <2>1, <2>3 DEF LoopTypes, stopVars
    <2> QED BY <1>0, <2>1, <2>2, <2>4, TypeParts, ConnTypesKept, RunTypesKept
  <1> QED BY <1>1, <1>2, <1>3, <1>4

\* Timers that pass and are called.
LEMMA TimerStepTypes ==
  ASSUME TypeOK, TimerInv, NEW h \in Conn, FireTimer(h) \/ FireLate(h) \/ Tick(h)
  PROVE TypeOK'
  <1>0. EngineTypeOK /\ ConnTypes /\ LoopTypes /\ RunTypes
    BY TypeParts
  <1>1. ASSUME NEW g \in Conn, ForgetId(g), UNCHANGED <<fdOf, regIO>>
        PROVE  connId' \in [Fd -> ConnId \cup {NoConn}] /\ bStop' \in BOOLEAN
    <2>1. CASE ~regIO[g]
      BY <1>0, <1>1, <2>1 DEF ForgetId, EngineTypeOK, LoopTypes
    <2>2. CASE regIO[g] /\ fdOf[g] # NoFd
      <3>1. connId' = [connId EXCEPT ![fdOf[g]] = NoConn] /\ bStop' = bStop
        BY <1>1, <2>2 DEF ForgetId
      <3> QED BY <1>0, <3>1 DEF EngineTypeOK, LoopTypes
    <2>3. CASE regIO[g] /\ fdOf[g] = NoFd
      <3>1. connId' = connId /\ bStop' = FALSE
        BY <1>1, <2>3 DEF ForgetId
      <3> QED BY <1>0, <3>1 DEF EngineTypeOK
    <2> QED BY <2>1, <2>2, <2>3
  <1>2. ASSUME NEW g \in Conn, CallTimeout(g), late' \in SUBSET Handler
        PROVE  ConnTypes' /\ LoopTypes' /\ RunTypes'
    <2>1. /\ UNCHANGED connVars /\ UNCHANGED <<bStopped, phase, batch, latePut>> /\ bStop' \in BOOLEAN
          /\ cur' = g /\ step' = "event" /\ event' = {"timeout"}
      BY <1>1, <1>2 DEF CallTimeout, Run
    <2>2. LoopTypes'
      BY <1>0, <1>2, <2>1 DEF LoopTypes
    <2>3. RunTypes'
      BY <1>0, <2>1 DEF RunTypes
    <2> QED BY <1>0, <2>1, <2>2, <2>3, ConnTypesKept
  <1>3. CASE FireTimer(h)
    <2>1. TimedOut(h) \in Conn
      BY <1>0, <1>3 DEF FireTimer, TimedOut, EngineTypeOK, Conn
    <2>2. TakeTimer(h) /\ CallTimeout(TimedOut(h)) /\ late' = late
      BY <1>3 DEF FireTimer
    <2>3. UNCHANGED <<fdOf, regIO, connMap>> /\ connId' \in [Fd -> ConnId \cup {NoConn}]
      BY <1>1, <2>1, <2>2 DEF CallTimeout
    <2>4. EngineTypeOK'
      BY <1>0, <2>2, <2>3, TakeTimerTypes DEF EngineTypeOK, Conn
    <2>5. late' \in SUBSET Handler
      BY <1>0, <2>2 DEF LoopTypes
    <2> QED BY <1>2, <2>1, <2>2, <2>4, <2>5, TypeParts
  <1>4. CASE FireLate(h)
    <2>2. CallTimeout(h) /\ late' = late \ {h} /\ UNCHANGED tables
      BY <1>4 DEF FireLate
    <2>3. UNCHANGED <<fdOf, regIO, connMap>> /\ connId' \in [Fd -> ConnId \cup {NoConn}]
      BY <1>1, <2>2 DEF CallTimeout
    <2>4. EngineTypeOK'
      BY <1>0, <2>2, <2>3 DEF EngineTypeOK, tables
    <2>5. late' \in SUBSET Handler
      BY <1>0, <2>2 DEF LoopTypes
    <2> QED BY <1>2, <2>2, <2>4, <2>5, TypeParts
  <1>5. CASE Tick(h)
    <2>1. UNCHANGED <<connVars, stopVars, loopVars, runVars>>
      BY <1>5 DEF Tick
    <2>2. EngineTypeOK'
      BY <1>0, <1>5 DEF Tick, EngineTypeOK, Conn
    <2> QED BY <1>0, <2>1, <2>2, TypeParts, ConnTypesKept, RunTypesKept, LoopTypesKept
  <1> QED BY <1>3, <1>4, <1>5

\* An event is handed out.
LEMMA DispatchTypes ==
  ASSUME TypeOK, NEW e \in batch, Dispatch(e)
  PROVE  TypeOK'
  <1>0. EngineTypeOK /\ ConnTypes /\ LoopTypes /\ RunTypes /\ e \in Events
    BY TypeParts DEF LoopTypes
  <1>1. e.fd \in Fd /\ e.ready \in SUBSET RW
    BY <1>0 DEF Events
  <1>2. /\ TakeEvent(e.fd) /\ UNCHANGED <<fdOf, regIO, connMap>> /\ handler[e.fd] # None
        /\ batch' = batch \ {e} /\ cur' = handler[e.fd] /\ step' = "event" /\ event' = e.ready
        /\ UNCHANGED connVars /\ UNCHANGED stopVars /\ UNCHANGED <<phase, late, latePut>>
    BY DEF Dispatch, Run
  <1>3. EngineTypeOK'
    BY <1>0, <1>1, <1>2, TakeEventTypes
  <1>4. LoopTypes'
    BY <1>0, <1>2 DEF LoopTypes, stopVars
  <1>5. RunTypes'
    BY <1>0, <1>1, <1>2 DEF RunTypes, EngineTypeOK, RW
  <1> QED BY <1>0, <1>2, <1>3, <1>4, <1>5, TypeParts, ConnTypesKept
\* What a callback's end, or its next step, does to the registers of the loop.
LEMMA StepTypes ==
  ASSUME RunTypes, NEW h \in Conn,
         \/ Return(h) \/ UNCHANGED runVars
         \/ \E s \in {"connect", "open", "pause", "close"} : Continue(h, s)
         \/ \E m \in RW : Did(h, m)
  PROVE  RunTypes'
  BY DEF RunTypes, Return, Continue, Did, Run, runVars, Conn

\* A connection is asked for, or accepted.
LEMMA AskTypes ==
  ASSUME TypeOK, NEW h \in Conn, NEW c \in ConnId, AskConnect(h, c)
  PROVE  TypeOK'
  <1>1. ConnTypes'
    BY TypeParts DEF AskConnect, ConnTypes
  <1>2. UNCHANGED engine /\ UNCHANGED runVars /\ UNCHANGED <<stopVars, loopVars>>
    BY DEF AskConnect
  <1> QED BY <1>1, <1>2, TypeParts, EngineTypesKept, RunTypesKept, LoopTypesKept

LEMMA AcceptTypes ==
  ASSUME TypeOK, NEW h \in Conn, NEW fd \in Fd, NEW c \in ConnId, Accept(h, fd, c)
  PROVE  TypeOK'
  <1>1. ConnTypes'
    BY TypeParts DEF Accept, ConnTypes, States
  <1>2. UNCHANGED <<stopVars, loopVars>> /\ RunTypes'
    BY TypeParts, StepTypes DEF Accept
  <1>3. EngineTypeOK'
    BY TypeParts DEF Accept, EngineTypeOK, tables, Conn
  <1> QED BY <1>1, <1>2, <1>3, TypeParts, LoopTypesKept

\* The notices.
LEMMA NoticeTypes ==
  ASSUME TypeOK, (\E h \in Conn : InnerConnect(h)) \/ (\E c \in ConnId : Notices(c))
  PROVE  TypeOK'
  <1>0. EngineTypeOK /\ ConnTypes /\ LoopTypes /\ RunTypes
    BY TypeParts
  <1>1. ASSUME NEW h \in Conn, InnerConnect(h) PROVE TypeOK'
    <2>1. ConnTypes'
      BY <1>0, <1>1 DEF InnerConnect, ConnTypes
    <2>2. UNCHANGED engine /\ UNCHANGED <<stopVars, loopVars>> /\ RunTypes'
      BY <1>0, <1>1, StepTypes DEF InnerConnect
    <2> QED BY <1>0, <2>1, <2>2, TypeParts, EngineTypesKept, LoopTypesKept
  <1>2. ASSUME NEW c \in ConnId, InnerClose(c) \/ InnerReconnect(c) PROVE TypeOK'
    <2>1. PICK h \in Conn : /\ Continue(h, "close") /\ UNCHANGED engine /\ UNCHANGED <<stopVars, loopVars>>
                            /\ UNCHANGED <<state, place, id, active, queued>>
                            /\ \E b \in BOOLEAN : activeClose' = [activeClose EXCEPT ![h] = b]
      BY <1>2 DEF InnerClose, InnerReconnect
    <2>2. ConnTypes'
      BY <1>0, <2>1 DEF ConnTypes
    <2>3. RunTypes'
      BY <1>0, <2>1, StepTypes
    <2> QED BY <1>0, <2>1, <2>2, <2>3, TypeParts, EngineTypesKept, LoopTypesKept
  <1>3. ASSUME NEW c \in ConnId, InnerSend(c) PROVE TypeOK'
    <2>1. PICK h \in Conn :
             /\ Holds(c, h) /\ state[h] = "ESTABLISHED"
             /\ cur' = h /\ step' \in {"put", "close"}
             /\ \/ UNCHANGED tables
                \/ CanSuspend(fdOf[h], {"read"}) /\ Suspend(fdOf[h], {"read"})
                \/ CanResume(fdOf[h], {"read"}) /\ Resume(fdOf[h], {"read"})
      BY <1>3 DEF InnerSend, Run
    <2>2. UNCHANGED <<fdOf, regIO, connId, connMap>> /\ UNCHANGED connVars
          /\ UNCHANGED <<stopVars, loopVars>> /\ event' = event /\ latePut' \in BOOLEAN
      BY <1>3 DEF InnerSend
    <2>3. RunTypes'
      BY <1>0, <2>1, <2>2 DEF RunTypes, Conn
    <2>4. EngineTypeOK'
      <3>1. {"read"} \in SUBSET RW
        BY DEF RW
      <3>2. Suspend(fdOf[h], {"read"}) \/ Resume(fdOf[h], {"read"}) \/ UNCHANGED tables
        BY <2>1
      <3>3. UNCHANGED <<fdOf, regIO, connId, connMap>>
        BY <2>2
      <3> QED BY <1>0, <3>1, <3>2, <3>3, MaskTypes
    <2> QED BY <1>0, <2>2, <2>3, <2>4, TypeParts, ConnTypesKept, LoopTypesKept
  <1> QED BY <1>1, <1>2, <1>3 DEF Notices

\* Operations that suspend and resume.
LEMMA MaskStepTypes ==
  ASSUME TypeOK,
         \/ \E c \in ConnId : SuspendConn(c) \/ ResumeConn(c)
         \/ \E h \in Conn : Pause(h) \/ PutMsg(h)
  PROVE  TypeOK'
  <1>0. EngineTypeOK /\ ConnTypes /\ LoopTypes /\ RunTypes /\ {"read"} \in SUBSET RW /\ {"write"} \in SUBSET RW
    BY TypeParts DEF RW
  <1>1. ASSUME NEW c \in ConnId, SuspendConn(c) \/ ResumeConn(c) PROVE TypeOK'
    <2>1. PICK h \in Conn : Suspend(fdOf[h], {"read"}) \/ Resume(fdOf[h], {"read"})
      BY <1>1 DEF SuspendConn, ResumeConn
    <2>2. UNCHANGED <<fdOf, regIO, connId, connMap>> /\ UNCHANGED connVars
          /\ UNCHANGED <<stopVars, loopVars>> /\ UNCHANGED runVars
      BY <1>1 DEF SuspendConn, ResumeConn
    <2>3. EngineTypeOK'
      BY <1>0, <2>1, <2>2, MaskTypes
    <2> QED BY <1>0, <2>2, <2>3, TypeParts, ConnTypesKept, LoopTypesKept, RunTypesKept
  <1>2. ASSUME NEW h \in Conn, Pause(h) PROVE TypeOK'
    <2>1. Suspend(fdOf[h], {"read"}) \/ UNCHANGED tables
      BY <1>2 DEF Pause
    <2>2. UNCHANGED <<fdOf, regIO, connId, connMap>> /\ UNCHANGED connVars
          /\ UNCHANGED <<stopVars, loopVars>> /\ Return(h)
      BY <1>2 DEF Pause
    <2>3. EngineTypeOK'
      BY <1>0, <2>1, <2>2, MaskTypes
    <2>4. RunTypes'
      BY <1>0, <2>2, StepTypes
    <2> QED BY <1>0, <2>2, <2>3, <2>4, TypeParts, ConnTypesKept, LoopTypesKept
  <1>3. ASSUME NEW h \in Conn, PutMsg(h) PROVE TypeOK'
    <2>1. Resume(fdOf[h], {"write"}) \/ UNCHANGED tables
      BY <1>3 DEF PutMsg
    <2>2. UNCHANGED <<fdOf, regIO, connId, connMap>>
          /\ UNCHANGED <<stopVars, loopVars>> /\ UNCHANGED <<state, place, id, active, activeClose>>
          /\ (queued' = queued \/ queued' = [queued EXCEPT ![h] = TRUE])
          /\ cur' = None /\ step' = "none" /\ latePut' = FALSE /\ event' = {}
      BY <1>3 DEF PutMsg, Run
    <2>3. EngineTypeOK'
      BY <1>0, <2>1, <2>2, MaskTypes
    <2>4. ConnTypes'
      BY <1>0, <2>2 DEF ConnTypes
    <2>5. RunTypes'
      BY <2>2 DEF RunTypes
    <2> QED BY <1>0, <2>2, <2>3, <2>4, <2>5, TypeParts, LoopTypesKept
  <1> QED BY <1>1, <1>2, <1>3

\* connect and open.
LEMMA OpeningTypes ==
  ASSUME TypeOK, PlaceInv, WorkInv, NEW h \in Conn,
         Connect(h) \/ OpenStopped(h) \/ OpenConnecting(h) \/ OpenEstablishing(h)
  PROVE  TypeOK'
  <1>0. EngineTypeOK /\ ConnTypes /\ LoopTypes /\ RunTypes
    BY TypeParts
  <1>a. ASSUME NEW m \in SUBSET Masks, NEW limit \in BOOLEAN, NEW c \in ConnId \cup {NoConn},
               RegisterHandler(h, m, limit, c), fdOf' = fdOf
        PROVE  EngineTypeOK'
    <2>1. handler' \in [Fd -> Handler \cup {None}] /\ mask' \in [Fd -> SUBSET Masks]
      BY <1>0, <1>a DEF RegisterHandler, EngineTypeOK
    <2>2. watch' \in [Fd -> {NotWatched} \cup SUBSET RW] /\ timer' \in [Handler -> {"none", "running", "past"}]
      BY <1>0, <1>a DEF RegisterHandler, EngineTypeOK
    <2>3. regIO' \in [Handler -> BOOLEAN] /\ connId' \in [Fd -> ConnId \cup {NoConn}]
          /\ connMap' \in [ConnId -> Handler \cup {None}]
      BY <1>0, <1>a DEF RegisterHandler, EngineTypeOK
    <2> QED BY <1>0, <1>a, <2>1, <2>2, <2>3 DEF EngineTypeOK
  <1>b. ASSUME NEW c, RegisterFails(h, c), fdOf' = fdOf
        PROVE  EngineTypeOK'
    BY <1>0, <1>b DEF RegisterFails, EngineTypeOK, tables
  <1>1. CASE Connect(h)
    <2>1. EngineTypeOK'
      BY <1>0, <1>1 DEF Connect, EngineTypeOK, tables
    <2>2. ConnTypes'
      BY <1>0, <1>1 DEF Connect, ConnTypes, States
    <2>3. UNCHANGED <<stopVars, loopVars>> /\ RunTypes'
      BY <1>0, <1>1, StepTypes DEF Connect
    <2> QED BY <1>0, <2>1, <2>2, <2>3, TypeParts, LoopTypesKept
  <1>2. CASE OpenStopped(h)
    <2>1. UNCHANGED engine /\ UNCHANGED connVars /\ UNCHANGED <<stopVars, loopVars>> /\ RunTypes'
      BY <1>0, <1>2, StepTypes DEF OpenStopped
    <2> QED BY <1>0, <2>1, TypeParts, LoopTypesKept, ConnTypesKept, EngineTypesKept
  <1>3. CASE OpenConnecting(h)
    <2>1. EngineTypeOK'
      BY <1>3, <1>a, <1>b DEF OpenConnecting, Masks
    <2>2. UNCHANGED connVars /\ UNCHANGED <<stopVars, loopVars>> /\ RunTypes'
      BY <1>0, <1>3, StepTypes DEF OpenConnecting
    <2> QED BY <1>0, <2>1, <2>2, TypeParts, LoopTypesKept, ConnTypesKept
  <1>4. CASE OpenEstablishing(h)
    <2>1. EngineTypeOK'
      <3>1. id[h] \in ConnId \cup {NoConn} /\ PRead \in SUBSET Masks /\ FALSE \in BOOLEAN
        BY <1>0 DEF ConnTypes, PRead, Masks
      <3>2. \/ UNCHANGED engine
            \/ RegisterHandler(h, PRead, FALSE, id[h]) /\ fdOf' = fdOf
            \/ RegisterFails(h, id[h]) /\ fdOf' = fdOf
        BY <1>4 DEF OpenEstablishing
      <3> QED BY <1>0, <1>a, <1>b, <3>1, <3>2, EngineTypesKept
    <2>2. ConnTypes'
      BY <1>0, <1>4 DEF OpenEstablishing, ConnTypes, States
    <2>3. UNCHANGED <<stopVars, loopVars>> /\ RunTypes'
      BY <1>0, <1>4, StepTypes DEF OpenEstablishing
    <2> QED BY <1>0, <2>1, <2>2, <2>3, TypeParts, LoopTypesKept
  <1> QED BY <1>1, <1>2, <1>3, <1>4

\* The callback for an event.
LEMMA HandlesTypes ==
  ASSUME TypeOK, NEW h \in Conn, Handles(h)
  PROVE  TypeOK'
  <1>0. EngineTypeOK /\ ConnTypes /\ LoopTypes /\ RunTypes /\ {"read"} \in SUBSET RW /\ {"write"} \in SUBSET RW
    BY TypeParts DEF RW
  <1>1. CASE OnConnecting(h)
    <2>1. UNCHANGED engine /\ UNCHANGED <<stopVars, loopVars>> /\ RunTypes'
      BY <1>0, <1>1, StepTypes DEF OnConnecting
    <2>2. ConnTypes'
      BY <1>0, <1>1 DEF OnConnecting, ConnTypes, States
    <2> QED BY <1>0, <2>1, <2>2, TypeParts, LoopTypesKept, EngineTypesKept
  <1>2. CASE OnTimeout(h) \/ NotWhenStopped(h) \/ OutputPart(h) \/ Handled(h)
    <2>1. UNCHANGED engine /\ UNCHANGED connVars /\ UNCHANGED <<stopVars, loopVars>> /\ RunTypes'
      BY <1>0, <1>2, StepTypes DEF OnTimeout, NotWhenStopped, OutputPart, Handled, RW
    <2> QED BY <1>0, <2>1, TypeParts, LoopTypesKept, ConnTypesKept, EngineTypesKept
  <1>3. CASE OutputEnds(h)
    <2>1. UNCHANGED engine /\ UNCHANGED <<stopVars, loopVars>> /\ RunTypes'
      BY <1>0, <1>3, StepTypes DEF OutputEnds
    <2>2. ConnTypes'
      BY <1>0, <1>3 DEF OutputEnds, ConnTypes
    <2> QED BY <1>0, <2>1, <2>2, TypeParts, LoopTypesKept, EngineTypesKept
  <1>4. CASE OutputEmpty(h) \/ OutputSent(h) \/ Input(h)
    <2>1. \E s \in SUBSET RW : Suspend(fdOf[h], s) \/ Resume(fdOf[h], s) \/ UNCHANGED tables
      BY <1>0, <1>4 DEF OutputEmpty, OutputSent, Input
    <2>2. UNCHANGED <<fdOf, regIO, connId, connMap>>
          /\ UNCHANGED <<stopVars, loopVars>> /\ UNCHANGED <<state, place, id, active, activeClose>>
          /\ (queued' = queued \/ \E b \in BOOLEAN : queued' = [queued EXCEPT ![h] = b])
      BY <1>4 DEF OutputEmpty, OutputSent, Input, connVars
    <2>3. EngineTypeOK'
      BY <1>0, <2>1, <2>2, MaskTypes
    <2>4. ConnTypes'
      BY <1>0, <2>2 DEF ConnTypes
    <2>5. RunTypes'
      BY <1>0, <1>4, StepTypes DEF OutputEmpty, OutputSent, Input, RW
    <2> QED BY <1>0, <2>2, <2>3, <2>4, <2>5, TypeParts, LoopTypesKept
  <1> QED BY <1>1, <1>2, <1>3, <1>4 DEF Handles, Outputs

\* close, with what follows it.
LEMMA ClosingTypes ==
  ASSUME TypeOK, NEW h \in Conn, Close(h) \/ CloseStopped(h)
  PROVE  TypeOK'
  <1>0. EngineTypeOK /\ ConnTypes /\ LoopTypes /\ RunTypes
    BY TypeParts
  <1>1. CASE CloseStopped(h)
    <2>1. timer' \in [Handler -> {"none", "running", "past"}] /\ fdOf' \in [Handler -> Fd \cup {NoFd}]
          /\ watch' \in [Fd -> {NotWatched} \cup SUBSET RW]
      BY <1>0, <1>1 DEF CloseStopped, EngineTypeOK, WithoutTimer, WithoutWatch
    <2>2. UNCHANGED <<handler, mask, regIO, connId, connMap>> /\ UNCHANGED <<stopVars, loopVars>>
          /\ RunTypes'
      BY <1>0, <1>1, StepTypes DEF CloseStopped
    <2>3. EngineTypeOK'
      BY <1>0, <2>1, <2>2 DEF EngineTypeOK
    <2>4. ConnTypes'
      BY <1>0, <1>1 DEF CloseStopped, ConnTypes
    <2> QED BY <1>0, <2>2, <2>3, <2>4, TypeParts, LoopTypesKept
  <1>2. CASE Close(h)
    <2>1. handler' \in [Fd -> Handler \cup {None}] /\ mask' \in [Fd -> SUBSET Masks]
      BY <1>0, <1>2 DEF Close, Unregister, WithoutHandler, WithoutMask, EngineTypeOK
    <2>2. watch' \in [Fd -> {NotWatched} \cup SUBSET RW] /\ connId' \in [Fd -> ConnId \cup {NoConn}]
      BY <1>0, <1>2 DEF Close, Unregister, WithoutWatch, EngineTypeOK
    <2>3. TimersLeft(h) \in [Handler -> {"none", "running", "past"}]
      BY <1>0 DEF TimersLeft, TimersWithout, WithoutTimer, EngineTypeOK
    <2>4. timer' \in [Handler -> {"none", "running", "past"}] /\ fdOf' \in [Handler -> Fd \cup {NoFd}]
      BY <1>0, <1>2, <2>3 DEF Close, EngineTypeOK
    <2>5. MapLeft(h) \in [ConnId -> Handler \cup {None}]
      BY <1>0 DEF MapLeft, EngineTypeOK
    <2>6. MapWithout(h) \in [ConnId -> Handler \cup {None}]
      BY <2>5 DEF MapWithout
    <2>7. connMap' \in [ConnId -> Handler \cup {None}] /\ regIO' = regIO
      BY <1>2, <2>5, <2>6 DEF Close
    <2>8. EngineTypeOK'
      BY <1>0, <2>1, <2>2, <2>4, <2>7 DEF EngineTypeOK
    <2>9. ConnTypes'
      <3>1. state' \in [Conn -> States] /\ place' \in [Conn -> {"unused", "asked", "live", "deleted"}]
        BY <1>0, <1>2 DEF Close, ConnTypes, States
      <3>2. UNCHANGED <<id, active, activeClose>> /\ queued' \in [Conn -> BOOLEAN]
        BY <1>0, <1>2 DEF Close, ConnTypes
      <3> QED BY <1>0, <3>1, <3>2 DEF ConnTypes
    <2>10. UNCHANGED <<stopVars, loopVars>> /\ RunTypes'
      BY <1>0, <1>2, StepTypes DEF Close
    <2> QED BY <1>0, <2>8, <2>9, <2>10, TypeParts, LoopTypesKept
  <1> QED BY <1>1, <1>2
-----------------------------------------------------------------------------
(* The tables.                                                               *)

\* A step that changes neither the engine nor a connection's record; a message
\* that is put meets a connection that the engine does not watch.
LEMMA TablesKept ==
  ASSUME TypeOK, TableInv, UNCHANGED engine, UNCHANGED <<state, place, id>>,
         \A h \in Conn : queued'[h] => queued[h] \/ ~Registered(h),
         bStopped => bStopped'
  PROVE  TableInv'
  <1>1. FdsInv'
    BY DEF TableInv, FdsInv, FdOK, engine, tables, Watched
  <1>2. UniqueFds' /\ MapInv' /\ PlaceInv'
    BY DEF TableInv, UniqueFds, MapInv, PlaceInv, engine, tables
  <1>3. TimerInv' /\ SendersInv'
    BY DEF TableInv, TimerInv, SendersInv, engine, tables, Registered
  <1> QED BY <1>1, <1>2, <1>3 DEF TableInv

\* suspendHandler and resumeHandler of a registered handler: the kernel watches
\* for what the mask says.
Asked(fd, m) ==
  /\ mask' \in [Fd -> SUBSET Masks] /\ watch' \in [Fd -> {NotWatched} \cup SUBSET RW]
  /\ mask'[fd] = m /\ watch'[fd] = m \cap RW
  /\ \A f \in Fd \ {fd} : mask'[f] = mask[f] /\ watch'[f] = watch[f]
  /\ UNCHANGED <<handler, timer, fdOf, regIO, connId, connMap>>

\* The two calls of the engine that ask for less, or for more.
LEMMA Suspended ==
  ASSUME TypeOK, FdsInv, NEW fd \in Fd, NEW s \in SUBSET RW, handler[fd] # None,
         place[handler[fd]] = "live", Suspend(fd, s), UNCHANGED <<fdOf, regIO, connId, connMap>>,
         state[handler[fd]] = "CONNECTING" => "write" \notin s
  PROVE  Asked(fd, mask[fd] \ s)
  <1>0. EngineTypeOK
    BY TypeParts
  <1>1. /\ mask[fd] \in SUBSET Masks /\ watch[fd] = mask[fd] \cap RW
        /\ mask[fd] \ s # {}
    BY <1>0 DEF EngineTypeOK, FdsInv, FdOK, RW
  <1>2. EngineTypeOK'
    BY <1>0, MaskTypes
  <1>3. mask[fd] \ Suspendable(fd, s) = mask[fd] \ s
    BY DEF Suspendable
  <1>4. mask' = [mask EXCEPT ![fd] = mask[fd] \ s] /\ UNCHANGED <<handler, timer>>
    BY <1>3 DEF Suspend
  <1>5. watch'[fd] = (mask[fd] \ s) \cap RW /\ \A f \in Fd \ {fd} : watch'[f] = watch[f]
    <2>1. CASE Suspendable(fd, s) = {}
      BY <2>1, <1>1, <1>3 DEF Suspend
    <2>2. CASE Suspendable(fd, s) # {}
      <3>1. watch' = [watch EXCEPT ![fd] = (mask[fd] \ s) \cap RW]
        BY <2>2, <1>1, <1>3 DEF Suspend
      <3> QED BY <3>1, <1>0 DEF EngineTypeOK
    <2> QED BY <2>1, <2>2
  <1>6. mask'[fd] = mask[fd] \ s /\ \A f \in Fd \ {fd} : mask'[f] = mask[f]
    BY <1>0, <1>4 DEF EngineTypeOK
  <1> QED BY <1>2, <1>4, <1>5, <1>6 DEF Asked, EngineTypeOK

LEMMA Resumed ==
  ASSUME TypeOK, FdsInv, NEW fd \in Fd, NEW s \in SUBSET RW, handler[fd] # None,
         place[handler[fd]] = "live", Resume(fd, s), UNCHANGED <<fdOf, regIO, connId, connMap>>
  PROVE  Asked(fd, mask[fd] \cup s)
  <1>0. EngineTypeOK
    BY TypeParts
  <1>1. mask[fd] \in SUBSET Masks /\ watch[fd] = mask[fd] \cap RW
    BY <1>0 DEF EngineTypeOK, FdsInv, FdOK, RW
  <1>2. EngineTypeOK'
    BY <1>0, MaskTypes
  <1>3. mask[fd] \cup Resumable(fd, s) = mask[fd] \cup s
    BY DEF Resumable
  <1>4. mask' = [mask EXCEPT ![fd] = mask[fd] \cup s] /\ UNCHANGED <<handler, timer>>
    BY <1>3 DEF Resume
  <1>5. watch'[fd] = (mask[fd] \cup s) \cap RW /\ \A f \in Fd \ {fd} : watch'[f] = watch[f]
    <2>1. CASE Resumable(fd, s) = {}
      BY <2>1, <1>1, <1>3 DEF Resume
    <2>2. CASE Resumable(fd, s) # {}
      <3>1. watch' = [watch EXCEPT ![fd] = (mask[fd] \cup s) \cap RW]
        BY <2>2, <1>1, <1>3 DEF Resume
      <3> QED BY <3>1, <1>0 DEF EngineTypeOK
    <2> QED BY <2>1, <2>2
  <1>6. mask'[fd] = mask[fd] \cup s /\ \A f \in Fd \ {fd} : mask'[f] = mask[f]
    BY <1>0, <1>4 DEF EngineTypeOK
  <1> QED BY <1>2, <1>4, <1>5, <1>6 DEF Asked, EngineTypeOK

\* The tables after one descriptor is asked for something else.
LEMMA TablesAsked ==
  ASSUME TypeOK, TableInv, NEW h \in Conn, Registered(h), place[h] = "live", NEW m, Asked(fdOf[h], m),
         "persist" \in m <=> "persist" \in mask[fdOf[h]],
         state[h] = "CONNECTING" => "write" \in m,
         UNCHANGED <<state, place, id, bStopped>>,
         \A g \in Conn \ {h} : queued'[g] => queued[g],
         state[h] = "ESTABLISHED" /\ queued'[h] /\ "read" \in m => "write" \in m
  PROVE  TableInv'
  <1> DEFINE fd == fdOf[h]
  <1>0. EngineTypeOK /\ ConnTypes
    BY TypeParts
  <1>1. fd \in Fd /\ handler[fd] = h /\ h # None
    BY <1>0, EngineAssumption DEF Registered, EngineTypeOK
  <1>2. /\ mask'[fd] = m /\ watch'[fd] = m \cap RW
        /\ \A f \in Fd \ {fd} : mask'[f] = mask[f] /\ watch'[f] = watch[f]
        /\ UNCHANGED <<handler, timer, fdOf, regIO, connId, connMap>>
    BY DEF Asked
  <1> HIDE DEF fd
  <1>3. FdsInv'
    <2> SUFFICES ASSUME NEW f \in Fd PROVE FdOK(f)'
      BY DEF FdsInv
    <2>1. FdOK(f)
      BY DEF TableInv, FdsInv
    <2>2. CASE f = fd
      BY <1>1, <1>2, <2>1, <2>2 DEF FdOK, fd
    <2>3. CASE f # fd
      BY <1>2, <2>1, <2>3 DEF FdOK, Watched
    <2> QED BY <2>2, <2>3
  <1>4. UniqueFds' /\ MapInv' /\ PlaceInv'
    BY <1>2 DEF TableInv, UniqueFds, MapInv, PlaceInv
  <1>5. TimerInv'
    BY <1>2 DEF TableInv, TimerInv, Registered
  <1>6. SendersInv'
    <2> SUFFICES ASSUME NEW g \in Conn, state[g] = "ESTABLISHED", Registered(g), queued'[g],
                        "read" \in mask'[fdOf[g]]
                 PROVE  "write" \in mask'[fdOf[g]]
      BY <1>2 DEF SendersInv, Registered
    <2>1. CASE g = h
      BY <1>2, <2>1 DEF fd
    <2>2. CASE g # h
      <3>1. fdOf[g] \in Fd \ {fd}
        BY <1>0, <1>1, <2>2 DEF Registered, EngineTypeOK
      <3> QED BY <1>2, <2>2, <3>1 DEF TableInv, SendersInv
    <2> QED BY <2>1, <2>2
  <1> QED BY <1>3, <1>4, <1>5, <1>6 DEF TableInv

-----------------------------------------------------------------------------
(* Who runs and who rests.                                                   *)

\* A step is about h alone.
OnlyTouches(h) ==
  /\ \A g \in Conn \ {h} : /\ fdOf'[g] = fdOf[g] /\ timer'[g] = timer[g]
                           /\ state'[g] = state[g] /\ place'[g] = place[g]
  /\ \A fd \in Fd : \A g \in Conn \ {h} : /\ handler'[fd] = g <=> handler[fd] = g
                                          /\ handler[fd] = g => mask'[fd] = mask[fd]
  /\ bStopped => bStopped'

\* A step about h leaves each other connection where it rests.
LEMMA OthersKept ==
  ASSUME TypeOK, TypeOK', NEW h \in Conn, OnlyTouches(h), NEW g \in Conn \ {h}
  PROVE  /\ Resting(g) => Resting(g)'
         /\ Taken(g) => Taken(g)'
  <1>1. EngineTypeOK /\ EngineTypeOK'
    BY TypeParts
  <1>2. fdOf'[g] = fdOf[g] /\ timer'[g] = timer[g] /\ state'[g] = state[g] /\ (bStopped => bStopped')
    BY DEF OnlyTouches
  <1>3. Registered(g) <=> Registered(g)'
    <2>1. CASE fdOf[g] = NoFd
      BY <1>2, <2>1 DEF Registered
    <2>2. CASE fdOf[g] # NoFd
      <3>1. fdOf[g] \in Fd
        BY <1>1, <2>2 DEF EngineTypeOK
      <3>2. handler'[fdOf[g]] = g <=> handler[fdOf[g]] = g
        BY <3>1 DEF OnlyTouches
      <3> QED BY <1>2, <3>2 DEF Registered
    <2> QED BY <2>1, <2>2
  <1> QED BY <1>2, <1>3 DEF Resting, Taken, Loose

\* The code of h runs, begins or ends; its turn may be taken from the loop.
LEMMA RunsNext ==
  ASSUME TypeOK, TypeOK', ControlInv, NEW h \in Conn, OnlyTouches(h), phase' = phase,
         late' \subseteq late, late \ {h} \subseteq late', batch' \subseteq batch,
         cur \in {h, None}, cur' \in {h, None},
         h \notin late', \A e \in batch' : e.owner # h,
         cur' = h => phase \notin {"out", "ended"} /\ step' # "none" /\ Working(h)',
         cur' = None /\ place'[h] = "live" => Resting(h)'
  PROVE  ControlInv'
  <1>0. RunTypes /\ EngineTypeOK /\ h # None /\ LoopTypes
    BY TypeParts, EngineAssumption
  <1>1. RestInv'
    <2> SUFFICES ASSUME NEW g \in Conn, place'[g] = "live", cur' # g
                 PROVE  IF g \in late' THEN Taken(g)' ELSE Resting(g)'
      BY DEF RestInv
    <2>1. CASE g = h
      BY <2>1
    <2>2. CASE g # h
      <3>1. cur # g /\ place[g] = "live" /\ (g \in late' <=> g \in late)
        BY <2>2, EngineAssumption DEF OnlyTouches
      <3>2. IF g \in late THEN Taken(g) ELSE Resting(g)
        BY <3>1 DEF ControlInv, RestInv
      <3> QED BY <2>2, <3>1, <3>2, OthersKept
    <2> QED BY <2>1, <2>2
  <1>2. WorkInv'
    BY DEF WorkInv
  <1>3. LoopInv'
    <2>1. phase' \in {"out", "ended"} => cur' = None
      BY DEF ControlInv, LoopInv
    <2>2. \A g \in late' : place'[g] = "live"
      <3> SUFFICES ASSUME NEW g \in late' PROVE place'[g] = "live"
        OBVIOUS
      <3>1. place[g] = "live" /\ g \in Conn \ {h}
        BY <1>0 DEF ControlInv, LoopInv, LoopTypes
      <3> QED BY <3>1 DEF OnlyTouches
    <2>3. \A e \in batch' : /\ handler'[e.fd] = e.owner /\ fdOf'[e.owner] = e.fd /\ e.owner # cur'
                            /\ e.ready \subseteq mask'[e.fd]
      <3> SUFFICES ASSUME NEW e \in batch'
                   PROVE  /\ handler'[e.fd] = e.owner /\ fdOf'[e.owner] = e.fd /\ e.owner # cur'
                          /\ e.ready \subseteq mask'[e.fd]
        OBVIOUS
      <3>1. /\ handler[e.fd] = e.owner /\ fdOf[e.owner] = e.fd /\ e.ready \subseteq mask[e.fd]
            /\ e.fd \in Fd /\ e.owner \in Conn \ {h}
        BY <1>0 DEF ControlInv, LoopInv, LoopTypes, Events
      <3>2. handler'[e.fd] = e.owner /\ fdOf'[e.owner] = fdOf[e.owner] /\ mask'[e.fd] = mask[e.fd]
        BY <3>1 DEF OnlyTouches
      <3> QED BY <3>1, <3>2, EngineAssumption
    <2>4. (phase' # "late" => late' = {}) /\ (phase' # "events" => batch' = {})
      BY DEF ControlInv, LoopInv
    <2>5. \A e, f \in batch' : e.fd = f.fd => e = f
      BY DEF ControlInv, LoopInv
    <2> QED BY <2>1, <2>2, <2>3, <2>4, <2>5 DEF LoopInv
  <1> QED BY <1>1, <1>2, <1>3 DEF ControlInv

\* The same when the loop itself does not move.
LEMMA RunsOn ==
  ASSUME TypeOK, TypeOK', ControlInv, NEW h \in Conn, OnlyTouches(h), UNCHANGED loopVars,
         cur \in {h, None}, cur' \in {h, None},
         h \notin late, \A e \in batch : e.owner # h,
         cur' = h => phase \notin {"out", "ended"} /\ step' # "none" /\ Working(h)',
         cur' = None /\ place'[h] = "live" => Resting(h)'
  PROVE  ControlInv'
  <1>1. phase' = phase /\ late' = late /\ batch' = batch
    BY DEF loopVars
  <1> QED BY <1>1, RunsNext

\* The handler that runs is none of those that wait for their turn.
LEMMA Runner ==
  ASSUME TypeOK, ControlInv, NEW h \in Conn, cur = h
  PROVE  /\ h \notin late /\ \A e \in batch : e.owner # h
         /\ phase \notin {"out", "ended"} /\ Working(h)
  BY EngineAssumption DEF ControlInv, WorkInv, LoopInv

\* One that is at rest, while nobody runs.
LEMMA AtRest ==
  ASSUME TypeOK, ControlInv, NEW h \in Conn, cur = None, place[h] = "live", phase # "late"
  PROVE  h \notin late /\ Resting(h)
  BY EngineAssumption DEF ControlInv, RestInv, LoopInv

-----------------------------------------------------------------------------
(* The callbacks of the handler that runs.                                   *)

\* A callback that returns leaves its connection at rest, or has it put the
\* message that came late.
LEMMA Returned ==
  ASSUME NEW h \in Conn, Return(h), place'[h] = "live" => Resting(h)'
  PROVE  /\ cur' \in {h, None}
         /\ cur' = h => step' # "none" /\ Working(h)'
         /\ cur' = None /\ place'[h] = "live" => Resting(h)'
  <1>1. (cur' = h /\ step' = "put") \/ (cur' = None /\ step' = "none")
    BY DEF Return, Run
  <1>2. h # None
    BY EngineAssumption
  <1>3. step' = "put" => Working(h)'
    BY DEF Working
  <1> QED BY <1>1, <1>2, <1>3

\* It goes on, or ends, and nothing in the tables changes.
LEMMA OnlyControl ==
  ASSUME IInv, TypeOK', NEW h \in Conn, cur = h \/ (cur = None /\ phase = "hook"),
         UNCHANGED engine, UNCHANGED <<state, place, id, queued>>,
         UNCHANGED <<stopVars, loopVars>>,
         \/ Return(h) /\ Resting(h)
         \/ cur' = h /\ step' # "none" /\ Working(h)'
  PROVE  IInv'
  <1>1. UNCHANGED loopVars /\ bStopped' = bStopped
    BY DEF stopVars
  <1>2. TableInv'
    BY <1>1, TablesKept DEF IInv
  <1>3. OnlyTouches(h)
    BY <1>1 DEF OnlyTouches, engine, tables
  <1>4. Resting(h) => Resting(h)'
    BY <1>1 DEF Resting, Registered, engine, tables
  <1>5. /\ cur' \in {h, None}
        /\ cur' = h => step' # "none" /\ Working(h)'
        /\ cur' = None /\ place'[h] = "live" => Resting(h)'
    BY <1>4, Returned, EngineAssumption
  <1>6. h \notin late /\ (\A e \in batch : e.owner # h) /\ phase \notin {"out", "ended"}
    BY Runner DEF IInv, ControlInv, LoopInv
  <1> QED BY <1>1, <1>2, <1>3, <1>5, <1>6, RunsOn DEF IInv

\* open() of a stopped framework closes.
LEMMA OpenStoppedOk ==
  ASSUME IInv, NEW h \in Conn, OpenStopped(h) PROVE IInv'
  <1>1. /\ cur = h /\ step = "open" /\ UNCHANGED engine /\ UNCHANGED connVars
        /\ UNCHANGED <<stopVars, loopVars>> /\ cur' = h /\ step' = "close"
    BY DEF OpenStopped, Opening, Continue, Run
  <1>2. TypeOK'
    BY OpeningTypes DEF IInv, TableInv, ControlInv
  <1>3. Working(h)
    BY <1>1, Runner DEF IInv
  <1>4. Working(h)'
    BY <1>1, <1>3 DEF Working, Loose, Registered, engine, tables, connVars
  <1> QED BY <1>1, <1>2, <1>4, OnlyControl DEF connVars

\* The branches of callback and handle_event that leave the tables alone.
LEMMA CalledOk ==
  ASSUME IInv, NEW h \in Conn,
         OnTimeout(h) \/ NotWhenStopped(h) \/ OutputPart(h) \/ Handled(h) \/ OutputEnds(h)
  PROVE  IInv'
  <1> USE DEF Handling, Writing, Reading
  <1>1. TypeOK'
    BY HandlesTypes DEF IInv, Handles, Outputs
  <1>2. /\ cur = h /\ step = "event" /\ UNCHANGED engine /\ UNCHANGED <<state, place, id, queued>>
        /\ UNCHANGED <<stopVars, loopVars>>
    BY DEF OnTimeout, NotWhenStopped, OutputPart, Handled, OutputEnds, connVars
  <1>3. Working(h)
    BY <1>2, Runner DEF IInv
  <1>4. CASE OnTimeout(h)
    <2>1. state[h] = "TIMEOUT" /\ place[h] = "live" /\ Taken(h) /\ timer[h] = "none" /\ fdOf[h] = NoFd
      BY <1>2, <1>3, <1>4 DEF OnTimeout, Working, Taken, Loose
    <2>2. CASE bStopped
      BY <1>1, <1>2, <1>4, <2>1, <2>2, OnlyControl DEF OnTimeout, Resting
    <2>3. CASE ~bStopped
      <3>1. cur' = h /\ step' = "connect"
        BY <1>4, <2>3 DEF OnTimeout, Continue, Run
      <3>2. Working(h)'
        BY <1>2, <2>1, <3>1 DEF Working, engine, tables
      <3> QED BY <1>1, <1>2, <3>1, <3>2, OnlyControl
    <2> QED BY <2>2, <2>3
  <1>5. CASE ~OnTimeout(h)
    <2>1. state[h] = "ESTABLISHED"
      BY <1>5 DEF NotWhenStopped, OutputPart, Handled, OutputEnds
    <2>2. place[h] = "live" /\ Registered(h) /\ ("write" \in event => "write" \in mask[fdOf[h]])
      BY <1>2, <1>3, <2>1 DEF Working, Taken
    <2>3. CASE Handled(h)
      BY <1>1, <1>2, <2>2, <2>3, OnlyControl DEF Handled, Resting
    <2>4. CASE ~Handled(h)
      <3>1. cur' = h /\ (step' = "close" \/ (step' = "event" /\ event' \subseteq event))
        BY <1>2, <1>5, <2>4 DEF NotWhenStopped, OutputPart, OutputEnds, Did, Continue, Run
      <3>2. Working(h)'
        BY <1>2, <2>1, <2>2, <3>1 DEF Working, Resting, Registered, engine, tables
      <3> QED BY <1>1, <1>2, <3>1, <3>2, OnlyControl
    <2> QED BY <2>3, <2>4
  <1> QED BY <1>4, <1>5

-----------------------------------------------------------------------------
(* Handlers the engine does not know.                                        *)

\* No timer and no descriptor leads to the handler.
Unknown(h) == timer[h] = "none" /\ \A fd \in Fd : handler[fd] # h

\* A handler that was taken out, or is in the cache, is such a one.
LEMMA LooseIsUnknown ==
  ASSUME TypeOK, TableInv, NEW h \in Conn,
         (place[h] = "live" /\ Loose(h)) \/ place[h] \in {"unused", "asked"}
  PROVE  Unknown(h)
  <1>1. timer[h] = "none"
    BY DEF Loose, TableInv, PlaceInv
  <1>2. ASSUME NEW fd \in Fd, handler[fd] = h PROVE FALSE
    <2>1. place[h] = "live" /\ fdOf[h] = fd
      BY <1>2, EngineAssumption DEF TableInv, FdsInv, FdOK
    <2> QED BY <1>2, <2>1, EngineAssumption DEF Loose, Registered
  <1> QED BY <1>1, <1>2 DEF Unknown

\* Its own record may then change: no table depends on it but the map of ids.
LEMMA UnknownChanges ==
  ASSUME TypeOK, TypeOK', TableInv, NEW h \in Conn, Unknown(h),
         UNCHANGED <<tables, connId, connMap, bStopped>>,
         \A g \in Conn \ {h} : /\ fdOf'[g] = fdOf[g] /\ state'[g] = state[g] /\ place'[g] = place[g]
                               /\ id'[g] = id[g] /\ queued'[g] = queued[g],
         fdOf'[h] = NoFd \/ \A g \in Conn \ {h} : fdOf[g] # fdOf'[h],
         (\E c \in ConnId : connMap[c] = h) => id'[h] = id[h] /\ place'[h] \in {"live", "deleted"},
         place'[h] # "live" => fdOf'[h] = NoFd,
         place'[h] \in {"unused", "asked"} => state'[h] \in {"IDLE", "FAILED"},
         place'[h] \in {"asked", "live"} => id'[h] # NoConn,
         place'[h] = "deleted" => bStopped
  PROVE  TableInv' /\ OnlyTouches(h) /\ Loose(h)' /\ Unknown(h)'
  <1>0. EngineTypeOK /\ EngineTypeOK' /\ h # None
    BY TypeParts, EngineAssumption
  <1>1. UNCHANGED <<handler, mask, watch, timer>> /\ bStopped' = bStopped /\ UNCHANGED <<connId, connMap>>
    BY DEF tables
  <1>2. Loose(h)' /\ Unknown(h)'
    BY <1>0, <1>1 DEF Loose, Registered, Unknown, EngineTypeOK
  <1>3. FdsInv'
    <2> SUFFICES ASSUME NEW f \in Fd PROVE FdOK(f)'
      BY DEF FdsInv
    <2>1. FdOK(f) /\ (handler[f] # None => handler[f] \in Conn \ {h})
      BY <1>0 DEF TableInv, FdsInv, Unknown, EngineTypeOK
    <2> QED BY <1>1, <2>1 DEF FdOK, Watched
  <1>4. UniqueFds'
    BY DEF TableInv, UniqueFds
  <1>5. MapInv'
    <2>1. ASSUME NEW f \in Fd, connId[f] # NoConn
          PROVE  /\ handler[f] # None /\ connMap[connId[f]] = handler[f]
                 /\ id'[handler[f]] = connId[f] /\ state'[handler[f]] = "ESTABLISHED"
      <3>1. handler[f] # None => handler[f] \in Conn \ {h}
        BY <1>0 DEF Unknown, EngineTypeOK
      <3> QED BY <2>1, <3>1 DEF TableInv, MapInv
    <2>2. ASSUME NEW c \in ConnId, connMap[c] # None
          PROVE  id'[connMap[c]] = c /\ place'[connMap[c]] \in {"live", "deleted"}
      <3>1. connMap[c] \in Conn /\ id[connMap[c]] = c /\ place[connMap[c]] \in {"live", "deleted"}
        BY <1>0, <2>2 DEF TableInv, MapInv, EngineTypeOK
      <3> QED BY <3>1
    <2> QED BY <1>1, <2>1, <2>2 DEF MapInv
  <1>6. PlaceInv'
    BY <1>1 DEF TableInv, PlaceInv, Unknown
  <1>7. TimerInv'
    BY <1>1 DEF TableInv, TimerInv, Unknown, Registered
  <1>8. SendersInv'
    <2> SUFFICES ASSUME NEW g \in Conn, state'[g] = "ESTABLISHED", Registered(g)', queued'[g],
                        "read" \in mask'[fdOf'[g]]
                 PROVE  "write" \in mask'[fdOf'[g]]
      BY DEF SendersInv
    <2>1. g # h
      BY <1>2 DEF Loose
    <2> QED BY <1>1, <2>1 DEF TableInv, SendersInv, Registered
  <1>9. OnlyTouches(h)
    BY <1>1 DEF OnlyTouches
  <1> QED BY <1>2, <1>3, <1>4, <1>5, <1>6, <1>7, <1>8, <1>9 DEF TableInv

\* The answer to a pending connect.
LEMMA OnConnectingOk ==
  ASSUME IInv, NEW h \in Conn, OnConnecting(h) PROVE IInv'
  <1>1. TypeOK'
    BY HandlesTypes DEF IInv, Handles
  <1>2. /\ cur = h /\ step = "event" /\ state[h] = "CONNECTING" /\ UNCHANGED engine
        /\ UNCHANGED <<place, id, queued>> /\ UNCHANGED <<stopVars, loopVars>>
    BY DEF OnConnecting, Handling
  <1>3. place[h] = "live" /\ Taken(h) /\ Loose(h) /\ fdOf[h] # NoFd
    BY <1>2, Runner DEF IInv, Working, Taken
  <1>4. \/ cur' = h /\ step' = "close" /\ UNCHANGED state
        \/ cur' = h /\ step' = "open" /\ state' = [state EXCEPT ![h] = "ESTABLISHING"]
    BY DEF OnConnecting, Continue, Run
  <1>5. CASE UNCHANGED state /\ step' = "close"
    <2>1. Working(h)'
      BY <1>2, <1>3, <1>5 DEF Working, Loose, Registered, engine, tables
    <2> QED BY <1>1, <1>2, <1>4, <1>5, <2>1, OnlyControl
  <1>6. CASE step' = "open"
    <2>1. state' = [state EXCEPT ![h] = "ESTABLISHING"] /\ state'[h] = "ESTABLISHING"
      BY <1>4, <1>6, TypeParts DEF IInv, ConnTypes
    <2>2. UNCHANGED <<tables, connId, connMap, bStopped>> /\ UNCHANGED fdOf
      BY <1>2 DEF engine, stopVars
    <2>3. TableInv' /\ OnlyTouches(h) /\ Loose(h)'
      <3>1. Unknown(h) /\ id[h] # NoConn
        BY <1>3, LooseIsUnknown DEF IInv, TableInv, PlaceInv
      <3>2. \A g \in Conn \ {h} : fdOf[g] # fdOf[h]
        BY <1>3 DEF IInv, TableInv, UniqueFds
      <3> QED BY <1>1, <1>2, <1>3, <2>1, <2>2, <3>1, <3>2, UnknownChanges DEF IInv
    <2>4. Working(h)'
      BY <1>2, <1>3, <1>6, <2>1, <2>2, <2>3 DEF Working
    <2> QED BY <1>1, <1>2, <1>4, <1>6, <2>3, <2>4, Runner, RunsOn, EngineAssumption DEF IInv
  <1> QED BY <1>4, <1>5, <1>6

\* connect() of a new attempt.
LEMMA ConnectOk ==
  ASSUME IInv, NEW h \in Conn, Connect(h) PROVE IInv'
  <1>1. TypeOK'
    BY OpeningTypes DEF IInv, TableInv, ControlInv
  <1>2. /\ cur = h /\ step = "connect" /\ UNCHANGED <<tables, connId, connMap, bStopped>>
        /\ UNCHANGED <<place, id, queued>> /\ UNCHANGED loopVars
    BY DEF Connect, stopVars
  <1>3. place[h] = "live" /\ fdOf[h] = NoFd /\ timer[h] = "none" /\ Loose(h)
    BY <1>2, Runner DEF IInv, Working, Loose, Registered
  <1>4. \/ fdOf' = [fdOf EXCEPT ![h] = NoFd] /\ cur' = h /\ step' = "close" /\ UNCHANGED state
        \/ \E fd \in Fd, s \in {"ESTABLISHING", "CONNECTING"} :
              /\ Fresh(fd) /\ fdOf' = [fdOf EXCEPT ![h] = fd] /\ state' = [state EXCEPT ![h] = s]
              /\ cur' = h /\ step' = "open"
    BY DEF Connect, Continue, Run
  <1> DEFINE Tried ==
        /\ \A g \in Conn \ {h} : fdOf'[g] = fdOf[g] /\ state'[g] = state[g]
        /\ fdOf'[h] = NoFd \/ \A g \in Conn \ {h} : fdOf[g] # fdOf'[h]
        /\ cur' = h
        /\ \/ step' = "close"
           \/ step' = "open" /\ fdOf'[h] # NoFd /\ state'[h] \in {"CONNECTING", "ESTABLISHING"}
  <1>5. Tried
    <2>1. fdOf \in [Handler -> Fd \cup {NoFd}] /\ state \in [Conn -> States]
      BY TypeParts DEF IInv, EngineTypeOK, ConnTypes
    <2>2. CASE fdOf' = [fdOf EXCEPT ![h] = NoFd] /\ cur' = h /\ step' = "close" /\ UNCHANGED state
      BY <2>1, <2>2
    <2>3. ASSUME NEW fd \in Fd, NEW s \in {"ESTABLISHING", "CONNECTING"},
                 Fresh(fd), fdOf' = [fdOf EXCEPT ![h] = fd], state' = [state EXCEPT ![h] = s],
                 cur' = h, step' = "open"
          PROVE  Tried
      BY <2>1, <2>3, EngineAssumption DEF Fresh
    <2> QED BY <1>4, <2>2, <2>3
  <1>6. TableInv' /\ OnlyTouches(h) /\ Loose(h)'
    <2>1. Unknown(h) /\ id[h] # NoConn
      BY <1>3, LooseIsUnknown DEF IInv, TableInv, PlaceInv
    <2> QED BY <1>1, <1>2, <1>3, <1>5, <2>1, UnknownChanges DEF IInv
  <1>7. Working(h)' /\ step' # "none"
    BY <1>2, <1>3, <1>5, <1>6 DEF Working
  <1> QED BY <1>1, <1>2, <1>5, <1>6, <1>7, Runner, RunsOn, EngineAssumption DEF IInv

\* The notice of a connection that was asked for.
LEMMA InnerConnectOk ==
  ASSUME IInv, NEW h \in Conn, InnerConnect(h) PROVE IInv'
  <1>1. TypeOK'
    BY NoticeTypes DEF IInv
  <1>2. /\ cur = None /\ phase = "hook" /\ place[h] = "asked" /\ place' = [place EXCEPT ![h] = "live"]
        /\ cur' = h /\ step' = "connect" /\ UNCHANGED engine /\ UNCHANGED <<state, id, queued>>
        /\ bStopped' = bStopped /\ UNCHANGED loopVars
    BY DEF InnerConnect, Noticed, Continue, Run, stopVars
  <1>3. /\ place'[h] = "live" /\ \A g \in Conn \ {h} : place'[g] = place[g]
    BY <1>2, TypeParts DEF IInv, ConnTypes
  <1>4. /\ Unknown(h) /\ fdOf[h] = NoFd /\ state[h] \in {"IDLE", "FAILED"}
        /\ timer[h] = "none"
    BY <1>2, LooseIsUnknown DEF IInv, TableInv, PlaceInv, Unknown
  <1>5. UNCHANGED <<tables, connId, connMap>> /\ UNCHANGED fdOf
    BY <1>2 DEF engine
  <1>6. id[h] # NoConn
    BY <1>2 DEF IInv, TableInv, PlaceInv
  <1>7. ~\E c \in ConnId : connMap[c] = h
    BY <1>2, EngineAssumption DEF IInv, TableInv, MapInv
  <1>8. TableInv' /\ OnlyTouches(h) /\ Loose(h)'
    BY <1>1, <1>2, <1>3, <1>4, <1>5, <1>6, <1>7, UnknownChanges DEF IInv
  <1>9. Working(h)'
    BY <1>2, <1>3, <1>4, <1>5, <1>8 DEF Working, Loose
  <1>10. h \notin late /\ \A e \in batch : e.owner # h
    BY <1>2 DEF IInv, ControlInv, LoopInv
  <1> QED BY <1>1, <1>2, <1>8, <1>9, <1>10, RunsOn, EngineAssumption DEF IInv

\* A connection is accepted.
LEMMA AcceptOk ==
  ASSUME IInv, NEW h \in Conn, NEW fd \in Fd, NEW c \in ConnId, Accept(h, fd, c) PROVE IInv'
  <1>1. TypeOK'
    BY AcceptTypes DEF IInv
  <1>2. /\ cur = None /\ phase = "events" /\ place[h] = "unused" /\ Fresh(fd)
        /\ place' = [place EXCEPT ![h] = "live"] /\ state' = [state EXCEPT ![h] = "ESTABLISHING"]
        /\ id' = [id EXCEPT ![h] = c] /\ fdOf' = [fdOf EXCEPT ![h] = fd]
        /\ cur' = h /\ step' = "open" /\ UNCHANGED <<tables, connId, connMap, queued>>
        /\ bStopped' = bStopped /\ UNCHANGED loopVars
    BY DEF Accept, Continue, Run, stopVars
  <1>3. /\ place'[h] = "live" /\ state'[h] = "ESTABLISHING" /\ id'[h] = c /\ fdOf'[h] = fd
        /\ \A g \in Conn \ {h} : /\ place'[g] = place[g] /\ state'[g] = state[g]
                                 /\ id'[g] = id[g] /\ fdOf'[g] = fdOf[g]
    BY <1>2, TypeParts DEF IInv, ConnTypes, EngineTypeOK
  <1>4. Unknown(h)
    BY <1>2, LooseIsUnknown DEF IInv
  <1>5. \A g \in Conn \ {h} : fdOf[g] # fd
    BY <1>2 DEF Fresh
  <1>6. c # NoConn /\ fd # NoFd
    BY EngineAssumption
  <1>7. ~\E d \in ConnId : connMap[d] = h
    BY <1>2, EngineAssumption DEF IInv, TableInv, MapInv
  <1>8. TableInv' /\ OnlyTouches(h) /\ Loose(h)'
    BY <1>1, <1>2, <1>3, <1>4, <1>5, <1>6, <1>7, UnknownChanges DEF IInv
  <1>9. Working(h)'
    BY <1>2, <1>3, <1>6, <1>8 DEF Working
  <1>10. h \notin late /\ \A e \in batch : e.owner # h
    <2>1. h \notin late
      BY <1>2 DEF IInv, ControlInv, LoopInv
    <2>2. ASSUME NEW e \in batch, e.owner = h PROVE FALSE
      <3>1. e.fd \in Fd /\ handler[e.fd] = h
        BY <2>2, TypeParts DEF IInv, ControlInv, LoopInv, LoopTypes, Events
      <3> QED BY <3>1, <1>4 DEF Unknown
    <2> QED BY <2>1, <2>2
  <1> QED BY <1>1, <1>2, <1>8, <1>9, <1>10, RunsOn, EngineAssumption DEF IInv

\* Another thread asks for a connection, whatever the owner is doing.
LEMMA AskConnectOk ==
  ASSUME IInv, NEW h \in Conn, NEW c \in ConnId, AskConnect(h, c) PROVE IInv'
  <1>1. TypeOK'
    BY AskTypes DEF IInv
  <1>2. /\ place[h] = "unused" /\ place' = [place EXCEPT ![h] = "asked"] /\ id' = [id EXCEPT ![h] = c]
        /\ UNCHANGED engine /\ UNCHANGED <<state, queued>> /\ bStopped' = bStopped
        /\ UNCHANGED loopVars /\ UNCHANGED runVars
    BY DEF AskConnect, stopVars
  <1>3. /\ place'[h] = "asked" /\ id'[h] = c
        /\ \A g \in Conn \ {h} : place'[g] = place[g] /\ id'[g] = id[g]
    BY <1>2, TypeParts DEF IInv, ConnTypes
  <1>4. Unknown(h) /\ fdOf[h] = NoFd /\ state[h] \in {"IDLE", "FAILED"}
    BY <1>2, LooseIsUnknown DEF IInv, TableInv, PlaceInv
  <1>5. ~\E d \in ConnId : connMap[d] = h
    BY <1>2, EngineAssumption DEF IInv, TableInv, MapInv
  <1>6. UNCHANGED <<tables, connId, connMap>> /\ UNCHANGED fdOf
    BY <1>2 DEF engine
  <1>7. TableInv' /\ OnlyTouches(h)
    BY <1>1, <1>2, <1>3, <1>4, <1>5, <1>6, UnknownChanges, EngineAssumption DEF IInv
  <1>8. \A g \in Conn : /\ Registered(g)' <=> Registered(g)
                        /\ Loose(g)' <=> Loose(g)
                        /\ Taken(g)' <=> Taken(g)
                        /\ Resting(g)' <=> Resting(g)
    BY <1>2, <1>6 DEF tables, Registered, Loose, Taken, Resting
  <1>9. RestInv'
    BY <1>2, <1>3, <1>8 DEF IInv, ControlInv, RestInv, loopVars, runVars
  <1>10. LoopInv'
    <2>1. \A g \in late : g # h
      BY <1>2 DEF IInv, ControlInv, LoopInv
    <2>2. \A g \in late : place'[g] = "live"
      BY <1>3, <2>1, TypeParts DEF IInv, ControlInv, LoopInv, LoopTypes
    <2> QED BY <1>2, <1>6, <2>2 DEF IInv, ControlInv, LoopInv, loopVars, runVars, tables
  <1>11. WorkInv'
    <2> SUFFICES ASSUME cur # None PROVE step # "none" /\ cur \notin late /\ Working(cur)'
      BY <1>2 DEF WorkInv, loopVars, runVars
    <2>1. cur \in Conn /\ step # "none" /\ cur \notin late /\ Working(cur)
      BY TypeParts DEF IInv, ControlInv, WorkInv, RunTypes
    <2>2. cur # h => place'[cur] = place[cur]
      BY <1>3, <2>1
    <2>3. cur = h => step = "put"
      BY <1>2, <2>1 DEF Working
    <2> QED BY <1>2, <1>3, <1>6, <1>8, <2>1, <2>2, <2>3 DEF Working, tables, runVars
  <1> QED BY <1>1, <1>7, <1>9, <1>10, <1>11 DEF IInv, ControlInv

-----------------------------------------------------------------------------
(* A handler the engine comes to know.                                       *)

\* registerHandler of a handler that nothing leads to.
LEMMA RegisteredNow ==
  ASSUME TypeOK, TypeOK', TableInv, NEW h \in Conn, place[h] = "live", Loose(h), fdOf[h] # NoFd,
         NEW m \in SUBSET Masks, NEW limit \in BOOLEAN, NEW c \in ConnId \cup {NoConn},
         RegisterHandler(h, m, limit, c), UNCHANGED <<fdOf, place, id, bStopped>>,
         \A g \in Conn \ {h} : state'[g] = state[g] /\ queued'[g] = queued[g],
         \/ state'[h] = "CONNECTING" /\ m = {"write"} /\ c = NoConn
         \/ state'[h] = "ESTABLISHED" /\ m = PRead /\ ~limit /\ c = id[h] /\ ~queued'[h]
  PROVE  TableInv' /\ OnlyTouches(h) /\ Registered(h)'
  <1> DEFINE fd == fdOf[h]
  <1>0. EngineTypeOK /\ EngineTypeOK' /\ h # None /\ fd \in Fd /\ h \in Handler
    BY TypeParts, EngineAssumption DEF EngineTypeOK
  <1>1. handler[fd] = None /\ (c # NoConn => connMap[c] \in {None, h}) /\ Unknown(h)
    BY LooseIsUnknown DEF RegisterHandler, Refused
  <1>2. /\ handler'[fd] = h /\ mask'[fd] = m /\ watch'[fd] = m \cap RW
        /\ \A f \in Fd \ {fd} : handler'[f] = handler[f] /\ mask'[f] = mask[f] /\ watch'[f] = watch[f]
    BY <1>0 DEF RegisterHandler, EngineTypeOK
  <1>3. /\ ~limit => timer' = timer
        /\ \A g \in Conn \ {h} : timer'[g] = timer[g]
    BY <1>0 DEF RegisterHandler, EngineTypeOK
  <1>4. /\ c = NoConn => connId' = connId /\ connMap' = connMap
        /\ c # NoConn => /\ connId'[fd] = c /\ connMap'[c] = h
                         /\ \A f \in Fd \ {fd} : connId'[f] = connId[f]
                         /\ \A d \in ConnId \ {c} : connMap'[d] = connMap[d]
    BY <1>0 DEF RegisterHandler, EngineTypeOK
  <1>5. connId[fd] = NoConn
    BY <1>0, <1>1 DEF TableInv, MapInv
  <1> HIDE DEF fd
  <1>6. Registered(h)'
    BY <1>2 DEF Registered, fd
  <1>7. \A f \in Fd : handler[f] # h /\ (handler[f] # None => f # fd /\ handler[f] \in Conn \ {h})
    BY <1>0, <1>1 DEF Unknown, EngineTypeOK
  <1>8. FdsInv'
    <2> SUFFICES ASSUME NEW f \in Fd PROVE FdOK(f)'
      BY DEF FdsInv
    <2>1. CASE f = fd
      <3>1. /\ handler'[f] = h /\ place'[h] = "live" /\ fdOf'[h] = f /\ watch'[f] = mask'[f] \cap RW
            /\ mask'[f] = m
        BY <1>2, <2>1 DEF fd
      <3>2. CASE state'[h] = "CONNECTING" /\ m = {"write"}
        BY <3>1, <3>2, <1>0 DEF FdOK
      <3>3. CASE state'[h] = "ESTABLISHED" /\ m = PRead /\ c = id[h]
        <4>1. connId'[f] = id'[h]
          BY <3>3, <2>1, <1>4, <1>5
        <4>2. "persist" \in mask'[f]
          BY <3>1, <3>3 DEF PRead
        <4> QED BY <3>1, <3>3, <4>1, <4>2, <1>0 DEF FdOK
      <3> QED BY <3>2, <3>3
    <2>2. CASE f # fd
      <3>1. FdOK(f) /\ connId'[f] = connId[f]
        BY <2>2, <1>4 DEF TableInv, FdsInv
      <3> QED BY <2>2, <3>1, <1>2, <1>7 DEF FdOK, Watched
    <2> QED BY <2>1, <2>2
  <1>9. MapInv'
    <2>1. ASSUME NEW f \in Fd, connId'[f] # NoConn
          PROVE  /\ handler'[f] # None /\ connMap'[connId'[f]] = handler'[f]
                 /\ id'[handler'[f]] = connId'[f] /\ state'[handler'[f]] = "ESTABLISHED"
      <3>1. CASE f = fd
        <4>1. c # NoConn
          BY <2>1, <3>1, <1>4, <1>5
        <4> QED BY <4>1, <3>1, <1>0, <1>2, <1>4
      <3>2. CASE f # fd
        <4>1. connId'[f] = connId[f] /\ handler'[f] = handler[f]
          BY <3>2, <1>2, <1>4
        <4>2. /\ handler[f] # None /\ connMap[connId[f]] = handler[f] /\ handler[f] \in Conn \ {h}
              /\ id[handler[f]] = connId[f] /\ state[handler[f]] = "ESTABLISHED"
          BY <2>1, <4>1, <1>7 DEF TableInv, MapInv
        <4>3. connId[f] \in ConnId /\ (c # NoConn => connId[f] # c)
          BY <4>2, <2>1, <4>1, <1>0, <1>1 DEF EngineTypeOK
        <4> QED BY <4>1, <4>2, <4>3, <1>4
      <3> QED BY <3>1, <3>2
    <2>2. ASSUME NEW d \in ConnId, connMap'[d] # None
          PROVE  id'[connMap'[d]] = d /\ place'[connMap'[d]] \in {"live", "deleted"}
      <3>1. CASE c # NoConn /\ d = c
        BY <3>1, <1>4
      <3>2. CASE c = NoConn \/ d # c
        <4>1. connMap'[d] = connMap[d]
          BY <3>2, <1>4
        <4> QED BY <2>2, <4>1 DEF TableInv, MapInv
      <3> QED BY <3>1, <3>2
    <2> QED BY <2>1, <2>2 DEF MapInv
  <1>10. UniqueFds'
    BY DEF TableInv, UniqueFds
  <1>11. PlaceInv'
    <2>1. \A g \in Conn \ {h} : timer'[g] = timer[g] /\ state'[g] = state[g]
      BY <1>3
    <2> QED BY <2>1 DEF TableInv, PlaceInv
  <1>12. TimerInv'
    <2> SUFFICES ASSUME NEW g \in Conn, timer'[g] # "none"
                 PROVE  \/ state'[g] = "TIMEOUT" /\ fdOf'[g] = NoFd
                        \/ state'[g] = "CONNECTING" /\ Registered(g)'
      BY DEF TimerInv
    <2>1. CASE g = h
      BY <2>1, <1>3, <1>6 DEF Loose
    <2>2. CASE g # h
      <3>1. \/ state[g] = "TIMEOUT" /\ fdOf[g] = NoFd
            \/ state[g] = "CONNECTING" /\ Registered(g)
        BY <2>2, <1>3 DEF TableInv, TimerInv
      <3>2. Registered(g) => Registered(g)'
        <4>1. Registered(g) => fdOf[g] \in Fd \ {fd}
          BY <1>0, <1>7, <2>2, EngineAssumption DEF Registered, EngineTypeOK
        <4> QED BY <4>1, <1>2 DEF Registered
      <3> QED BY <3>1, <3>2, <2>2
    <2> QED BY <2>1, <2>2
  <1>13. SendersInv'
    <2> SUFFICES ASSUME NEW g \in Conn, state'[g] = "ESTABLISHED", Registered(g)', queued'[g],
                        "read" \in mask'[fdOf'[g]]
                 PROVE  "write" \in mask'[fdOf'[g]]
      BY DEF SendersInv
    <2>1. g # h
      BY <1>7
    <2>2. fdOf[g] \in Fd \ {fd}
      BY <2>1, <1>0, <1>2 DEF Registered, EngineTypeOK
    <2>3. Registered(g) /\ mask'[fdOf'[g]] = mask[fdOf[g]]
      BY <2>2, <1>2 DEF Registered
    <2> QED BY <2>1, <2>3 DEF TableInv, SendersInv
  <1>14. OnlyTouches(h)
    <2>1. ASSUME NEW f \in Fd, NEW g \in Conn \ {h}
          PROVE  /\ handler'[f] = g <=> handler[f] = g
                 /\ handler[f] = g => mask'[f] = mask[f]
      <3>1. CASE f = fd
        BY <3>1, <1>1, <1>2, EngineAssumption
      <3>2. CASE f # fd
        BY <3>2, <1>2
      <3> QED BY <3>1, <3>2
    <2> QED BY <2>1, <1>3 DEF OnlyTouches
  <1> QED BY <1>6, <1>8, <1>9, <1>10, <1>11, <1>12, <1>13, <1>14 DEF TableInv

\* What the handler that opens is known to be.
LEMMA Opener ==
  ASSUME IInv, NEW h \in Conn, Opening(h)
  PROVE  /\ cur = h /\ place[h] = "live" /\ fdOf[h] # NoFd /\ Loose(h) /\ Unknown(h)
         /\ id[h] \in ConnId /\ \A g \in Conn \ {h} : fdOf[g] # fdOf[h]
  <1>1. cur = h /\ place[h] = "live" /\ fdOf[h] # NoFd /\ Loose(h)
    BY Runner DEF IInv, Opening, Working
  <1>2. Unknown(h) /\ id[h] # NoConn
    BY <1>1, LooseIsUnknown DEF IInv, TableInv, PlaceInv
  <1>3. \A g \in Conn \ {h} : fdOf[g] # fdOf[h]
    BY <1>1 DEF IInv, TableInv, UniqueFds
  <1> QED BY <1>1, <1>2, <1>3, TypeParts DEF IInv, ConnTypes

\* A pending connect is registered for writing, with a timer.
LEMMA OpenConnectingOk ==
  ASSUME IInv, NEW h \in Conn, OpenConnecting(h) PROVE IInv'
  <1>1. TypeOK'
    BY OpeningTypes DEF IInv, TableInv, ControlInv
  <1>2. /\ cur = h /\ step = "open" /\ UNCHANGED fdOf /\ UNCHANGED <<state, place, id, queued>>
        /\ bStopped' = bStopped /\ UNCHANGED loopVars /\ state[h] = "CONNECTING" /\ Opening(h)
    BY DEF OpenConnecting, Opening, connVars, stopVars
  <1>3. place[h] = "live" /\ fdOf[h] # NoFd /\ Loose(h) /\ Unknown(h) /\ id[h] # NoConn
        /\ \A g \in Conn \ {h} : fdOf[g] # fdOf[h]
    BY <1>2, Opener, EngineAssumption
  <1>4. ASSUME NEW limit \in BOOLEAN, RegisterHandler(h, {"write"}, limit, NoConn), Return(h)
        PROVE  IInv'
    <2>1. TableInv' /\ OnlyTouches(h) /\ Registered(h)'
      BY <1>1, <1>2, <1>3, <1>4, RegisteredNow DEF IInv, Masks
    <2>2. Resting(h)'
      BY <2>1 DEF Resting
    <2> QED BY <1>1, <1>2, <1>4, <2>1, <2>2, Runner, Returned, RunsOn, EngineAssumption DEF IInv
  <1>5. CASE RegisterFails(h, NoConn) /\ Continue(h, "close")
    <2>1. UNCHANGED <<tables, connId, connMap, bStopped>> /\ cur' = h /\ step' = "close"
      BY <1>2, <1>5 DEF RegisterFails, Continue, Run
    <2>2. TableInv' /\ OnlyTouches(h) /\ Loose(h)'
      BY <1>1, <1>2, <1>3, <2>1, UnknownChanges DEF IInv
    <2>3. Working(h)'
      BY <1>2, <1>3, <2>1, <2>2 DEF Working
    <2> QED BY <1>1, <1>2, <2>1, <2>2, <2>3, Runner, RunsOn, EngineAssumption DEF IInv
  <1> QED BY <1>4, <1>5 DEF OpenConnecting

\* An established connection is registered for reading, under its id.
LEMMA OpenEstablishingOk ==
  ASSUME IInv, NEW h \in Conn, OpenEstablishing(h) PROVE IInv'
  <1>1. TypeOK'
    BY OpeningTypes DEF IInv, TableInv, ControlInv
  <1>2. /\ cur = h /\ step = "open" /\ UNCHANGED fdOf /\ UNCHANGED <<place, id>>
        /\ queued' = [queued EXCEPT ![h] = FALSE]
        /\ bStopped' = bStopped /\ UNCHANGED loopVars /\ Opening(h)
    BY DEF OpenEstablishing, Opening, stopVars, engine
  <1>3. place[h] = "live" /\ fdOf[h] # NoFd /\ Loose(h) /\ Unknown(h) /\ id[h] # NoConn /\ id[h] \in ConnId
        /\ \A g \in Conn \ {h} : fdOf[g] # fdOf[h]
    BY <1>2, Opener, EngineAssumption
  <1>4. ~queued'[h] /\ \A g \in Conn \ {h} : queued'[g] = queued[g]
    BY <1>2, TypeParts DEF IInv, ConnTypes
  <1>5. CASE /\ RegisterHandler(h, PRead, FALSE, id[h]) /\ state' = [state EXCEPT ![h] = "ESTABLISHED"]
             /\ Return(h) \/ Continue(h, "pause")
    <2>1. state'[h] = "ESTABLISHED" /\ \A g \in Conn \ {h} : state'[g] = state[g]
      BY <1>5, TypeParts DEF IInv, ConnTypes
    <2>2. PRead \in SUBSET Masks /\ FALSE \in BOOLEAN
      BY DEF PRead, Masks
    <2>3. TableInv' /\ OnlyTouches(h) /\ Registered(h)'
      BY <1>1, <1>2, <1>3, <1>4, <1>5, <2>1, <2>2, RegisteredNow DEF IInv
    <2>4. Resting(h)'
      BY <2>3 DEF Resting
    <2>5. CASE Return(h)
      BY <1>1, <1>2, <2>3, <2>4, <2>5, Runner, Returned, RunsOn, EngineAssumption DEF IInv
    <2>6. CASE Continue(h, "pause")
      <3>1. cur' = h /\ step' = "pause"
        BY <2>6 DEF Continue, Run
      <3>2. Working(h)'
        BY <1>2, <1>3, <2>1, <2>3, <3>1 DEF Working
      <3> QED BY <1>1, <1>2, <2>3, <3>1, <3>2, Runner, RunsOn, EngineAssumption DEF IInv
    <2> QED BY <1>5, <2>5, <2>6
  <1>6. ASSUME UNCHANGED tables, UNCHANGED <<connId, connMap>>, Continue(h, "close"),
               \A g \in Conn \ {h} : state'[g] = state[g]
        PROVE  IInv'
    <2>1. UNCHANGED <<tables, connId, connMap, bStopped>> /\ cur' = h /\ step' = "close"
      BY <1>2, <1>6 DEF Continue, Run
    <2>2. TableInv' /\ OnlyTouches(h) /\ Loose(h)'
      BY <1>1, <1>2, <1>3, <1>4, <1>6, <2>1, UnknownChanges DEF IInv
    <2>3. Working(h)'
      BY <1>2, <1>3, <2>1, <2>2 DEF Working
    <2> QED BY <1>1, <1>2, <2>1, <2>2, <2>3, Runner, RunsOn, EngineAssumption DEF IInv
  <1>7. ASSUME NEW s \in {"FAILED", "ESTABLISHING"}, state' = [state EXCEPT ![h] = s],
               Continue(h, "close"), UNCHANGED engine
        PROVE  IInv'
    BY <1>6, <1>7, TypeParts DEF IInv, ConnTypes, engine
  <1>8. CASE RegisterFails(h, id[h]) /\ Continue(h, "close") /\ UNCHANGED state
    BY <1>6, <1>8 DEF RegisterFails
  <1> QED BY <1>5, <1>7, <1>8 DEF OpenEstablishing

-----------------------------------------------------------------------------
(* What is asked of the engine for a registered descriptor changes.          *)

\* Its own code, or a call of the owner between two polls, suspends or resumes it.
LEMMA AskedOk ==
  ASSUME IInv, TypeOK', NEW h \in Conn, Registered(h), place[h] = "live", NEW m, Asked(fdOf[h], m),
         "persist" \in m <=> "persist" \in mask[fdOf[h]],
         state[h] = "CONNECTING" => "write" \in m,
         UNCHANGED <<state, place, id, bStopped>>, UNCHANGED loopVars,
         \A g \in Conn \ {h} : queued'[g] = queued[g],
         state[h] = "ESTABLISHED" /\ queued'[h] /\ "read" \in m => "write" \in m
  PROVE  TableInv' /\ OnlyTouches(h) /\ Registered(h)' /\ Resting(h)' /\ mask'[fdOf'[h]] = m
  <1>0. fdOf[h] \in Fd /\ handler[fdOf[h]] = h /\ h # None
    BY TypeParts, EngineAssumption DEF IInv, EngineTypeOK, Registered
  <1>1. TableInv'
    BY TablesAsked DEF IInv
  <1>2. UNCHANGED <<handler, timer, fdOf>> /\ mask'[fdOf[h]] = m /\ \A f \in Fd \ {fdOf[h]} : mask'[f] = mask[f]
    BY DEF Asked
  <1>3. Registered(h)' /\ Resting(h)'
    BY <1>2 DEF Registered, Resting
  <1>4. OnlyTouches(h)
    BY <1>0, <1>2 DEF OnlyTouches
  <1> QED BY <1>1, <1>2, <1>3, <1>4

\* What a registered handler may ask for: reading, at any time, and writing
\* when it is established.
LEMMA NewMask ==
  ASSUME IInv, NEW h \in Conn, Registered(h), NEW s \in SUBSET RW, place[h] = "live",
         \/ CanSuspend(fdOf[h], s) /\ Suspend(fdOf[h], s) /\ ("write" \in s => state[h] = "ESTABLISHED")
         \/ CanResume(fdOf[h], s) /\ Resume(fdOf[h], s)
         \/ UNCHANGED tables,
         UNCHANGED <<fdOf, regIO, connId, connMap>>
  PROVE  \E m : /\ Asked(fdOf[h], m) /\ ("persist" \in m <=> "persist" \in mask[fdOf[h]])
                /\ state[h] = "CONNECTING" => "write" \in m
                /\ \/ m = mask[fdOf[h]] \ s
                   \/ m = mask[fdOf[h]] \cup s /\ CanResume(fdOf[h], s)
                   \/ m = mask[fdOf[h]]
  <1> DEFINE fd == fdOf[h]
  <1>0. /\ EngineTypeOK /\ fd \in Fd /\ handler[fd] = h /\ handler[fd] # None /\ place[handler[fd]] = "live"
        /\ FdOK(fd) /\ "persist" \notin s
    BY TypeParts, EngineAssumption DEF IInv, EngineTypeOK, Registered, TableInv, FdsInv, RW
  <1>1. /\ state[h] = "CONNECTING" => "write" \in mask[fd]
        /\ watch[fd] = mask[fd] \cap RW
    BY <1>0 DEF FdOK
  <1>2. CASE Suspend(fd, s) /\ ("write" \in s => state[h] = "ESTABLISHED")
    <2>1. Asked(fd, mask[fd] \ s)
      BY <1>0, <1>2, Suspended DEF IInv, TableInv
    <2> QED BY <2>1, <1>0, <1>1, <1>2
  <1>3. CASE CanResume(fd, s) /\ Resume(fd, s)
    <2>1. Asked(fd, mask[fd] \cup s)
      BY <1>0, <1>3, Resumed DEF IInv, TableInv
    <2> QED BY <2>1, <1>0, <1>1, <1>3
  <1>4. CASE UNCHANGED tables
    <2>1. Asked(fd, mask[fd])
      BY <1>0, <1>1, <1>4 DEF Asked, tables, EngineTypeOK
    <2> QED BY <2>1, <1>1
  <1> QED BY <1>2, <1>3, <1>4

\* Reading is resumed only where something is asked for already, so that a
\* connection with messages is watched for writing.
LEMMA ReadAgain ==
  ASSUME IInv, NEW h \in Conn, Registered(h), place[h] = "live", CanResume(fdOf[h], {"read"})
  PROVE  "read" \in mask[fdOf[h]] \/ "write" \in mask[fdOf[h]]
  <1>1. fdOf[h] \in Fd /\ handler[fdOf[h]] = h /\ h # None /\ EngineTypeOK
    BY TypeParts, EngineAssumption DEF IInv, EngineTypeOK, Registered
  <1>2. watch[fdOf[h]] = mask[fdOf[h]] \cap RW
    BY <1>1 DEF IInv, TableInv, FdsInv, FdOK
  <1>3. Watched(fdOf[h])
    BY <1>2, EngineAssumption DEF Watched, RW
  <1> QED BY <1>3 DEF CanResume, Resumable, RW

\* suspendConn and resumeConn, by id.
LEMMA SuspendResumeOk ==
  ASSUME IInv, NEW c \in ConnId, SuspendConn(c) \/ ResumeConn(c) PROVE IInv'
  <1>1. TypeOK'
    BY MaskStepTypes DEF IInv
  <1>2. PICK h \in Conn :
           /\ Holds(c, h) /\ Registered(h) /\ cur = None /\ phase \in {"out", "hook"}
           /\ \/ CanSuspend(fdOf[h], {"read"}) /\ Suspend(fdOf[h], {"read"})
              \/ CanResume(fdOf[h], {"read"}) /\ Resume(fdOf[h], {"read"})
    BY DEF SuspendConn, ResumeConn
  <1>3. /\ UNCHANGED <<fdOf, regIO, connId, connMap>> /\ UNCHANGED <<state, place, id, bStopped>>
        /\ UNCHANGED queued /\ UNCHANGED loopVars /\ cur' = None
    BY <1>2 DEF SuspendConn, ResumeConn, connVars, stopVars, runVars
  <1>4. place[h] = "live" /\ {"read"} \in SUBSET RW
    BY <1>2 DEF Holds, RW
  <1>5. PICK m : /\ Asked(fdOf[h], m) /\ ("persist" \in m <=> "persist" \in mask[fdOf[h]])
                 /\ state[h] = "CONNECTING" => "write" \in m
                 /\ \/ m = mask[fdOf[h]] \ {"read"}
                    \/ m = mask[fdOf[h]] \cup {"read"} /\ CanResume(fdOf[h], {"read"})
                    \/ m = mask[fdOf[h]]
    BY <1>2, <1>3, <1>4, NewMask
  <1>6. state[h] = "ESTABLISHED" /\ queued[h] /\ "read" \in m => "write" \in m
    BY <1>2, <1>4, <1>5, ReadAgain DEF IInv, TableInv, SendersInv
  <1>7. TableInv' /\ OnlyTouches(h) /\ Resting(h)'
    BY <1>1, <1>2, <1>3, <1>4, <1>5, <1>6, AskedOk
  <1>8. h \notin late /\ \A e \in batch : e.owner # h
    BY <1>2 DEF IInv, ControlInv, LoopInv
  <1> QED BY <1>1, <1>2, <1>3, <1>7, <1>8, RunsOn, EngineAssumption DEF IInv

\* onConnCreated may ask that reading be suspended.
LEMMA PauseOk ==
  ASSUME IInv, NEW h \in Conn, Pause(h) PROVE IInv'
  <1>1. TypeOK'
    BY MaskStepTypes DEF IInv
  <1>2. /\ cur = h /\ step = "pause" /\ Return(h)
        /\ UNCHANGED <<fdOf, regIO, connId, connMap>> /\ UNCHANGED <<state, place, id, bStopped>>
        /\ UNCHANGED queued /\ UNCHANGED loopVars
        /\ (CanSuspend(fdOf[h], {"read"}) /\ Suspend(fdOf[h], {"read"})) \/ UNCHANGED tables
    BY DEF Pause, connVars, stopVars
  <1>3. place[h] = "live" /\ Registered(h) /\ {"read"} \in SUBSET RW
    BY <1>2, Runner DEF IInv, Working, RW
  <1>4. PICK m : /\ Asked(fdOf[h], m) /\ ("persist" \in m <=> "persist" \in mask[fdOf[h]])
                 /\ state[h] = "CONNECTING" => "write" \in m
                 /\ \/ m = mask[fdOf[h]] \ {"read"}
                    \/ m = mask[fdOf[h]] \cup {"read"} /\ CanResume(fdOf[h], {"read"})
                    \/ m = mask[fdOf[h]]
    BY <1>2, <1>3, NewMask
  <1>5. state[h] = "ESTABLISHED" /\ queued[h] /\ "read" \in m => "write" \in m
    BY <1>3, <1>4, ReadAgain DEF IInv, TableInv, SendersInv
  <1>6. TableInv' /\ OnlyTouches(h) /\ Resting(h)'
    BY <1>1, <1>2, <1>3, <1>4, <1>5, AskedOk
  <1> QED BY <1>1, <1>2, <1>6, Runner, Returned, RunsOn, EngineAssumption DEF IInv

\* handle_output and handle_input as they suspend what they have done.
LEMMA OutputInputOk ==
  ASSUME IInv, NEW h \in Conn, OutputEmpty(h) \/ OutputSent(h) \/ Input(h) PROVE IInv'
  <1>1. TypeOK'
    BY HandlesTypes DEF IInv, Handles, Outputs
  <1>2. /\ cur = h /\ step = "event" /\ state[h] = "ESTABLISHED"
        /\ UNCHANGED <<fdOf, regIO, connId, connMap>> /\ UNCHANGED <<state, place, id, bStopped>>
        /\ UNCHANGED loopVars
    BY DEF OutputEmpty, OutputSent, Input, Writing, Reading, Handling, connVars, stopVars
  <1>3. /\ place[h] = "live" /\ Registered(h) /\ ("write" \in event => "write" \in mask[fdOf[h]])
        /\ {"read"} \in SUBSET RW /\ {"write"} \in SUBSET RW
    BY <1>2, Runner DEF IInv, Working, Taken, RW
  <1>4. \A g \in Conn \ {h} : queued'[g] = queued[g]
    BY TypeParts DEF OutputEmpty, OutputSent, Input, connVars, IInv, ConnTypes
  <1>5. ASSUME NEW s \in {{"read"}, {"write"}},
               \/ CanSuspend(fdOf[h], s) /\ Suspend(fdOf[h], s)
               \/ CanResume(fdOf[h], s) /\ Resume(fdOf[h], s)
               \/ UNCHANGED tables
        PROVE  \E m : /\ Asked(fdOf[h], m) /\ ("persist" \in m <=> "persist" \in mask[fdOf[h]])
                      /\ \/ m = mask[fdOf[h]] \ s
                         \/ m = mask[fdOf[h]] \cup s /\ CanResume(fdOf[h], s)
                         \/ m = mask[fdOf[h]]
    <2>1. s \in SUBSET RW
      BY <1>3
    <2> QED BY <1>2, <1>3, <1>5, <2>1, NewMask
  <1>6. ASSUME NEW m, Asked(fdOf[h], m), "persist" \in m <=> "persist" \in mask[fdOf[h]],
               queued'[h] /\ "read" \in m => "write" \in m,
               cur' = h, step' = "close" \/ (step' = "event" /\ ("write" \in event' => "write" \in m))
        PROVE  IInv'
    <2>1. TableInv' /\ OnlyTouches(h) /\ Registered(h)' /\ Resting(h)' /\ mask'[fdOf'[h]] = m
      BY <1>1, <1>2, <1>3, <1>4, <1>6, AskedOk
    <2>2. Working(h)' /\ step' # "none"
      BY <1>2, <1>3, <1>6, <2>1 DEF Working
    <2> QED BY <1>1, <1>2, <1>6, <2>1, <2>2, Runner, RunsOn, EngineAssumption DEF IInv
  <1>7. CASE OutputEmpty(h)
    <2>1. /\ ~queued'[h] /\ cur' = h
          /\ \/ CanSuspend(fdOf[h], {"write"}) /\ Suspend(fdOf[h], {"write"})
             \/ UNCHANGED tables
          /\ step' = "close" \/ (step' = "event" /\ "write" \notin event')
      BY <1>2, <1>7, TypeParts DEF OutputEmpty, IInv, ConnTypes, Did, Continue, Run
    <2>2. PICK m : Asked(fdOf[h], m) /\ ("persist" \in m <=> "persist" \in mask[fdOf[h]])
      BY <1>5, <2>1
    <2> QED BY <1>6, <2>1, <2>2
  <1>8. CASE OutputSent(h)
    <2>1. /\ "write" \in event /\ cur' = h /\ step' = "event" /\ event' \subseteq event
          /\ \/ UNCHANGED tables
             \/ CanSuspend(fdOf[h], {"read"}) /\ Suspend(fdOf[h], {"read"})
             \/ CanResume(fdOf[h], {"read"}) /\ Resume(fdOf[h], {"read"})
      BY <1>2, <1>8 DEF OutputSent, Writing, Did, runVars
    <2>2. PICK m : /\ Asked(fdOf[h], m) /\ ("persist" \in m <=> "persist" \in mask[fdOf[h]])
                   /\ \/ m = mask[fdOf[h]] \ {"read"}
                      \/ m = mask[fdOf[h]] \cup {"read"} /\ CanResume(fdOf[h], {"read"})
                      \/ m = mask[fdOf[h]]
      BY <1>5, <2>1
    <2>3. "write" \in m
      BY <1>3, <2>1, <2>2
    <2> QED BY <1>6, <2>1, <2>2, <2>3
  <1>9. CASE Input(h)
    <2>1. /\ "write" \notin event /\ cur' = h /\ queued' = queued
          /\ step' = "close" \/ (step' = "event" /\ event' \subseteq event)
          /\ \/ UNCHANGED tables
             \/ CanSuspend(fdOf[h], {"read"}) /\ Suspend(fdOf[h], {"read"})
      BY <1>2, <1>9 DEF Input, Reading, Did, Continue, Run, connVars
    <2>2. PICK m : /\ Asked(fdOf[h], m) /\ ("persist" \in m <=> "persist" \in mask[fdOf[h]])
                   /\ \/ m = mask[fdOf[h]] \ {"read"}
                      \/ m = mask[fdOf[h]] \cup {"read"} /\ CanResume(fdOf[h], {"read"})
                      \/ m = mask[fdOf[h]]
      BY <1>5, <2>1
    <2>3. queued'[h] /\ "read" \in m => "write" \in m
      BY <1>2, <1>3, <2>1, <2>2, ReadAgain DEF IInv, TableInv, SendersInv
    <2> QED BY <1>6, <2>1, <2>2, <2>3
  <1> QED BY <1>7, <1>8, <1>9

-----------------------------------------------------------------------------
(* The notices about a connection, and the message that is put on it.        *)

\* The notice that closes.
LEMMA InnerCloseOk ==
  ASSUME IInv, NEW c \in ConnId, InnerClose(c) \/ InnerReconnect(c) PROVE IInv'
  <1>1. TypeOK'
    BY NoticeTypes DEF IInv, Notices
  <1>2. PICK h \in Conn :
           /\ Holds(c, h) /\ cur = None /\ phase = "hook" /\ cur' = h /\ step' = "close"
    BY DEF InnerClose, InnerReconnect, Noticed, Continue, Run
  <1>3. UNCHANGED engine /\ UNCHANGED <<state, place, id, queued>> /\ UNCHANGED <<stopVars, loopVars>>
    BY DEF InnerClose, InnerReconnect
  <1>4. place[h] = "live" /\ Resting(h)
    BY <1>2, AtRest DEF IInv, Holds
  <1>5. Working(h)'
    BY <1>2, <1>3, <1>4 DEF Working, Resting, Registered, engine, tables, stopVars
  <1> QED BY <1>1, <1>2, <1>3, <1>5, OnlyControl

\* The notice of a message.
LEMMA InnerSendOk ==
  ASSUME IInv, NEW c \in ConnId, InnerSend(c) PROVE IInv'
  <1>1. TypeOK'
    BY NoticeTypes DEF IInv, Notices
  <1>2. PICK h \in Conn :
           /\ Holds(c, h) /\ state[h] = "ESTABLISHED" /\ cur = None /\ phase = "hook"
           /\ \/ UNCHANGED tables
              \/ CanSuspend(fdOf[h], {"read"}) /\ Suspend(fdOf[h], {"read"})
              \/ CanResume(fdOf[h], {"read"}) /\ Resume(fdOf[h], {"read"})
           /\ cur' = h /\ step' \in {"put", "close"}
    BY DEF InnerSend, Noticed, Run
  <1>3. /\ UNCHANGED <<fdOf, regIO, connId, connMap>> /\ UNCHANGED <<state, place, id, bStopped>>
        /\ UNCHANGED queued /\ UNCHANGED loopVars
    BY DEF InnerSend, connVars, stopVars
  <1>4. place[h] = "live" /\ Registered(h) /\ {"read"} \in SUBSET RW /\ h \notin late
    BY <1>2, AtRest DEF IInv, Holds, RW, Resting
  <1>5. PICK m : /\ Asked(fdOf[h], m) /\ ("persist" \in m <=> "persist" \in mask[fdOf[h]])
                 /\ \/ m = mask[fdOf[h]] \ {"read"}
                    \/ m = mask[fdOf[h]] \cup {"read"} /\ CanResume(fdOf[h], {"read"})
                    \/ m = mask[fdOf[h]]
    BY <1>2, <1>3, <1>4, NewMask
  <1>6. state[h] = "ESTABLISHED" /\ queued[h] /\ "read" \in m => "write" \in m
    BY <1>4, <1>5, ReadAgain DEF IInv, TableInv, SendersInv
  <1>7. TableInv' /\ OnlyTouches(h) /\ Resting(h)'
    BY <1>1, <1>2, <1>3, <1>4, <1>5, <1>6, AskedOk
  <1>8. Working(h)' /\ step' # "none"
    BY <1>2, <1>3, <1>4, <1>7 DEF Working
  <1>9. \A e \in batch : e.owner # h
    BY <1>2 DEF IInv, ControlInv, LoopInv
  <1> QED BY <1>1, <1>2, <1>3, <1>4, <1>7, <1>8, <1>9, RunsOn, EngineAssumption DEF IInv

\* The message that was put behind a close.
LEMMA PutMsgOk ==
  ASSUME IInv, NEW h \in Conn, PutMsg(h) PROVE IInv'
  <1>1. TypeOK'
    BY MaskStepTypes DEF IInv
  <1>2. /\ cur = h /\ step = "put" /\ cur' = None
        /\ UNCHANGED <<fdOf, regIO, connId, connMap>> /\ UNCHANGED <<state, place, id, bStopped>>
        /\ UNCHANGED loopVars
    BY DEF PutMsg, Run, stopVars
  <1>3. place[h] = "live" => Resting(h)
    BY <1>2, Runner DEF IInv, Working
  <1>4. (queued' = queued \/ queued' = [queued EXCEPT ![h] = TRUE])
    BY DEF PutMsg
  <1>5. \A g \in Conn \ {h} : queued'[g] = queued[g]
    BY <1>4, TypeParts DEF IInv, ConnTypes
  <1>6. CASE UNCHANGED tables /\ (queued' = queued \/ ~Registered(h))
    <2>1. UNCHANGED engine
      BY <1>2, <1>6 DEF engine
    <2>2. \A g \in Conn : queued'[g] => queued[g] \/ ~Registered(g)
      BY <1>5, <1>6
    <2>3. TableInv'
      BY <1>2, <2>1, <2>2, TablesKept DEF IInv
    <2>4. OnlyTouches(h)
      BY <1>2, <2>1 DEF OnlyTouches, engine, tables
    <2>5. place'[h] = "live" => Resting(h)'
      BY <1>2, <1>3, <2>1 DEF Resting, Registered, engine, tables
    <2> QED BY <1>1, <1>2, <2>3, <2>4, <2>5, Runner, RunsOn, EngineAssumption DEF IInv
  <1>7. CASE Registered(h) /\ ~(UNCHANGED tables /\ queued' = queued)
    <2>1. place[h] = "live" /\ fdOf[h] \in Fd /\ handler[fdOf[h]] = h /\ h # None
      <3>1. place[h] = "live"
        BY <1>7 DEF IInv, TableInv, PlaceInv, Registered
      <3> QED BY <1>7, <3>1, TypeParts, EngineAssumption DEF IInv, EngineTypeOK, Registered
    <2>2. \/ CanResume(fdOf[h], {"write"}) /\ Resume(fdOf[h], {"write"})
          \/ /\ UNCHANGED tables
             /\ ~CanResume(fdOf[h], {"write"}) \/ queued[h]
      BY <1>7 DEF PutMsg
    <2>3. {"write"} \in SUBSET RW
      BY DEF RW
    <2>4. CASE CanResume(fdOf[h], {"write"}) /\ Resume(fdOf[h], {"write"})
      <3>1. Asked(fdOf[h], mask[fdOf[h]] \cup {"write"})
        BY <1>2, <2>1, <2>3, <2>4, Resumed DEF IInv, TableInv
      <3>2. TableInv' /\ OnlyTouches(h) /\ Resting(h)'
        BY <1>1, <1>2, <1>5, <1>7, <2>1, <3>1, AskedOk
      <3> QED BY <1>1, <1>2, <3>2, Runner, RunsOn, EngineAssumption DEF IInv
    <2>5. CASE UNCHANGED tables /\ (~CanResume(fdOf[h], {"write"}) \/ queued[h])
      <3> DEFINE m == mask[fdOf[h]]
      <3>1. watch[fdOf[h]] = m \cap RW /\ FdOK(fdOf[h])
        BY <2>1 DEF IInv, TableInv, FdsInv, FdOK
      <3>2. Watched(fdOf[h])
        BY <3>1, EngineAssumption DEF Watched, RW
      <3>3. Asked(fdOf[h], m)
        BY <1>2, <2>1, <2>5, <3>1, TypeParts DEF Asked, tables, IInv, EngineTypeOK
      <3>4. ~CanResume(fdOf[h], {"write"}) => "read" \notin m
        BY <2>1, <3>2 DEF CanResume, Resumable, RW
      <3>5. state[h] = "ESTABLISHED" /\ queued'[h] /\ "read" \in m => "write" \in m
        BY <1>7, <2>5, <3>4 DEF IInv, TableInv, SendersInv
      <3>6. state[h] = "CONNECTING" => "write" \in m
        BY <2>1, <3>1 DEF FdOK
      <3> HIDE DEF m
      <3>7. "persist" \in m <=> "persist" \in mask[fdOf[h]]
        BY DEF m
      <3>8. TableInv' /\ OnlyTouches(h) /\ Resting(h)'
        BY <1>1, <1>2, <1>5, <1>7, <2>1, <3>3, <3>5, <3>6, <3>7, AskedOk
      <3> QED BY <1>1, <1>2, <3>8, Runner, RunsOn, EngineAssumption DEF IInv
    <2> QED BY <2>2, <2>4, <2>5
  <1>8. Registered(h) \/ UNCHANGED tables
    BY DEF PutMsg
  <1> QED BY <1>6, <1>7, <1>8

-----------------------------------------------------------------------------
(* A handler the engine forgets.                                             *)

\* The tables after a handler is taken out of them, with its descriptor and its
\* timer, but is still live.
LEMMA Forgotten ==
  ASSUME TypeOK, TypeOK', TableInv, NEW h \in Conn, place[h] = "live",
         UNCHANGED <<id, bStopped>>,
         \A g \in Conn \ {h} : /\ fdOf'[g] = fdOf[g] /\ timer'[g] = timer[g] /\ state'[g] = state[g]
                               /\ place'[g] = place[g] /\ queued'[g] = queued[g],
         \A f \in Fd \ {fdOf[h]} : /\ handler'[f] = handler[f] /\ mask'[f] = mask[f]
                                   /\ watch'[f] = watch[f] /\ connId'[f] = connId[f],
         fdOf[h] # NoFd => /\ handler[fdOf[h]] \in {None, h} /\ handler'[fdOf[h]] = None
                           /\ watch'[fdOf[h]] = NotWatched /\ connId'[fdOf[h]] = NoConn,
         fdOf'[h] \in {fdOf[h], NoFd},
         \A c \in ConnId : connMap'[c] = connMap[c] \/ (connMap[c] = h /\ connMap'[c] = None),
         timer'[h] # "none" => state'[h] = "TIMEOUT" /\ fdOf'[h] = NoFd,
         \/ place'[h] = "live"
         \/ /\ place'[h] = "unused" /\ fdOf'[h] = NoFd /\ timer'[h] = "none" /\ state'[h] = "FAILED"
            /\ \A c \in ConnId : connMap'[c] # h
  PROVE  TableInv' /\ OnlyTouches(h) /\ ~Registered(h)'
  <1>0. EngineTypeOK /\ EngineTypeOK' /\ h # None /\ (fdOf[h] # NoFd => fdOf[h] \in Fd)
    BY TypeParts, EngineAssumption DEF EngineTypeOK
  <1>1. \A f \in Fd : handler'[f] # h
    <2> SUFFICES ASSUME NEW f \in Fd, handler'[f] = h PROVE FALSE
      OBVIOUS
    <2>1. f # fdOf[h]
      BY <1>0, EngineAssumption
    <2>2. handler[f] = h
      BY <2>1
    <2> QED BY <1>0, <2>1, <2>2 DEF TableInv, FdsInv, FdOK
  <1>2. \A f \in Fd : handler'[f] # None => /\ f # fdOf[h] /\ handler'[f] = handler[f] /\ handler[f] \in Conn \ {h}
    <2> SUFFICES ASSUME NEW f \in Fd, handler'[f] # None
                 PROVE  f # fdOf[h] /\ handler'[f] = handler[f] /\ handler[f] \in Conn \ {h}
      OBVIOUS
    <2>1. f # fdOf[h]
      BY EngineAssumption
    <2> QED BY <1>0, <1>1, <2>1 DEF EngineTypeOK
  <1>3. ~Registered(h)'
    BY <1>0, <1>1 DEF Registered, EngineTypeOK
  <1>4. FdsInv'
    <2> SUFFICES ASSUME NEW f \in Fd PROVE FdOK(f)'
      BY DEF FdsInv
    <2>1. FdOK(f)
      BY DEF TableInv, FdsInv
    <2>2. CASE handler'[f] = None
      <3>1. CASE f = fdOf[h]
        BY <2>2, <3>1, EngineAssumption DEF FdOK, Watched
      <3>2. CASE f # fdOf[h]
        BY <2>1, <2>2, <3>2 DEF FdOK, Watched
      <3> QED BY <3>1, <3>2
    <2>3. CASE handler'[f] # None
      <3>1. f # fdOf[h] /\ handler'[f] = handler[f] /\ handler[f] \in Conn \ {h}
        BY <1>2, <2>3
      <3> QED BY <2>1, <2>3, <3>1 DEF FdOK, Watched
    <2> QED BY <2>2, <2>3
  <1>5. UniqueFds'
    BY DEF TableInv, UniqueFds
  <1>6. MapInv'
    <2>1. ASSUME NEW f \in Fd, connId'[f] # NoConn
          PROVE  /\ handler'[f] # None /\ connMap'[connId'[f]] = handler'[f]
                 /\ id'[handler'[f]] = connId'[f] /\ state'[handler'[f]] = "ESTABLISHED"
      <3>1. f # fdOf[h]
        BY <2>1, EngineAssumption
      <3>2. connId'[f] = connId[f] /\ handler'[f] = handler[f] /\ connId[f] \in ConnId
        BY <1>0, <2>1, <3>1 DEF EngineTypeOK
      <3>3. /\ handler[f] # None /\ connMap[connId[f]] = handler[f]
            /\ id[handler[f]] = connId[f] /\ state[handler[f]] = "ESTABLISHED"
        BY <2>1, <3>2 DEF TableInv, MapInv
      <3>4. handler[f] \in Conn \ {h}
        BY <1>2, <3>2, <3>3
      <3> QED BY <3>2, <3>3, <3>4
    <2>2. ASSUME NEW c \in ConnId, connMap'[c] # None
          PROVE  id'[connMap'[c]] = c /\ place'[connMap'[c]] \in {"live", "deleted"}
      <3>1. connMap'[c] = connMap[c] /\ connMap[c] \in Conn
        BY <1>0, <2>2 DEF EngineTypeOK
      <3>2. id[connMap[c]] = c /\ place[connMap[c]] \in {"live", "deleted"}
        BY <2>2, <3>1 DEF TableInv, MapInv
      <3> QED BY <3>1, <3>2
    <2> QED BY <2>1, <2>2 DEF MapInv
  <1>7. PlaceInv'
    BY DEF TableInv, PlaceInv
  <1>8. \A g \in Conn \ {h} : Registered(g)' <=> Registered(g)
    <2> SUFFICES ASSUME NEW g \in Conn \ {h} PROVE Registered(g)' <=> Registered(g)
      OBVIOUS
    <2>1. fdOf[g] # NoFd => fdOf[g] \in Fd
      BY <1>0 DEF EngineTypeOK
    <2>2. CASE fdOf[g] # NoFd /\ fdOf[g] = fdOf[h]
      BY <2>2 DEF TableInv, UniqueFds
    <2> QED BY <2>1, <2>2 DEF Registered
  <1>9. TimerInv'
    BY <1>8 DEF TableInv, TimerInv
  <1>10. SendersInv'
    <2> SUFFICES ASSUME NEW g \in Conn, state'[g] = "ESTABLISHED", Registered(g)', queued'[g],
                        "read" \in mask'[fdOf'[g]]
                 PROVE  "write" \in mask'[fdOf'[g]]
      BY DEF SendersInv
    <2>1. g # h
      BY <1>3
    <2>2. fdOf'[g] = fdOf[g] /\ Registered(g) /\ fdOf[g] \in Fd \ {fdOf[h]}
      BY <1>0, <1>8, <2>1 DEF Registered, EngineTypeOK, TableInv, UniqueFds
    <2> QED BY <2>1, <2>2 DEF TableInv, SendersInv
  <1>11. OnlyTouches(h)
    <2>1. ASSUME NEW f \in Fd, NEW g \in Conn \ {h}
          PROVE  /\ handler'[f] = g <=> handler[f] = g
                 /\ handler[f] = g => mask'[f] = mask[f]
      BY EngineAssumption
    <2> QED BY <2>1 DEF OnlyTouches
  <1> QED BY <1>3, <1>4, <1>5, <1>6, <1>7, <1>9, <1>10, <1>11 DEF TableInv

\* An event is delivered: to an established connection, which stays registered,
\* or to one that connects, which does not.
LEMMA DispatchOk ==
  ASSUME IInv, NEW e \in batch, Dispatch(e) PROVE IInv'
  <1>0. EngineTypeOK /\ ConnTypes /\ e \in Events /\ e.fd \in Fd
    BY TypeParts DEF IInv, LoopTypes, Events
  <1>1. TypeOK'
    BY DispatchTypes DEF IInv
  <1>2. PICK h \in Conn : h = handler[e.fd]
    BY <1>0 DEF Dispatch, EngineTypeOK
  <1>3. /\ TakeEvent(e.fd) /\ batch' = batch \ {e} /\ cur = None /\ cur' = h /\ step' = "event"
        /\ event' = e.ready /\ UNCHANGED <<fdOf, regIO, connMap>> /\ UNCHANGED <<state, place, id, queued>>
        /\ bStopped' = bStopped /\ phase' = phase /\ late' = late /\ phase = "events"
    BY <1>2 DEF Dispatch, Run, connVars, stopVars
  <1>4. fdOf[h] = e.fd /\ e.ready \subseteq mask[e.fd] /\ late = {} /\ \A f \in batch' : f.owner # h
    <2>1. e.owner = h /\ fdOf[h] = e.fd /\ e.ready \subseteq mask[e.fd] /\ late = {}
      BY <1>2, <1>3 DEF IInv, ControlInv, LoopInv
    <2>2. ASSUME NEW f \in batch, f.owner = h PROVE f = e
      BY <2>1, <2>2 DEF IInv, ControlInv, LoopInv
    <2> QED BY <1>3, <2>1, <2>2
  <1>5. place[h] = "live" /\ FdOK(e.fd) /\ h # None /\ Registered(h)
    BY <1>0, <1>2, <1>4, EngineAssumption DEF IInv, TableInv, PlaceInv, FdsInv, Registered
  <1>6. timer'[h] = "none" /\ \A g \in Conn \ {h} : timer'[g] = timer[g]
    BY <1>0, <1>2, <1>3 DEF TakeEvent, WithoutTimer, EngineTypeOK
  <1>7. CASE "persist" \in mask[e.fd]
    <2>1. state[h] = "ESTABLISHED"
      BY <1>2, <1>5, <1>7 DEF FdOK
    <2>2. timer[h] = "none"
      BY <2>1 DEF IInv, TableInv, TimerInv
    <2>3. timer' = timer
      BY <1>0, <1>1, <1>6, <2>2, TypeParts DEF EngineTypeOK
    <2>4. UNCHANGED engine
      BY <1>3, <1>7, <2>3 DEF TakeEvent, engine, tables
    <2>5. TableInv'
      BY <1>3, <2>4, TablesKept DEF IInv
    <2>6. OnlyTouches(h)
      BY <1>3, <2>4 DEF OnlyTouches, engine, tables
    <2>7. Working(h)'
      BY <1>3, <1>4, <1>5, <2>1, <2>4 DEF Working, Registered, engine, tables
    <2> QED BY <1>1, <1>3, <1>4, <2>5, <2>6, <2>7, RunsNext, EngineAssumption DEF IInv
  <1>8. CASE "persist" \notin mask[e.fd]
    <2>1. state[h] = "CONNECTING"
      BY <1>2, <1>5, <1>8 DEF FdOK
    <2>2. /\ handler' = WithoutHandler(e.fd) /\ mask' = WithoutMask(e.fd)
          /\ watch' = WithoutWatch(e.fd) /\ connId' = [connId EXCEPT ![e.fd] = NoConn]
      BY <1>3, <1>8 DEF TakeEvent
    <2>3. /\ handler'[e.fd] = None /\ watch'[e.fd] = NotWatched /\ connId'[e.fd] = NoConn
          /\ \A f \in Fd \ {e.fd} : /\ handler'[f] = handler[f] /\ mask'[f] = mask[f]
                                    /\ watch'[f] = watch[f] /\ connId'[f] = connId[f]
      BY <1>0, <2>2 DEF WithoutHandler, WithoutMask, WithoutWatch, EngineTypeOK
    <2>4. TableInv' /\ OnlyTouches(h) /\ ~Registered(h)'
      BY <1>0, <1>1, <1>2, <1>3, <1>4, <1>5, <1>6, <2>3, Forgotten DEF IInv
    <2>5. Working(h)'
      BY <1>3, <1>4, <1>5, <1>6, <2>1, <2>4, <1>0, EngineAssumption DEF Working, Taken, Loose
    <2> QED BY <1>1, <1>3, <1>4, <2>4, <2>5, RunsNext, EngineAssumption DEF IInv
  <1> QED BY <1>7, <1>8

\* A timer has passed: the handler that is called is the one that set it.
LEMMA FireTimerOk ==
  ASSUME IInv, NEW h \in Conn, FireTimer(h) PROVE IInv'
  <1>0. EngineTypeOK /\ ConnTypes /\ h # None
    BY TypeParts, EngineAssumption DEF IInv
  <1>1. TypeOK'
    BY TimerStepTypes DEF IInv, TableInv
  <1>2. timer[h] = "past" /\ phase = "timers" /\ cur = None /\ TakeTimer(h) /\ late' = late
        /\ CallTimeout(TimedOut(h))
    BY DEF FireTimer
  <1>3. \/ state[h] = "TIMEOUT" /\ fdOf[h] = NoFd
        \/ state[h] = "CONNECTING" /\ Registered(h)
    BY <1>2 DEF IInv, TableInv, TimerInv
  <1>4. TimedOut(h) = h /\ place[h] = "live"
    BY <1>2, <1>3 DEF TimedOut, Registered, IInv, TableInv, PlaceInv
  <1>5. /\ ForgetId(h) /\ cur' = h /\ step' = "event" /\ event' = {"timeout"}
        /\ UNCHANGED <<fdOf, regIO, connMap>> /\ UNCHANGED <<state, place, id, queued>>
        /\ bStopped' = bStopped /\ UNCHANGED loopVars
    BY <1>2, <1>4 DEF CallTimeout, Run, connVars, loopVars
  <1>6. late = {} /\ batch = {}
    BY <1>2 DEF IInv, ControlInv, LoopInv
  <1>7. fdOf[h] # NoFd => fdOf[h] \in Fd /\ handler[fdOf[h]] = h /\ connId[fdOf[h]] = NoConn
    BY <1>0, <1>3 DEF Registered, EngineTypeOK, IInv, TableInv, MapInv
  <1>8. /\ \A f \in Fd \ {fdOf[h]} : connId'[f] = connId[f]
        /\ fdOf[h] # NoFd => connId'[fdOf[h]] = NoConn
    BY <1>0, <1>5, <1>7 DEF ForgetId, EngineTypeOK
  <1>9. /\ timer'[h] = "none" /\ \A g \in Conn \ {h} : timer'[g] = timer[g]
        /\ \A f \in Fd \ {fdOf[h]} : handler'[f] = handler[f] /\ mask'[f] = mask[f] /\ watch'[f] = watch[f]
        /\ fdOf[h] # NoFd => handler'[fdOf[h]] = None /\ watch'[fdOf[h]] = NotWatched
    <2>1. CASE fdOf[h] = NoFd
      BY <1>0, <1>2, <2>1 DEF TakeTimer, WithoutTimer, EngineTypeOK
    <2>2. CASE fdOf[h] # NoFd
      <3>1. /\ handler' = WithoutHandler(fdOf[h]) /\ mask' = WithoutMask(fdOf[h])
            /\ watch' = WithoutWatch(fdOf[h]) /\ timer' = WithoutTimer(h)
        BY <1>0, <1>2, <1>7, <2>2 DEF TakeTimer, EngineRemove, TimersWithout
      <3> QED BY <1>0, <1>7, <2>2, <3>1 DEF WithoutTimer, WithoutHandler, WithoutMask, WithoutWatch, EngineTypeOK
    <2> QED BY <2>1, <2>2
  <1>10. TableInv' /\ OnlyTouches(h) /\ ~Registered(h)'
    BY <1>0, <1>1, <1>4, <1>5, <1>7, <1>8, <1>9, Forgotten DEF IInv
  <1>11. Working(h)'
    BY <1>3, <1>4, <1>5, <1>9, <1>10 DEF Working, Taken, Loose, Registered
  <1> QED BY <1>1, <1>2, <1>5, <1>6, <1>10, <1>11, RunsOn, EngineAssumption DEF IInv

\* A timer that was taken with all others when the clock was set back.
LEMMA FireLateOk ==
  ASSUME IInv, NEW h \in Conn, FireLate(h) PROVE IInv'
  <1>0. EngineTypeOK /\ EngineTypeOK' /\ h # None
    BY TypeParts, TimerStepTypes, EngineAssumption DEF IInv, TableInv
  <1>1. TypeOK'
    BY TimerStepTypes DEF IInv, TableInv
  <1>2. /\ h \in late /\ phase = "late" /\ cur = None /\ late' = late \ {h} /\ UNCHANGED tables
        /\ ForgetId(h) /\ cur' = h /\ step' = "event" /\ event' = {"timeout"}
        /\ UNCHANGED <<fdOf, regIO, connMap>> /\ UNCHANGED <<state, place, id, queued>>
        /\ bStopped' = bStopped /\ phase' = phase /\ batch' = batch
    BY DEF FireLate, CallTimeout, Run, connVars
  <1>3. place[h] = "live" /\ Taken(h) /\ batch = {}
    BY <1>0, <1>2 DEF IInv, ControlInv, LoopInv, RestInv
  <1>4. /\ \A f \in Fd \ {fdOf[h]} : connId'[f] = connId[f]
        /\ \A f \in Fd : connId'[f] \in {connId[f], NoConn}
    BY <1>0, <1>2 DEF ForgetId, EngineTypeOK
  <1>5. FdsInv'
    <2> SUFFICES ASSUME NEW f \in Fd PROVE FdOK(f)'
      BY DEF FdsInv
    <2>1. FdOK(f)
      BY DEF IInv, TableInv, FdsInv
    <2>2. CASE f # fdOf[h]
      BY <1>2, <1>4, <2>1, <2>2 DEF FdOK, tables, Watched
    <2>3. CASE f = fdOf[h]
      <3>1. handler[f] # h
        BY <1>3, <2>3, EngineAssumption DEF Taken, Loose, Registered
      <3>2. handler[f] # None => handler[f] \in Conn
        BY <1>0 DEF EngineTypeOK
      <3>3. handler[f] # None => fdOf[handler[f]] # f
        BY <2>3, <3>1, <3>2, EngineAssumption DEF IInv, TableInv, UniqueFds
      <3> QED BY <1>2, <2>1, <3>3 DEF FdOK, tables, Watched
    <2> QED BY <2>2, <2>3
  <1>6. UniqueFds' /\ PlaceInv'
    BY <1>2 DEF IInv, TableInv, UniqueFds, PlaceInv, tables
  <1>7. MapInv'
    <2>1. \A f \in Fd : connId'[f] # NoConn => connId'[f] = connId[f]
      BY <1>4
    <2> QED BY <1>2, <2>1 DEF IInv, TableInv, MapInv, tables
  <1>8. TimerInv' /\ SendersInv'
    BY <1>2 DEF IInv, TableInv, TimerInv, SendersInv, tables, Registered
  <1>9. OnlyTouches(h)
    BY <1>2 DEF OnlyTouches, tables
  <1>10. Working(h)'
    BY <1>2, <1>3 DEF Working, Taken, Loose, Registered, tables
  <1>11. ControlInv'
    BY <1>1, <1>2, <1>3, <1>9, <1>10, RunsNext, EngineAssumption DEF IInv
  <1> QED BY <1>1, <1>5, <1>6, <1>7, <1>8, <1>11 DEF IInv, TableInv

-----------------------------------------------------------------------------
(* The loop, and the flags other threads set.                                *)

\* Nothing of the connections or of the code that runs changes.
LEMMA OnlyTheLoop ==
  ASSUME IInv, UNCHANGED <<engine, connVars, runVars, late>>, bStopped => bStopped'
  PROVE  TableInv' /\ RestInv' /\ WorkInv'
  <1>1. UNCHANGED engine /\ UNCHANGED <<state, place, id, queued>> /\ UNCHANGED <<cur, step, event>>
        /\ late' = late
    BY DEF connVars, runVars
  <1>2. TableInv'
    BY <1>1, TablesKept DEF IInv
  <1>3. \A h \in Conn : /\ Registered(h) <=> Registered(h)'
                        /\ Loose(h) <=> Loose(h)'
                        /\ Taken(h) <=> Taken(h)'
                        /\ Resting(h) => Resting(h)'
    BY <1>1 DEF engine, tables, Registered, Loose, Taken, Resting
  <1>4. RestInv'
    BY <1>1, <1>3 DEF IInv, ControlInv, RestInv
  <1>5. WorkInv'
    <2> SUFFICES ASSUME cur # None PROVE step # "none" /\ cur \notin late /\ Working(cur)'
      BY <1>1 DEF WorkInv
    <2>1. cur \in Conn /\ step # "none" /\ cur \notin late /\ Working(cur)
      BY TypeParts DEF IInv, ControlInv, WorkInv, RunTypes
    <2> QED BY <1>1, <1>3, <2>1 DEF Working, engine, tables
  <1> QED BY <1>2, <1>4, <1>5

\* epoll_wait returns: every event is that of the handler of its descriptor.
LEMMA WaitOk ==
  ASSUME IInv, Wait PROVE IInv'
  <1>1. TypeOK'
    BY LoopStepTypes DEF IInv, TableInv
  <1>2. /\ phase = "out" /\ phase' = "events" /\ UNCHANGED <<engine, connVars, runVars, late>>
        /\ bStopped' = bStopped
    BY DEF Wait, stopVars
  <1>3. PICK fds \in SUBSET {fd \in Fd : Watched(fd)} : \E ready \in [fds -> SUBSET RW] :
          /\ \A fd \in fds : ready[fd] \subseteq watch[fd]
          /\ batch' = {[fd |-> fd, ready |-> ready[fd], owner |-> handler[fd]] : fd \in fds}
    BY DEF Wait
  <1>4. PICK ready \in [fds -> SUBSET RW] :
          /\ \A fd \in fds : ready[fd] \subseteq watch[fd]
          /\ batch' = {[fd |-> fd, ready |-> ready[fd], owner |-> handler[fd]] : fd \in fds}
    BY <1>3
  <1>5. cur = None /\ late = {} /\ UNCHANGED <<handler, fdOf, mask, cur>>
    BY <1>2 DEF IInv, ControlInv, LoopInv, engine, tables, runVars
  <1>6. \A fd \in fds : handler[fd] \in Conn /\ fdOf[handler[fd]] = fd /\ ready[fd] \subseteq mask[fd]
    <2> SUFFICES ASSUME NEW fd \in fds
                 PROVE  handler[fd] \in Conn /\ fdOf[handler[fd]] = fd /\ ready[fd] \subseteq mask[fd]
      OBVIOUS
    <2>1. fd \in Fd /\ Watched(fd) /\ ready[fd] \subseteq watch[fd]
      BY <1>4
    <2>2. FdOK(fd)
      BY <2>1 DEF IInv, TableInv, FdsInv
    <2>3. handler[fd] # None /\ fdOf[handler[fd]] = fd /\ watch[fd] = mask[fd] \cap RW
      BY <2>1, <2>2 DEF FdOK
    <2> QED BY <2>1, <2>3, TypeParts DEF IInv, EngineTypeOK
  <1>7. LoopInv'
    <2>1. \A e \in batch' : /\ handler'[e.fd] = e.owner /\ fdOf'[e.owner] = e.fd /\ e.owner # cur'
                            /\ e.ready \subseteq mask'[e.fd]
      <3> SUFFICES ASSUME NEW fd \in fds, NEW e, e = [fd |-> fd, ready |-> ready[fd], owner |-> handler[fd]]
                   PROVE  /\ handler'[e.fd] = e.owner /\ fdOf'[e.owner] = e.fd /\ e.owner # cur'
                          /\ e.ready \subseteq mask'[e.fd]
        BY <1>4
      <3>1. e.fd = fd /\ e.ready = ready[fd] /\ e.owner = handler[fd]
        OBVIOUS
      <3> QED BY <3>1, <1>5, <1>6, EngineAssumption
    <2>2. \A e, f \in batch' : e.fd = f.fd => e = f
      BY <1>4
    <2> QED BY <1>2, <1>5, <2>1, <2>2 DEF LoopInv
  <1> QED BY <1>1, <1>2, <1>7, OnlyTheLoop DEF IInv, ControlInv

\* The other steps of the loop.
LEMMA LoopMovesOk ==
  ASSUME IInv, EventsDone \/ PollDone \/ HookDone \/ EndLoop \/ StopApp \/ StopReactor
  PROVE  IInv'
  <1>1. TypeOK'
    BY LoopStepTypes DEF IInv, TableInv
  <1>2. UNCHANGED <<engine, connVars, runVars, late>> /\ (bStopped => bStopped') /\ batch' = batch
    BY DEF EventsDone, PollDone, HookDone, EndLoop, StopApp, StopReactor, stopVars, loopVars
  <1>3. UNCHANGED <<handler, fdOf, mask, place, cur>> /\ late' = late
    BY <1>2 DEF engine, tables, connVars, runVars
  <1>4. LoopInv'
    <2>1. CASE StopApp \/ StopReactor
      BY <1>2, <1>3, <2>1 DEF StopApp, StopReactor, loopVars, IInv, ControlInv, LoopInv
    <2>2. CASE EventsDone
      BY <1>2, <1>3, <2>2 DEF EventsDone, IInv, ControlInv, LoopInv
    <2>3. CASE PollDone
      BY <1>2, <1>3, <2>3 DEF PollDone, IInv, ControlInv, LoopInv
    <2>4. CASE HookDone
      BY <1>2, <1>3, <2>4 DEF HookDone, IInv, ControlInv, LoopInv
    <2>5. CASE EndLoop
      BY <1>2, <1>3, <2>5 DEF EndLoop, IInv, ControlInv, LoopInv
    <2> QED BY <2>1, <2>2, <2>3, <2>4, <2>5
  <1> QED BY <1>1, <1>2, <1>4, OnlyTheLoop DEF IInv, ControlInv

\* Time passes for a timer.
LEMMA TickOk ==
  ASSUME IInv, NEW h \in Conn, Tick(h) PROVE IInv'
  <1>0. EngineTypeOK
    BY TypeParts DEF IInv
  <1>1. TypeOK'
    BY TimerStepTypes DEF IInv, TableInv
  <1>2. /\ phase \in {"out", "hook"} /\ timer[h] = "running" /\ timer' = [timer EXCEPT ![h] = "past"]
        /\ UNCHANGED <<handler, mask, watch, fdOf, regIO, connId, connMap>>
        /\ UNCHANGED <<state, place, id, queued>> /\ bStopped' = bStopped
        /\ UNCHANGED <<phase, batch, late>> /\ UNCHANGED <<cur, step, event>>
    BY DEF Tick, connVars, stopVars, loopVars, runVars
  <1>3. \A g \in Conn : timer'[g] = "none" <=> timer[g] = "none"
    BY <1>0, <1>2 DEF EngineTypeOK
  <1>4. \A g \in Conn : /\ Registered(g) <=> Registered(g)'
                        /\ Loose(g) <=> Loose(g)'
                        /\ Taken(g) <=> Taken(g)'
                        /\ Resting(g) => Resting(g)'
    BY <1>2, <1>3 DEF Registered, Loose, Taken, Resting
  <1>5. TableInv'
    <2>1. FdsInv' /\ UniqueFds' /\ MapInv'
      BY <1>2 DEF IInv, TableInv, FdsInv, FdOK, Watched, UniqueFds, MapInv
    <2>2. PlaceInv' /\ TimerInv'
      BY <1>2, <1>3, <1>4 DEF IInv, TableInv, PlaceInv, TimerInv
    <2>3. SendersInv'
      BY <1>2, <1>4 DEF IInv, TableInv, SendersInv
    <2> QED BY <2>1, <2>2, <2>3 DEF TableInv
  <1>6. RestInv' /\ LoopInv'
    BY <1>2, <1>4 DEF IInv, ControlInv, RestInv, LoopInv
  <1>7. WorkInv'
    <2> SUFFICES ASSUME cur # None PROVE step # "none" /\ cur \notin late /\ Working(cur)'
      BY <1>2 DEF WorkInv
    <2>1. cur \in Conn /\ step # "none" /\ cur \notin late /\ Working(cur)
      BY TypeParts DEF IInv, ControlInv, WorkInv, RunTypes
    <2> QED BY <1>2, <1>3, <1>4, <2>1 DEF Working
  <1> QED BY <1>1, <1>5, <1>6, <1>7 DEF IInv, ControlInv

\* The clock was set back: every handler that waits for a timer is taken.
LEMMA ClockSetOk ==
  ASSUME IInv, EventsDoneClockSet PROVE IInv'
  <1> DEFINE timed == {g \in Handler : timer[g] # "none"}
             fds == {fdOf[h] : h \in timed}
  <1>0. EngineTypeOK /\ EngineTypeOK'
    BY TypeParts, LoopStepTypes DEF IInv, TableInv
  <1>1. TypeOK'
    BY LoopStepTypes DEF IInv, TableInv
  <1>2. /\ phase = "events" /\ cur = None /\ batch = {} /\ phase' = "late" /\ batch' = {}
        /\ UNCHANGED <<fdOf, regIO, connId, connMap>> /\ UNCHANGED <<state, place, id, queued>>
        /\ bStopped' = bStopped /\ UNCHANGED <<cur, step, event>>
    BY DEF EventsDoneClockSet, connVars, stopVars, runVars
  <1>3. /\ \A fd \in Fd : /\ handler'[fd] = IF fd \in fds THEN None ELSE handler[fd]
                          /\ mask'[fd] = IF fd \in fds THEN {} ELSE mask[fd]
                          /\ watch'[fd] = IF fd \in fds THEN NotWatched ELSE watch[fd]
        /\ \A h \in Handler : timer'[h] = "none"
    BY DEF EventsDoneClockSet, TakeAllTimers
  <1>4. \A h \in timed : \/ state[h] = "TIMEOUT" /\ fdOf[h] = NoFd
                         \/ state[h] = "CONNECTING" /\ Registered(h)
    BY DEF IInv, TableInv, TimerInv
  <1>5. late' = timed
    <2>1. \A h \in timed : TimedOut(h) = h
      BY <1>4 DEF TimedOut, Registered
    <2>2. late' = {TimedOut(h) : h \in timed}
      BY DEF EventsDoneClockSet
    <2> QED BY <2>1, <2>2
  <1>6. \A fd \in Fd : fd \in fds => /\ handler[fd] \in timed /\ state[handler[fd]] = "CONNECTING"
                                     /\ fdOf[handler[fd]] = fd
    BY <1>4, EngineAssumption DEF Registered
  <1>7. \A h \in timed : place[h] = "live"
    BY DEF IInv, TableInv, PlaceInv
  <1>8. \A h \in Conn : Registered(h)' <=> Registered(h) /\ h \notin timed
    <2> SUFFICES ASSUME NEW h \in Conn PROVE Registered(h)' <=> Registered(h) /\ h \notin timed
      OBVIOUS
    <2>1. CASE fdOf[h] = NoFd
      BY <1>2, <2>1 DEF Registered
    <2>2. CASE fdOf[h] # NoFd
      <3>1. fdOf[h] \in Fd
        BY <1>0, <2>2 DEF EngineTypeOK
      <3>2. h \in timed => fdOf[h] \in fds
        OBVIOUS
      <3> HIDE DEF fds, timed
      <3> QED BY <1>2, <1>3, <1>6, <2>2, <3>1, <3>2, EngineAssumption DEF Registered
    <2> QED BY <2>1, <2>2
  <1> HIDE DEF fds, timed
  <1>9. FdsInv'
    <2> SUFFICES ASSUME NEW f \in Fd PROVE FdOK(f)'
      BY DEF FdsInv
    <2>1. FdOK(f)
      BY DEF IInv, TableInv, FdsInv
    <2> QED BY <1>2, <1>3, <2>1 DEF FdOK, Watched
  <1>10. UniqueFds'
    BY <1>2 DEF IInv, TableInv, UniqueFds
  <1>11. MapInv'
    <2>1. ASSUME NEW f \in Fd, connId[f] # NoConn
          PROVE  handler'[f] = handler[f]
      BY <2>1, <1>3, <1>6 DEF IInv, TableInv, MapInv
    <2> QED BY <1>2, <2>1 DEF IInv, TableInv, MapInv
  <1>12. PlaceInv' /\ TimerInv'
    BY <1>2, <1>3 DEF IInv, TableInv, PlaceInv, TimerInv
  <1>13. SendersInv'
    <2> SUFFICES ASSUME NEW h \in Conn, state[h] = "ESTABLISHED", Registered(h)', queued[h],
                        "read" \in mask'[fdOf[h]]
                 PROVE  "write" \in mask'[fdOf[h]]
      BY <1>2 DEF SendersInv
    <2>1. fdOf[h] \in Fd /\ Registered(h)
      BY <1>0, <1>8 DEF Registered, EngineTypeOK
    <2> QED BY <1>3, <2>1 DEF IInv, TableInv, SendersInv
  <1>14. RestInv'
    <2> SUFFICES ASSUME NEW h \in Conn, place[h] = "live"
                 PROVE  IF h \in timed THEN Taken(h)' ELSE Resting(h)'
      BY <1>2, <1>5 DEF RestInv
    <2>1. Resting(h)
      BY <1>2, AtRest DEF IInv
    <2>2. CASE h \in timed
      <3>1. ~Registered(h)' /\ timer'[h] = "none"
        BY <1>3, <1>8, <2>2
      <3> QED BY <1>2, <1>4, <2>2, <3>1 DEF Taken, Loose, Registered
    <2>3. CASE h \notin timed
      BY <1>2, <1>8, <2>1, <2>3 DEF Resting, timed
    <2> QED BY <2>2, <2>3
  <1>15. WorkInv' /\ LoopInv'
    BY <1>2, <1>5, <1>7 DEF WorkInv, LoopInv, IInv, ControlInv, timed
  <1> QED BY <1>1, <1>9, <1>10, <1>11, <1>12, <1>13, <1>14, <1>15 DEF IInv, TableInv, ControlInv

-----------------------------------------------------------------------------
(* close.                                                                    *)

\* close() of a stopped framework deletes the object, which stays in the table
\* of the engine.
LEMMA CloseStoppedOk ==
  ASSUME IInv, NEW h \in Conn, CloseStopped(h) PROVE IInv'
  <1>0. EngineTypeOK /\ ConnTypes /\ h # None
    BY TypeParts, EngineAssumption DEF IInv
  <1>1. TypeOK'
    BY ClosingTypes DEF IInv
  <1>2. /\ cur = h /\ step = "close" /\ bStopped /\ bStopped' = bStopped /\ Return(h)
        /\ UNCHANGED <<handler, mask, connId, connMap, state, id>> /\ UNCHANGED loopVars
    BY DEF CloseStopped, Closing, stopVars
  <1>3. /\ timer'[h] = "none" /\ fdOf'[h] = NoFd /\ place'[h] = "deleted"
        /\ \A g \in Conn \ {h} : /\ timer'[g] = timer[g] /\ fdOf'[g] = fdOf[g] /\ place'[g] = place[g]
                                 /\ queued'[g] = queued[g]
        /\ fdOf[h] # NoFd => watch'[fdOf[h]] = NotWatched
        /\ \A f \in Fd \ {fdOf[h]} : watch'[f] = watch[f]
    BY <1>0 DEF CloseStopped, WithoutTimer, WithoutWatch, EngineTypeOK, ConnTypes
  <1>4. place[h] = "live"
    BY <1>2, Runner DEF IInv, Working
  <1>5. FdsInv'
    <2> SUFFICES ASSUME NEW f \in Fd PROVE FdOK(f)'
      BY DEF FdsInv
    <2>1. FdOK(f) /\ (handler[f] # None => handler[f] \in Conn)
      BY <1>0 DEF IInv, TableInv, FdsInv, EngineTypeOK
    <2>2. CASE f = fdOf[h]
      <3>1. watch'[f] = NotWatched
        BY <1>3, <2>2, EngineAssumption
      <3>2. handler[f] # None => place'[handler[f]] = "deleted"
        BY <1>3, <2>1, <2>2, EngineAssumption DEF FdOK, IInv, TableInv, UniqueFds
      <3> QED BY <1>2, <3>1, <3>2 DEF FdOK, Watched
    <2>3. CASE f # fdOf[h]
      <3>1. handler[f] # h
        BY <1>0, <1>4, <2>1, <2>3 DEF FdOK
      <3> QED BY <1>2, <1>3, <2>1, <2>3, <3>1 DEF FdOK, Watched
    <2> QED BY <2>2, <2>3
  <1>6. UniqueFds'
    BY <1>3 DEF IInv, TableInv, UniqueFds
  <1>7. MapInv'
    <2>1. ASSUME NEW c \in ConnId, connMap[c] # None
          PROVE  place'[connMap[c]] \in {"live", "deleted"}
      <3>1. connMap[c] \in Conn /\ place[connMap[c]] \in {"live", "deleted"}
        BY <1>0, <2>1 DEF IInv, TableInv, MapInv, EngineTypeOK
      <3> QED BY <1>3, <3>1
    <2> QED BY <1>2, <2>1 DEF IInv, TableInv, MapInv
  <1>8. PlaceInv'
    BY <1>2, <1>3 DEF IInv, TableInv, PlaceInv
  <1>9. \A g \in Conn \ {h} : Registered(g)' <=> Registered(g)
    BY <1>2, <1>3 DEF Registered
  <1>10. TimerInv' /\ SendersInv'
    <2>1. ~Registered(h)' /\ mask' = mask
      BY <1>2, <1>3 DEF Registered
    <2>2. TimerInv'
      BY <1>2, <1>3, <1>9 DEF IInv, TableInv, TimerInv
    <2>3. SendersInv'
      BY <1>2, <1>3, <1>9, <2>1 DEF IInv, TableInv, SendersInv
    <2> QED BY <2>2, <2>3
  <1>11. OnlyTouches(h)
    BY <1>2, <1>3 DEF OnlyTouches
  <1>12. ControlInv'
    <2>1. /\ cur' \in {h, None}
          /\ cur' = h => step' # "none" /\ Working(h)'
      BY <1>2, <1>3, Returned
    <2> QED BY <1>1, <1>2, <1>3, <1>11, <2>1, Runner, RunsOn, EngineAssumption DEF IInv
  <1> QED BY <1>1, <1>5, <1>6, <1>7, <1>8, <1>10, <1>12 DEF IInv, TableInv

\* What close leaves in the tables before it decides what becomes of the handler.
LEMMA ClosedTables ==
  ASSUME IInv, NEW h \in Conn, Close(h)
  PROVE  /\ place[h] = "live" /\ id[h] \in ConnId /\ MapLeft(h) = connMap
         /\ TimersLeft(h) \in [Handler -> {"none", "running", "past"}]
         /\ TimersLeft(h)[h] = "none" /\ \A g \in Conn \ {h} : TimersLeft(h)[g] = timer[g]
         /\ \A f \in Fd \ {fdOf[h]} : /\ handler'[f] = handler[f] /\ mask'[f] = mask[f]
                                      /\ watch'[f] = watch[f] /\ connId'[f] = connId[f]
         /\ fdOf[h] # NoFd => /\ handler[fdOf[h]] \in {None, h} /\ handler'[fdOf[h]] = None
                              /\ watch'[fdOf[h]] = NotWatched /\ connId'[fdOf[h]] = NoConn
  <1> DEFINE fd == fdOf[h]
  <1>0. EngineTypeOK /\ ConnTypes /\ h # None /\ (fd # NoFd => fd \in Fd)
    BY TypeParts, EngineAssumption DEF IInv, EngineTypeOK
  <1>1. cur = h /\ step = "close" /\ ~bStopped /\ Unregister(h)
    BY DEF Close, Closing
  <1>2. place[h] = "live" /\ id[h] \in ConnId
    BY <1>0, <1>1, Runner DEF IInv, Working, TableInv, PlaceInv, ConnTypes
  <1>3. ASSUME fd # NoFd
        PROVE  /\ handler[fd] \in {None, h}
               /\ handler[fd] = h => state[h] \in {"CONNECTING", "ESTABLISHED"}
               /\ handler[fd] = None \/ state[h] # "ESTABLISHED" => connId[fd] = NoConn
    <2>1. FdOK(fd) /\ fd \in Fd
      BY <1>0, <1>3 DEF IInv, TableInv, FdsInv
    <2>2. handler[fd] # None => fdOf[handler[fd]] = fd /\ handler[fd] \in Conn
      BY <1>0, <1>1, <2>1 DEF FdOK, EngineTypeOK
    <2>3. handler[fd] \in {None, h}
      BY <1>3, <2>2 DEF IInv, TableInv, UniqueFds
    <2>4. handler[fd] = h => state[h] \in {"CONNECTING", "ESTABLISHED"}
      BY <1>0, <1>2, <2>1 DEF FdOK
    <2>5. handler[fd] = None \/ state[h] # "ESTABLISHED" => connId[fd] = NoConn
      BY <2>1, <2>3 DEF IInv, TableInv, MapInv
    <2> QED BY <2>3, <2>4, <2>5
  <1>4. MapLeft(h) = connMap
    BY <1>3 DEF MapLeft, Removes
  <1>5. /\ TimersLeft(h) \in [Handler -> {"none", "running", "past"}]
        /\ TimersLeft(h)[h] = "none" /\ \A g \in Conn \ {h} : TimersLeft(h)[g] = timer[g]
    <2>1. timer[h] # "none" => \/ state[h] = "TIMEOUT" /\ fd = NoFd
                               \/ state[h] = "CONNECTING" /\ fd # NoFd /\ handler[fd] = h
      BY DEF IInv, TableInv, TimerInv, Registered
    <2>2. CASE Removes(h)
      <3>1. TimersLeft(h) = IF handler[fd] = None THEN timer ELSE [timer EXCEPT ![h] = "none"]
        BY <1>3, <2>2 DEF TimersLeft, TimersWithout, WithoutTimer, Removes
      <3> HIDE DEF fd
      <3>2. timer[h] # "none" => handler[fd] # None
        BY <1>0, <2>1, <2>2 DEF Removes, fd
      <3> QED BY <1>0, <3>1, <3>2 DEF EngineTypeOK
    <2>3. CASE ~Removes(h) /\ state[h] = "TIMEOUT"
      BY <1>0, <2>3 DEF TimersLeft, WithoutTimer, EngineTypeOK
    <2>4. CASE ~Removes(h) /\ state[h] # "TIMEOUT"
      BY <1>0, <2>1, <2>4 DEF TimersLeft, Removes, EngineTypeOK
    <2> QED BY <2>2, <2>3, <2>4
  <1>6. /\ \A f \in Fd \ {fd} : /\ handler'[f] = handler[f] /\ mask'[f] = mask[f]
                                /\ watch'[f] = watch[f] /\ connId'[f] = connId[f]
        /\ fd # NoFd => watch'[fd] = NotWatched
    BY <1>0, <1>1 DEF Unregister, Removes, WithoutHandler, WithoutMask, WithoutWatch, EngineTypeOK
  <1>7. ASSUME fd # NoFd PROVE handler'[fd] = None /\ connId'[fd] = NoConn
    <2>1. handler' = IF Removes(h) THEN WithoutHandler(fd) ELSE handler
      BY <1>1 DEF Unregister
    <2>2. connId' = IF Removes(h) /\ handler[fd] # None THEN [connId EXCEPT ![fd] = NoConn] ELSE connId
      BY <1>1 DEF Unregister
    <2>3. CASE Removes(h)
      BY <1>0, <1>3, <1>7, <2>1, <2>2, <2>3 DEF WithoutHandler, EngineTypeOK
    <2>4. CASE ~Removes(h)
      <3>1. handler[fd] = None
        BY <1>3, <1>7, <2>4 DEF Removes
      <3> QED BY <1>3, <1>7, <2>1, <2>2, <2>4, <3>1
    <2> QED BY <2>3, <2>4
  <1> QED BY <1>2, <1>3, <1>4, <1>5, <1>6, <1>7

\* close() tries again with a timer, connects at once, or gives the object back.
LEMMA CloseOk ==
  ASSUME IInv, NEW h \in Conn, Close(h) PROVE IInv'
  <1>0. EngineTypeOK /\ ConnTypes /\ h # None
    BY TypeParts, EngineAssumption DEF IInv
  <1>1. TypeOK'
    BY ClosingTypes DEF IInv
  <1>2. /\ cur = h /\ bStopped' = bStopped /\ UNCHANGED loopVars /\ UNCHANGED id
        /\ fdOf' = [fdOf EXCEPT ![h] = NoFd] /\ queued' = [queued EXCEPT ![h] = @ /\ state[h] # "ESTABLISHED"]
    BY DEF Close, Closing, stopVars
  <1>3. /\ place[h] = "live" /\ id[h] \in ConnId /\ MapLeft(h) = connMap
        /\ TimersLeft(h)[h] = "none" /\ \A g \in Conn \ {h} : TimersLeft(h)[g] = timer[g]
        /\ TimersLeft(h) \in [Handler -> {"none", "running", "past"}]
    BY ClosedTables
  <1>4. /\ fdOf'[h] = NoFd
        /\ \A g \in Conn \ {h} : fdOf'[g] = fdOf[g] /\ queued'[g] = queued[g]
    BY <1>0, <1>2 DEF EngineTypeOK, ConnTypes
  <1> DEFINE Left ==
        /\ \A g \in Conn \ {h} : timer'[g] = timer[g] /\ state'[g] = state[g] /\ place'[g] = place[g]
        /\ \A c \in ConnId : connMap'[c] = connMap[c] \/ (connMap[c] = h /\ connMap'[c] = None)
        /\ timer'[h] # "none" => state'[h] = "TIMEOUT"
        /\ \/ place'[h] = "live"
           \/ /\ place'[h] = "unused" /\ timer'[h] = "none" /\ state'[h] = "FAILED"
              /\ \A c \in ConnId : connMap'[c] # h
  <1>5. Left => TableInv' /\ OnlyTouches(h) /\ ~Registered(h)'
    BY <1>1, <1>2, <1>3, <1>4, ClosedTables, Forgotten DEF IInv
  <1>6. CASE /\ state' = [state EXCEPT ![h] = "TIMEOUT"]
             /\ timer' = [TimersLeft(h) EXCEPT ![h] = "running"]
             /\ connMap' = MapLeft(h) /\ Return(h) /\ UNCHANGED place
    <2>1. timer'[h] = "running" /\ state'[h] = "TIMEOUT" /\ Left
      BY <1>0, <1>3, <1>6 DEF EngineTypeOK, ConnTypes
    <2>2. Resting(h)'
      BY <1>4, <2>1 DEF Resting
    <2> QED BY <1>1, <1>2, <1>5, <1>6, <2>1, <2>2, Runner, Returned, RunsOn, EngineAssumption DEF IInv
  <1>7. CASE /\ state' = [state EXCEPT ![h] = "FAILED"] /\ timer' = TimersLeft(h)
             /\ connMap' = MapLeft(h) /\ Continue(h, "connect") /\ UNCHANGED place
    <2>1. timer'[h] = "none" /\ state'[h] = "FAILED" /\ Left /\ place'[h] = "live"
      BY <1>0, <1>3, <1>7 DEF EngineTypeOK, ConnTypes
    <2>2. cur' = h /\ step' = "connect"
      BY <1>7 DEF Continue, Run
    <2>3. Working(h)'
      BY <1>4, <2>1, <2>2 DEF Working
    <2> QED BY <1>1, <1>2, <1>5, <2>1, <2>2, <2>3, Runner, RunsOn, EngineAssumption DEF IInv
  <1>8. CASE /\ state' = [state EXCEPT ![h] = "FAILED"] /\ timer' = TimersLeft(h)
             /\ connMap' = MapWithout(h) /\ place' = [place EXCEPT ![h] = "unused"] /\ Return(h)
    <2>1. timer'[h] = "none" /\ state'[h] = "FAILED" /\ place'[h] = "unused"
          /\ \A g \in Conn \ {h} : timer'[g] = timer[g] /\ state'[g] = state[g] /\ place'[g] = place[g]
      BY <1>0, <1>3, <1>8 DEF EngineTypeOK, ConnTypes
    <2>2. connMap' = [connMap EXCEPT ![id[h]] = IF @ = h THEN None ELSE @]
      BY <1>3, <1>8 DEF MapWithout
    <2>3. ASSUME NEW c \in ConnId
          PROVE  /\ connMap'[c] = connMap[c] \/ (connMap[c] = h /\ connMap'[c] = None)
                 /\ connMap'[c] # h
      <3>1. connMap[c] = h => c = id[h]
        BY <1>0 DEF IInv, TableInv, MapInv
      <3> QED BY <1>0, <2>2, <3>1 DEF EngineTypeOK
    <2>4. Left
      BY <2>1, <2>3
    <2>5. /\ cur' \in {h, None}
          /\ cur' = h => step' # "none" /\ Working(h)'
      BY <1>8, <2>1, Returned
    <2> QED BY <1>1, <1>2, <1>5, <2>1, <2>4, <2>5, Runner, RunsOn, EngineAssumption DEF IInv
  <1> QED BY <1>6, <1>7, <1>8 DEF Close

-----------------------------------------------------------------------------
(* Every step, and what follows.                                            *)

\* Nothing is known in the beginning.
LEMMA InitOk == Init => IInv
  <1> SUFFICES ASSUME Init PROVE IInv
    OBVIOUS
  <1>1. TypeOK
    <2>1. EngineTypeOK
      BY DEF Init, EngineInit, EngineTypeOK
    <2>2. ConnTypes /\ LoopTypes /\ RunTypes
      BY DEF Init, ConnTypes, LoopTypes, RunTypes, States
    <2> QED BY <2>1, <2>2, TypeParts
  <1>2. FdsInv /\ MapInv
    BY DEF Init, EngineInit, FdsInv, FdOK, MapInv, Watched
  <1>3. UniqueFds /\ PlaceInv
    BY DEF Init, EngineInit, UniqueFds, PlaceInv
  <1>4. TimerInv /\ SendersInv
    BY DEF Init, EngineInit, TimerInv, SendersInv
  <1>5. ControlInv
    BY DEF Init, ControlInv, RestInv, WorkInv, LoopInv
  <1> QED BY <1>1, <1>2, <1>3, <1>4, <1>5 DEF IInv, TableInv

\* A step of nobody.
LEMMA StutterOk ==
  ASSUME IInv, UNCHANGED vars PROVE IInv'
  <1>1. /\ UNCHANGED engine /\ UNCHANGED connVars /\ UNCHANGED runVars /\ UNCHANGED <<stopVars, loopVars>>
    BY DEF vars
  <1>2. TypeOK'
    BY <1>1, TypeParts, EngineTypesKept, ConnTypesKept, RunTypesKept, LoopTypesKept DEF IInv
  <1>3. UNCHANGED <<engine, connVars, runVars, late>> /\ bStopped' = bStopped
    BY <1>1 DEF stopVars, loopVars
  <1>4. LoopInv'
    BY <1>1 DEF IInv, ControlInv, LoopInv, engine, tables, connVars, runVars, loopVars
  <1> QED BY <1>2, <1>3, <1>4, OnlyTheLoop DEF IInv, ControlInv

\* Every action.
LEMMA NextOk ==
  ASSUME IInv, [Next]_vars PROVE IInv'
  <1>1. CASE Wait \/ EventsDone \/ EventsDoneClockSet \/ PollDone \/ HookDone \/ EndLoop
             \/ StopApp \/ StopReactor
    BY <1>1, WaitOk, ClockSetOk, LoopMovesOk
  <1>2. ASSUME NEW e \in batch, Dispatch(e) PROVE IInv'
    BY <1>2, DispatchOk
  <1>3. ASSUME NEW h \in Conn, FireTimer(h) \/ FireLate(h) \/ Tick(h) PROVE IInv'
    BY <1>3, FireTimerOk, FireLateOk, TickOk
  <1>4. ASSUME NEW h \in Conn, InnerConnect(h) \/ Connect(h) \/ Opens(h) PROVE IInv'
    BY <1>4, InnerConnectOk, ConnectOk, OpenStoppedOk, OpenConnectingOk, OpenEstablishingOk, PauseOk
       DEF Opens
  <1>5. ASSUME NEW h \in Conn, Handles(h) PROVE IInv'
    BY <1>5, OnConnectingOk, CalledOk, OutputInputOk DEF Handles, Outputs
  <1>6. ASSUME NEW h \in Conn, Close(h) \/ CloseStopped(h) \/ PutMsg(h) PROVE IInv'
    BY <1>6, CloseOk, CloseStoppedOk, PutMsgOk
  <1>7. ASSUME NEW h \in Conn, NEW c \in ConnId, AskConnect(h, c) \/ \E fd \in Fd : Accept(h, fd, c)
        PROVE  IInv'
    BY <1>7, AskConnectOk, AcceptOk
  <1>8. ASSUME NEW c \in ConnId, SuspendConn(c) \/ ResumeConn(c) \/ Notices(c) PROVE IInv'
    BY <1>8, SuspendResumeOk, InnerCloseOk, InnerSendOk DEF Notices
  <1>9. CASE UNCHANGED vars
    BY <1>9, StutterOk
  <1> QED BY <1>1, <1>2, <1>3, <1>4, <1>5, <1>6, <1>7, <1>8, <1>9 DEF Next

\* The tables of the engine, of the kernel and of the connections agree, and
\* everyone runs, waits for its turn or rests, in every state of the loop
\* (CwxAppEpoll, CwxAppReactor, CwxAppHandler4TcpConn).
THEOREM Inductive == Spec => []IInv
  <1>1. Init => IInv
    BY InitOk
  <1>2. IInv /\ [Next]_vars => IInv'
    BY NextOk
  <1> QED BY <1>1, <1>2, PTL DEF Spec

\* Every state is well typed.
THEOREM Typed == Spec => []TypeOK
  <1>1. IInv => TypeOK
    BY DEF IInv
  <1> QED BY <1>1, Inductive, PTL

\* What epoll watches is what the engine's mask says, whatever epoll_ctl refuses
\* and in whatever order callbacks suspend, resume, close and reconnect.
THEOREM KernelAgrees == Spec => []KernelMatches
  <1>1. IInv => KernelMatches
    BY DEF IInv, TableInv, FdsInv, FdOK, KernelMatches
  <1> QED BY <1>1, Inductive, PTL

\* An event taken from epoll_wait finds the handler it was meant for, although
\* the callbacks before it in the batch closed, reconnected and registered
\* others: poll() does not look again (CwxAppEpoll.cpp:526).
THEOREM EventsAreDelivered == Spec => []EventReachesOwner
  <1>1. IInv => EventReachesOwner
    <2> SUFFICES ASSUME IInv PROVE EventReachesOwner
      OBVIOUS
    <2>1. \A e \in batch : handler[e.fd] = e.owner
      BY DEF IInv, ControlInv, LoopInv
    <2>2. \A h \in Handler : timer[h] # "none" => TimedOut(h) = h
      BY DEF IInv, TableInv, TimerInv, TimedOut, Registered
    <2> QED BY <2>1, <2>2 DEF EventReachesOwner
  <1> QED BY <1>1, Inductive, PTL

\* The id of a descriptor, the map of ids and the connection's own record agree,
\* so that a notice by id reaches the connection it names.
THEOREM IdsLead == Spec => []ConnMapAgrees
  <1>1. IInv => ConnMapAgrees
    BY DEF IInv, TableInv, MapInv, ConnMapAgrees
  <1> QED BY <1>1, Inductive, PTL

\* A live connection waits for a timer, or is registered under its descriptor:
\* no path through connect, open, close and the clock that is set back drops it.
THEOREM EveryoneWaits == Spec => []NoneForgotten
  <1>1. IInv => NoneForgotten
    <2> SUFFICES ASSUME IInv, NEW h \in Conn, place[h] = "live", cur # h, h \notin late, ~bStopped
                 PROVE  \/ state[h] = "TIMEOUT" /\ fdOf[h] = NoFd /\ timer[h] # "none"
                        \/ state[h] = "CONNECTING" /\ Registered(h) /\ "write" \in mask[fdOf[h]]
                        \/ /\ state[h] = "ESTABLISHED" /\ Registered(h) /\ "persist" \in mask[fdOf[h]]
                           /\ connId[fdOf[h]] = id[h]
      BY DEF NoneForgotten
    <2>1. Resting(h)
      BY DEF IInv, ControlInv, RestInv
    <2>2. CASE state[h] = "TIMEOUT" /\ fdOf[h] = NoFd /\ timer[h] # "none"
      BY <2>2
    <2>3. CASE Registered(h)
      <3>1. fdOf[h] \in Fd /\ handler[fdOf[h]] = h /\ h # None
        BY <2>3, TypeParts, EngineAssumption DEF IInv, EngineTypeOK, Registered
      <3>2. FdOK(fdOf[h])
        BY <3>1 DEF IInv, TableInv, FdsInv
      <3> QED BY <2>3, <3>1, <3>2 DEF FdOK
    <2> QED BY <2>1, <2>2, <2>3 DEF Resting
  <1> QED BY <1>1, Inductive, PTL

\* An object in the handler cache is known to no table, no event and no timer, so
\* that it may become another connection (CwxAppHandlerCache).
THEOREM CacheIsForgotten == Spec => []RecycledIsUnknown
  <1>1. IInv => RecycledIsUnknown
    <2> SUFFICES ASSUME IInv, NEW h \in Conn, place[h] \in {"unused", "asked"}
                 PROVE  /\ fdOf[h] = NoFd /\ timer[h] = "none" /\ h \notin late
                        /\ \A fd \in Fd : handler[fd] # h
                        /\ \A c \in ConnId : connMap[c] # h
                        /\ \A e \in batch : e.owner # h
      BY DEF RecycledIsUnknown
    <2>1. fdOf[h] = NoFd /\ timer[h] = "none" /\ h \notin late
      BY DEF IInv, TableInv, PlaceInv, ControlInv, LoopInv
    <2>2. \A fd \in Fd : handler[fd] # h
      BY LooseIsUnknown DEF IInv, Unknown
    <2>3. \A c \in ConnId : connMap[c] # h
      BY EngineAssumption DEF IInv, TableInv, MapInv
    <2>4. \A e \in batch : e.owner # h
      BY <2>2, TypeParts DEF IInv, ControlInv, LoopInv, LoopTypes, Events
    <2> QED BY <2>1, <2>2, <2>3, <2>4
  <1> QED BY <1>1, Inductive, PTL

\* A connection with a message to send, and that is read, is watched for
\* writing, whatever was suspended and resumed before.
THEOREM SendersWake == Spec => []SendersAreWatched
  <1>1. IInv => SendersAreWatched
    BY DEF IInv, TableInv, SendersInv, SendersAreWatched
  <1> QED BY <1>1, Inductive, PTL
=============================================================================
