---------------------------- MODULE EventEngine ----------------------------
(***************************************************************************)
(* CwxAppEpoll (lib/app) and the tables CwxAppReactor keeps beside it.     *)
(* Three parties must agree: the engine's record of a descriptor (its      *)
(* handler and its mask), the kernel's epoll set, and the handlers, which  *)
(* know the descriptor and the timer they have.  The operations are action *)
(* fragments: each says what one call does to the tables; a module that    *)
(* EXTENDS this one says who calls them, and when.                         *)
(*                                                                         *)
(* The time heap is reduced to whether a handler is in it and whether its  *)
(* moment has passed: nothing here depends on the order of two timers,     *)
(* which is TimeHeap's.                                                    *)
(* Signals are left out, and so is the bound on descriptors.               *)
(***************************************************************************)
CONSTANTS
  Handler,    \* the event handlers
  Fd,         \* descriptors
  ConnId,     \* connection ids
  None, NoFd, NoConn,  \* NULL, CWX_INVALID_HANDLE, CWX_APP_INVALID_CONN_ID
  NotWatched, \* a descriptor that is not in the epoll set
  AddMayFail  \* whether EPOLL_CTL_ADD may fail for lack of memory or watches

ASSUME EngineAssumption ==
  /\ None \notin Handler
  /\ NoFd \notin Fd
  /\ NoConn \notin ConnId
  /\ \A s \in SUBSET {"read", "write"} : s # NotWatched
  /\ AddMayFail \in BOOLEAN

VARIABLES
  handler,  \* m_eHandler[fd].m_handler
  mask,     \* m_eHandler[fd].m_mask
  watch,    \* the kernel: what epoll reports of fd, beside hang-ups
  timer,    \* of a handler: not in m_timeHeap, in it, or in it and past
  fdOf,     \* of a handler: getHandle()
  regIO,    \* of a handler: getRegType() is REG_TYPE_IO
  connId,   \* the reactor's m_connId[fd]
  connMap   \* the reactor's m_connMap

tables  == <<handler, mask, watch, timer>>
engine  == <<tables, fdOf, regIO, connId, connMap>>

RW    == {"read", "write"}
Masks == {"read", "write", "persist"}
PRead_once == {"read"}
PRead == {"read", "persist"}

EngineTypeOK ==
  /\ handler \in [Fd -> Handler \cup {None}]
  /\ mask \in [Fd -> SUBSET Masks]
  /\ watch \in [Fd -> {NotWatched} \cup SUBSET RW]
  /\ timer \in [Handler -> {"none", "running", "past"}]
  /\ fdOf \in [Handler -> Fd \cup {NoFd}]
  /\ regIO \in [Handler -> BOOLEAN]
  /\ connId \in [Fd -> ConnId \cup {NoConn}]
  /\ connMap \in [ConnId -> Handler \cup {None}]

EngineInit ==
  /\ handler = [fd \in Fd |-> None]
  /\ mask = [fd \in Fd |-> {}]
  /\ watch = [fd \in Fd |-> NotWatched]
  /\ timer = [h \in Handler |-> "none"]
  /\ fdOf = [h \in Handler |-> NoFd]
  /\ regIO = [h \in Handler |-> FALSE]
  /\ connId = [fd \in Fd |-> NoConn]
  /\ connMap = [c \in ConnId |-> None]

Watched(fd)   == watch[fd] # NotWatched
Registered(h) == fdOf[h] # NoFd /\ handler[fdOf[h]] = h

-----------------------------------------------------------------------------
(* registerHandler of a handler under its own descriptor.                    *)

Refused(h, c) == \/ handler[fdOf[h]] # None
                 \/ c # NoConn /\ connMap[c] \notin {None, h}

\* The engine starts the timer if there is a limit, adds the descriptor to the
\* epoll set and records both; then the reactor records the connection id.
RegisterHandler(h, m, limit, c) ==
  LET fd == fdOf[h] IN
  /\ ~Refused(h, c) /\ ~Watched(fd)
  /\ handler' = [handler EXCEPT ![fd] = h]
  /\ mask' = [mask EXCEPT ![fd] = m]
  /\ watch' = [watch EXCEPT ![fd] = m \cap RW]
  /\ timer' = IF limit THEN [timer EXCEPT ![h] = "running"] ELSE timer
  /\ regIO' = [regIO EXCEPT ![h] = TRUE]
  /\ connId'  = IF c = NoConn THEN connId ELSE [connId EXCEPT ![fd] = c]
  /\ connMap' = IF c = NoConn THEN connMap ELSE [connMap EXCEPT ![c] = h]

\* A failed epoll_ctl takes the timer back.
RegisterFails(h, c) ==
  /\ Refused(h, c) \/ Watched(fdOf[h]) \/ AddMayFail
  /\ regIO' = [regIO EXCEPT ![h] = @ \/ ~Refused(h, c)]
  /\ UNCHANGED <<tables, connId, connMap>>

-----------------------------------------------------------------------------
(* removeHandler, on what is registered under fd.                            *)

WithoutHandler(fd) == [handler EXCEPT ![fd] = None]
WithoutMask(fd)    == [mask EXCEPT ![fd] = {}]
WithoutWatch(fd)   == [watch EXCEPT ![fd] = NotWatched]
WithoutTimer(h)    == [timer EXCEPT ![h] = "none"]

\* The timer of the handler that is registered there, if any, ends.
TimersWithout_left(fd) == timer
TimersWithout(fd) == IF handler[fd] = None THEN timer ELSE WithoutTimer(handler[fd])

EngineRemove(fd) ==
  /\ handler' = WithoutHandler(fd)
  /\ mask' = WithoutMask(fd)
  /\ watch' = WithoutWatch(fd)
  /\ timer' = TimersWithout(fd)

-----------------------------------------------------------------------------
(* suspendHandler and resumeHandler: the mask is changed when epoll_ctl has  *)
(* agreed.  delEvent keeps the descriptor in the epoll set as long as any    *)
(* bit of the mask is left, PERSIST_MASK too; addEvent asks isReg(), which   *)
(* looks at READ_MASK and WRITE_MASK only, whether it must be added.         *)

Suspendable(fd, s) == s \cap RW \cap mask[fd]
Resumable(fd, s)   == (s \cap RW) \ mask[fd]

CanSuspend(fd, s) == /\ handler[fd] # None
                     /\ Suspendable(fd, s) = {} \/ Watched(fd)

Suspend(fd, s) ==
  LET rest == mask[fd] \ Suspendable(fd, s) IN
  /\ mask' = [mask EXCEPT ![fd] = rest]
  /\ watch' = IF Suspendable(fd, s) = {} THEN watch
              ELSE [watch EXCEPT ![fd] = IF rest = {} THEN NotWatched ELSE rest \cap RW]
  /\ UNCHANGED <<handler, timer>>

\* EPOLL_CTL_ADD of a watched descriptor fails with EEXIST, EPOLL_CTL_MOD of
\* one that is not watched with ENOENT.
CanResume(fd, s) ==
  /\ handler[fd] # None
  /\ \/ Resumable(fd, s) = {}
     \/ mask[fd] \cap RW = {} /\ ~Watched(fd)
     \/ mask[fd] \cap RW # {} /\ Watched(fd)

Resume_onlyNew(fd, s) ==
  /\ mask' = [mask EXCEPT ![fd] = @ \cup Resumable(fd, s)]
  /\ watch' = IF Resumable(fd, s) = {} THEN watch
              ELSE [watch EXCEPT ![fd] = Resumable(fd, s)]
  /\ UNCHANGED <<handler, timer>>

Resume(fd, s) ==
  LET all == mask[fd] \cup Resumable(fd, s) IN
  /\ mask' = [mask EXCEPT ![fd] = all]
  /\ watch' = IF Resumable(fd, s) = {} THEN watch
              ELSE [watch EXCEPT ![fd] = all \cap RW]
  /\ UNCHANGED <<handler, timer>>

-----------------------------------------------------------------------------
(* What poll() does to the tables for one event or timer, before it calls    *)
(* back.                                                                     *)

\* An event of fd: the handler's timer ends, and so does its registration
\* unless it has PERSIST_MASK; the callback then forgets the connection id.
TakeEvent(fd) ==
  LET h == handler[fd] IN
  /\ timer' = WithoutTimer(h)
  /\ IF "persist" \in mask[fd]
     THEN UNCHANGED <<handler, mask, watch, connId>>
     ELSE /\ handler' = WithoutHandler(fd)
          /\ mask' = WithoutMask(fd)
          /\ watch' = WithoutWatch(fd)
          /\ connId' = [connId EXCEPT ![fd] = NoConn]

\* The timer of h at the top of the heap: who is called, NULL if h has a
\* descriptor and nothing is registered there.
TimedOut(h) == IF fdOf[h] = NoFd THEN h ELSE handler[fdOf[h]]

TakeTimer(h) ==
  IF fdOf[h] = NoFd
  THEN timer' = WithoutTimer(h) /\ UNCHANGED <<handler, mask, watch>>
  ELSE EngineRemove(fdOf[h])

\* The clock was set back: every timer is taken before the first callback.
TakeAllTimers ==
  LET fds == {fdOf[h] : h \in {g \in Handler : timer[g] # "none"}} IN
  /\ handler' = [fd \in Fd |-> IF fd \in fds THEN None ELSE handler[fd]]
  /\ mask' = [fd \in Fd |-> IF fd \in fds THEN {} ELSE mask[fd]]
  /\ watch' = [fd \in Fd |-> IF fd \in fds THEN NotWatched ELSE watch[fd]]
  /\ timer' = [h \in Handler |-> "none"]
=============================================================================
