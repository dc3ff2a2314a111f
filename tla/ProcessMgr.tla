----------------------------- MODULE ProcessMgr -----------------------------
(***************************************************************************)
(* CwxAppProcessMgr: a manager process that starts a worker, watches its   *)
(* heartbeats and starts another when it ends.  The loop of start() and    *)
(* the four signal handlers share m_pid, m_unState, m_ttLastChildHeat and  *)
(* m_bExit with no signal blocked, so a handler may run between any two    *)
(* statements of the loop and of the other handlers; one signal is blocked *)
(* only in its own handler.  Pending signals of one kind merge into one.   *)
(*                                                                         *)
(* A worker waits for the manager's lock file, sets itself up and runs the *)
(* framework, which sends the heartbeats, stops on SIGQUIT (as the         *)
(* applications of the examples do) and when its parent is gone.           *)
(* A process identifier is free again when its process has been waited     *)
(* for.  Time is whether the last heartbeat is too old.                    *)
(***************************************************************************)
EXTENDS Naturals, Sequences

CONSTANTS
  Pid,       \* process identifiers of workers
  NoPid,     \* 0
  MaxAsks,   \* bound: signals the operator sends
  MaxNested  \* bound: handlers that run inside each other

ASSUME ProcessAssumption ==
  NoPid \notin Pid /\ MaxAsks \in Nat /\ MaxNested \in Nat

VARIABLES
  mgr,     \* the manager: running, exited or killed
  at,      \* where the loop of start() is
  child,   \* the local pid of startProcess
  locked,  \* the manager holds the lock file
  mPid,    \* m_pProcess->m_pid
  state,   \* m_pProcess->m_unState
  late,    \* m_ttLastChildHeat is older than the limit
  bExit,   \* m_bExit
  frames,  \* the handlers that run, the innermost last
  pending, \* signals sent to the manager and not delivered
  worker,  \* of each process identifier: where that process is
  asks     \* signals sent by the operator

info  == <<mPid, state, late, bExit>>
loop  == <<at, child, locked>>
vars  == <<mgr, loop, info, frames, pending, worker, asks>>

Signals == {"QUIT", "INT", "CHLD", "HUP"}
States  == {"RUNNING", "RESTARTING", "STOPPING", "STOPPED"}
Alive   == {"waiting", "init", "leaving", "run", "stopping", "hung"}

TypeOK ==
  /\ mgr \in {"running", "exited", "killed"}
  /\ at \in {"while", "state", "fork", "pid", "running", "unlock", "heat", "kill", "end"}
  /\ child \in Pid \cup {NoPid} /\ locked \in BOOLEAN
  /\ mPid \in Pid \cup {NoPid} /\ state \in States
  /\ late \in BOOLEAN /\ bExit \in BOOLEAN
  /\ frames \in Seq([sig : Signals, from : Pid \cup {NoPid}, at : {"mark", "kill"}])
  /\ Len(frames) <= MaxNested
  /\ pending \subseteq [sig : Signals, from : Pid \cup {NoPid}]
  /\ worker \in [Pid -> Alive \cup {"none", "zombie"}]
  /\ asks \in 0 .. MaxAsks

Init ==
  /\ mgr = "running"
  /\ at = "while" /\ child = NoPid /\ locked = FALSE
  /\ mPid = NoPid /\ state = "STOPPED" /\ late = FALSE /\ bExit = FALSE
  /\ frames = <<>> /\ pending = {}
  /\ worker = [p \in Pid |-> "none"]
  /\ asks = 0

-----------------------------------------------------------------------------
(* Signals and processes.                                                    *)

Living == {p \in Pid : worker[p] \in Alive}
Hung   == {p \in Pid : worker[p] = "hung"}
Past   == {p \in Pid : worker[p] \in Alive \ {"waiting"}}

\* One of a kind is pending at a time; nobody hears a manager that is gone.
Send(sig, from) ==
  pending' = IF mgr = "running" /\ \A s \in pending : s.sig # sig
             THEN pending \cup {[sig |-> sig, from |-> from]} ELSE pending

\* SIGQUIT at a worker: before its framework runs it still has the manager's
\* handler, which does nothing there.
AfterQuit(p) == IF worker[p] = "run" THEN "stopping" ELSE worker[p]

\* kill(m_pid, SIGQUIT).  With 0 it goes to the process group: to the manager.
QuitChild ==
  IF mPid = NoPid
  THEN Send("QUIT", NoPid) /\ UNCHANGED worker
  ELSE worker' = [worker EXCEPT ![mPid] = AfterQuit(mPid)] /\ UNCHANGED pending

\* The end of a worker's process.
Dies(p) ==
  /\ worker' = [worker EXCEPT ![p] = IF mgr = "running" THEN "zombie" ELSE "none"]
  /\ Send("CHLD", p)

\* The end of the manager: its zombies go to init.
Orphaned == [p \in Pid |-> IF worker[p] = "zombie" THEN "none" ELSE worker[p]]

-----------------------------------------------------------------------------
(* start(): the loop of the manager.                                         *)

InLoop(here) == mgr = "running" /\ frames = <<>> /\ at = here
Goto(there) == at' = there /\ UNCHANGED <<child, locked, asks>>

WhileNotExit ==
  /\ InLoop("while")
  /\ Goto(IF bExit THEN "end" ELSE "state")
  /\ UNCHANGED <<mgr, info, frames, pending, worker, asks>>

\* Stopped: take the lock, so that the worker waits.
TestState ==
  /\ InLoop("state")
  /\ IF state = "STOPPED"
     THEN at' = "fork" /\ locked' = TRUE /\ UNCHANGED child
     ELSE Goto("heat")
  /\ UNCHANGED <<mgr, info, frames, pending, worker, asks>>

Fork(p) ==
  /\ InLoop("fork") /\ worker[p] = "none"
  /\ worker' = [worker EXCEPT ![p] = "waiting"]
  /\ child' = p /\ at' = "pid"
  /\ UNCHANGED <<mgr, locked, info, frames, pending, asks>>

ForkFails ==
  /\ InLoop("fork")
  /\ Goto("unlock")
  /\ UNCHANGED <<mgr, info, frames, pending, worker, asks>>

\* m_ttLastChildHeat = now + unDelaySec, m_pid = pid
StorePid ==
  /\ InLoop("pid")
  /\ late' = FALSE /\ mPid' = child
  /\ Goto("running")
  /\ UNCHANGED <<mgr, state, bExit, frames, pending, worker, asks>>

StoreState ==
  /\ InLoop("running")
  /\ state' = "RUNNING"
  /\ Goto("unlock")
  /\ UNCHANGED <<mgr, mPid, late, bExit, frames, pending, worker, asks>>

Unlock ==
  /\ InLoop("unlock")
  /\ locked' = FALSE /\ at' = "while" /\ child' = NoPid
  /\ UNCHANGED <<mgr, info, frames, pending, worker, asks>>

TestHeat ==
  /\ InLoop("heat")
  /\ Goto(IF late THEN "kill" ELSE "while")
  /\ UNCHANGED <<mgr, info, frames, pending, worker, asks>>

\* kill(m_pid, SIGKILL): with 0 the whole process group, this process too.
KillLate_withQuit ==
  /\ InLoop("kill")
  /\ IF mPid = NoPid
     THEN mgr' = "killed" /\ worker' = Orphaned /\ pending' = {} /\ UNCHANGED loop
     ELSE QuitChild /\ Goto("while") /\ UNCHANGED mgr
  /\ UNCHANGED <<info, frames, asks>>

KillLate ==
  /\ InLoop("kill")
  /\ IF mPid = NoPid
     THEN /\ mgr' = "killed" /\ pending' = {}
          /\ worker' = [p \in Pid |-> "none"]
          /\ UNCHANGED loop
     ELSE /\ IF mPid \in Living THEN Dies(mPid) ELSE UNCHANGED <<worker, pending>>
          /\ Goto("while") /\ UNCHANGED mgr
  /\ UNCHANGED <<info, frames, asks>>

\* waitpid without waiting; the pid file is removed.
Exit ==
  /\ InLoop("end")
  /\ mgr' = "exited" /\ pending' = {} /\ worker' = Orphaned
  /\ UNCHANGED <<loop, info, frames, asks>>

-----------------------------------------------------------------------------
(* The handlers.                                                             *)

\* A pending signal interrupts what runs, unless that is its own handler.  The
\* first step of each handler is its test; one that goes on has a frame.
Takes(sig, s) ==
  /\ mgr = "running" /\ s \in pending /\ s.sig = sig
  /\ \A i \in DOMAIN frames : frames[i].sig # sig
  /\ pending' = pending \ {s}

Enter(s) ==
  /\ Len(frames) < MaxNested
  /\ frames' = Append(frames, [sig |-> s.sig, from |-> s.from, at |-> "mark"])

Top == frames[Len(frames)]
In(sig, here) == mgr = "running" /\ frames # <<>> /\ Top.sig = sig /\ Top.at = here

GoOn == frames' = [frames EXCEPT ![Len(frames)].at = "kill"]
Done == frames' = SubSeq(frames, 1, Len(frames) - 1)

StopTest(s) ==
  /\ Takes("QUIT", s)
  /\ IF mPid # NoPid THEN Enter(s) ELSE UNCHANGED frames
  /\ UNCHANGED <<mgr, loop, info, worker, asks>>

StopMark ==
  /\ In("QUIT", "mark")
  /\ bExit' = TRUE /\ state' = "STOPPING"
  /\ GoOn
  /\ UNCHANGED <<mgr, loop, mPid, late, pending, worker, asks>>

\* Not back to the worker that asked for it.  The operator is a process too: when
\* m_pid was forgotten meanwhile, he is not taken for it.
StopKill ==
  /\ In("QUIT", "kill")
  /\ IF Top.from = mPid /\ mPid # NoPid THEN UNCHANGED <<pending, worker>> ELSE QuitChild
  /\ Done
  /\ UNCHANGED <<mgr, loop, info, asks>>

RestartTest(s) ==
  /\ Takes("INT", s)
  /\ IF mPid # NoPid /\ ~bExit THEN Enter(s) ELSE UNCHANGED frames
  /\ UNCHANGED <<mgr, loop, info, worker, asks>>

RestartMark_stopped ==
  /\ In("INT", "mark")
  /\ state' = "STOPPED"
  /\ GoOn
  /\ UNCHANGED <<mgr, loop, mPid, late, bExit, pending, worker, asks>>

RestartMark ==
  /\ In("INT", "mark")
  /\ state' = "RESTARTING"
  /\ GoOn
  /\ UNCHANGED <<mgr, loop, mPid, late, bExit, pending, worker, asks>>

RestartKill ==
  /\ In("INT", "kill")
  /\ QuitChild
  /\ Done
  /\ UNCHANGED <<mgr, loop, info, asks>>

\* waitpid(-1): the zombie is gone.  If it was the worker, it is stopped.
ChildExit(s) ==
  /\ Takes("CHLD", s)
  /\ \E p \in Pid : worker[p] = "zombie" /\ worker' = [worker EXCEPT ![p] = "none"]
  /\ IF s.from = mPid THEN state' = "STOPPED" /\ Enter(s) ELSE UNCHANGED <<state, frames>>
  /\ UNCHANGED <<mgr, loop, mPid, late, bExit, asks>>

ChildForget ==
  /\ In("CHLD", "mark")
  /\ mPid' = NoPid
  /\ Done
  /\ UNCHANGED <<mgr, loop, state, late, bExit, pending, worker, asks>>

ChildHeat(s) ==
  /\ Takes("HUP", s)
  /\ late' = IF s.from = mPid THEN FALSE ELSE late
  /\ UNCHANGED <<mgr, loop, mPid, state, bExit, frames, worker, asks>>

-----------------------------------------------------------------------------
(* The worker.                                                               *)

Becomes(p, s) == worker' = [worker EXCEPT ![p] = s]

\* lock() and unlock() in the child: "wait parent run first".
PassLock_unlocked(p) ==
  /\ worker[p] = "waiting"
  /\ Becomes(p, "init")
  /\ UNCHANGED <<mgr, loop, info, frames, pending, asks>>

PassLock(p) ==
  /\ worker[p] = "waiting" /\ ~(locked /\ mgr = "running")
  /\ Becomes(p, "init")
  /\ UNCHANGED <<mgr, loop, info, frames, pending, asks>>

\* init() of the application fails: the manager is killed.
InitFails(p) ==
  /\ worker[p] = "init"
  /\ mgr' = IF mgr = "running" THEN "killed" ELSE mgr
  /\ pending' = {}
  /\ worker' = [Orphaned EXCEPT ![p] = "none"]
  /\ UNCHANGED <<loop, info, frames, asks>>

\* initRunEnv() fails: the manager is asked to stop, and the worker ends.
RunFails(p) ==
  /\ worker[p] = "init"
  /\ Becomes(p, "leaving")
  /\ Send("QUIT", p)
  /\ UNCHANGED <<mgr, loop, info, frames, asks>>

Runs(p) ==
  /\ worker[p] = "init"
  /\ Becomes(p, "run")
  /\ UNCHANGED <<mgr, loop, info, frames, pending, asks>>

\* onTime: a heartbeat, or the parent is init.
Beat(p) ==
  /\ worker[p] = "run" /\ mgr = "running"
  /\ Send("HUP", p)
  /\ UNCHANGED <<mgr, loop, info, frames, worker, asks>>

OrphanStops_ifKilled(p) ==
  /\ worker[p] = "run" /\ mgr = "killed"
  /\ Becomes(p, "stopping")
  /\ UNCHANGED <<mgr, loop, info, frames, pending, asks>>

OrphanStops(p) ==
  /\ worker[p] = "run" /\ mgr # "running"
  /\ Becomes(p, "stopping")
  /\ UNCHANGED <<mgr, loop, info, frames, pending, asks>>

Hangs(p) ==
  /\ worker[p] = "run"
  /\ Becomes(p, "hung")
  /\ UNCHANGED <<mgr, loop, info, frames, pending, asks>>

Stops(p) ==
  /\ worker[p] \in {"stopping", "leaving"}
  /\ Dies(p)
  /\ UNCHANGED <<mgr, loop, info, frames, asks>>

\* It crashes, or lock() fails in it, before the manager noted its pid or later.
Crashes(p) ==
  /\ worker[p] \in Alive
  /\ Dies(p)
  /\ UNCHANGED <<mgr, loop, info, frames, asks>>

-----------------------------------------------------------------------------
(* The operator and time.  The commands stop and restart both send SIGQUIT   *)
(* (checkRunCmd); SIGINT is sent by hand.                                    *)

Ask(sig) ==
  /\ mgr = "running" /\ asks < MaxAsks
  /\ asks' = asks + 1
  /\ Send(sig, NoPid)
  /\ UNCHANGED <<mgr, loop, info, frames, worker>>

GrowsLate ==
  /\ mgr = "running" /\ ~late
  /\ late' = TRUE
  /\ UNCHANGED <<mgr, loop, mPid, state, bExit, frames, pending, worker, asks>>

-----------------------------------------------------------------------------
Loop ==
  \/ WhileNotExit \/ TestState \/ ForkFails \/ \E p \in Pid : Fork(p)
  \/ StorePid \/ StoreState \/ Unlock \/ TestHeat \/ KillLate \/ Exit

Handlers == StopMark \/ StopKill \/ RestartMark \/ RestartKill \/ ChildForget

Starts(p) == InitFails(p) \/ RunFails(p) \/ Runs(p)

Worker(p) ==
  \/ PassLock(p) \/ Starts(p)
  \/ Beat(p) \/ OrphanStops(p) \/ Hangs(p) \/ Stops(p) \/ Crashes(p)

Next ==
  \/ Loop
  \/ \E s \in pending : StopTest(s) \/ RestartTest(s) \/ ChildExit(s) \/ ChildHeat(s)
  \/ Handlers
  \/ \E p \in Pid : Worker(p)
  \/ \E sig \in {"QUIT", "INT"} : Ask(sig)
  \/ GrowsLate

Spec == Init /\ [][Next]_vars

\* The manager and the worker run; the end of a worker is signalled; signals do
\* not come so fast that the loop or a handler never gets on; time passes; fork
\* succeeds at last.  A worker beats, hangs or crashes when it does; nobody must
\* ask for anything.
Fairness ==
  /\ SF_vars(Loop)
  /\ SF_vars(\E p \in Pid : Fork(p))
  /\ WF_vars(Handlers)
  /\ SF_vars(\E s \in pending : ChildExit(s))
  /\ WF_vars(\E p \in Pid : PassLock(p) \/ Starts(p) \/ Stops(p) \/ OrphanStops(p))
  /\ WF_vars(GrowsLate)

FairSpec == Spec /\ Fairness

-----------------------------------------------------------------------------
(* Properties.                                                               *)

\* Two workers never live at once: none is started before the last one ended,
\* whatever is asked, crashes or hangs in which order.
OneWorker == \A p, q \in Living : p = q

\* A worker that has passed the lock is the one the manager knows: its signals
\* are not taken for a stranger's, and its end will be noticed.
WorkerIsKnown == mgr = "running" => \A p \in Past : mPid = p

\* The manager has lost its worker: it takes one for alive whose end it was told,
\* or it is about to kill(0, SIGKILL), which is its own process group.  See README
\* for the orders of signals and assignments that lead here; there is no way back.
Lost ==
  /\ mgr = "running"
  /\ \/ state # "STOPPED" /\ (mPid = NoPid \/ worker[mPid] = "none")
     \/ at = "kill" /\ mPid = NoPid

\* Unless it has lost it or was told to stop, a manager replaces a worker that
\* ended or hangs: it is not long without one that lives and does not hang.  That
\* the manager is gone is no excuse.
Replaced ==
  (mgr = "running" /\ Living \subseteq Hung) ~> (Living \ Hung # {} \/ bExit \/ Lost)

\* When the manager was told to stop it ends, and so do the workers, even one
\* that was being started and did not hear of it; one that hangs stays.
StopEndsAll ==
  bExit ~> (mgr # "running" /\ \A p \in Pid : worker[p] \in {"none", "hung"})
=============================================================================
