-------------------------- MODULE ProcessMgrProofs --------------------------
(***************************************************************************)
(* Proofs about ProcessMgr, for any number of process identifiers, nested  *)
(* handlers and signals, whenever a worker ends: there is never more than  *)
(* one of them, the manager knows the one that runs, and it loses it only  *)
(* in the ways of LostHere, then for good.                                 *)
(***************************************************************************)
EXTENDS ProcessMgr, SequenceTheorems, TLAPS

\* The processes the manager started and has not waited for.
Procs == {p \in Pid : worker[p] # "none"}

\* There is at most one.  There is none when the loop is about to fork, or will
\* find the state it forks in.
AtMostOne ==
  /\ \A p, q \in Procs : p = q
  /\ mgr = "running" /\ at = "fork" => Procs = {}
  /\ mgr = "running" /\ state = "STOPPED" /\ at \notin {"pid", "running"} => Procs = {}

\* The handler of SIGCHLD forgets m_pid; the process is gone by then.
Handling(sig) == \E i \in 1 .. Len(frames) : frames[i].sig = sig
Forgets == mgr = "running" /\ Handling("CHLD") => Procs = {}

\* Between fork and m_pid the child waits for the lock; afterwards it is known.
Known ==
  /\ mgr = "running" /\ at \in {"fork", "pid", "running", "unlock"} => locked
  /\ mgr = "running" /\ at = "pid" => \A p \in Living : p = child /\ worker[p] = "waiting"
  /\ mgr = "running" /\ at # "pid" => \A p \in Living : p = mPid

IInv == TypeOK /\ AtMostOne /\ Forgets /\ Known

LEMMA InitOk == Init => IInv
  <1> SUFFICES ASSUME Init PROVE IInv
    OBVIOUS
  <1>1. <<>> \in Seq([sig : Signals, from : Pid \cup {NoPid}, at : {"mark", "kill"}])
    OBVIOUS
  <1>a. Len(frames) <= MaxNested /\ asks \in 0 .. MaxAsks
    BY ProcessAssumption DEF Init
  <1>b. worker \in [Pid -> Alive \cup {"none", "zombie"}] /\ state \in States
    BY DEF Init, States
  <1>2. TypeOK
    BY <1>1, <1>a, <1>b DEF Init, TypeOK
  <1>3. Procs = {} /\ Living = {}
    BY DEF Init, Procs, Living, Alive
  <1> QED
    BY <1>2, <1>3 DEF Init, IInv, AtMostOne, Forgets, Known, Handling

-----------------------------------------------------------------------------
(* What the pieces of the actions do.                                        *)

LEMMA LivingIsProc == Living \subseteq Procs
  BY DEF Living, Procs, Alive

LEMMA SendOk ==
  ASSUME TypeOK, NEW sig \in Signals, NEW from \in Pid \cup {NoPid}, Send(sig, from)
  PROVE  pending' \subseteq [sig : Signals, from : Pid \cup {NoPid}]
  BY DEF TypeOK, Send

\* A process that is there becomes another kind of process or none; those that
\* live stay in their place, or go past the lock when it is free.
Weaker(mayPass) ==
  /\ worker' \in [Pid -> Alive \cup {"none", "zombie"}]
  /\ \A p \in Pid :
       /\ worker[p] = "none" => worker'[p] = "none"
       /\ worker'[p] \in Alive => worker[p] \in Alive
       /\ worker[p] = "waiting" /\ worker'[p] \in Alive => worker'[p] = "waiting" \/ mayPass

LEMMA WeakerOk ==
  ASSUME TypeOK, NEW mayPass \in BOOLEAN, Weaker(mayPass)
  PROVE  /\ Procs' \subseteq Procs /\ Living' \subseteq Living
         /\ \A p \in Living' : worker[p] = "waiting" => worker'[p] = "waiting" \/ mayPass
  BY DEF TypeOK, Weaker, Procs, Living

LEMMA QuitChildOk ==
  ASSUME TypeOK, QuitChild
  PROVE  /\ pending' \subseteq [sig : Signals, from : Pid \cup {NoPid}]
         /\ Weaker(FALSE)
  <1>1. CASE mPid = NoPid
    <2>1. Send("QUIT", NoPid) /\ worker' = worker
      BY <1>1 DEF QuitChild
    <2> QED
      BY <2>1, SendOk DEF Signals, Weaker, TypeOK
  <1>2. CASE mPid # NoPid
    <2>1. mPid \in Pid /\ worker' = [worker EXCEPT ![mPid] = AfterQuit(mPid)] /\ pending' = pending
      BY <1>2 DEF QuitChild, TypeOK
    <2>2. \/ AfterQuit(mPid) = worker[mPid]
          \/ worker[mPid] = "run" /\ AfterQuit(mPid) = "stopping"
      BY DEF AfterQuit
    <2> QED
      BY <2>1, <2>2 DEF Weaker, TypeOK, Alive
  <1> QED
    BY <1>1, <1>2

LEMMA DiesOk ==
  ASSUME TypeOK, NEW p \in Living, Dies(p)
  PROVE  /\ pending' \subseteq [sig : Signals, from : Pid \cup {NoPid}]
         /\ Weaker(FALSE)
  BY SendOk DEF Dies, Living, Signals, Weaker, TypeOK, Alive

\* Frames: a handler that is entered, goes on, or is done.
Frame == [sig : Signals, from : Pid \cup {NoPid}, at : {"mark", "kill"}]

\* A handler that is done is gone from the top.
LEMMA Shorter ==
  ASSUME TypeOK, frames # <<>>, Done
  PROVE  /\ Len(frames') = Len(frames) - 1
         /\ \A i \in 1 .. Len(frames) - 1 : frames'[i] = frames[i]
  <1>1. frames \in Seq(Frame) /\ Len(frames) \in Nat /\ Len(frames) > 0
    BY DEF TypeOK, Frame
  <1> DEFINE n == Len(frames) - 1
  <1>2. n \in Int /\ n >= 0 /\ 1 \in Int /\ \A i \in 1 .. n : frames[i] \in Frame
    BY <1>1
  <1> HIDE DEF n
  <1>3. /\ Len(SubSeq(frames, 1, n)) = IF 1 <= n THEN n - 1 + 1 ELSE 0
        /\ \A i \in 1 .. n - 1 + 1 : SubSeq(frames, 1, n)[i] = frames[1 + i - 1]
    BY <1>2, SubSeqProperties, SMT
  <1>4. frames' = SubSeq(frames, 1, n)
    BY DEF Done, n
  <1>5. n - 1 + 1 = n /\ \A i \in 1 .. n : 1 + i - 1 = i
    BY <1>2
  <1>6. Len(frames') = n /\ \A i \in 1 .. n : frames'[i] = frames[i]
    BY <1>2, <1>3, <1>4, <1>5
  <1> QED
    BY <1>6 DEF n

LEMMA DoneOk ==
  ASSUME TypeOK, frames # <<>>, Done
  PROVE  /\ frames' \in Seq(Frame) /\ Len(frames') <= MaxNested
         /\ \A sig : Handling(sig)' => Handling(sig)
  <1>1. frames \in Seq(Frame) /\ Len(frames) \in Nat /\ Len(frames) > 0
    BY DEF TypeOK, Frame
  <1>2. /\ Len(frames') = Len(frames) - 1
        /\ \A i \in 1 .. Len(frames) - 1 : frames'[i] = frames[i]
    BY Shorter
  <1>3. frames' \in Seq(Frame)
    BY <1>1, SubSeqProperties DEF Done
  <1> QED
    BY <1>1, <1>2, <1>3, ProcessAssumption DEF TypeOK, Handling

LEMMA GoOnOk ==
  ASSUME TypeOK, frames # <<>>, GoOn
  PROVE  /\ frames' \in Seq(Frame) /\ Len(frames') <= MaxNested
         /\ \A sig : Handling(sig)' => Handling(sig)
  <1>1. frames \in Seq(Frame) /\ Len(frames) \in 1 .. Len(frames)
    BY DEF TypeOK, Frame
  <1>2. frames' = [frames EXCEPT ![Len(frames)] = [frames[Len(frames)] EXCEPT !.at = "kill"]]
    BY DEF GoOn
  <1>3. frames[Len(frames)] \in Frame
    BY <1>1
  <1>4. [frames[Len(frames)] EXCEPT !.at = "kill"] \in Frame
    BY <1>3 DEF Frame
  <1>5. frames' \in Seq(Frame) /\ Len(frames') = Len(frames)
    BY <1>1, <1>2, <1>4
  <1>6. \A i \in 1 .. Len(frames) : frames'[i].sig = frames[i].sig
    BY <1>1, <1>2, <1>3 DEF Frame
  <1> QED
    BY <1>5, <1>6 DEF TypeOK, Handling

LEMMA EnterOk ==
  ASSUME TypeOK, NEW s \in [sig : Signals, from : Pid \cup {NoPid}], Enter(s)
  PROVE  /\ frames' \in Seq(Frame) /\ Len(frames') <= MaxNested
         /\ \A sig : Handling(sig)' => Handling(sig) \/ s.sig = sig
  <1>1. frames \in Seq(Frame)
    BY DEF TypeOK, Frame
  <1>2. [sig |-> s.sig, from |-> s.from, at |-> "mark"] \in Frame
    BY DEF Frame
  <1> QED
    BY <1>1, <1>2, ProcessAssumption DEF Enter, TypeOK, Handling

\* A step of a handler, of the worker or of the operator: the loop stays where it
\* is, processes only end, and the state does not become STOPPED.
LEMMA Step ==
  ASSUME IInv, TypeOK', NEW mayPass \in BOOLEAN, Weaker(mayPass),
         mayPass => ~(mgr = "running" /\ locked),
         UNCHANGED <<at, child, locked, mPid>>,
         state' = state \/ state' # "STOPPED",
         mgr' = "running" => mgr = "running",
         Handling("CHLD")' => Handling("CHLD")
  PROVE  IInv'
  <1>1. /\ Procs' \subseteq Procs /\ Living' \subseteq Living
        /\ \A p \in Living' : worker[p] = "waiting" => worker'[p] = "waiting" \/ mayPass
    BY WeakerOk DEF IInv
  <1>2. AtMostOne'
    BY <1>1 DEF IInv, AtMostOne
  <1>3. Forgets'
    BY <1>1 DEF IInv, Forgets
  <1>4. Known'
    BY <1>1 DEF IInv, Known
  <1> QED
    BY <1>2, <1>3, <1>4 DEF IInv

LEMMA SameWorkers == ASSUME TypeOK, worker' = worker PROVE Weaker(FALSE)
  BY DEF TypeOK, Weaker

-----------------------------------------------------------------------------
(* The loop.                                                                 *)

LEMMA MoveOk ==
  IInv /\ (WhileNotExit \/ TestState \/ ForkFails \/ StoreState \/ Unlock \/ TestHeat) => IInv'
  <1> SUFFICES ASSUME IInv,
                      WhileNotExit \/ TestState \/ ForkFails \/ StoreState \/ Unlock \/ TestHeat
               PROVE  IInv'
    OBVIOUS
  <1>1. mgr = "running" /\ UNCHANGED <<mgr, mPid, late, bExit, frames, pending, worker, asks>>
    BY DEF WhileNotExit, TestState, ForkFails, StoreState, Unlock, TestHeat, InLoop, info
  <1>2. Procs' = Procs /\ Living' = Living /\ (Handling("CHLD")' <=> Handling("CHLD"))
    BY <1>1 DEF Procs, Living, Handling
  <1>3. TypeOK'
    <2>1. /\ at' \in {"while", "state", "fork", "running", "unlock", "heat", "kill", "end"}
          /\ locked' \in BOOLEAN /\ child' \in Pid \cup {NoPid} /\ state' \in States
      BY DEF WhileNotExit, TestState, ForkFails, StoreState, Unlock, TestHeat, Goto, info,
             IInv, TypeOK, States
    <2> QED
      BY <1>1, <2>1 DEF IInv, TypeOK
  <1>4. AtMostOne'
    BY <1>1, <1>2 DEF WhileNotExit, TestState, ForkFails, StoreState, Unlock, TestHeat, InLoop,
                      Goto, info, IInv, AtMostOne
  <1>5. Forgets'
    BY <1>1, <1>2 DEF IInv, Forgets
  <1>6. Known'
    BY <1>1, <1>2 DEF WhileNotExit, TestState, ForkFails, StoreState, Unlock, TestHeat, InLoop,
                      Goto, IInv, Known
  <1> QED
    BY <1>3, <1>4, <1>5, <1>6 DEF IInv

LEMMA ForkOk == ASSUME NEW p \in Pid PROVE IInv /\ Fork(p) => IInv'
  <1> SUFFICES ASSUME IInv, Fork(p) PROVE IInv'
    OBVIOUS
  <1>1. /\ mgr = "running" /\ frames = <<>> /\ at = "fork" /\ worker[p] = "none"
        /\ worker' = [worker EXCEPT ![p] = "waiting"] /\ child' = p /\ at' = "pid"
        /\ UNCHANGED <<mgr, locked, mPid, state, late, bExit, frames, pending, asks>>
    BY DEF Fork, InLoop, info
  <1>2. Procs = {}
    BY <1>1 DEF IInv, AtMostOne
  <1>3. Procs' = {p} /\ Living' = {p} /\ worker'[p] = "waiting"
    BY <1>1, <1>2 DEF Procs, Living, IInv, TypeOK, Alive
  <1>4. TypeOK'
    BY <1>1 DEF IInv, TypeOK, Alive
  <1>5. ~Handling("CHLD")'
    BY <1>1 DEF Handling
  <1> QED
    BY <1>1, <1>3, <1>4, <1>5 DEF IInv, AtMostOne, Forgets, Known

LEMMA StorePidOk == IInv /\ StorePid => IInv'
  <1> SUFFICES ASSUME IInv, StorePid PROVE IInv'
    OBVIOUS
  <1>1. /\ mgr = "running" /\ at = "pid" /\ at' = "running" /\ late' = FALSE /\ mPid' = child
        /\ UNCHANGED <<mgr, child, locked, state, bExit, frames, pending, worker, asks>>
    BY DEF StorePid, InLoop, Goto
  <1>2. Procs' = Procs /\ Living' = Living /\ (Handling("CHLD")' <=> Handling("CHLD"))
    BY <1>1 DEF Procs, Living, Handling
  <1>3. TypeOK'
    BY <1>1 DEF IInv, TypeOK
  <1> QED
    BY <1>1, <1>2, <1>3 DEF IInv, AtMostOne, Forgets, Known

LEMMA KillLateOk == IInv /\ KillLate => IInv'
  <1> SUFFICES ASSUME IInv, KillLate PROVE IInv'
    OBVIOUS
  <1>1. mgr = "running" /\ at = "kill" /\ UNCHANGED <<child, locked, info, frames, asks>>
    BY DEF KillLate, InLoop, Goto, loop
  <1>2. CASE mPid = NoPid
    <2>1. /\ mgr' = "killed" /\ pending' = {} /\ worker' = [p \in Pid |-> "none"] /\ at' = at
      BY <1>2 DEF KillLate, loop
    <2>2. TypeOK'
      BY <1>1, <2>1 DEF IInv, TypeOK, info
    <2>3. Procs' = {}
      BY <2>1 DEF Procs
    <2> QED
      BY <2>1, <2>2, <2>3 DEF IInv, AtMostOne, Forgets, Known
  <1>3. CASE mPid # NoPid
    <2>1. at' = "while" /\ mgr' = mgr
      BY <1>3 DEF KillLate, Goto
    <2>2. /\ pending' \subseteq [sig : Signals, from : Pid \cup {NoPid}]
          /\ Weaker(FALSE)
      <3>1. CASE mPid \in Living
        BY <1>3, <3>1, DiesOk DEF KillLate, IInv
      <3>2. CASE mPid \notin Living
        BY <1>3, <3>2, SameWorkers DEF KillLate, IInv, TypeOK
      <3> QED
        BY <3>1, <3>2
    <2>3. Procs' \subseteq Procs /\ Living' \subseteq Living
      BY <2>2, WeakerOk DEF IInv
    <2>4. TypeOK'
      BY <1>1, <2>1, <2>2 DEF IInv, TypeOK, info, Weaker
    <2>5. Handling("CHLD")' <=> Handling("CHLD")
      BY <1>1 DEF Handling
    <2> QED
      BY <1>1, <2>1, <2>3, <2>4, <2>5 DEF IInv, AtMostOne, Forgets, Known, info
  <1> QED
    BY <1>2, <1>3

LEMMA OrphanedOk == ASSUME TypeOK, worker' = Orphaned PROVE Weaker(FALSE)
  BY DEF TypeOK, Orphaned, Weaker, Alive

LEMMA ExitOk == IInv /\ Exit => IInv'
  <1> SUFFICES ASSUME IInv, Exit PROVE IInv'
    OBVIOUS
  <1>1. /\ mgr' = "exited" /\ pending' = {} /\ worker' = Orphaned
        /\ UNCHANGED <<loop, info, frames, asks>>
    BY DEF Exit
  <1>2. Weaker(FALSE)
    BY <1>1, OrphanedOk DEF IInv
  <1>3. Procs' \subseteq Procs
    BY <1>2, WeakerOk DEF IInv
  <1>4. TypeOK'
    BY <1>1, <1>2 DEF IInv, TypeOK, loop, info, Weaker
  <1> QED
    BY <1>1, <1>3, <1>4 DEF IInv, AtMostOne, Forgets, Known

-----------------------------------------------------------------------------
(* The handlers.                                                             *)

\* A signal is taken: no other of its kind is being handled.
LEMMA TakesOk ==
  ASSUME TypeOK, NEW sig, NEW s \in pending, Takes(sig, s)
  PROVE  /\ mgr = "running" /\ s \in [sig : Signals, from : Pid \cup {NoPid}] /\ s.sig = sig
         /\ pending' \subseteq [sig : Signals, from : Pid \cup {NoPid}]
  BY DEF TypeOK, Takes

LEMMA TestsOk ==
  ASSUME NEW s \in pending PROVE IInv /\ (StopTest(s) \/ RestartTest(s) \/ ChildHeat(s)) => IInv'
  <1> SUFFICES ASSUME IInv, StopTest(s) \/ RestartTest(s) \/ ChildHeat(s) PROVE IInv'
    OBVIOUS
  <1>1. PICK sig \in {"QUIT", "INT", "HUP"} : Takes(sig, s)
    BY DEF StopTest, RestartTest, ChildHeat
  <1>2. UNCHANGED <<mgr, loop, mPid, state, bExit, worker, asks>> /\ late' \in BOOLEAN
    BY DEF StopTest, RestartTest, ChildHeat, info, IInv, TypeOK
  <1>3. Enter(s) \/ frames' = frames
    BY DEF StopTest, RestartTest, ChildHeat
  <1>4. /\ frames' \in Seq(Frame) /\ Len(frames') <= MaxNested
        /\ Handling("CHLD")' => Handling("CHLD")
    <2>1. CASE Enter(s)
      BY <1>1, <2>1, TakesOk, EnterOk DEF IInv
    <2>2. CASE frames' = frames
      BY <2>2 DEF IInv, TypeOK, Frame, Handling
    <2> QED
      BY <1>3, <2>1, <2>2
  <1>5. TypeOK'
    BY <1>1, <1>2, <1>4, TakesOk DEF IInv, TypeOK, loop, Frame
  <1>6. Weaker(FALSE)
    BY <1>2, SameWorkers DEF IInv
  <1> QED
    BY <1>2, <1>4, <1>5, <1>6, Step DEF loop

LEMMA MarksOk == IInv /\ (StopMark \/ RestartMark) => IInv'
  <1> SUFFICES ASSUME IInv, StopMark \/ RestartMark PROVE IInv'
    OBVIOUS
  <1>1. /\ frames # <<>> /\ GoOn /\ state' \in {"STOPPING", "RESTARTING"} /\ bExit' \in BOOLEAN
        /\ UNCHANGED <<mgr, loop, mPid, late, pending, worker, asks>>
    BY DEF StopMark, RestartMark, In, IInv, TypeOK
  <1>2. /\ frames' \in Seq(Frame) /\ Len(frames') <= MaxNested
        /\ Handling("CHLD")' => Handling("CHLD")
    BY <1>1, GoOnOk DEF IInv
  <1>3. TypeOK'
    BY <1>1, <1>2 DEF IInv, TypeOK, loop, Frame, States
  <1>4. Weaker(FALSE)
    BY <1>1, SameWorkers DEF IInv
  <1> QED
    BY <1>1, <1>2, <1>3, <1>4, Step DEF loop

LEMMA KillsOk == IInv /\ (StopKill \/ RestartKill) => IInv'
  <1> SUFFICES ASSUME IInv, StopKill \/ RestartKill PROVE IInv'
    OBVIOUS
  <1>1. frames # <<>> /\ Done /\ UNCHANGED <<mgr, loop, info, asks>>
    BY DEF StopKill, RestartKill, In
  <1>2. /\ frames' \in Seq(Frame) /\ Len(frames') <= MaxNested
        /\ Handling("CHLD")' => Handling("CHLD")
    BY <1>1, DoneOk DEF IInv
  <1>3. /\ pending' \subseteq [sig : Signals, from : Pid \cup {NoPid}]
        /\ Weaker(FALSE)
    <2>1. QuitChild \/ (pending' = pending /\ worker' = worker)
      BY DEF StopKill, RestartKill
    <2>2. CASE QuitChild
      BY <2>2, QuitChildOk DEF IInv
    <2>3. CASE pending' = pending /\ worker' = worker
      BY <2>3, SameWorkers DEF IInv, TypeOK
    <2> QED
      BY <2>1, <2>2, <2>3
  <1>4. TypeOK'
    BY <1>1, <1>2, <1>3 DEF IInv, TypeOK, loop, info, Frame, Weaker
  <1> QED
    BY <1>1, <1>2, <1>3, <1>4, Step DEF loop, info

\* The only process is waited for: none is left, whoever sent the signal.
LEMMA ChildExitOk == ASSUME NEW s \in pending PROVE IInv /\ ChildExit(s) => IInv'
  <1> SUFFICES ASSUME IInv, ChildExit(s) PROVE IInv'
    OBVIOUS
  <1>1. Takes("CHLD", s) /\ UNCHANGED <<mgr, loop, mPid, late, bExit, asks>>
    BY DEF ChildExit
  <1>2. PICK p \in Pid : worker[p] = "zombie" /\ worker' = [worker EXCEPT ![p] = "none"]
    BY DEF ChildExit
  <1>3. Procs' = {}
    <2>1. p \in Procs
      BY <1>2 DEF Procs
    <2>2. Procs = {p}
      BY <2>1 DEF IInv, AtMostOne
    <2> QED
      BY <1>2, <2>2 DEF Procs, IInv, TypeOK
  <1>4. Living' = {}
    BY <1>3 DEF Procs, Living, Alive
  <1>5. frames' \in Seq(Frame) /\ Len(frames') <= MaxNested
    <2>1. CASE Enter(s)
      BY <1>1, <2>1, TakesOk, EnterOk DEF IInv
    <2>2. CASE frames' = frames
      BY <2>2 DEF IInv, TypeOK, Frame
    <2> QED
      BY <2>1, <2>2 DEF ChildExit
  <1>6. state' \in States
    BY DEF ChildExit, IInv, TypeOK, States
  <1>7. TypeOK'
    BY <1>1, <1>2, <1>5, <1>6, TakesOk DEF IInv, TypeOK, loop, Frame
  <1>8. AtMostOne' /\ Forgets'
    BY <1>3 DEF AtMostOne, Forgets
  <1>9. Known'
    BY <1>1, <1>4 DEF IInv, Known, loop
  <1> QED
    BY <1>7, <1>8, <1>9 DEF IInv

LEMMA ChildForgetOk == IInv /\ ChildForget => IInv'
  <1> SUFFICES ASSUME IInv, ChildForget PROVE IInv'
    OBVIOUS
  <1>1. /\ mgr = "running" /\ frames # <<>> /\ Top.sig = "CHLD" /\ mPid' = NoPid /\ Done
        /\ UNCHANGED <<mgr, loop, state, late, bExit, pending, worker, asks>>
    BY DEF ChildForget, In
  <1>2. Handling("CHLD")
    <2>1. Len(frames) \in 1 .. Len(frames)
      BY <1>1 DEF IInv, TypeOK
    <2> QED
      BY <1>1, <2>1 DEF Handling, Top
  <1>3. Procs = {} /\ Procs' = Procs /\ Living' = {}
    <2>1. Procs = {} /\ Procs' = Procs
      BY <1>1, <1>2 DEF IInv, Forgets, Procs
    <2> QED
      BY <2>1 DEF Procs, Living, Alive
  <1>4. frames' \in Seq(Frame) /\ Len(frames') <= MaxNested
    BY <1>1, DoneOk DEF IInv
  <1>5. TypeOK'
    BY <1>1, <1>4 DEF IInv, TypeOK, loop, Frame
  <1>6. AtMostOne' /\ Forgets'
    BY <1>3 DEF AtMostOne, Forgets
  <1>7. Known'
    BY <1>1, <1>3 DEF IInv, Known, loop
  <1> QED
    BY <1>5, <1>6, <1>7 DEF IInv

-----------------------------------------------------------------------------
(* The worker, the operator, time.                                           *)

\* A step that changes one process, signals, or ends the manager.
LEMMA WorkerStep ==
  ASSUME IInv, NEW mayPass \in BOOLEAN, Weaker(mayPass),
         mayPass => ~(mgr = "running" /\ locked),
         pending' \subseteq [sig : Signals, from : Pid \cup {NoPid}],
         mgr' \in {mgr, "killed"}, asks' \in 0 .. MaxAsks, late' \in BOOLEAN,
         UNCHANGED <<loop, mPid, state, bExit, frames>>
  PROVE  IInv'
  <1>1. TypeOK'
    BY DEF IInv, TypeOK, loop, Weaker
  <1>2. Handling("CHLD")' => Handling("CHLD")
    BY DEF Handling
  <1>3. mgr' = "running" => mgr = "running"
    OBVIOUS
  <1> QED
    BY <1>1, <1>2, <1>3, Step DEF loop

LEMMA BecomesOk ==
  ASSUME TypeOK, NEW p \in Pid, NEW s \in Alive, NEW mayPass \in BOOLEAN,
         worker[p] \in Alive, worker[p] = "waiting" => s = "waiting" \/ mayPass,
         Becomes(p, s)
  PROVE  Weaker(mayPass)
  BY DEF TypeOK, Becomes, Weaker, Alive

LEMMA WorkerOk == ASSUME NEW p \in Pid PROVE IInv /\ Worker(p) => IInv'
  <1> SUFFICES ASSUME IInv, Worker(p) PROVE IInv'
    OBVIOUS
  <1>1. CASE PassLock(p)
    <2> DEFINE mayPass == ~(locked /\ mgr = "running")
    <2>1. mayPass = TRUE /\ worker[p] = "waiting" /\ Becomes(p, "init")
      BY <1>1 DEF PassLock
    <2>2. Weaker(TRUE)
      BY <2>1, BecomesOk DEF IInv, Alive
    <2>3. UNCHANGED <<mgr, loop, info, frames, pending, asks>>
      BY <1>1 DEF PassLock
    <2> QED
      BY <2>1, <2>2, <2>3, WorkerStep DEF info, IInv, TypeOK
  <1>2. CASE InitFails(p)
    <2>1. /\ worker[p] = "init" /\ worker' = [Orphaned EXCEPT ![p] = "none"]
          /\ mgr' \in {mgr, "killed"} /\ pending' = {} /\ UNCHANGED <<loop, info, frames, asks>>
      BY <1>2 DEF InitFails
    <2>2. Weaker(FALSE)
      BY <2>1 DEF IInv, TypeOK, Orphaned, Weaker, Alive
    <2> QED
      BY <2>1, <2>2, WorkerStep DEF info, IInv, TypeOK
  <1>3. CASE RunFails(p)
    <2>1. Weaker(FALSE)
      BY <1>3, BecomesOk DEF RunFails, IInv, Alive
    <2>2. pending' \subseteq [sig : Signals, from : Pid \cup {NoPid}]
      BY <1>3, SendOk DEF RunFails, Signals, IInv
    <2> QED
      BY <1>3, <2>1, <2>2, WorkerStep DEF RunFails, info, IInv, TypeOK
  <1>4. CASE Runs(p) \/ OrphanStops(p) \/ Hangs(p)
    <2>1. Weaker(FALSE)
      BY <1>4, BecomesOk DEF Runs, OrphanStops, Hangs, IInv, Alive
    <2>2. UNCHANGED <<mgr, loop, info, frames, pending, asks>>
      BY <1>4 DEF Runs, OrphanStops, Hangs
    <2> QED
      BY <2>1, <2>2, WorkerStep DEF info, IInv, TypeOK
  <1>5. CASE Beat(p)
    <2>1. Weaker(FALSE)
      BY <1>5, SameWorkers DEF Beat, IInv
    <2>2. pending' \subseteq [sig : Signals, from : Pid \cup {NoPid}]
      BY <1>5, SendOk DEF Beat, Signals, IInv
    <2> QED
      BY <1>5, <2>1, <2>2, WorkerStep DEF Beat, info, IInv, TypeOK
  <1>6. CASE Stops(p) \/ Crashes(p)
    <2>1. p \in Living /\ Dies(p) /\ UNCHANGED <<mgr, loop, info, frames, asks>>
      BY <1>6 DEF Stops, Crashes, Living, Alive
    <2>2. /\ pending' \subseteq [sig : Signals, from : Pid \cup {NoPid}]
          /\ Weaker(FALSE)
      BY <2>1, DiesOk DEF IInv
    <2> QED
      BY <2>1, <2>2, WorkerStep DEF info, IInv, TypeOK
  <1> QED
    BY <1>1, <1>2, <1>3, <1>4, <1>5, <1>6 DEF Worker, Starts

LEMMA AskOk == ASSUME NEW sig \in {"QUIT", "INT"} PROVE IInv /\ (Ask(sig) \/ GrowsLate) => IInv'
  <1> SUFFICES ASSUME IInv, Ask(sig) \/ GrowsLate PROVE IInv'
    OBVIOUS
  <1>1. UNCHANGED <<mgr, loop, mPid, state, bExit, frames, worker>> /\ late' \in BOOLEAN
    BY DEF Ask, GrowsLate, info, IInv, TypeOK
  <1>a. asks' = asks \/ (asks < MaxAsks /\ asks' = asks + 1)
    BY DEF Ask, GrowsLate
  <1>b. asks' \in 0 .. MaxAsks
    BY <1>a, ProcessAssumption DEF IInv, TypeOK
  <1>2. pending' \subseteq [sig : Signals, from : Pid \cup {NoPid}]
    BY SendOk DEF Ask, GrowsLate, Signals, IInv, TypeOK
  <1>3. Weaker(FALSE)
    BY <1>1, SameWorkers DEF IInv
  <1> QED
    BY <1>1, <1>b, <1>2, <1>3, WorkerStep

LEMMA StutterOk == IInv /\ UNCHANGED vars => IInv'
  <1> SUFFICES ASSUME IInv, UNCHANGED vars PROVE IInv'
    OBVIOUS
  <1>1. TypeOK'
    BY DEF IInv, TypeOK, vars, loop, info
  <1>2. Procs' = Procs /\ Living' = Living /\ (Handling("CHLD")' <=> Handling("CHLD"))
    BY DEF Procs, Living, Handling, vars
  <1> QED
    BY <1>1, <1>2 DEF IInv, AtMostOne, Forgets, Known, vars, loop, info

-----------------------------------------------------------------------------
LEMMA Kept == IInv /\ [Next]_vars => IInv'
  <1>1. IInv /\ Loop => IInv'
    BY MoveOk, ForkOk, StorePidOk, KillLateOk, ExitOk DEF Loop
  <1>2. IInv /\ Handlers => IInv'
    BY MarksOk, KillsOk, ChildForgetOk DEF Handlers
  <1> QED
    BY <1>1, <1>2, TestsOk, ChildExitOk, WorkerOk, AskOk, StutterOk DEF Next

\* Every state of manager and worker satisfies IInv.
THEOREM Inductive == Spec => []IInv
  BY InitOk, Kept, PTL DEF Spec

\* The manager (CwxAppProcessMgr::start, startProcess) starts no worker beside a
\* living one: two processes that live are the same.
THEOREM NeverTwo == Spec => []OneWorker
  <1>1. IInv => OneWorker
    BY LivingIsProc DEF IInv, AtMostOne, OneWorker
  <1> QED
    BY Inductive, <1>1, PTL

\* A worker that has passed the lock is the one in m_pid, as long as the manager
\* lives: no end of a running worker is taken for a stranger's.
THEOREM RunningIsKnown == Spec => []WorkerIsKnown
  <1>1. IInv => WorkerIsKnown
    <2> SUFFICES ASSUME IInv, mgr = "running", NEW p \in Past PROVE mPid = p
      BY DEF WorkerIsKnown
    <2>1. p \in Living /\ worker[p] # "waiting"
      BY DEF Past, Living
    <2> QED
      BY <2>1 DEF IInv, Known
  <1> QED
    BY Inductive, <1>1, PTL

-----------------------------------------------------------------------------
(* How the manager comes to lose its worker, and that it does not find it    *)
(* again.                                                                    *)

\* A pending SIGCHLD is the only one, and its sender has not been waited for.
Told ==
  mgr = "running" =>
    \A s \in pending :
      /\ \A t \in pending : s.sig = t.sig => s = t
      /\ s.sig = "CHLD" => s.from \in Pid /\ worker[s.from] = "zombie"

\* Nobody disturbs the loop from the fork to m_pid: m_pid is 0, so no handler has
\* anything to do.
Starting ==
  mgr = "running" /\ at \in {"fork", "pid"} =>
    /\ state = "STOPPED" /\ mPid = NoPid /\ frames = <<>>
    /\ at = "pid" => Procs \subseteq {child}

\* When it is stopped there is no pid, unless its end is just being handled.
Stopped ==
  mgr = "running" /\ state = "STOPPED" /\ at # "running" /\ ~Handling("CHLD") => mPid = NoPid

KInv == Told /\ Starting /\ Stopped

\* The assignments of m_unState that overwrite the end of the worker, and the tests
\* and kill of the loop with that end handled between them.
LostHere ==
  \/ StoreState \/ StopMark \/ RestartMark
  \/ TestHeat /\ mPid = NoPid
  \/ at = "kill" /\ ChildForget

\* What a step does to pending.
Sends(sig, from) == Send(sig, from) /\ (sig = "CHLD" => from \in Pid /\ worker'[from] = "zombie")

LEMMA ToldStep ==
  ASSUME Told, mgr = "running",
         \A p \in Pid : worker[p] = "zombie" => worker'[p] = "zombie",
         pending' \subseteq pending \/ \E sig, from : Sends(sig, from)
  PROVE  Told'
  <1>1. CASE pending' \subseteq pending
    BY <1>1 DEF Told
  <1>2. ASSUME NEW sig, NEW from, Sends(sig, from) PROVE Told'
    <2>1. CASE pending' = pending
      BY <2>1 DEF Told
    <2>2. CASE pending' = pending \cup {[sig |-> sig, from |-> from]} /\ \A s \in pending : s.sig # sig
      BY <2>2, <1>2 DEF Told, Sends
    <2> QED
      BY <2>1, <2>2, <1>2 DEF Sends, Send
  <1> QED
    BY <1>1, <1>2

\* Steps that leave m_pid and the state alone, and fork nothing.
Still ==
  /\ UNCHANGED <<at, child, mPid, state>>
  /\ \A p \in Pid : worker[p] = "zombie" => worker'[p] = "zombie"
  /\ \A p \in Pid : worker[p] = "none" => worker'[p] = "none"
  /\ \A p \in Pid : worker'[p] = "none" => worker[p] = "none"

LEMMA StillOk ==
  ASSUME IInv, KInv, mgr = "running", Still,
         Handling("CHLD") => Handling("CHLD")',
         at \in {"fork", "pid"} => frames' = <<>>,
         pending' \subseteq pending \/ \E sig, from : Sends(sig, from)
  PROVE  KInv' /\ (mgr' = "running" => (Lost' <=> Lost))
  <1>1. Told'
    BY ToldStep DEF KInv, Still
  <1>2. Procs' = Procs
    BY DEF Procs, Still
  <1>3. Starting' /\ Stopped'
    BY <1>2 DEF KInv, Starting, Stopped, Still
  <1>4. mPid = NoPid \/ mPid \in Pid
    BY DEF IInv, TypeOK
  <1>5. mgr' = "running" => (Lost' <=> Lost)
    BY <1>4 DEF Lost, Still
  <1> QED
    BY <1>1, <1>3, <1>5 DEF KInv

\* What is to be shown of every step.
Ruled ==
  /\ KInv'
  /\ Lost' => Lost \/ LostHere
  /\ Lost => Lost' \/ mgr' # "running"

LEMMA GoneRuled == ASSUME mgr' # "running" PROVE Ruled
  BY DEF Ruled, KInv, Told, Starting, Stopped, Lost

LEMMA StillRuled ==
  ASSUME IInv, KInv, mgr = "running", Still,
         Handling("CHLD") => Handling("CHLD")',
         at \in {"fork", "pid"} => frames' = <<>>,
         pending' \subseteq pending \/ \E sig, from : Sends(sig, from)
  PROVE  Ruled
  <1>1. KInv' /\ (mgr' = "running" => (Lost' <=> Lost))
    BY StillOk
  <1>2. Lost' => mgr' = "running"
    BY DEF Lost
  <1> QED
    BY <1>1, <1>2 DEF Ruled

LEMMA MoveRuled ==
  ASSUME IInv, KInv, WhileNotExit \/ TestState \/ ForkFails \/ StoreState \/ Unlock \/ TestHeat
  PROVE  Ruled
  <1>1. /\ mgr = "running" /\ frames = <<>> /\ UNCHANGED <<mgr, mPid, frames, pending, worker>>
        /\ at \in {"while", "state", "fork", "running", "unlock", "heat"} /\ at' # "pid"
    BY DEF WhileNotExit, TestState, ForkFails, StoreState, Unlock, TestHeat, InLoop, info, Goto
  <1>2. ~Handling("CHLD") /\ ~Handling("CHLD")'
    BY <1>1 DEF Handling
  <1>3. at' = "fork" => TestState /\ at = "state" /\ state = "STOPPED" /\ state' = state
    BY DEF WhileNotExit, TestState, ForkFails, StoreState, Unlock, TestHeat, InLoop, info, Goto
  <1>4. \/ StoreState /\ at = "running" /\ state' = "RUNNING"
        \/ state' = state /\ at \in {"while", "state", "fork", "unlock", "heat"}
    BY DEF WhileNotExit, TestState, ForkFails, StoreState, Unlock, TestHeat, InLoop, info, Goto
  <1>5. at' = "kill" => TestHeat
    BY DEF WhileNotExit, TestState, ForkFails, StoreState, Unlock, TestHeat, InLoop, info, Goto
  <1>6. Told'
    BY <1>1 DEF KInv, Told
  <1>7. Starting' /\ Stopped'
    BY <1>1, <1>2, <1>3, <1>4 DEF KInv, Starting, Stopped
  <1>8. Lost' => Lost \/ LostHere
    BY <1>1, <1>4, <1>5 DEF Lost, LostHere
  <1>9. Lost => Lost'
    BY <1>1, <1>4 DEF Lost
  <1> QED
    BY <1>6, <1>7, <1>8, <1>9 DEF Ruled, KInv

LEMMA ForkRuled == ASSUME IInv, KInv, NEW p \in Pid, Fork(p) PROVE Ruled
  <1>1. /\ mgr = "running" /\ at = "fork" /\ at' = "pid" /\ worker[p] = "none" /\ child' = p
        /\ worker' = [worker EXCEPT ![p] = "waiting"]
        /\ UNCHANGED <<mgr, mPid, state, frames, pending>>
    BY DEF Fork, InLoop, info
  <1>2. Procs = {} /\ state = "STOPPED" /\ mPid = NoPid /\ frames = <<>>
    BY <1>1 DEF IInv, AtMostOne, KInv, Starting
  <1>3. Procs' \subseteq {p}
    BY <1>1, <1>2 DEF Procs, IInv, TypeOK
  <1>4. Told'
    BY <1>1, ToldStep DEF IInv, TypeOK, KInv
  <1>5. Starting' /\ Stopped' /\ ~Lost /\ ~Lost'
    BY <1>1, <1>2, <1>3 DEF Starting, Stopped, Lost
  <1> QED
    BY <1>4, <1>5 DEF Ruled, KInv

LEMMA StorePidRuled == ASSUME IInv, KInv, StorePid PROVE Ruled
  <1>1. /\ mgr = "running" /\ at = "pid" /\ at' = "running"
        /\ UNCHANGED <<mgr, state, pending, worker>>
    BY DEF StorePid, InLoop, Goto
  <1>2. state = "STOPPED"
    BY <1>1 DEF KInv, Starting
  <1> QED
    BY <1>1, <1>2 DEF KInv, Told, Starting, Stopped, Lost, Ruled

\* The end of a worker is signalled, and it is a zombie until then.
LEMMA DiesTold ==
  ASSUME IInv, mgr = "running", NEW p \in Living, Dies(p)
  PROVE  /\ \A q \in Pid : worker[q] = "zombie" => worker'[q] = "zombie"
         /\ \A q \in Pid : worker'[q] = "none" <=> worker[q] = "none"
         /\ Sends("CHLD", p)
  BY DEF IInv, TypeOK, Living, Alive, Dies, Sends

LEMMA KillLateRuled == ASSUME IInv, KInv, KillLate PROVE Ruled
  <1>1. mgr = "running" /\ at = "kill" /\ frames = <<>> /\ UNCHANGED <<info, frames>>
    BY DEF KillLate, InLoop
  <1>2. CASE mPid = NoPid
    BY <1>2, GoneRuled DEF KillLate
  <1>3. CASE mPid # NoPid
    <2>1. at' = "while" /\ mgr' = mgr
      BY <1>3 DEF KillLate, Goto
    <2>2. /\ \A q \in Pid : worker[q] = "zombie" => worker'[q] = "zombie"
          /\ \A q \in Pid : worker'[q] = "none" <=> worker[q] = "none"
          /\ pending' \subseteq pending \/ \E sig, from : Sends(sig, from)
      <3>1. CASE mPid \in Living
        <4>1. Dies(mPid)
          BY <1>3, <3>1 DEF KillLate
        <4> QED
          BY <4>1, <3>1, <1>1, DiesTold
      <3>2. CASE mPid \notin Living
        BY <1>3, <3>2 DEF KillLate
      <3> QED
        BY <3>1, <3>2
    <2>3. Told'
      BY <2>2, <1>1, ToldStep DEF KInv
    <2>4. mPid \in Pid /\ (Handling("CHLD")' <=> Handling("CHLD"))
      BY <1>1, <1>3 DEF IInv, TypeOK, Handling
    <2>5. Starting' /\ Stopped' /\ (Lost' <=> Lost)
      BY <1>1, <1>3, <2>1, <2>2, <2>4 DEF KInv, Starting, Stopped, Lost, info
    <2> QED
      BY <2>3, <2>5 DEF Ruled, KInv
  <1> QED
    BY <1>2, <1>3

\* A handler that runs is on top of frames; between fork and m_pid there is none.
LEMMA TopFrame ==
  ASSUME IInv, KInv, NEW sig, NEW here, In(sig, here)
  PROVE  mgr = "running" /\ frames # <<>> /\ Top.sig = sig /\ at \notin {"fork", "pid"}
  BY DEF In, KInv, Starting

LEMMA TestsRuled ==
  ASSUME IInv, KInv, NEW s \in pending, StopTest(s) \/ RestartTest(s) \/ ChildHeat(s)
  PROVE  Ruled
  <1>1. PICK sig \in Signals : Takes(sig, s)
    BY DEF StopTest, RestartTest, ChildHeat, Signals
  <1>2. mgr = "running" /\ pending' \subseteq pending
    BY <1>1 DEF Takes
  <1>3. UNCHANGED <<loop, mPid, state, worker>>
    BY DEF StopTest, RestartTest, ChildHeat, info
  <1>4. frames' = frames \/ (Enter(s) /\ mPid # NoPid)
    BY DEF StopTest, RestartTest, ChildHeat
  <1>5. at \in {"fork", "pid"} => frames' = <<>>
    BY <1>2, <1>4 DEF KInv, Starting
  <1>6. Handling("CHLD") => Handling("CHLD")'
    <2>1. CASE Enter(s)
      BY <2>1 DEF Enter, Handling, IInv, TypeOK
    <2> QED
      BY <2>1, <1>4 DEF Handling
  <1>7. Still
    BY <1>3 DEF Still, loop
  <1> QED
    BY <1>2, <1>5, <1>6, <1>7, StillRuled

LEMMA MarksRuled == ASSUME IInv, KInv, StopMark \/ RestartMark PROVE Ruled
  <1>1. /\ UNCHANGED <<mgr, loop, mPid, pending, worker>> /\ state' \in {"STOPPING", "RESTARTING"}
        /\ mgr = "running" /\ at \notin {"fork", "pid"}
    BY TopFrame DEF StopMark, RestartMark
  <1>2. Told' /\ Starting' /\ Stopped'
    BY <1>1 DEF KInv, Told, Starting, Stopped, loop
  <1>3. Lost => Lost'
    BY <1>1 DEF Lost, loop
  <1> QED
    BY <1>2, <1>3 DEF Ruled, KInv, LostHere

LEMMA KillsRuled == ASSUME IInv, KInv, StopKill \/ RestartKill PROVE Ruled
  <1>1. /\ mgr = "running" /\ frames # <<>> /\ Top.sig \in {"QUIT", "INT"} /\ Done
        /\ at \notin {"fork", "pid"} /\ UNCHANGED <<mgr, loop, info>>
    BY TopFrame DEF StopKill, RestartKill
  <1>2. QuitChild \/ UNCHANGED <<pending, worker>>
    BY DEF StopKill, RestartKill
  <1>3. /\ \A p \in Pid : worker[p] = "zombie" => worker'[p] = "zombie"
        /\ \A p \in Pid : worker'[p] = "none" <=> worker[p] = "none"
        /\ pending' \subseteq pending \/ \E sig, from : Sends(sig, from)
    <2>1. CASE QuitChild /\ mPid = NoPid
      BY <2>1 DEF QuitChild, Sends
    <2>2. CASE QuitChild /\ mPid # NoPid
      BY <2>2 DEF QuitChild, AfterQuit, IInv, TypeOK
    <2> QED
      BY <1>2, <2>1, <2>2
  <1>4. Handling("CHLD") => Handling("CHLD")'
    <2>1. frames \in Seq(Frame) /\ Len(frames) \in Nat /\ Len(frames) > 0
      BY <1>1 DEF IInv, TypeOK, Frame
    <2> SUFFICES ASSUME NEW i \in 1 .. Len(frames), frames[i].sig = "CHLD"
                 PROVE  i \in 1 .. Len(frames') /\ frames'[i] = frames[i]
      BY DEF Handling
    <2>2. i \in 1 .. Len(frames) - 1
      BY <1>1, <2>1 DEF Top
    <2>3. /\ Len(frames') = Len(frames) - 1
          /\ \A j \in 1 .. Len(frames) - 1 : frames'[j] = frames[j]
      BY <1>1, Shorter DEF IInv
    <2> QED
      BY <2>2, <2>3
  <1>5. Still
    BY <1>1, <1>3 DEF Still, loop, info
  <1> QED
    BY <1>1, <1>3, <1>4, <1>5, StillRuled

\* Whoever is waited for is the one whose signal is handled.
LEMMA ChildExitRuled == ASSUME IInv, KInv, NEW s \in pending, ChildExit(s) PROVE Ruled
  <1>1. /\ mgr = "running" /\ pending' = pending \ {s} /\ s.sig = "CHLD"
        /\ UNCHANGED <<mgr, loop, mPid>>
    BY DEF ChildExit, Takes
  <1>2. PICK p \in Pid : worker[p] = "zombie" /\ worker' = [worker EXCEPT ![p] = "none"]
    BY DEF ChildExit
  <1>3. s.from \in Pid /\ worker[s.from] = "zombie" /\ s.from # NoPid
    BY <1>1, ProcessAssumption DEF KInv, Told
  <1>4. p = s.from
    BY <1>2, <1>3 DEF IInv, AtMostOne, Procs
  <1>5. Told'
    BY <1>1 DEF KInv, Told
  <1>6. \A q \in Pid : worker'[q] = IF q = p THEN "none" ELSE worker[q]
    BY <1>2 DEF IInv, TypeOK
  <1>7. Procs' \subseteq Procs
    BY <1>6 DEF Procs
  <1>8. CASE s.from = mPid
    <2>1. Enter(s) /\ state' = "STOPPED"
      BY <1>8 DEF ChildExit
    <2>2. Handling("CHLD")'
      <3>1. frames' = Append(frames, [sig |-> s.sig, from |-> s.from, at |-> "mark"])
        BY <2>1 DEF Enter
      <3> QED
        BY <3>1, <1>1 DEF Handling, IInv, TypeOK
    <2>3. Starting' /\ Stopped'
      BY <1>1, <1>3, <1>8, <2>2 DEF KInv, Starting, Stopped, loop
    <2>4. Lost' <=> Lost
      BY <1>1, <1>3, <1>8, <2>1 DEF Lost, loop
    <2> QED
      BY <1>5, <2>3, <2>4 DEF Ruled, KInv
  <1>9. CASE s.from # mPid
    <2>1. UNCHANGED <<state, frames>>
      BY <1>9 DEF ChildExit
    <2>2. Handling("CHLD")' <=> Handling("CHLD")
      BY <2>1 DEF Handling
    <2>3. Starting' /\ Stopped'
      BY <1>1, <1>7, <2>1, <2>2 DEF KInv, Starting, Stopped, loop
    <2>4. mPid = NoPid \/ (mPid \in Pid /\ worker'[mPid] = worker[mPid])
      BY <1>4, <1>6, <1>9 DEF IInv, TypeOK
    <2>5. Lost' <=> Lost
      BY <1>1, <2>1, <2>4 DEF Lost, loop
    <2> QED
      BY <1>5, <2>3, <2>5 DEF Ruled, KInv
  <1> QED
    BY <1>8, <1>9

LEMMA ChildForgetRuled == ASSUME IInv, KInv, ChildForget PROVE Ruled
  <1>1. /\ mgr = "running" /\ frames # <<>> /\ Top.sig = "CHLD" /\ at \notin {"fork", "pid"}
        /\ mPid' = NoPid /\ UNCHANGED <<mgr, loop, state, pending, worker>>
    BY TopFrame DEF ChildForget
  <1>2. Procs = {}
    <2>1. Len(frames) \in 1 .. Len(frames)
      BY <1>1 DEF IInv, TypeOK
    <2>2. Handling("CHLD")
      BY <1>1, <2>1 DEF Handling, Top
    <2> QED
      BY <1>1, <2>2 DEF IInv, Forgets
  <1>3. mPid = NoPid \/ worker[mPid] = "none"
    BY <1>2 DEF Procs, IInv, TypeOK
  <1>4. Told' /\ Starting' /\ Stopped'
    BY <1>1 DEF KInv, Told, Starting, Stopped, loop
  <1>5. (Lost' => Lost \/ LostHere) /\ (Lost => Lost')
    BY <1>1, <1>3 DEF Lost, LostHere, loop
  <1> QED
    BY <1>4, <1>5 DEF Ruled, KInv

\* The worker sends and changes; it is waited for by nobody but the handler.
LEMMA WorkerRuled == ASSUME IInv, KInv, NEW p \in Pid, Worker(p) PROVE Ruled
  <1>1. CASE mgr' # "running"
    BY <1>1, GoneRuled
  <1>2. CASE mgr' = "running"
    <2>1. ~InitFails(p)
      BY <1>2 DEF InitFails
    <2>2. UNCHANGED <<mgr, loop, info, frames>> /\ mgr = "running"
      BY <1>2, <2>1 DEF Worker, Starts, PassLock, RunFails, Runs, Beat, OrphanStops, Hangs, Stops,
                        Crashes
    <2>3. /\ \A q \in Pid : worker[q] = "zombie" => worker'[q] = "zombie"
          /\ \A q \in Pid : worker'[q] = "none" <=> worker[q] = "none"
          /\ pending' \subseteq pending \/ \E sig, from : Sends(sig, from)
      <3>1. CASE Stops(p) \/ Crashes(p)
        <4>1. p \in Living /\ Dies(p)
          BY <3>1 DEF Stops, Crashes, Living, Alive
        <4> QED
          BY <4>1, <2>2, DiesTold
      <3>2. CASE PassLock(p) \/ Runs(p) \/ OrphanStops(p) \/ Hangs(p)
        BY <3>2 DEF PassLock, Runs, OrphanStops, Hangs, Becomes, IInv, TypeOK
      <3>3. CASE RunFails(p)
        BY <3>3 DEF RunFails, Becomes, IInv, TypeOK, Sends
      <3>4. CASE Beat(p)
        BY <3>4 DEF Beat, Sends
      <3> QED
        BY <3>1, <3>2, <3>3, <3>4, <2>1 DEF Worker, Starts
    <2>4. /\ Still /\ (Handling("CHLD") => Handling("CHLD")')
          /\ at \in {"fork", "pid"} => frames' = <<>>
      BY <2>2, <2>3 DEF Still, Handling, KInv, Starting, loop, info
    <2> QED
      BY <2>2, <2>3, <2>4, StillRuled
  <1> QED
    BY <1>1, <1>2

LEMMA AskRuled ==
  ASSUME IInv, KInv, NEW sig \in {"QUIT", "INT"}, Ask(sig) \/ GrowsLate
  PROVE  Ruled
  <1>1. mgr = "running" /\ UNCHANGED <<loop, mPid, state, frames, worker>>
    BY DEF Ask, GrowsLate, info
  <1>2. pending' \subseteq pending \/ \E g, from : Sends(g, from)
    BY DEF Ask, GrowsLate, Sends
  <1>3. /\ Still /\ (Handling("CHLD") => Handling("CHLD")')
        /\ at \in {"fork", "pid"} => frames' = <<>>
    BY <1>1 DEF Still, Handling, KInv, Starting, loop
  <1> QED
    BY <1>1, <1>2, <1>3, StillRuled

LEMMA NextRuled == ASSUME IInv, KInv, Next PROVE Ruled
  <1>1. CASE Loop
    BY <1>1, MoveRuled, ForkRuled, StorePidRuled, KillLateRuled, GoneRuled DEF Loop, Exit
  <1>2. CASE Handlers
    BY <1>2, MarksRuled, KillsRuled, ChildForgetRuled DEF Handlers
  <1>3. ASSUME NEW s \in pending, StopTest(s) \/ RestartTest(s) \/ ChildExit(s) \/ ChildHeat(s)
        PROVE  Ruled
    BY <1>3, TestsRuled, ChildExitRuled
  <1> QED
    BY <1>1, <1>2, <1>3, WorkerRuled, AskRuled DEF Next

LEMMA StutterRuled == ASSUME KInv, UNCHANGED vars PROVE KInv' /\ (Lost' <=> Lost)
  <1>1. Procs' = Procs /\ (Handling("CHLD")' <=> Handling("CHLD"))
    BY DEF Procs, Handling, vars
  <1> QED
    BY <1>1 DEF KInv, Told, Starting, Stopped, Lost, vars, loop, info

LEMMA Followed == Spec => [](IInv /\ KInv)
  <1>1. Init => KInv
    BY DEF Init, KInv, Told, Starting, Stopped
  <1>2. IInv /\ KInv /\ [Next]_vars => KInv'
    BY NextRuled, StutterRuled DEF Ruled
  <1> QED
    BY <1>1, <1>2, InitOk, Kept, PTL DEF Spec

\* The manager loses its worker in no other way than those of LostHere, whatever
\* handlers run between which statements: startProcess() and the handlers for stop
\* and restart overwrite STOPPED, or the end of the worker is handled between the
\* tests of start() and its kill.
LostOnly == [][Lost' => Lost \/ LostHere]_vars

THEOREM LostOnlyByOverwriting == Spec => LostOnly
  <1>1. IInv /\ KInv /\ [Next]_vars => [Lost' => Lost \/ LostHere]_vars
    BY NextRuled, StutterRuled DEF Ruled
  <1> QED
    BY <1>1, Followed, PTL DEF LostOnly, Spec

\* A manager that has lost its worker does not start another before it ends: no
\* statement of start() and of the handlers leads back.
LostForGood == [][Lost => Lost' \/ mgr' # "running"]_vars

THEOREM LostStaysLost == Spec => LostForGood
  <1>1. IInv /\ KInv /\ [Next]_vars => [Lost => Lost' \/ mgr' # "running"]_vars
    BY NextRuled, StutterRuled DEF Ruled
  <1> QED
    BY <1>1, Followed, PTL DEF LostForGood, Spec

\* Lost is never said of a manager (CwxAppProcessMgr::start) whose worker lives.
LostIsEmpty == Lost => Living = {}

THEOREM LostHasNoWorker == Spec => []LostIsEmpty
  <1>1. ASSUME IInv, KInv, Lost, NEW p \in Living PROVE FALSE
    <2>1. mgr = "running" /\ at # "pid"
      BY <1>1 DEF Lost, KInv, Starting
    <2>2. mPid = p /\ p \in Pid /\ worker[p] # "none" /\ mPid # NoPid
      BY <1>1, <2>1, ProcessAssumption DEF IInv, Known, Living, Alive
    <2> QED
      BY <1>1, <2>2 DEF Lost
  <1>2. IInv /\ KInv => LostIsEmpty
    BY <1>1 DEF LostIsEmpty
  <1> QED
    BY <1>2, Followed, PTL
=============================================================================
