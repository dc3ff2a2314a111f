---------------------------- MODULE ChannelProofs ----------------------------
(***************************************************************************)
(* Proofs about Channel, for any number of callers, handlers and calls:    *)
(* one redo set leads to each marked handler, a deleted one is met only in *)
(* the walk in which it was deleted, and a caller waits for at most one    *)
(* poll.                                                                   *)
(***************************************************************************)
EXTENDS Channel, FiniteSetTheorems, TLAPS

\* The callers that hold m_rwLock for reading.
Readers == {c \in Caller : pc[c] \in {"read", "wait", "release"}}

\* Read locks that are held or were leaked, one call each.
ReadInv == Cardinality(Readers) <= reads /\ reads <= calls /\ posted <= calls

\* A caller that saw a poll begin keeps the owner from beginning another.
PollInv ==
  \A c \in Caller :
    /\ polls[c] \in {0, 1}
    /\ pc[c] \in {"read", "wait"} /\ polls[c] = 1 => at # "queue" \/ bStop

IInv == TypeOK /\ RedoKept /\ ReadInv /\ PollInv

LEMMA ReadersFinite ==
  /\ IsFiniteSet(Readers) /\ Cardinality(Readers) \in Nat
  /\ Readers # {} => Cardinality(Readers) > 0
  <1>1. Readers \subseteq Caller
    BY DEF Readers
  <1>2. IsFiniteSet(Readers)
    BY <1>1, ChannelAssumption, FS_Subset
  <1> QED
    BY <1>2, FS_CardinalityType, FS_EmptySet

LEMMA InitOk == Init => IInv
  <1> SUFFICES ASSUME Init PROVE IInv
    OBVIOUS
  <1>0. 0 \in 0 .. PipeSize /\ 0 \in 0 .. MaxCalls
    BY ChannelAssumption
  <1>1. TypeOK
    BY <1>0 DEF Init, TypeOK
  <1>2. RedoKept /\ PollInv
    BY DEF Init, RedoKept, PollInv
  <1>3. Readers = {}
    BY DEF Init, Readers
  <1>4. ReadInv
    BY <1>3, FS_EmptySet DEF Init, ReadInv
  <1> QED
    BY <1>1, <1>2, <1>4 DEF IInv

-----------------------------------------------------------------------------
(* The operations on the redo set.                                           *)

LEMMA RegRedoOk ==
  ASSUME TypeOK, RedoKept, at' = at, NEW h \in alive, RegRedo(h)
  PROVE  /\ RedoKept' /\ walk' = walk /\ alive' = alive
         /\ cur' \subseteq Handler /\ bRedo' \in [Handler -> BOOLEAN]
  BY DEF TypeOK, RedoKept, RegRedo

LEMMA EraseRedoOk ==
  ASSUME TypeOK, RedoKept, at' = at, NEW h \in alive, EraseRedo(h)
  PROVE  /\ RedoKept' /\ walk' = walk /\ alive' = alive
         /\ cur' \subseteq Handler /\ bRedo' \in [Handler -> BOOLEAN]
  BY DEF TypeOK, RedoKept, EraseRedo

LEMMA CloseHandlerOk ==
  ASSUME TypeOK, RedoKept, at' = at, NEW h \in Handler, CloseHandler(h)
  PROVE  /\ RedoKept' /\ walk' = walk /\ alive' \subseteq Handler
         /\ cur' \subseteq Handler /\ bRedo' \in [Handler -> BOOLEAN]
  BY DEF TypeOK, RedoKept, CloseHandler

\* A step that leaves the callers, the locks and the owner's place alone, or moves
\* it on from anywhere but the queue, keeps what was said of them.
LEMMA Others ==
  ASSUME IInv, UNCHANGED <<reads, pc, polls, calls>>, posted' \in Nat, posted' <= posted,
         at' = at \/ at' # "queue" \/ bStop' \/ Readers = {},
         bStop => bStop'
  PROVE  ReadInv' /\ PollInv'
  <1>1. Readers' = Readers
    BY DEF Readers
  <1>2. \A c \in Caller : pc[c] \in {"read", "wait"} => c \in Readers
    BY DEF Readers
  <1>3. ReadInv'
    BY <1>1, ReadersFinite DEF IInv, ReadInv, TypeOK
  <1>4. PollInv'
    BY <1>2 DEF IInv, PollInv
  <1> QED
    BY <1>3, <1>4

\* The same for a step that touches nothing but the redo set and the turn.
LEMMA RedoStep ==
  ASSUME IInv, at' = at, Idles, RedoKept', walk' = walk, alive' \subseteq Handler,
         cur' \subseteq Handler, bRedo' \in [Handler -> BOOLEAN],
         turn' \in {turn, NoHandler}
  PROVE  IInv'
  <1>1. TypeOK'
    BY DEF IInv, TypeOK, Idles, lock, tell
  <1>2. ReadInv' /\ PollInv'
    BY Others DEF IInv, TypeOK, Idles, lock, tell
  <1> QED
    BY <1>1, <1>2 DEF IInv

-----------------------------------------------------------------------------
(* The owner.                                                                *)

LEMMA TakePostedOk == IInv /\ TakePosted => IInv'
  <1> SUFFICES ASSUME IInv, TakePosted PROVE IInv'
    OBVIOUS
  <1>1. posted' \in 0 .. MaxCalls /\ posted' <= posted
    <2>1. posted \in 0 .. MaxCalls /\ posted > 0 /\ posted' = posted - 1
      BY DEF TakePosted, IInv, TypeOK
    <2> QED
      BY <2>1, ChannelAssumption
  <1>2. /\ alive' \subseteq Handler /\ cur' = cur /\ walk' = walk
        /\ bRedo' \in [Handler -> BOOLEAN] /\ RedoKept'
    BY DEF TakePosted, Owns, redo, IInv, TypeOK, RedoKept
  <1>3. TypeOK'
    BY <1>1, <1>2 DEF TakePosted, IInv, TypeOK, lock
  <1>4. ReadInv' /\ PollInv'
    BY <1>1, Others DEF TakePosted, lock, IInv, TypeOK
  <1> QED
    BY <1>2, <1>3, <1>4 DEF IInv

LEMMA DispatchOk == IInv /\ Dispatch => IInv'
  <1> SUFFICES ASSUME IInv, Dispatch PROVE IInv'
    OBVIOUS
  <1>1. /\ at = "queue" /\ ~bStop /\ at' = "poll"
        /\ polls' = [c \in Caller |-> IF pc[c] \in {"read", "wait"} THEN polls[c] + 1 ELSE 0]
        /\ UNCHANGED <<turn, redo, lock, tell>>
    BY DEF Dispatch, Owns
  <1>2. PollInv' /\ polls' \in [Caller -> Nat]
    BY <1>1 DEF IInv, PollInv
  <1>3. TypeOK'
    BY <1>1, <1>2 DEF IInv, TypeOK, redo, lock, tell
  <1>4. RedoKept'
    BY <1>1 DEF IInv, RedoKept, redo
  <1>5. Readers' = Readers
    BY <1>1 DEF Readers, tell
  <1>6. ReadInv'
    BY <1>1, <1>5 DEF IInv, ReadInv, lock, tell
  <1> QED
    BY <1>2, <1>3, <1>4, <1>6 DEF IInv

\* The steps that only move the owner on.
LEMMA MoveOk == IInv /\ (SwapRedo \/ CallDeleted \/ WalkDone \/ CheckStop \/ Gate) => IInv'
  <1> SUFFICES ASSUME IInv, SwapRedo \/ CallDeleted \/ WalkDone \/ CheckStop \/ Gate
               PROVE  IInv'
    OBVIOUS
  <1>1. at' = at \/ at' # "queue" \/ bStop' \/ Readers = {}
    <2>1. CASE Gate
      <3>1. Cardinality(Readers) <= 0
        BY <2>1 DEF Gate, IInv, ReadInv
      <3> QED
        BY <3>1, ReadersFinite
    <2>2. CASE SwapRedo \/ CallDeleted \/ WalkDone \/ CheckStop
      BY <2>2 DEF SwapRedo, CallDeleted, WalkDone, CheckStop, Idles, lock
    <2> QED
      BY <2>1, <2>2
  <1>2. UNCHANGED <<bytes, reads, bStop, posted, pc, calls, polls, turn, alive, bRedo>>
    BY DEF SwapRedo, CallDeleted, WalkDone, CheckStop, Gate, Idles, lock, tell, redo
  <1>3. ReadInv' /\ PollInv'
    BY <1>1, <1>2, Others DEF IInv, TypeOK
  <1>4. at' \in {"queue", "redo", "check", "gate", "undefined"} /\ cur' \subseteq Handler /\ walk' \subseteq Handler
    BY DEF SwapRedo, CallDeleted, WalkDone, CheckStop, Gate, IInv, TypeOK, redo
  <1>5. TypeOK'
    BY <1>2, <1>4 DEF IInv, TypeOK
  <1>6. RedoKept'
    BY <1>2 DEF SwapRedo, CallDeleted, WalkDone, CheckStop, Gate, Owns, IInv, RedoKept, redo
  <1> QED
    BY <1>3, <1>5, <1>6 DEF IInv

LEMMA PollReturnsOk == IInv /\ PollReturns => IInv'
  <1> SUFFICES ASSUME IInv, PollReturns PROVE IInv'
    OBVIOUS
  <1>1. bytes' \in 0 .. PipeSize
    BY ChannelAssumption DEF PollReturns, IInv, TypeOK
  <1>2. /\ at = "poll" /\ at' = "events"
        /\ UNCHANGED <<turn, redo, reads, bStop, tell, polls>>
    BY DEF PollReturns, Owns
  <1>3. TypeOK'
    BY <1>1, <1>2 DEF IInv, TypeOK, redo, tell
  <1>4. RedoKept'
    BY <1>2 DEF IInv, RedoKept, redo
  <1>5. ReadInv' /\ PollInv'
    BY <1>2, Others DEF IInv, TypeOK, tell
  <1> QED
    BY <1>3, <1>4, <1>5 DEF IInv

LEMMA CallHandlerOk == ASSUME NEW h \in Handler PROVE IInv /\ CallHandler(h) => IInv'
  <1> SUFFICES ASSUME IInv, CallHandler(h) PROVE IInv'
    OBVIOUS
  <1>1. /\ at = "events" /\ turn' = h
        /\ UNCHANGED <<at, redo, lock, tell, polls>>
    BY DEF CallHandler, Owns, Idles
  <1>2. TypeOK' /\ RedoKept'
    BY <1>1 DEF IInv, TypeOK, RedoKept, redo, lock, tell
  <1>3. ReadInv' /\ PollInv'
    BY <1>1, Others DEF IInv, TypeOK, lock, tell
  <1> QED
    BY <1>2, <1>3 DEF IInv

LEMMA CallRedoOk == ASSUME NEW h \in Handler PROVE IInv /\ CallRedo(h) => IInv'
  <1> SUFFICES ASSUME IInv, CallRedo(h) PROVE IInv'
    OBVIOUS
  <1>1. /\ at = "redo" /\ h \in walk /\ turn' = h
        /\ walk' = walk \ {h} /\ bRedo' = [bRedo EXCEPT ![h] = FALSE]
        /\ UNCHANGED <<at, alive, cur, lock, tell, polls>>
    BY DEF CallRedo, Owns, Idles
  <1>2. TypeOK'
    BY <1>1 DEF IInv, TypeOK, lock, tell
  <1>3. RedoKept'
    BY <1>1 DEF IInv, TypeOK, RedoKept
  <1>4. ReadInv' /\ PollInv'
    BY <1>1, Others DEF IInv, TypeOK, lock, tell
  <1> QED
    BY <1>2, <1>3, <1>4 DEF IInv

\* Callbacks of handlers, and the worker between two dispatches.
LEMMA CallbackOk ==
  ASSUME NEW h \in Handler PROVE IInv /\ (Callback(h) \/ OwnerRegRedo(h)) => IInv'
  <1> SUFFICES ASSUME IInv, Callback(h) \/ OwnerRegRedo(h) PROVE IInv'
    OBVIOUS
  <1>1. h \in alive /\ UNCHANGED <<at, turn>> /\ Idles
    BY DEF Callback, OwnerRegRedo
  <1>2. RegRedo(h) \/ EraseRedo(h) \/ CloseHandler(h)
    BY DEF Callback, OwnerRegRedo
  <1>3. /\ RedoKept' /\ walk' = walk /\ alive' \subseteq Handler
        /\ cur' \subseteq Handler /\ bRedo' \in [Handler -> BOOLEAN]
    BY <1>1, <1>2, RegRedoOk, EraseRedoOk, CloseHandlerOk DEF IInv, TypeOK
  <1> QED
    BY <1>1, <1>3, RedoStep

LEMMA ReturnOk == IInv /\ (Return \/ ReturnError) => IInv'
  <1> SUFFICES ASSUME IInv, Return \/ ReturnError PROVE IInv'
    OBVIOUS
  <1>1. turn \in Handler
    BY DEF Return, ReturnError, IInv, TypeOK
  <1>2. at' = at /\ turn' = NoHandler /\ Idles
    BY DEF Return, ReturnError
  <1>3. /\ RedoKept' /\ walk' = walk /\ alive' \subseteq Handler
        /\ cur' \subseteq Handler /\ bRedo' \in [Handler -> BOOLEAN]
    <2>1. CASE Return
      BY <2>1 DEF Return, redo, IInv, TypeOK, RedoKept
    <2>2. CASE ReturnError
      BY <1>1, <1>2, <2>2, CloseHandlerOk DEF ReturnError, IInv
    <2> QED
      BY <2>1, <2>2
  <1> QED
    BY <1>2, <1>3, RedoStep

LEMMA OwnerStopsOk == IInv /\ OwnerStops => IInv'
  <1> SUFFICES ASSUME IInv, OwnerStops PROVE IInv'
    OBVIOUS
  <1>1. bStop' = TRUE /\ UNCHANGED <<at, turn, redo, bytes, reads, tell, polls>>
    BY DEF OwnerStops
  <1>2. TypeOK' /\ RedoKept'
    BY <1>1 DEF IInv, TypeOK, RedoKept, redo, tell
  <1>3. ReadInv' /\ PollInv'
    BY <1>1, Others DEF IInv, TypeOK, tell
  <1> QED
    BY <1>2, <1>3 DEF IInv

-----------------------------------------------------------------------------
(* The callers.                                                              *)

\* A caller that takes or drops no read lock, and does not come to wait.
LEMMA CallerStep ==
  ASSUME IInv, NEW c \in Caller, NEW next \in {"idle", "tell", "read", "wait", "release"},
         pc' = [pc EXCEPT ![c] = next],
         next \in {"read", "wait"} => pc[c] \in {"read", "wait"},
         next = "release" => pc[c] \in {"read", "wait"},
         UNCHANGED <<at, turn, polls, reads>>,
         RedoKept', walk' = walk, alive' \subseteq Handler, cur' \subseteq Handler,
         bRedo' \in [Handler -> BOOLEAN], bytes' \in 0 .. PipeSize,
         bStop' \in BOOLEAN, bStop => bStop',
         calls' \in 0 .. MaxCalls, calls <= calls',
         posted' \in 0 .. MaxCalls, posted' <= calls'
  PROVE  IInv'
  <1>1. TypeOK'
    BY DEF IInv, TypeOK
  <1>2. PollInv'
    BY DEF IInv, PollInv, TypeOK
  <1>3. Readers' \subseteq Readers
    BY DEF Readers, IInv, TypeOK
  <1>4. Cardinality(Readers') <= Cardinality(Readers) /\ Cardinality(Readers') \in Nat
    BY <1>3, ReadersFinite, FS_Subset, FS_CardinalityType
  <1>5. ReadInv'
    BY <1>4, ReadersFinite, ChannelAssumption DEF IInv, ReadInv, TypeOK
  <1> QED
    BY <1>1, <1>2, <1>5 DEF IInv

LEMMA RaiseOk == ASSUME TypeOK, Raise PROVE bytes' \in 0 .. PipeSize
  BY ChannelAssumption DEF TypeOK, Raise

LEMMA PostOk == ASSUME NEW c \in Caller PROVE IInv /\ Post(c) => IInv'
  <1> SUFFICES ASSUME IInv, Post(c) PROVE IInv'
    OBVIOUS
  <1>1. PICK next \in {"idle", "tell"} : pc' = [pc EXCEPT ![c] = next]
    BY DEF Post, Goto, IInv, TypeOK
  <1>2. calls' = calls + 1 /\ posted' = posted + 1 /\ calls < MaxCalls
    BY DEF Post
  <1>3. /\ calls' \in 0 .. MaxCalls /\ calls <= calls'
        /\ posted' \in 0 .. MaxCalls /\ posted' <= calls'
    BY <1>2, ChannelAssumption DEF IInv, TypeOK, ReadInv
  <1>4. UNCHANGED <<at, turn, redo, lock, polls>>
    BY DEF Post
  <1> QED
    BY <1>1, <1>3, <1>4, CallerStep DEF IInv, TypeOK, RedoKept, redo, lock

LEMMA AcquireReadOk == ASSUME NEW c \in Caller PROVE IInv /\ AcquireRead(c) => IInv'
  <1> SUFFICES ASSUME IInv, AcquireRead(c) PROVE IInv'
    OBVIOUS
  <1>1. /\ pc[c] = "idle" /\ calls < MaxCalls
        /\ calls' = calls + 1 /\ reads' = reads + 1
        /\ pc' = [pc EXCEPT ![c] = "read"] /\ polls' = [polls EXCEPT ![c] = 0]
        /\ UNCHANGED <<at, turn, redo, bytes, bStop, posted>>
    BY DEF AcquireRead, Goto
  <1>2. reads' \in 0 .. MaxCalls /\ calls' \in 0 .. MaxCalls /\ reads' <= calls' /\ posted' <= calls'
    BY <1>1, ChannelAssumption DEF IInv, TypeOK, ReadInv
  <1>3. TypeOK'
    BY <1>1, <1>2 DEF IInv, TypeOK, redo
  <1>4. RedoKept' /\ PollInv'
    BY <1>1 DEF IInv, TypeOK, RedoKept, PollInv, redo
  <1>5. c \notin Readers /\ Readers' = Readers \cup {c}
    BY <1>1 DEF Readers, IInv, TypeOK
  <1>6. Cardinality(Readers') = Cardinality(Readers) + 1
    BY <1>5, ReadersFinite, FS_AddElement
  <1>7. ReadInv'
    BY <1>1, <1>2, <1>6, ReadersFinite DEF IInv, TypeOK, ReadInv
  <1> QED
    BY <1>3, <1>4, <1>7 DEF IInv

LEMMA ReleaseOk == ASSUME NEW c \in Caller PROVE IInv /\ Release(c) => IInv'
  <1> SUFFICES ASSUME IInv, Release(c) PROVE IInv'
    OBVIOUS
  <1>1. /\ pc[c] = "release" /\ reads' = reads - 1
        /\ pc' = [pc EXCEPT ![c] = "idle"]
        /\ UNCHANGED <<at, turn, redo, bytes, bStop, posted, calls, polls>>
    BY DEF Release, Goto
  <1>2. c \in Readers /\ Readers' = Readers \ {c}
    BY <1>1 DEF Readers, IInv, TypeOK
  <1>3. Cardinality(Readers') = Cardinality(Readers) - 1 /\ Cardinality(Readers) > 0
    BY <1>2, ReadersFinite, FS_RemoveElement
  <1>4. ReadInv' /\ reads' \in 0 .. MaxCalls
    BY <1>1, <1>3, ReadersFinite, ChannelAssumption DEF IInv, TypeOK, ReadInv
  <1>5. TypeOK'
    BY <1>1, <1>4 DEF IInv, TypeOK, redo
  <1>6. RedoKept' /\ PollInv'
    BY <1>1 DEF IInv, TypeOK, RedoKept, PollInv, redo
  <1> QED
    BY <1>4, <1>5, <1>6 DEF IInv

\* Notices, the operation itself, and a stop that leaks its read lock.
LEMMA OtherCallsOk ==
  ASSUME NEW c \in Caller PROVE IInv /\ (Tell(c) \/ Notice(c) \/ Operate(c) \/ Stop(c)) => IInv'
  <1> SUFFICES ASSUME IInv, Tell(c) \/ Notice(c) \/ Operate(c) \/ Stop(c) PROVE IInv'
    OBVIOUS
  <1>1. /\ posted \in 0 .. MaxCalls /\ posted <= calls /\ calls \in 0 .. MaxCalls /\ calls <= calls
        /\ bytes \in 0 .. PipeSize /\ bStop \in BOOLEAN
    BY ChannelAssumption DEF IInv, TypeOK, ReadInv
  <1>2. CASE Tell(c) \/ Notice(c)
    <2>1. bytes' \in 0 .. PipeSize
      BY <1>2, RaiseOk DEF Tell, Notice, IInv
    <2>2. PICK next \in {"idle", "wait"} :
            pc' = [pc EXCEPT ![c] = next] /\ (next = "wait" => pc[c] = "read")
      BY <1>2 DEF Tell, Notice, Goto
    <2>3. UNCHANGED <<at, turn, redo, reads, bStop, posted, calls, polls>>
      BY <1>2 DEF Tell, Notice
    <2>4. RedoKept' /\ UNCHANGED <<walk, alive, cur, bRedo>>
      BY <2>3 DEF redo, IInv, RedoKept
    <2> QED
      BY <1>1, <2>1, <2>2, <2>3, <2>4, CallerStep DEF IInv, TypeOK
  <1>3. CASE Operate(c)
    <2>1. /\ pc[c] = "wait" /\ pc' = [pc EXCEPT ![c] = "release"]
          /\ UNCHANGED <<at, turn, lock, posted, calls, polls>>
      BY <1>3 DEF Operate, Goto
    <2>2. CASE UNCHANGED redo
      BY <1>1, <2>1, <2>2, CallerStep DEF lock, redo, IInv, TypeOK, RedoKept
    <2>3. CASE \E h \in alive : RegRedo(h) \/ EraseRedo(h)
      <3>1. /\ RedoKept' /\ walk' = walk /\ alive' = alive
            /\ cur' \subseteq Handler /\ bRedo' \in [Handler -> BOOLEAN]
        BY <2>1, <2>3, RegRedoOk, EraseRedoOk DEF IInv
      <3> QED
        BY <1>1, <2>1, <3>1, CallerStep DEF lock, IInv, TypeOK
    <2> QED
      BY <1>3, <2>2, <2>3 DEF Operate
  <1>4. CASE Stop(c)
    <2>1. /\ pc' = [pc EXCEPT ![c] = "idle"] /\ bStop' = TRUE
          /\ UNCHANGED <<at, turn, redo, bytes, reads, posted, calls, polls>>
      BY <1>4 DEF Stop, Goto
    <2>2. RedoKept' /\ UNCHANGED <<walk, alive, cur, bRedo>>
      BY <2>1 DEF redo, IInv, RedoKept
    <2> QED
      BY <1>1, <2>1, <2>2, CallerStep DEF IInv, TypeOK
  <1> QED
    BY <1>2, <1>3, <1>4

LEMMA StutterOk == IInv /\ UNCHANGED vars => IInv'
  <1> SUFFICES ASSUME IInv, UNCHANGED vars PROVE IInv'
    OBVIOUS
  <1>1. TypeOK' /\ RedoKept' /\ PollInv'
    BY DEF IInv, TypeOK, RedoKept, PollInv, vars, redo, lock, tell
  <1>2. Readers' = Readers
    BY DEF Readers, vars, tell
  <1>3. ReadInv'
    BY <1>2 DEF IInv, ReadInv, vars, lock, tell
  <1> QED
    BY <1>1, <1>3 DEF IInv

-----------------------------------------------------------------------------
\* Every state of a channel satisfies IInv.
THEOREM Inductive == Spec => []IInv
  <1>1. IInv /\ Owner => IInv'
    BY TakePostedOk, DispatchOk, MoveOk, PollReturnsOk, CallHandlerOk, CallRedoOk,
       CallbackOk, ReturnOk, OwnerStopsOk DEF Owner
  <1>2. IInv /\ (\E c \in Caller : Post(c) \/ AcquireRead(c) \/ Call(c)) => IInv'
    BY PostOk, AcquireReadOk, ReleaseOk, OtherCallsOk DEF Call
  <1>3. IInv /\ [Next]_vars => IInv'
    BY <1>1, <1>2, StutterOk DEF Next
  <1> QED
    BY InitOk, <1>3, PTL DEF Spec

\* The redo sets (regRedoHander, eraseRedoHander, the walk in dispatch): one of
\* them leads to each live handler that is marked, and only the walked one may
\* lead to a deleted handler.
THEOREM RedoSetsAreSound == Spec => []RedoKept
  <1>1. IInv => RedoKept
    BY DEF IInv
  <1> QED
    BY Inductive, <1>1, PTL

\* CwxAppHandler4Channel::close of a handler that the walk has not reached yet.
Astray == \E h \in walk : CloseHandler(h)

LEMMA AstrayStep == IInv /\ Next /\ RedoLeadsToLive => RedoLeadsToLive' \/ Astray
  <1> SUFFICES ASSUME IInv, Next, RedoLeadsToLive PROVE RedoLeadsToLive' \/ Astray
    OBVIOUS
  <1>1. CASE \E h \in Handler : CloseHandler(h)
    BY <1>1 DEF CloseHandler, RedoLeadsToLive, Astray, IInv, TypeOK
  <1>2. CASE \E h \in alive : RegRedo(h) \/ EraseRedo(h)
    BY <1>2 DEF RegRedo, EraseRedo, RedoLeadsToLive
  <1>3. CASE UNCHANGED redo
    BY <1>3 DEF redo, RedoLeadsToLive
  <1>4. CASE TakePosted \/ SwapRedo \/ \E h \in Handler : CallRedo(h)
    BY <1>4 DEF TakePosted, SwapRedo, CallRedo, redo, RedoLeadsToLive
  <1>5. ASSUME NEW h \in Handler, Callback(h) \/ CallHandler(h) \/ CallRedo(h) \/ OwnerRegRedo(h)
        PROVE  RedoLeadsToLive' \/ Astray
    BY <1>1, <1>2, <1>3, <1>4, <1>5 DEF Callback, CallHandler, OwnerRegRedo
  <1>6. CASE ReturnError
    BY <1>1, <1>6 DEF ReturnError, IInv, TypeOK
  <1>7. CASE Dispatch \/ PollReturns \/ WalkDone \/ CallDeleted \/ CheckStop \/ Gate
             \/ Return \/ OwnerStops
    BY <1>3, <1>7 DEF Dispatch, PollReturns, WalkDone, CallDeleted, CheckStop, Gate, Return, OwnerStops
  <1>8. ASSUME NEW c \in Caller, Post(c) \/ AcquireRead(c) \/ Call(c)
        PROVE  RedoLeadsToLive' \/ Astray
    BY <1>2, <1>3, <1>8 DEF Post, AcquireRead, Call, Tell, Notice, Operate, Release, Stop
  <1> QED
    BY <1>4, <1>5, <1>6, <1>7, <1>8 DEF Next, Owner

\* A redo set comes to lead to a deleted handler in one way only: a callback, or
\* its failure, closes a handler the walk in dispatch() has not reached.
THEOREM AstrayOnlyByClose == Spec => [][RedoLeadsToLive => RedoLeadsToLive' \/ Astray]_vars
  <1>1. IInv /\ [Next]_vars => [RedoLeadsToLive => RedoLeadsToLive' \/ Astray]_vars
    BY AstrayStep
  <1> QED
    BY Inductive, <1>1, PTL DEF Spec

\* A caller of the channel waits for at most one poll, however many there are.
THEOREM CallersAreServed == Spec => []ServedWithinOneDispatch
  <1>1. IInv => ServedWithinOneDispatch
    BY DEF IInv, PollInv, ServedWithinOneDispatch
  <1> QED
    BY Inductive, <1>1, PTL
=============================================================================
