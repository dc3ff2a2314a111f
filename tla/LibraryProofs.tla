--------------------------- MODULE LibraryProofs ---------------------------
(***************************************************************************)
(* Proofs about five parts of the library that do not meet.                *)
(*                                                                         *)
(* MsgQueue, for every set of threads and messages: the invariant says     *)
(* where the threads and the messages are, that m_curCount counts the      *)
(* chain, that m_curLength is what is queued, and that nobody sleeps on a  *)
(* closed queue.  The queued length is a number of bytes, each in a place  *)
(* of its own, so that what a message adds to it, at either end, follows   *)
(* from facts about finite sets and bijections, without an induction over  *)
(* the chain; with it the queue is shown to implement BoundedDeque.        *)
(*                                                                         *)
(* IdLock, for any number of threads (fewer than the counter has values),  *)
(* numbers and lock objects: the locks exclude each other although the     *)
(* objects are recycled.                                                   *)
(*                                                                         *)
(* RecvMsg, for headers of any length and data of any lengths: between two *)
(* messages nothing is left over, and within one the object knows how much *)
(* of it was read, whatever the pieces.                                    *)
(*                                                                         *)
(* TaskIndex, for any number of tasks: there is a sequence the pointers    *)
(* are the links of, in both directions, and the map holds its tasks.      *)
(* That following the links meets this sequence is an induction, done with *)
(* the least number at which the walk would leave it.                      *)
(*                                                                         *)
(* TimeHeap, for any number of timers: whatever an operation does in the   *)
(* middle of the array, it stays a heap and every handler knows its place. *)
(* The two loops are taken turn by turn: what holds of an array with a     *)
(* hole before a turn holds after it, and the hole goes one way only.      *)
(***************************************************************************)
EXTENDS MsgQueue, IdLock, RecvMsg, TaskIndex, TimeHeap, FiniteSetTheorems,
        FunctionTheorems, WellFoundedInduction, TLAPS

-----------------------------------------------------------------------------
(* The message queue.                                                        *)

\* What is in the variables, but for the two counters.
ShapeOK ==
  /\ queue \in Seq(Msg)
  /\ state \in {"ACTIVATED", "DEACTIVATED"}
  /\ pc \in [Thread -> Places]
  /\ pending \in [Thread -> Request]
  /\ highWaterMark \in Nat

\* m_curCount counts the chain.
CountIsLength == curCount = Len(queue)

\* The bytes of a chain, as BoundedDeque counts them; m_curLength is their number.
Bytes(s) == Deque!Bytes(s)
LengthIsBytes == IsFiniteSet(Bytes(queue)) /\ curLength = Cardinality(Bytes(queue))

QueueInv == ShapeOK /\ CountIsLength /\ LengthIsBytes /\ NobodySleepsClosed

-----------------------------------------------------------------------------
(* The length of a chain.                                                    *)

\* Which byte is in the queue.
LEMMA ByteOf ==
  ASSUME NEW s, NEW b
  PROVE  b \in Bytes(s) <=> \E i \in DOMAIN s, k \in Nat : k \in 1..Length[s[i]] /\ b = <<i, k>>
  BY DEF Bytes, Deque!Bytes

\* The bytes of one message, in whatever place.
LEMMA OneMessage ==
  ASSUME NEW i \in Nat, NEW m \in Msg
  PROVE  /\ IsFiniteSet({i} \X (1..Length[m]))
         /\ Cardinality({i} \X (1..Length[m])) = Length[m]
  <1>1. Length[m] \in Nat
    BY LengthAssumption
  <1>2. /\ IsFiniteSet(1..Length[m]) /\ Cardinality(1..Length[m]) = Length[m]
    BY <1>1, FS_Interval
  <1>3. IsFiniteSet({i}) /\ Cardinality({i}) = 1
    BY FS_Singleton
  <1>4. /\ IsFiniteSet({i} \X (1..Length[m]))
        /\ Cardinality({i} \X (1..Length[m])) = Cardinality({i}) * Cardinality(1..Length[m])
    BY <1>2, <1>3, FS_Product, Zenon
  <1>5. 1 * Length[m] = Length[m]
    BY <1>1
  <1> QED BY <1>2, <1>3, <1>4, <1>5

\* A message put at the tail adds its length.
LEMMA Appended ==
  ASSUME NEW s \in Seq(Msg), NEW m \in Msg, IsFiniteSet(Bytes(s))
  PROVE  /\ IsFiniteSet(Bytes(Append(s, m)))
         /\ Cardinality(Bytes(Append(s, m))) = Cardinality(Bytes(s)) + Length[m]
  <1> DEFINE n == Len(s) + 1
             new == {n} \X (1..Length[m])
             t == Append(s, m)
  <1>1. Bytes(t) = Bytes(s) \cup new
    <2>1. /\ DOMAIN t = DOMAIN s \cup {n} /\ t[n] = m /\ \A i \in DOMAIN s : t[i] = s[i]
      OBVIOUS
    <2>2. ASSUME NEW b PROVE b \in new <=> \E k \in 1..Length[m] : b = <<n, k>>
      OBVIOUS
    <2> HIDE DEF new, t, n
    <2>3. ASSUME NEW b PROVE b \in Bytes(t) <=> b \in Bytes(s) \/ b \in new
      BY <2>1, <2>2, ByteOf
    <2> QED BY <2>3
  <1>2. Bytes(s) \cap new = {}
    <2> SUFFICES ASSUME NEW b \in Bytes(s), b \in new PROVE FALSE
      OBVIOUS
    <2>1. PICK i \in DOMAIN s, k \in Nat : k \in 1..Length[s[i]] /\ b = <<i, k>>
      BY ByteOf
    <2>2. b[1] = n /\ b[1] = i
      BY <2>1
    <2> QED BY <2>2
  <1>3. IsFiniteSet(new) /\ Cardinality(new) = Length[m]
    BY OneMessage
  <1> HIDE DEF new, t
  <1>4. /\ IsFiniteSet(Bytes(t))
        /\ Cardinality(Bytes(t)) = Cardinality(Bytes(s)) + Length[m] - Cardinality({})
    BY <1>1, <1>2, <1>3, FS_Union
  <1> QED BY <1>4, FS_EmptySet, FS_CardinalityType, LengthAssumption DEF t

\* The rest of a sequence has the bytes of the sequence, one place further.
LEMMA Shifted ==
  ASSUME NEW s \in Seq(Msg), NEW m \in Msg
  PROVE  ExistsBijection(Bytes(s), Bytes(<<m>> \o s) \ ({1} \X (1..Length[m])))
  <1> DEFINE t == <<m>> \o s
             rest == Bytes(t) \ ({1} \X (1..Length[m]))
             F == [b \in Bytes(s) |-> <<b[1] + 1, b[2]>>]
  <1>1. /\ t[1] = m /\ \A i \in DOMAIN s : i \in Nat /\ i + 1 \in DOMAIN t /\ t[i + 1] = s[i]
        /\ \A j \in DOMAIN t : j = 1 \/ (j \in Nat /\ j - 1 \in DOMAIN s)
    OBVIOUS
  <1> HIDE DEF t
  <1>2. ASSUME NEW b \in Bytes(s) PROVE F[b] \in rest
    <2>1. PICK i \in DOMAIN s, k \in Nat : k \in 1..Length[s[i]] /\ b = <<i, k>>
      BY ByteOf
    <2>2. F[b] = <<i + 1, k>> /\ i + 1 # 1 /\ i + 1 \in DOMAIN t /\ t[i + 1] = s[i]
      BY <1>1, <2>1
    <2>3. F[b] \in Bytes(t)
      BY <2>2, ByteOf
    <2>4. F[b] \notin {1} \X (1..Length[m])
      BY <2>2
    <2> QED BY <2>3, <2>4
  <1>3. ASSUME NEW a \in Bytes(s), NEW b \in Bytes(s), F[a] = F[b] PROVE a = b
    <2>1. PICK i \in DOMAIN s, k \in Nat : k \in 1..Length[s[i]] /\ a = <<i, k>>
      BY ByteOf
    <2>2. PICK j \in DOMAIN s, l \in Nat : l \in 1..Length[s[j]] /\ b = <<j, l>>
      BY ByteOf
    <2>3. i + 1 = j + 1 /\ k = l
      BY <1>3, <2>1, <2>2
    <2> QED BY <1>1, <2>1, <2>2, <2>3
  <1>4. ASSUME NEW c \in rest PROVE \E b \in Bytes(s) : F[b] = c
    <2>1. PICK j \in DOMAIN t, k \in Nat : k \in 1..Length[t[j]] /\ c = <<j, k>>
      BY ByteOf
    <2>2. j # 1
      BY <1>1, <2>1
    <2>3. j \in Nat /\ j - 1 \in DOMAIN s /\ s[j - 1] = t[j]
      <3>1. j \in Nat /\ j - 1 \in DOMAIN s
        BY <1>1, <2>2
      <3>2. (j - 1) + 1 = j
        BY <3>1
      <3> QED BY <1>1, <3>1, <3>2
    <2>4. <<j - 1, k>> \in Bytes(s)
      BY <2>1, <2>3, ByteOf
    <2>5. F[<<j - 1, k>>] = c
      BY <2>1, <2>3, <2>4
    <2> QED BY <2>4, <2>5
  <1> HIDE DEF rest
  <1>5. F \in Bijection(Bytes(s), rest)
    BY <1>2, <1>3, <1>4, Fun_IsBij, Zenon DEF F
  <1> QED BY <1>5 DEF ExistsBijection, rest, t

\* One put at the head does as well,
LEMMA Prepended ==
  ASSUME NEW s \in Seq(Msg), NEW m \in Msg, IsFiniteSet(Bytes(s))
  PROVE  /\ IsFiniteSet(Bytes(<<m>> \o s))
         /\ Cardinality(Bytes(<<m>> \o s)) = Cardinality(Bytes(s)) + Length[m]
  <1> DEFINE t == <<m>> \o s
             first == {1} \X (1..Length[m])
  <1>1. IsFiniteSet(Bytes(t) \ first) /\ Cardinality(Bytes(t) \ first) = Cardinality(Bytes(s))
    BY Shifted, FS_Bijection, Zenon
  <1>2. IsFiniteSet(first) /\ Cardinality(first) = Length[m]
    BY OneMessage
  <1>3. first \subseteq Bytes(t)
    <2>1. 1 \in DOMAIN t /\ t[1] = m
      OBVIOUS
    <2> SUFFICES ASSUME NEW b \in first PROVE b \in Bytes(t)
      OBVIOUS
    <2>2. \E k \in Nat : k \in 1..Length[t[1]] /\ b = <<1, k>>
      BY <2>1
    <2> HIDE DEF t
    <2> QED BY <2>1, <2>2, ByteOf
  <1> HIDE DEF first, t
  <1>4. /\ Bytes(t) = (Bytes(t) \ first) \cup first
        /\ (Bytes(t) \ first) \cap first = {}
    BY <1>3
  <1>5. /\ IsFiniteSet(Bytes(t))
        /\ Cardinality(Bytes(t)) = Cardinality(Bytes(s)) + Length[m] - Cardinality({})
    BY <1>1, <1>2, <1>4, FS_Union
  <1> QED BY <1>5, FS_EmptySet, FS_CardinalityType, LengthAssumption DEF t

\* and the one taken from the head takes its length with it.
LEMMA Popped ==
  ASSUME NEW s \in Seq(Msg), s # <<>>, IsFiniteSet(Bytes(s))
  PROVE  /\ IsFiniteSet(Bytes(Tail(s)))
         /\ Cardinality(Bytes(s)) = Cardinality(Bytes(Tail(s))) + Length[Head(s)]
  <1>1. Tail(s) \in Seq(Msg) /\ Head(s) \in Msg /\ s = <<Head(s)>> \o Tail(s)
    OBVIOUS
  <1>2. ExistsBijection(Bytes(Tail(s)), Bytes(s) \ ({1} \X (1..Length[Head(s)])))
    BY <1>1, Shifted
  <1>3. IsFiniteSet(Bytes(s) \ ({1} \X (1..Length[Head(s)])))
    BY FS_Difference
  <1>4. IsFiniteSet(Bytes(Tail(s)))
    BY <1>2, <1>3, FS_Bijection, Fun_ExistsBijSymmetric, Zenon
  <1> QED BY <1>1, <1>4, Prepended

\* An empty queue has none.
LEMMA NoBytes == IsFiniteSet(Bytes(<<>>)) /\ Cardinality(Bytes(<<>>)) = 0
  <1>1. Bytes(<<>>) = {}
    BY DEF Bytes, Deque!Bytes
  <1> QED BY <1>1, FS_EmptySet

-----------------------------------------------------------------------------
(* Every step.                                                               *)

\* The types are kept by one call of one thread, and by the control calls.
LEMMA ShapeStep ==
  ASSUME ShapeOK, Next PROVE ShapeOK'
<1> USE DEF ShapeOK, Places
<1>0. Nothing \in Request
  BY DEF Nothing, Request
<1>e. <<>> \in Seq(Msg)
  OBVIOUS
<1>1. ASSUME NEW p \in Thread, NEW r \in Requests,
             RefuseEnqueue(p, r) \/ SleepFull(p, r) \/ Put(p, r)
      PROVE  ShapeOK'
  <2>1. r \in Request
    BY DEF Requests
  <2>2. CASE RefuseEnqueue(p, r)
    BY <1>0, <2>2 DEF RefuseEnqueue, Return, Back, contents
  <2>3. CASE SleepFull(p, r)
    BY <2>1, <2>3 DEF SleepFull, contents
  <2>4. CASE Put(p, r)
    <3>1. r.msg \in Msg
      BY <2>1, <2>4 DEF Put, Request
    <3>2. queue' \in Seq(Msg)
      BY <2>4, <3>1 DEF Put
    <3>3. pc' \in [Thread -> Places]
      BY <2>4 DEF Put, SignalAndReturn, Return, Back, Woken
    <3> QED BY <1>0, <2>4, <3>2, <3>3 DEF Put
  <2> QED BY <1>1, <2>2, <2>3, <2>4
<1>2. ASSUME NEW p \in Thread, RefuseDequeue(p) \/ SleepEmpty(p) \/ Take(p)
      PROVE  ShapeOK'
  <2>1. CASE RefuseDequeue(p)
    BY <2>1 DEF RefuseDequeue, Return, Back, contents
  <2>2. CASE SleepEmpty(p)
    BY <2>2 DEF SleepEmpty, contents
  <2>3. CASE Take(p)
    <3>1. queue' \in Seq(Msg)
      BY <2>3 DEF Take, IsEmpty
    <3>2. pc' \in [Thread -> Places]
      BY <2>3 DEF Take, SignalAndReturn, Return, Back, Woken
    <3> QED BY <2>3, <3>1, <3>2 DEF Take
  <2> QED BY <1>2, <2>1, <2>2, <2>3
<1>3. ASSUME NEW p \in Thread, TimedOut(p) \/ Spurious(p) PROVE ShapeOK'
  <2>1. CASE TimedOut(p)
    BY <1>0, <2>1 DEF TimedOut, Return, Back, contents
  <2>2. CASE Spurious(p)
    <3>1. Woken(pc[p]) \in Places
      BY DEF Woken
    <3> QED BY <2>2, <3>1 DEF Spurious, contents
  <2> QED BY <1>3, <2>1, <2>2
<1>4. CASE Deactivate \/ Activate \/ Flush \/ Close
  <2>1. pc' \in [Thread -> Places]
    <3>1. \A q \in Thread : Woken(pc[q]) \in Places
      BY DEF Woken
    <3> QED BY <1>4, <3>1 DEF Deactivate, Activate, Flush, Close, WakeAll
  <2>2. queue' = queue \/ queue' = <<>>
    BY <1>4 DEF Deactivate, Activate, Flush, Close, Emptied, contents
  <2>3. queue' \in Seq(Msg)
    BY <2>2, <1>e
  <2>4. /\ pending' = pending /\ state' \in {"ACTIVATED", "DEACTIVATED"}
        /\ highWaterMark' = highWaterMark
    BY <1>4 DEF Deactivate, Activate, Flush, Close
  <2> QED BY <2>1, <2>3, <2>4
<1>5. ASSUME NEW n \in NewHwms, SetHwm(n) PROVE ShapeOK'
  BY <1>5, WatermarkAssumption DEF SetHwm, contents
<1> QED BY <1>1, <1>2, <1>3, <1>4, <1>5 DEF Next, Enqueue, Dequeue

\* m_curCount is kept with the chain.
LEMMA CountStep ==
  ASSUME ShapeOK, CountIsLength, Next PROVE CountIsLength'
<1> USE DEF CountIsLength
<1>1. ASSUME NEW p \in Thread, NEW r \in Requests, Put(p, r)
      PROVE  CountIsLength'
  BY <1>1 DEF Put, ShapeOK, Requests, Request
<1>2. ASSUME NEW p \in Thread, Take(p) PROVE CountIsLength'
  BY <1>2 DEF Take, IsEmpty, ShapeOK
<1>3. CASE Flush \/ Close
  BY <1>3 DEF Flush, Close, Emptied
<1>4. CASE UNCHANGED contents
  BY <1>4 DEF contents
<1>5. Next => \/ UNCHANGED contents
              \/ \E p \in Thread, r \in Requests : Put(p, r)
              \/ \E p \in Thread : Take(p)
              \/ Flush \/ Close
  BY DEF Next, Enqueue, Dequeue, RefuseEnqueue, SleepFull, RefuseDequeue, SleepEmpty,
         TimedOut, Spurious, Deactivate, Activate, SetHwm
<1> QED BY <1>1, <1>2, <1>3, <1>4, <1>5

\* m_curLength is kept with the chain, by enqueue at either end, dequeue and
\* flush alike.
LEMMA LengthStep ==
  ASSUME ShapeOK, LengthIsBytes, Next PROVE LengthIsBytes'
<1> USE DEF LengthIsBytes
<1>1. ASSUME NEW p \in Thread, NEW r \in Requests, Put(p, r)
      PROVE  LengthIsBytes'
  <2>1. r.msg \in Msg /\ queue \in Seq(Msg)
    BY <1>1 DEF Put, ShapeOK, Requests, Request
  <2>2. queue' = <<r.msg>> \o queue \/ queue' = Append(queue, r.msg)
    BY <1>1 DEF Put
  <2>3. curLength' = curLength + Length[r.msg]
    BY <1>1 DEF Put
  <2>4. IsFiniteSet(Bytes(queue)) /\ curLength = Cardinality(Bytes(queue))
    OBVIOUS
  <2>5. /\ IsFiniteSet(Bytes(queue'))
        /\ Cardinality(Bytes(queue')) = Cardinality(Bytes(queue)) + Length[r.msg]
    BY <2>1, <2>2, <2>4, Appended, Prepended
  <2>6. Bytes(queue)' = Bytes(queue')
    BY DEF Bytes, Deque!Bytes
  <2> QED BY <2>3, <2>4, <2>5, <2>6
<1>2. ASSUME NEW p \in Thread, Take(p) PROVE LengthIsBytes'
  <2>1. queue \in Seq(Msg) /\ queue # <<>> /\ queue' = Tail(queue)
    BY <1>2 DEF Take, IsEmpty, ShapeOK
  <2>2. curLength' = curLength - Length[Head(queue)]
    BY <1>2 DEF Take
  <2>3. /\ IsFiniteSet(Bytes(queue'))
        /\ Cardinality(Bytes(queue)) = Cardinality(Bytes(queue')) + Length[Head(queue)]
    BY <2>1, Popped
  <2>4. Cardinality(Bytes(queue')) \in Nat /\ Length[Head(queue)] \in Nat
    BY <2>1, <2>3, FS_CardinalityType, LengthAssumption
  <2>5. Bytes(queue)' = Bytes(queue')
    BY DEF Bytes, Deque!Bytes
  <2> QED BY <2>2, <2>3, <2>4, <2>5
<1>3. CASE Flush \/ Close
  <2>1. queue' = <<>> /\ curLength' = 0
    BY <1>3 DEF Flush, Close, Emptied
  <2>2. Bytes(queue)' = Bytes(<<>>)
    BY <2>1 DEF Bytes, Deque!Bytes
  <2> QED BY <2>1, <2>2, NoBytes
<1>4. CASE UNCHANGED contents
  <2>1. Bytes(queue)' = Bytes(queue) /\ curLength' = curLength
    BY <1>4 DEF contents, Bytes, Deque!Bytes
  <2> QED BY <2>1
<1>5. Next => \/ UNCHANGED contents
              \/ \E p \in Thread, r \in Requests : Put(p, r)
              \/ \E p \in Thread : Take(p)
              \/ Flush \/ Close
  BY DEF Next, Enqueue, Dequeue, RefuseEnqueue, SleepFull, RefuseDequeue, SleepEmpty,
         TimedOut, Spurious, Deactivate, Activate, SetHwm
<1> QED BY <1>1, <1>2, <1>3, <1>4, <1>5

\* To fall asleep a thread must find the queue active, and whoever closes it
\* wakes all; every other step leaves the sleepers alone or wakes some.
LEMMA SleepersStep ==
  ASSUME ShapeOK, NobodySleepsClosed, Next PROVE NobodySleepsClosed'
<1> USE DEF NobodySleepsClosed, ShapeOK, Places
<1>1. ASSUME NEW p \in Thread, NEW r \in Requests,
             RefuseEnqueue(p, r) \/ SleepFull(p, r) \/ Put(p, r)
      PROVE  NobodySleepsClosed'
  BY <1>1 DEF RefuseEnqueue, SleepFull, Put, SignalAndReturn, Return, Back, Woken,
              Admitted, contents
<1>2. ASSUME NEW p \in Thread, RefuseDequeue(p) \/ SleepEmpty(p) \/ Take(p)
      PROVE  NobodySleepsClosed'
  BY <1>2 DEF RefuseDequeue, SleepEmpty, Take, SignalAndReturn, Return, Back, Woken,
              Admitted, contents
<1>3. ASSUME NEW p \in Thread, TimedOut(p) \/ Spurious(p) PROVE NobodySleepsClosed'
  BY <1>3 DEF TimedOut, Spurious, Return, Back, Woken
<1>4. CASE Deactivate \/ Activate \/ Flush \/ Close
  BY <1>4 DEF Deactivate, Activate, Flush, Close, WakeAll, Woken
<1>5. ASSUME NEW n \in NewHwms, SetHwm(n) PROVE NobodySleepsClosed'
  BY <1>5 DEF SetHwm
<1> QED BY <1>1, <1>2, <1>3, <1>4, <1>5 DEF Next, Enqueue, Dequeue

\* Every state of the queue satisfies QueueInv (enqueue, dequeue and the control
\* calls of CwxMsgQueue).
THEOREM QueueInductive == Spec => []QueueInv
<1>1. Init => QueueInv
  <2> SUFFICES ASSUME Init PROVE QueueInv
    OBVIOUS
  <2>1. ShapeOK /\ CountIsLength /\ NobodySleepsClosed
    BY WatermarkAssumption
       DEF Init, ShapeOK, CountIsLength, NobodySleepsClosed, Places, Nothing, Request
  <2>2. LengthIsBytes
    BY NoBytes DEF Init, LengthIsBytes
  <2> QED BY <2>1, <2>2 DEF QueueInv
<1>2. QueueInv /\ [Next]_queueVars => QueueInv'
  <2> SUFFICES ASSUME QueueInv, [Next]_queueVars PROVE QueueInv'
    OBVIOUS
  <2>1. CASE Next
    BY <2>1, ShapeStep, CountStep, LengthStep, SleepersStep DEF QueueInv
  <2>2. CASE UNCHANGED queueVars
    <3>1. LengthIsBytes'
      BY <2>2 DEF QueueInv, LengthIsBytes, Bytes, Deque!Bytes, queueVars, contents
    <3> QED
      BY <2>2, <3>1 DEF QueueInv, ShapeOK, CountIsLength, NobodySleepsClosed, queueVars, contents
  <2> QED BY <2>1, <2>2
<1> QED BY <1>1, <1>2, PTL DEF Spec

\* Deactivating releases every sleeper of enqueue and dequeue, for any number of
\* threads.
THEOREM ClosedReleasesAll == Spec => []NobodySleepsClosed
<1>1. QueueInv => NobodySleepsClosed
  BY DEF QueueInv
<1> QED BY <1>1, QueueInductive, PTL

\* The first message that enqueue puts on an empty queue wakes a consumer that
\* sleeps in dequeue.
THEOREM FirstMessageIsSignalled == Spec => FirstMessageWakes
<1> DEFINE A == queue = <<>> /\ queue' # <<>> /\ (\E p \in Thread : pc[p] = "empty")
                  => \E p \in Thread : pc[p] = "empty" /\ pc'[p] = "wokenEmpty"
<1>1. QueueInv /\ [Next]_queueVars => [A]_queueVars
  <2> SUFFICES ASSUME QueueInv, Next, queue = <<>>, queue' # <<>>,
                      NEW s \in Thread, pc[s] = "empty"
               PROVE  \E p \in Thread : pc[p] = "empty" /\ pc'[p] = "wokenEmpty"
    BY DEF queueVars
  <2>1. PICK p \in Thread, r \in Requests : Put(p, r)
    BY DEF Next, Enqueue, Dequeue, RefuseEnqueue, SleepFull, RefuseDequeue, SleepEmpty,
           Take, IsEmpty, TimedOut, Spurious, Deactivate, Activate, Flush, Close, Emptied,
           SetHwm, contents
  <2>2. curCount = 0 /\ curCount' = 1 /\ pc[p] # "empty" /\ pc \in [Thread -> Places]
    BY <2>1 DEF QueueInv, CountIsLength, ShapeOK, Put, AtEnqueue
  <2>3. SignalAndReturn(p, "empty")
    BY <2>1, <2>2 DEF Put, IsFirst
  <2> QED BY <2>2, <2>3 DEF SignalAndReturn, Back, Woken
<1> QED BY <1>1, QueueInductive, PTL DEF Spec, FirstMessageWakes

-----------------------------------------------------------------------------
(* The queue implements the bounded deque.                                   *)

\* The counter is a number, as the chain is finite.
LEMMA LengthTyped == LengthIsBytes => curLength \in Nat
  BY FS_CardinalityType, Zenon DEF LengthIsBytes

\* Each step of a thread or of a control call is one of the deque, or none.
LEMMA DequeStep ==
  ASSUME QueueInv, [Next]_queueVars
  PROVE  [Deque!Next]_<<queue, state = "ACTIVATED", highWaterMark>>
<1>1. ASSUME NEW p \in Thread, NEW r \in Requests, Put(p, r)
      PROVE  Deque!Next
  <2>1. r.msg \in Msg
    BY <1>1 DEF Put, Requests, Request
  <2>2. Deque!Total = curLength
    <3>1. Deque!Total = Cardinality(Bytes(queue))
      BY DEF Deque!Total, Deque!Bytes, Bytes, Deque!Cardinality, Cardinality
    <3> QED BY <3>1 DEF QueueInv, LengthIsBytes
  <2>3. state = "ACTIVATED" /\ Deque!Total < highWaterMark
    <3>1. curLength \in Nat /\ highWaterMark \in Nat
      BY LengthTyped DEF QueueInv, ShapeOK
    <3>2. state = "ACTIVATED" /\ ~(curLength >= highWaterMark)
      BY <1>1 DEF Put, Admitted, IsFull
    <3> QED BY <2>2, <3>1, <3>2
  <2>4. /\ queue' \in {<<r.msg>> \o queue, Append(queue, r.msg)}
        /\ state' = state /\ highWaterMark' = highWaterMark
    BY <1>1 DEF Put
  <2>5. Deque!Push(r.msg)
    BY <2>3, <2>4 DEF Deque!Push
  <2> QED BY <2>1, <2>5 DEF Deque!Next
<1>2. ASSUME NEW p \in Thread, Take(p) PROVE Deque!Next
  <2>1. Deque!Pop
    BY <1>2 DEF Take, Admitted, IsEmpty, Deque!Pop
  <2> QED BY <2>1 DEF Deque!Next
<1>3. CASE Deactivate \/ Activate \/ Flush \/ Close
  <2>1. queue' \in {queue, <<>>} /\ highWaterMark' = highWaterMark
    BY <1>3 DEF Deactivate, Activate, Flush, Close, Emptied, contents
  <2>2. (state = "ACTIVATED")' \in BOOLEAN
    OBVIOUS
  <2>3. Deque!Control
    BY <2>1, <2>2 DEF Deque!Control
  <2> QED BY <2>3 DEF Deque!Next
<1>4. ASSUME NEW n \in NewHwms, SetHwm(n) PROVE Deque!Next
  <2>1. Deque!Limit
    BY <1>4, WatermarkAssumption DEF SetHwm, contents, Deque!Limit
  <2> QED BY <2>1 DEF Deque!Next
<1>5. CASE UNCHANGED <<queue, state, highWaterMark>>
  BY <1>5
<1>6. \/ \E p \in Thread, r \in Requests : Put(p, r)
      \/ \E p \in Thread : Take(p)
      \/ Deactivate \/ Activate \/ Flush \/ Close
      \/ \E n \in NewHwms : SetHwm(n)
      \/ UNCHANGED <<queue, state, highWaterMark>>
  BY DEF Next, Enqueue, Dequeue, RefuseEnqueue, SleepFull, RefuseDequeue, SleepEmpty,
         TimedOut, Spurious, queueVars, contents
<1> QED BY <1>1, <1>2, <1>3, <1>4, <1>5, <1>6

\* The state of the queue is well typed; in particular m_curLength, which dequeue
\* decreases by the length of what it takes, never falls below zero.
THEOREM QueueTyped == Spec => []TypeOK
<1>1. QueueInv => TypeOK
  BY LengthTyped DEF QueueInv, ShapeOK, CountIsLength, TypeOK
<1> QED BY <1>1, QueueInductive, PTL

\* enqueue, dequeue, activate, deactivate, flush, close and setHwm implement the
\* bounded deque, for any number of threads: a message enters only below the
\* mark of what is really queued, and leaves from the head, while the queue is
\* active.
THEOREM QueueIsADeque == Spec => DequeSpec
<1>1. Init => Deque!Init
  BY WatermarkAssumption DEF Init, Deque!Init
<1>2. QueueInv /\ [Next]_queueVars => [Deque!Next]_<<queue, state = "ACTIVATED", highWaterMark>>
  BY DequeStep
<1> QED BY <1>1, <1>2, QueueInductive, PTL DEF Spec, DequeSpec, Deque!Spec

-----------------------------------------------------------------------------
(* The locks by number.                                                      *)

\* The threads that wait for number i or hold it.
Users(i) == {t \in LockThread : where[t] # "idle" /\ wants[t] = i}

\* What a thread remembers is what the map says.
Remembers ==
  \A t \in LockThread : where[t] # "idle" =>
    /\ wants[t] \in LockId /\ lockMap[wants[t]] # NoObj
    /\ obj[t] = lockMap[wants[t]]

\* An object in use serves one number and is not free.
Serves ==
  /\ freeObj \subseteq made
  /\ \A i \in LockId : lockMap[i] # NoObj => lockMap[i] \in made \ freeObj
  /\ \A i, j \in LockId : lockMap[i] = lockMap[j] /\ lockMap[i] # NoObj => i = j

\* The counter of an object in use is the number of its users, and not 0.
Counts ==
  \A i \in LockId : lockMap[i] # NoObj =>
    /\ num[lockMap[i]] = Cardinality(Users(i))
    /\ Users(i) # {}

LockInv == LockTypeOK /\ Remembers /\ Serves /\ Counts /\ LockExclusive

-----------------------------------------------------------------------------
\* Counting up and down does not wrap.
LEMMA CountUpOk ==
  ASSUME NEW n \in Nat, NEW M \in Nat, n + 1 < M
  PROVE  (n + 1) % M = n + 1
  OBVIOUS

LEMMA CountDownOk ==
  ASSUME NEW n \in Nat, NEW M \in Nat, n > 0, n < M
  PROVE  (n + M - 1) % M = n - 1
  OBVIOUS

\* The users of a number are finitely many, fewer than the counter has values.
LEMMA UsersFinite ==
  ASSUME NEW i
  PROVE  /\ IsFiniteSet(Users(i))
         /\ Cardinality(Users(i)) \in Nat
         /\ Cardinality(Users(i)) < CountMod
  <1>1. Users(i) \subseteq LockThread
    BY DEF Users
  <1>2. /\ IsFiniteSet(Users(i))
        /\ Cardinality(Users(i)) <= Cardinality(LockThread)
    BY <1>1, CountAssumption, FS_Subset
  <1> QED
    BY <1>2, CountAssumption, LockAssumption, FS_CardinalityType

LEMMA InitOk == LockInit => LockInv
  <1> SUFFICES ASSUME LockInit PROVE LockInv
    OBVIOUS
  <1>1. 0 \in 0 .. CountMod - 1
    BY CountAssumption, LockAssumption, FS_CardinalityType
  <1>2. LockTypeOK
    BY <1>1 DEF LockInit, LockTypeOK
  <1>3. Remembers /\ Counts /\ LockExclusive
    BY DEF LockInit, Remembers, Counts, LockExclusive
  <1>4. Serves
    BY DEF LockInit, Serves
  <1> QED
    BY <1>2, <1>3, <1>4 DEF LockInv

\* A thread that finds the object of its number is counted.
LEMMA FoundOk ==
  ASSUME LockInv, NEW t \in LockThread, NEW i \in LockId, NEW m \in Mode, LockFound(t, i, m)
  PROVE  LockInv'
  <1> DEFINE o == lockMap[i]
  <1>1. /\ where[t] = "idle" /\ o # NoObj /\ o \in Obj
        /\ num' = [num EXCEPT ![o] = (@ + 1) % CountMod]
        /\ where' = [where EXCEPT ![t] = "waiting"]
        /\ wants' = [wants EXCEPT ![t] = i]
        /\ mode' = [mode EXCEPT ![t] = m]
        /\ obj' = [obj EXCEPT ![t] = o]
        /\ UNCHANGED <<lockMap, freeObj, made>>
    BY DEF LockFound, Wait, LockInv, LockTypeOK
  <1>2. Users(i)' = Users(i) \cup {t} /\ t \notin Users(i)
    BY <1>1 DEF Users, LockInv, LockTypeOK
  <1>3. \A j \in LockId \ {i} : Users(j)' = Users(j)
    BY <1>1 DEF Users, LockInv, LockTypeOK
  <1>4. /\ Cardinality(Users(i)') = Cardinality(Users(i)) + 1
        /\ Cardinality(Users(i)) + 1 < CountMod
    <2>1. Cardinality(Users(i) \cup {t}) = Cardinality(Users(i)) + 1
      BY <1>2, UsersFinite, FS_AddElement
    <2>2. Users(i) \cup {t} \subseteq LockThread
      BY DEF Users
    <2>3. Cardinality(Users(i) \cup {t}) <= Cardinality(LockThread)
      BY <2>2, CountAssumption, FS_Subset
    <2> QED
      BY <1>2, <2>1, <2>3, CountAssumption, UsersFinite, FS_CardinalityType, LockAssumption
  <1>5. num[o] = Cardinality(Users(i)) /\ num[o] \in Nat
    BY <1>1, UsersFinite DEF LockInv, Counts
  <1>6. num'[o] = num[o] + 1 /\ num'[o] \in 0 .. CountMod - 1
    <2>1. (num[o] + 1) % CountMod = num[o] + 1
      BY <1>4, <1>5, CountUpOk, LockAssumption
    <2> QED
      BY <1>1, <1>4, <1>5, <2>1, LockAssumption DEF LockInv, LockTypeOK
  <1>7. LockTypeOK'
    BY <1>1, <1>6 DEF LockInv, LockTypeOK
  <1>8. Remembers'
    BY <1>1 DEF LockInv, LockTypeOK, Remembers
  <1>9. Serves'
    BY <1>1 DEF LockInv, Serves
  <1>10. Counts'
    <2> SUFFICES ASSUME NEW j \in LockId, lockMap[j] # NoObj
                 PROVE  num'[lockMap[j]] = Cardinality(Users(j)') /\ Users(j)' # {}
      BY <1>1 DEF Counts
    <2>1. CASE j = i
      BY <1>2, <1>4, <1>5, <1>6, <2>1
    <2>2. CASE j # i
      <3>1. lockMap[j] # o /\ lockMap[j] \in Obj
        BY <2>2, <1>1 DEF LockInv, Serves, LockTypeOK
      <3> QED
        BY <1>1, <1>3, <2>2, <3>1 DEF LockInv, Counts, LockTypeOK
    <2> QED
      BY <2>1, <2>2
  <1>11. LockExclusive'
    BY <1>1 DEF LockInv, LockTypeOK, LockExclusive
  <1> QED
    BY <1>7, <1>8, <1>9, <1>10, <1>11 DEF LockInv

\* The first thread that wants a number brings an object nobody uses.
LEMMA NewOk ==
  ASSUME LockInv, NEW t \in LockThread, NEW i \in LockId, NEW m \in Mode, LockNew(t, i, m)
  PROVE  LockInv'
  <1>1. PICK o \in Obj :
          /\ o \in freeObj \/ o \notin made
          /\ freeObj' = freeObj \ {o} /\ made' = made \cup {o}
          /\ num' = [num EXCEPT ![o] = 1]
          /\ lockMap' = [lockMap EXCEPT ![i] = o]
          /\ where' = [where EXCEPT ![t] = "waiting"]
          /\ wants' = [wants EXCEPT ![t] = i]
          /\ mode' = [mode EXCEPT ![t] = m]
          /\ obj' = [obj EXCEPT ![t] = o]
    BY DEF LockNew, Wait
  <1>2. where[t] = "idle" /\ lockMap[i] = NoObj /\ o # NoObj
    BY LockAssumption DEF LockNew
  <1>3. \A j \in LockId : lockMap[j] # o
    BY <1>1, <1>2 DEF LockInv, Serves
  <1>4. Users(i) = {} /\ Users(i)' = {t}
    <2>1. Users(i) = {}
      BY <1>2 DEF Users, LockInv, Remembers
    <2>2. Users(i)' = Users(i) \cup {t}
      BY <1>1, <1>2 DEF Users, LockInv, LockTypeOK
    <2> QED
      BY <2>1, <2>2
  <1>5. \A j \in LockId \ {i} : Users(j)' = Users(j)
    BY <1>1, <1>2 DEF Users, LockInv, LockTypeOK
  <1>6. Cardinality({t}) = 1
    BY FS_Singleton
  <1>7. 1 \in 0 .. CountMod - 1
    <2>1. Users(i) \cup {t} \subseteq LockThread
      BY DEF Users
    <2>2. Cardinality({t}) <= Cardinality(LockThread)
      BY CountAssumption, FS_Subset
    <2> QED
      BY <1>6, <2>2, CountAssumption, LockAssumption, FS_CardinalityType
  <1>8. LockTypeOK'
    BY <1>1, <1>7 DEF LockInv, LockTypeOK
  <1>9. Remembers'
    BY <1>1, <1>2, <1>4 DEF LockInv, LockTypeOK, Remembers, Users
  <1>10. Serves'
    BY <1>1, <1>2, <1>3 DEF LockInv, LockTypeOK, Serves
  <1>11. Counts'
    <2> SUFFICES ASSUME NEW j \in LockId, lockMap'[j] # NoObj
                 PROVE  num'[lockMap'[j]] = Cardinality(Users(j)') /\ Users(j)' # {}
      BY DEF Counts
    <2>1. CASE j = i
      BY <1>1, <1>4, <1>6, <2>1 DEF LockInv, LockTypeOK
    <2>2. CASE j # i
      <3>1. lockMap'[j] = lockMap[j] /\ lockMap[j] # o /\ lockMap[j] \in Obj
        BY <1>1, <1>3, <2>2 DEF LockInv, LockTypeOK
      <3> QED
        BY <1>1, <1>5, <2>2, <3>1 DEF LockInv, Counts, LockTypeOK
    <2> QED
      BY <2>1, <2>2
  <1>12. LockExclusive'
    BY <1>1 DEF LockInv, LockTypeOK, LockExclusive
  <1> QED
    BY <1>8, <1>9, <1>10, <1>11, <1>12 DEF LockInv

\* The lock of the object admits one writer, or readers.
LEMMA AcquireOk ==
  ASSUME LockInv, NEW t \in LockThread, Acquire(t)
  PROVE  LockInv'
  <1>1. /\ where[t] = "waiting"
        /\ \A u \in Holders(obj[t]) : mode[t] = "read" /\ mode[u] = "read"
        /\ where' = [where EXCEPT ![t] = "holding"]
        /\ UNCHANGED <<lockMap, num, freeObj, made, wants, mode, obj>>
    BY DEF Acquire
  <1>2. \A i : Users(i)' = Users(i)
    BY <1>1 DEF Users, LockInv, LockTypeOK
  <1>3. LockTypeOK' /\ Remembers' /\ Serves'
    BY <1>1 DEF LockInv, LockTypeOK, Remembers, Serves
  <1>4. Counts'
    BY <1>1, <1>2 DEF LockInv, Counts
  <1>5. \A u \in LockThread :
          where[u] = "holding" /\ wants[u] = wants[t] => mode[t] = "read" /\ mode[u] = "read"
    <2> SUFFICES ASSUME NEW u \in LockThread, where[u] = "holding", wants[u] = wants[t]
                 PROVE  u \in Holders(obj[t])
      BY <1>1
    <2>1. obj[u] = obj[t]
      BY <1>1 DEF LockInv, Remembers
    <2> QED
      BY <2>1 DEF Holders
  <1>6. LockExclusive'
    BY <1>1, <1>5 DEF LockInv, LockTypeOK, LockExclusive
  <1> QED
    BY <1>3, <1>4, <1>6 DEF LockInv

\* The last user of a number takes its object out of use, no other does.
LEMMA UnlockOk ==
  ASSUME LockInv, NEW t \in LockThread, Unlock(t)
  PROVE  LockInv'
  <1>0. PICK i \in LockId : i = wants[t]
    BY DEF Unlock, LockInv, Remembers
  <1> DEFINE o == lockMap[i]
             n == (num[o] + CountMod - 1) % CountMod
  <1>1. /\ where[t] = "holding" /\ o # NoObj
        /\ num' = [num EXCEPT ![o] = n]
        /\ IF LastOne(n) THEN Recycle(i, o) ELSE UNCHANGED <<lockMap, freeObj, made>>
        /\ where' = [where EXCEPT ![t] = "idle"]
        /\ wants' = [wants EXCEPT ![t] = NoId]
        /\ mode' = [mode EXCEPT ![t] = "none"]
        /\ obj' = [obj EXCEPT ![t] = NoObj]
    BY <1>0 DEF Unlock
  <1>2. o \in Obj /\ t \in Users(i)
    BY <1>0, <1>1 DEF LockInv, Remembers, LockTypeOK, Users
  <1>3. Users(i)' = Users(i) \ {t}
    BY <1>0, <1>1, LockAssumption DEF Users, LockInv, LockTypeOK
  <1>4. \A j \in LockId \ {i} : Users(j)' = Users(j)
    BY <1>0, <1>1 DEF Users, LockInv, LockTypeOK
  <1>5. /\ num[o] = Cardinality(Users(i)) /\ num[o] \in Nat
        /\ num[o] > 0 /\ num[o] < CountMod
    BY <1>1, <1>2, UsersFinite, FS_EmptySet DEF LockInv, Counts
  <1>6. n = num[o] - 1 /\ n \in 0 .. CountMod - 1
    BY <1>5, CountDownOk, LockAssumption
  <1>7. Cardinality(Users(i)') = n /\ (n = 0 <=> Users(i)' = {})
    <2>1. IsFiniteSet(Users(i) \ {t}) /\ Cardinality(Users(i) \ {t}) = num[o] - 1
      BY <1>2, <1>5, UsersFinite, FS_RemoveElement
    <2> QED
      BY <1>3, <1>6, <2>1, FS_EmptySet
  <1>8. CASE n = 0
    <2>1. lockMap' = [lockMap EXCEPT ![i] = NoObj]
      BY <1>1, <1>8 DEF LastOne, Recycle
    <2>2. \/ made' = made \ {o} /\ freeObj' = freeObj
          \/ freeObj' = freeObj \cup {o} /\ made' = made
      BY <1>1, <1>8 DEF LastOne, Recycle
    <2>3. \A j \in LockId : lockMap'[j] # NoObj => j # i /\ lockMap'[j] = lockMap[j] /\ lockMap[j] # o
      BY <1>1, <1>2, <2>1 DEF LockInv, LockTypeOK, Serves
    <2>4. \A u \in LockThread \ {t} : where[u] # "idle" => wants[u] # i
      BY <1>3, <1>7, <1>8 DEF Users
    <2>5. LockTypeOK'
      <3>1. freeObj' \subseteq Obj /\ made' \subseteq Obj
        BY <1>2, <2>2 DEF LockInv, LockTypeOK
      <3>2. lockMap' \in [LockId -> Obj \cup {NoObj}] /\ num' \in [Obj -> 0 .. CountMod - 1]
        BY <1>1, <1>2, <1>6, <2>1 DEF LockInv, LockTypeOK
      <3> QED
        BY <1>1, <3>1, <3>2 DEF LockInv, LockTypeOK
    <2>6. Remembers'
      BY <1>1, <1>2, <2>1, <2>4 DEF LockInv, LockTypeOK, Remembers
    <2>7. Serves'
      <3>1. o \in made \ freeObj
        BY <1>1, <1>2 DEF LockInv, Serves
      <3> QED
        BY <2>2, <2>3, <3>1 DEF LockInv, Serves
    <2>8. Counts'
      BY <1>1, <1>2, <1>4, <2>3 DEF LockInv, Counts, LockTypeOK
    <2>9. LockExclusive'
      BY <1>1 DEF LockInv, LockTypeOK, LockExclusive
    <2> QED
      BY <2>5, <2>6, <2>7, <2>8, <2>9 DEF LockInv
  <1>9. CASE n # 0
    <2>1. UNCHANGED <<lockMap, freeObj, made>>
      BY <1>1, <1>9 DEF LastOne
    <2>2. LockTypeOK'
      BY <1>1, <1>2, <1>6, <2>1 DEF LockInv, LockTypeOK
    <2>3. Remembers' /\ Serves' /\ LockExclusive'
      BY <1>1, <2>1 DEF LockInv, LockTypeOK, Remembers, Serves, LockExclusive
    <2>4. Counts'
      <3> SUFFICES ASSUME NEW j \in LockId, lockMap[j] # NoObj
                   PROVE  num'[lockMap[j]] = Cardinality(Users(j)') /\ Users(j)' # {}
        BY <2>1 DEF Counts
      <3>1. CASE j = i
        <4>1. num'[o] = n
          BY <1>1, <1>2 DEF LockInv, LockTypeOK
        <4> QED
          BY <1>7, <1>9, <3>1, <4>1
      <3>2. CASE j # i
        <4>1. lockMap[j] # o /\ lockMap[j] \in Obj
          BY <1>1, <1>2, <3>2 DEF LockInv, Serves, LockTypeOK
        <4> QED
          BY <1>1, <1>4, <3>2, <4>1 DEF LockInv, Counts, LockTypeOK
      <3> QED
        BY <3>1, <3>2
    <2> QED
      BY <2>2, <2>3, <2>4 DEF LockInv
  <1> QED
    BY <1>8, <1>9

LEMMA StutterOk ==
  ASSUME LockInv, UNCHANGED lockVars
  PROVE  LockInv'
  <1>1. \A i : Users(i)' = Users(i)
    BY DEF lockVars, Users
  <1> QED
    BY <1>1 DEF lockVars, LockInv, LockTypeOK, Remembers, Serves, Counts, LockExclusive

\* Every state of the managers satisfies LockInv.
THEOREM LockInductive == LockSpec => []LockInv
  <1>1. LockInv /\ [LockNext]_lockVars => LockInv'
    BY FoundOk, NewOk, AcquireOk, UnlockOk, StutterOk DEF LockNext
  <1> QED
    BY InitOk, <1>1, PTL DEF LockSpec

\* Readers and writers of a number exclude each other (rdLock, wrLock, unlock of
\* CwxRwIdLocker.inl), whatever objects are recycled meanwhile.
THEOREM Exclusive == LockSpec => []LockExclusive
  <1>1. LockInv => LockExclusive
    BY DEF LockInv
  <1> QED
    BY LockInductive, <1>1, PTL

\* The object a thread waits for or holds is the one of its number, exists, is
\* not in the free list, and serves no other number.
THEOREM OneObjectPerId == LockSpec => []ObjectServesOneId
  <1>1. LockInv => ObjectServesOneId
    BY DEF LockInv, Remembers, Serves, ObjectServesOneId
  <1> QED
    BY LockInductive, <1>1, PTL

-----------------------------------------------------------------------------
(* Receiving messages.                                                       *)

\* The message the object is at, and where it begins.
Coming == Len(got) + 1
Begin  == IF Coming \in DOMAIN stream THEN stream[Coming].at ELSE Sent

Sending == [at : Nat, len : DataLen, good : BOOLEAN]
Taking  == [from : Nat, to : Nat]

NumbersOK ==
  /\ read \in Nat /\ headLen \in Nat /\ needLen \in Nat /\ dataLen \in Nat /\ dataFrom \in Nat
  /\ rxAt \in {"closed", "idle", "input", "failed"}

\* The peer sends message behind message.
StreamOK ==
  /\ stream \in Seq(Sending)
  /\ \A k \in 1 .. Len(stream) - 1 : stream[k + 1].at = stream[k].at + HeadLen + stream[k].len

GotOK ==
  /\ got \in Seq(Taking)
  /\ Len(got) <= Len(stream)
  /\ ReceivedWhole

\* What is read beyond the messages handed over is in the object: a part of the
\* next header, or the header and a part of the data it announces.
HeldOK ==
  /\ read <= Sent
  /\ read = Begin + headLen + dataLen
  /\ \/ headLen < HeadLen /\ dataLen = 0
     \/ /\ headLen = HeadLen
        /\ Coming \in DOMAIN stream /\ stream[Coming].good
        /\ needLen = stream[Coming].len
        /\ dataFrom = stream[Coming].at + HeadLen
        /\ dataLen <= needLen

RecvInv == NumbersOK /\ StreamOK /\ GotOK /\ (rxAt \in {"idle", "input"} => HeldOK)

LEMMA SentType ==
  ASSUME StreamOK
  PROVE  /\ Sent \in Nat
         /\ \A k \in DOMAIN stream : stream[k].at \in Nat /\ stream[k].len \in Nat
         /\ Len(stream) \in Nat /\ DOMAIN stream = 1 .. Len(stream)
  <1>1. /\ stream \in Seq(Sending) /\ Len(stream) \in Nat /\ DOMAIN stream = 1 .. Len(stream)
        /\ \A k \in 1 .. Len(stream) : stream[k] \in Sending
    BY DEF StreamOK
  <1>2. \A k \in DOMAIN stream : stream[k].at \in Nat /\ stream[k].len \in Nat
    BY <1>1, RecvAssumption DEF Sending
  <1>3. CASE stream = <<>>
    BY <1>1, <1>2, <1>3 DEF Sent
  <1>4. CASE stream # <<>>
    <2>1. Len(stream) \in DOMAIN stream
      BY <1>1, <1>4
    <2> QED BY <2>1, <1>1, <1>2, <1>4, RecvAssumption DEF Sent
  <1> QED BY <1>3, <1>4

LEMMA RecvInvInit == ASSUME RecvInit PROVE RecvInv
  BY RecvAssumption DEF RecvInit, RecvInv, NumbersOK, StreamOK, GotOK, ReceivedWhole, HeldOK

\* Nothing the invariant speaks of changes but where handle_input is, and maybe
\* numbers of a connection that is over.
LEMMA StepOver ==
  ASSUME RecvInv, UNCHANGED <<stream, got, read, needLen, dataFrom, headLen, dataLen>>,
         rxAt' \in {"closed", "idle", "input", "failed"},
         rxAt' \in {"idle", "input"} => rxAt \in {"idle", "input"}
  PROVE  RecvInv'
  BY DEF RecvInv, NumbersOK, StreamOK, GotOK, ReceivedWhole, HeldOK, Begin, Coming, Sent

\* A message more, behind the others: what was said of those stands.
LEMMA PeerSendsInv ==
  ASSUME RecvInv, NEW n \in DataLen, NEW good \in BOOLEAN, PeerSends(n, good)
  PROVE  RecvInv'
  <1> DEFINE m == [at |-> Sent, len |-> n, good |-> good]
  <1>1. /\ Sent \in Nat /\ m \in Sending /\ n \in Nat /\ HeadLen \in Nat
        /\ Len(stream) \in Nat /\ DOMAIN stream = 1 .. Len(stream)
    BY SentType, RecvAssumption DEF RecvInv, Sending
  <1>2. /\ stream' \in Seq(Sending) /\ Len(stream') = Len(stream) + 1
        /\ DOMAIN stream' = 1 .. Len(stream) + 1
        /\ \A k \in 1 .. Len(stream) : stream'[k] = stream[k]
        /\ stream'[Len(stream) + 1] = m
    BY <1>1 DEF RecvInv, StreamOK, PeerSends
  <1>3. UNCHANGED <<read, rxAt, headLen, needLen, dataLen, dataFrom, got>>
    BY DEF PeerSends, buffer
  <1>4. StreamOK'
    <2> SUFFICES ASSUME NEW k \in 1 .. Len(stream)
                 PROVE  stream'[k + 1].at = stream'[k].at + HeadLen + stream'[k].len
      BY <1>1, <1>2 DEF StreamOK
    <2>1. CASE k = Len(stream)
      BY <2>1, <1>1, <1>2 DEF Sent
    <2>2. CASE k < Len(stream)
      BY <2>2, <1>1, <1>2 DEF RecvInv, StreamOK
    <2>3. k = Len(stream) \/ k < Len(stream)
      <3>1. Len(stream) \in Nat
        BY <1>1
      <3> QED BY <3>1
    <2> QED BY <2>1, <2>2, <2>3
  <1>5. GotOK'
    BY <1>1, <1>2, <1>3 DEF RecvInv, GotOK, ReceivedWhole
  <1>6. Sent' = Sent + HeadLen + n /\ Begin' = Begin
    <2>1. Sent' = m.at + HeadLen + m.len
      BY <1>1, <1>2 DEF Sent
    <2>2. Coming' = Coming /\ Coming \in 1 .. Len(stream) + 1
      BY <1>1, <1>3 DEF Coming, RecvInv, GotOK
    <2> QED BY <2>1, <2>2, <1>1, <1>2 DEF Begin
  <1>7. HeldOK => HeldOK'
    BY <1>1, <1>2, <1>3, <1>6 DEF HeldOK, Coming, RecvInv, NumbersOK
  <1> QED BY <1>3, <1>4, <1>5, <1>7 DEF RecvInv, NumbersOK

\* In handle_input the object holds a part of one message.
LEMMA InputHolds ==
  ASSUME RecvInv, rxAt = "input"
  PROVE  /\ HeldOK /\ NumbersOK /\ StreamOK /\ GotOK /\ HeadLen \in Nat \ {0}
         /\ Sent \in Nat /\ Len(stream) \in Nat /\ DOMAIN stream = 1 .. Len(stream)
         /\ Begin \in Nat /\ Coming \in 1 .. Len(stream) + 1
         /\ \A k \in DOMAIN stream : stream[k].at \in Nat /\ stream[k].len \in Nat
  BY SentType, RecvAssumption DEF RecvInv, Begin, Coming, GotOK

\* Bytes of a header; with the last of them the header is read, at the place where
\* the message begins.
LEMMA RecvHeadInv ==
  ASSUME RecvInv, NEW n \in Nat, RecvHead(n)
  PROVE  RecvInv'
  <1>1. rxAt = "input" /\ headLen < HeadLen /\ n \in 1 .. Left /\ headLen + n <= HeadLen
    BY DEF RecvHead, InHead
  <1>2. /\ HeldOK /\ NumbersOK /\ StreamOK /\ GotOK /\ HeadLen \in Nat \ {0}
        /\ Sent \in Nat /\ Len(stream) \in Nat /\ DOMAIN stream = 1 .. Len(stream)
        /\ Begin \in Nat /\ Coming \in 1 .. Len(stream) + 1
        /\ \A k \in DOMAIN stream : stream[k].at \in Nat /\ stream[k].len \in Nat
    BY <1>1, InputHolds
  <1>3. UNCHANGED <<stream, got, dataLen>> /\ read' = read + n /\ headLen' = headLen + n
    BY DEF RecvHead, wire
  <1>4. StreamOK' /\ GotOK' /\ Begin' = Begin /\ Sent' = Sent /\ Coming' = Coming
    BY <1>2, <1>3 DEF StreamOK, GotOK, ReceivedWhole, Begin, Sent, Coming
  <1>5. /\ dataLen = 0 /\ read = Begin + headLen /\ read' <= Sent
        /\ read' = Begin + headLen' + dataLen' /\ dataLen' = 0
        /\ read \in Nat /\ headLen \in Nat /\ read' \in Nat /\ headLen' \in Nat
    <2>1. read \in Nat /\ headLen \in Nat /\ dataLen \in Nat
      BY <1>2 DEF NumbersOK
    <2>2. dataLen = 0 /\ read = Begin + headLen + dataLen
      BY <1>1, <1>2 DEF HeldOK
    <2>3. n \in Nat /\ n <= Sent - read
      BY <1>1, <1>2, <2>1 DEF Left
    <2> QED BY <2>1, <2>2, <2>3, <1>2, <1>3
  <1>6. CASE headLen + n < HeadLen
    <2>1. rxAt' = "idle" /\ UNCHANGED <<needLen, dataFrom>>
      BY <1>6 DEF RecvHead
    <2> QED BY <2>1, <1>6, <1>2, <1>3, <1>4, <1>5 DEF RecvInv, NumbersOK, HeldOK
  <1>7. CASE headLen + n = HeadLen
    <2>1. /\ Coming \in DOMAIN stream /\ Begin = stream[Coming].at
          /\ read + n - HeadLen = Begin
      <3>1. read + n - HeadLen = Begin /\ n \in Nat \ {0} /\ read + n <= Sent
        BY <1>1, <1>2, <1>3, <1>5, <1>7
      <3>2. Begin # Sent
        BY <3>1, <1>1, <1>2, <1>5, <1>7
      <3> QED BY <3>1, <3>2 DEF Begin
    <2>2. CASE /\ needLen' \in {d \in DataLen : Says(read + n - HeadLen, d)}
               /\ dataFrom' = read + n /\ rxAt' = rxAt
      <3>1. stream[Coming].good /\ needLen' = stream[Coming].len
        BY <2>1, <2>2 DEF Says
      <3>2. dataFrom' = stream[Coming].at + HeadLen
        BY <2>1, <2>2, <1>2, <1>5, <1>7
      <3>3. headLen' = HeadLen /\ needLen' \in Nat /\ dataFrom' \in Nat
        BY <3>1, <3>2, <2>1, <1>2, <1>3, <1>7
      <3>4. HeldOK'
        <4>1. /\ read' <= Sent' /\ read' = Begin' + headLen' + dataLen'
              /\ Coming' \in DOMAIN stream' /\ stream' = stream
              /\ dataLen' <= needLen'
          BY <3>3, <2>1, <1>3, <1>4, <1>5
        <4> QED BY <4>1, <3>1, <3>2, <3>3, <1>3, <1>4 DEF HeldOK
      <3> QED BY <3>3, <3>4, <2>2, <1>1, <1>3, <1>4, <1>5 DEF RecvInv, NumbersOK
    <2>3. CASE rxAt' = "failed" /\ UNCHANGED <<needLen, dataFrom>>
      BY <2>3, <1>2, <1>3, <1>4, <1>5 DEF RecvInv, NumbersOK
    <2> QED BY <2>2, <2>3, <1>7, <1>2 DEF RecvHead
  <1> QED BY <1>1, <1>2, <1>5, <1>6, <1>7

\* Bytes of the data.
LEMMA RecvDataInv ==
  ASSUME RecvInv, NEW n \in Nat, RecvData(n)
  PROVE  RecvInv'
  <1>1. rxAt = "input" /\ headLen = HeadLen /\ n \in 1 .. Left /\ dataLen + n <= needLen
    BY DEF RecvData, InData
  <1>2. /\ HeldOK /\ NumbersOK /\ StreamOK /\ GotOK /\ HeadLen \in Nat \ {0}
        /\ Sent \in Nat /\ Len(stream) \in Nat /\ DOMAIN stream = 1 .. Len(stream)
        /\ Begin \in Nat /\ Coming \in 1 .. Len(stream) + 1
        /\ \A k \in DOMAIN stream : stream[k].at \in Nat /\ stream[k].len \in Nat
    BY <1>1, InputHolds
  <1>3. /\ UNCHANGED <<stream, got, headLen, needLen, dataFrom>>
        /\ read' = read + n /\ dataLen' = dataLen + n /\ rxAt' \in {"idle", "input"}
    BY <1>1 DEF RecvData, wire
  <1>4. StreamOK' /\ GotOK' /\ Begin' = Begin /\ Sent' = Sent /\ Coming' = Coming
    BY <1>2, <1>3 DEF StreamOK, GotOK, ReceivedWhole, Begin, Sent, Coming
  <1>5. HeldOK'
    <2>1. /\ dataLen' <= needLen' /\ headLen' = HeadLen
          /\ Coming \in DOMAIN stream /\ stream[Coming].good /\ needLen = stream[Coming].len
          /\ dataFrom = stream[Coming].at + HeadLen
      BY <1>1, <1>2, <1>3 DEF HeldOK
    <2>2. read' <= Sent /\ read' = Begin + headLen' + dataLen'
      BY <1>1, <1>2, <1>3 DEF HeldOK, NumbersOK, Left
    <2> QED BY <2>1, <2>2, <1>3, <1>4 DEF HeldOK
  <1> QED BY <1>2, <1>3, <1>4, <1>5 DEF RecvInv, NumbersOK

\* The message is handed over, and the next begins where it ends.
LEMMA RecvMessageInv ==
  ASSUME RecvInv, RecvMessage
  PROVE  RecvInv'
  <1>1. rxAt = "input" /\ headLen = HeadLen /\ dataLen = needLen
    BY DEF RecvMessage, InData
  <1>2. /\ HeldOK /\ NumbersOK /\ StreamOK /\ GotOK /\ HeadLen \in Nat \ {0}
        /\ Sent \in Nat /\ Len(stream) \in Nat /\ DOMAIN stream = 1 .. Len(stream)
        /\ Begin \in Nat /\ Coming \in 1 .. Len(stream) + 1
        /\ \A k \in DOMAIN stream : stream[k].at \in Nat /\ stream[k].len \in Nat
    BY <1>1, InputHolds
  <1> DEFINE e == [from |-> dataFrom, to |-> dataFrom + dataLen]
  <1>3. /\ UNCHANGED <<stream, read, needLen, dataFrom>> /\ got' = Append(got, e)
        /\ rxAt' \in {"input", "idle", "failed"} /\ headLen' \in Nat /\ dataLen' \in Nat
        /\ rxAt' # "failed" => headLen' = 0 /\ dataLen' = 0
    BY <1>2 DEF RecvMessage, Taken, wire, NumbersOK
  <1>4. /\ Coming \in DOMAIN stream /\ stream[Coming].good /\ needLen = stream[Coming].len
        /\ dataFrom = stream[Coming].at + HeadLen /\ dataLen = needLen
        /\ read = stream[Coming].at + HeadLen + stream[Coming].len /\ read <= Sent
    BY <1>1, <1>2 DEF HeldOK, NumbersOK, Begin
  <1>5. /\ e \in Taking /\ Len(got) \in Nat /\ Coming = Len(got) + 1
        /\ got \in Seq(Taking)
    BY <1>2 DEF NumbersOK, Taking, GotOK, Coming
  <1>6. /\ got' \in Seq(Taking) /\ Len(got') = Coming
        /\ \A k \in 1 .. Len(got) : got'[k] = got[k]
        /\ got'[Coming] = e /\ DOMAIN got' = 1 .. Coming /\ DOMAIN got = 1 .. Len(got)
    BY <1>3, <1>5
  <1>7. GotOK'
    <2>1. Len(got') <= Len(stream')
      BY <1>2, <1>3, <1>4, <1>6
    <2>2. ASSUME NEW k \in 1 .. Coming
          PROVE  stream[k].good /\ got'[k] = [from |-> stream[k].at + HeadLen,
                                             to |-> stream[k].at + HeadLen + stream[k].len]
      <3>1. CASE k = Coming
        BY <3>1, <1>4, <1>6
      <3>2. CASE k # Coming
        BY <3>2, <1>2, <1>5, <1>6 DEF GotOK, ReceivedWhole
      <3> QED BY <3>1, <3>2
    <2> QED BY <2>1, <2>2, <1>3, <1>6 DEF GotOK, ReceivedWhole
  <1>8. Begin' = read /\ Sent' = Sent
    <2>1. Sent' = Sent /\ Coming' = Coming + 1 /\ Coming \in Nat
      BY <1>2, <1>3, <1>6 DEF Sent, Coming
    <2>2. CASE Coming = Len(stream)
      BY <2>1, <2>2, <1>2, <1>3, <1>4 DEF Begin, Sent
    <2>3. CASE Coming < Len(stream)
      <3>1. stream[Coming + 1].at = stream[Coming].at + HeadLen + stream[Coming].len
        BY <2>1, <2>3, <1>2, <1>4 DEF StreamOK
      <3>2. Begin' = stream[Coming + 1].at
        BY <2>1, <2>3, <1>2, <1>3, <1>4 DEF Begin
      <3> QED BY <3>1, <3>2, <2>1, <1>4
    <2> QED BY <2>1, <2>2, <2>3, <1>2, <1>4
  <1>9. ASSUME rxAt' # "failed" PROVE HeldOK'
    BY <1>9, <1>2, <1>3, <1>4, <1>8 DEF HeldOK, NumbersOK
  <1> QED BY <1>2, <1>3, <1>7, <1>9 DEF RecvInv, NumbersOK, StreamOK

\* Nothing of the last connection is left: clear().
LEMMA OpenConnInv ==
  ASSUME RecvInv, OpenConn
  PROVE  RecvInv'
  BY RecvAssumption
  DEF RecvInv, OpenConn, RxClear, NumbersOK, StreamOK, GotOK, ReceivedWhole, HeldOK, Begin,
      Coming, Sent

LEMMA RecvInvNext == ASSUME RecvInv, [RecvNext]_rxVars PROVE RecvInv'
  <1>1. ASSUME NEW n \in DataLen, NEW good \in BOOLEAN, PeerSends(n, good) PROVE RecvInv'
    BY <1>1, PeerSendsInv
  <1>2. ASSUME NEW n \in 1 .. HeadLen + 1, RecvHead(n) \/ RecvData(n) PROVE RecvInv'
    BY <1>2, RecvHeadInv, RecvDataInv
  <1>3. CASE RecvMessage
    BY <1>3, RecvMessageInv
  <1>4. CASE OpenConn
    BY <1>4, OpenConnInv
  <1>5. CASE PeerCloses \/ UNCHANGED rxVars
    BY <1>5, StepOver DEF PeerCloses, rxVars, wire, buffer, RecvInv, NumbersOK
  <1>6. CASE InputStarts \/ RecvNothing \/ RecvFails \/ CloseConn
    BY <1>6, StepOver
    DEF InputStarts, RecvNothing, RecvFails, CloseConn, InHead, InData, wire, buffer
  <1> QED BY <1>1, <1>2, <1>3, <1>4, <1>5, <1>6 DEF RecvNext

\* At every moment the object holds the part of one message that was read beyond
\* those handed over: what m_uiRecvHeadLen and m_uiRecvDataLen of handle_input
\* count, and nothing of an earlier message or connection.
THEOREM RecvInductive == RecvSpec => []RecvInv
  <1> QED BY RecvInvInit, RecvInvNext, PTL DEF RecvSpec

\* ReceivedWhole: whatever pieces handle_input reads the stream in, recvMessage gets
\* the messages of the connection in turn, each with its own bytes and all of them.
THEOREM MessagesAreReceivedWhole == RecvSpec => []ReceivedWhole
  <1>1. RecvInv => ReceivedWhole
    BY DEF RecvInv, GotOK
  <1> QED BY <1>1, RecvInductive, PTL

-----------------------------------------------------------------------------
(* Following links.                                                          *)

\* A set of numbers has a least one.
LEMMA Least ==
  ASSUME NEW S, S \subseteq Nat, S # {}
  PROVE  \E n \in S : \A m \in S : n <= m
  <1> DEFINE R == OpToRel(<, Nat)
  <1>1. IsWellFoundedOn(R, Nat)
    BY NatLessThanWellFounded
  <1>2. \E n \in S : \A m \in S : ~(<<m, n>> \in R)
    <2> HIDE DEF R
    <2> QED BY <1>1, WFMin
  <1>3. ASSUME NEW m \in S, NEW n \in S, ~(<<m, n>> \in R) PROVE n <= m
    BY <1>3 DEF OpToRel
  <1> QED BY <1>2, <1>3

\* The chain s, followed from first.
Links(s, first, link) ==
  /\ first = IF s = <<>> THEN Null ELSE s[1]
  /\ \A k \in DOMAIN s : link[s[k]] = IF k = Len(s) THEN Null ELSE s[k + 1]

\* Nobody is twice in the chain.
Chained(s) == s \in Seq(Task) /\ \A i, j \in DOMAIN s : s[i] = s[j] => i = j

\* What Met's function is.
Follows(f, first, link) ==
  f = [k \in Nat |-> IF k = 0 THEN first ELSE IF f[k - 1] = Null THEN Null ELSE link[f[k - 1]]]

\* The task met k-th is the k-th of the chain.
LEMMA MetInChain ==
  ASSUME NEW s \in Seq(Task), NEW first, NEW link, Links(s, first, link)
  PROVE  \A k \in Nat : Met(first, link)[k] = IF k < Len(s) THEN s[k + 1] ELSE Null
  <1> DEFINE g == [k \in Nat |-> IF k < Len(s) THEN s[k + 1] ELSE Null]
  <1>1. Len(s) \in Nat /\ DOMAIN s = 1 .. Len(s) /\ \A k \in 1 .. Len(s) : s[k] \in Task
    OBVIOUS
  <1>2. Follows(g, first, link)
    <2> SUFFICES ASSUME NEW k \in Nat
                 PROVE  g[k] = IF k = 0 THEN first
                               ELSE IF g[k - 1] = Null THEN Null ELSE link[g[k - 1]]
      BY DEF Follows
    <2>1. CASE k = 0
      BY <2>1, <1>1 DEF Links
    <2>2. CASE k # 0 /\ k - 1 < Len(s)
      <3>1. g[k - 1] = s[k] /\ s[k] # Null /\ k \in DOMAIN s /\ k - 1 \in Nat
        BY <2>2, <1>1, NullAssumption
      <3>2. link[s[k]] = g[k]
        BY <3>1, <1>1 DEF Links
      <3> QED BY <3>1, <3>2, <2>2
    <2>3. CASE k # 0 /\ ~(k - 1 < Len(s))
      BY <2>3, <1>1
    <2> QED BY <2>1, <2>2, <2>3
  <1>3. Met(first, link) = CHOOSE f : Follows(f, first, link)
    BY DEF Met, Follows
  <1> DEFINE m == Met(first, link)
  <1>4. Follows(m, first, link)
    <2> HIDE DEF g
    <2>1. \E f : Follows(f, first, link)
      BY <1>2
    <2> QED BY <2>1, <1>3
  <1> HIDE DEF m
  <1> DEFINE Bad == {k \in Nat : m[k] # g[k]}
  <1>5. Bad = {}
    <2> SUFFICES ASSUME Bad # {} PROVE FALSE
      OBVIOUS
    <2>1. PICK n \in Bad : \A k \in Bad : n <= k
      <3> HIDE DEF g
      <3>1. Bad \subseteq Nat
        OBVIOUS
      <3> HIDE DEF Bad
      <3> QED BY <3>1, Least
    <2>2. n \in Nat /\ m[n] # g[n] /\ \A k \in Nat : k < n => m[k] = g[k]
      BY <2>1
    <2> HIDE DEF g, Bad
    <2>3. CASE n = 0
      BY <2>2, <2>3, <1>2, <1>4 DEF Follows
    <2>4. CASE n # 0
      <3>1. n - 1 \in Nat /\ m[n - 1] = g[n - 1]
        BY <2>2, <2>4
      <3>2. m[n] = (IF m[n - 1] = Null THEN Null ELSE link[m[n - 1]])
        BY <2>2, <2>4, <1>4 DEF Follows
      <3>3. g[n] = (IF g[n - 1] = Null THEN Null ELSE link[g[n - 1]])
        BY <2>2, <2>4, <1>2 DEF Follows
      <3> QED BY <3>1, <3>2, <3>3, <2>2
    <2> QED BY <2>3, <2>4
  <1>6. \A k \in Nat : m[k] = g[k]
    BY <1>5
  <1> QED BY <1>6, <1>1 DEF m

\* A chain without repetitions is not longer than there are tasks.
LEMMA ChainIsShort ==
  ASSUME NEW s, Chained(s)
  PROVE  Len(s) <= Cardinality(Task) /\ Cardinality(Task) \in Nat
  <1>1. s \in [1 .. Len(s) -> Task] /\ Len(s) \in Nat
    BY DEF Chained
  <1>2. s \in Injection(1 .. Len(s), Task)
    BY <1>1 DEF Chained, Injection, IsInjective
  <1>3. Cardinality(1 .. Len(s)) = Len(s)
    <2>1. \A n \in Nat : Cardinality(1 .. n) = n
      BY FS_Interval
    <2> QED BY <2>1, <1>1
  <1>4. IsFiniteSet(Task) /\ Cardinality(Task) \in Nat
    BY NullAssumption, FS_CardinalityType
  <1> QED BY <1>2, <1>3, <1>4, FS_Injection

\* The walk along the links is the chain.
LEMMA WalkIsChain ==
  ASSUME NEW s, Chained(s), NEW first, NEW link, Links(s, first, link)
  PROVE  Walk(Met(first, link)) = s
  <1> DEFINE m == Met(first, link)
             Stops(k) == /\ k = Cardinality(Task) + 1 \/ m[k] = Null
                        /\ \A j \in 0 .. k - 1 : m[j] # Null
             n == CHOOSE k \in 0 .. Cardinality(Task) + 1 : Stops(k)
  <1>1. /\ Len(s) \in Nat /\ Len(s) <= Cardinality(Task) /\ Cardinality(Task) \in Nat
        /\ s \in Seq(Task) /\ \A k \in 1 .. Len(s) : s[k] \in Task /\ s[k] # Null
    BY ChainIsShort, NullAssumption DEF Chained
  <1>2. \A k \in Nat : m[k] = IF k < Len(s) THEN s[k + 1] ELSE Null
    BY <1>1, MetInChain
  <1> HIDE DEF m
  <1>3. Len(s) \in 0 .. Cardinality(Task) + 1 /\ Stops(Len(s))
    BY <1>1, <1>2
  <1>4. ASSUME NEW k \in 0 .. Cardinality(Task) + 1, Stops(k) PROVE k = Len(s)
    <2>1. CASE k < Len(s)
      <3>1. m[k] = s[k + 1] /\ k + 1 \in 1 .. Len(s)
        BY <2>1, <1>1, <1>2
      <3> QED BY <3>1, <2>1, <1>1, <1>4
    <2>2. CASE k > Len(s)
      <3>1. Len(s) \in 0 .. k - 1 /\ m[Len(s)] = Null
        BY <2>2, <1>1, <1>2
      <3> QED BY <3>1, <1>4
    <2> QED BY <2>1, <2>2, <1>1
  <1>5. n = Len(s)
    <2>1. Stops(n) /\ n \in 0 .. Cardinality(Task) + 1
      <3> HIDE DEF Stops
      <3> QED BY <1>3, Zenon
    <2> HIDE DEF n, Stops
    <2> QED BY <2>1, <1>4
  <1>6. Walk(m) = [k \in 1 .. n |-> m[k - 1]]
    BY DEF Walk
  <1> HIDE DEF n
  <1>7. [k \in 1 .. Len(s) |-> m[k - 1]] = s
    <2>1. ASSUME NEW k \in 1 .. Len(s) PROVE m[k - 1] = s[k]
      <3>1. k - 1 \in Nat /\ k - 1 < Len(s) /\ k - 1 + 1 = k
        BY <1>1
      <3> QED BY <3>1, <1>2
    <2>2. s = [k \in 1 .. Len(s) |-> s[k]]
      BY <1>1
    <2> QED BY <2>1, <2>2
  <1> QED BY <1>5, <1>6, <1>7 DEF m

-----------------------------------------------------------------------------
(* The board's index.                                                        *)

\* The tasks of a chain.
Members(s) == {s[k] : k \in DOMAIN s}

\* The chain read from the tail.
BackLinks(s) ==
  /\ tail = IF s = <<>> THEN Null ELSE s[Len(s)]
  /\ \A k \in DOMAIN s : prev[s[k]] = IF k = 1 THEN Null ELSE s[k - 1]

\* The pointers are those of the chain s, and the map holds its tasks.
ListOK(s) ==
  /\ Chained(s) /\ Links(s, head, next) /\ BackLinks(s)
  /\ \A t \in Task : (\E i \in Ids : taskMap[i] = t) <=> t \in Members(s)

OwnIds == \A i \in Ids : IsExist(i) => taskId[taskMap[i]] = i

IndexInv == IndexTypeOK /\ OwnIds /\ \E s : ListOK(s)

LEMMA ReversedChain ==
  ASSUME NEW s, Chained(s), NEW last, NEW link,
         last = IF s = <<>> THEN Null ELSE s[Len(s)],
         \A k \in DOMAIN s : link[s[k]] = IF k = 1 THEN Null ELSE s[k - 1]
  PROVE  Chained(Reversed(s)) /\ Links(Reversed(s), last, link)
  <1> DEFINE r == Reversed(s)
  <1>1. /\ Len(s) \in Nat /\ DOMAIN s = 1 .. Len(s) /\ \A k \in 1 .. Len(s) : s[k] \in Task
        /\ s = <<>> <=> Len(s) = 0
    BY DEF Chained
  <1>2. r = [k \in 1 .. Len(s) |-> s[Len(s) + 1 - k]]
    BY <1>1 DEF Reversed
  <1>3. \A k \in 1 .. Len(s) : Len(s) + 1 - k \in 1 .. Len(s)
    BY <1>1
  <1> HIDE DEF r
  <1>4. r \in Seq(Task) /\ Len(r) = Len(s) /\ DOMAIN r = 1 .. Len(s)
    BY <1>1, <1>2, <1>3
  <1>5. Chained(r)
    <2> SUFFICES ASSUME NEW i \in 1 .. Len(s), NEW j \in 1 .. Len(s), r[i] = r[j] PROVE i = j
      BY <1>4 DEF Chained
    <2>1. Len(s) + 1 - i = Len(s) + 1 - j
      BY <1>1, <1>2, <1>3 DEF Chained
    <2> QED BY <2>1, <1>1
  <1>6. last = IF r = <<>> THEN Null ELSE r[1]
    BY <1>1, <1>2, <1>4
  <1>7. ASSUME NEW k \in 1 .. Len(s)
        PROVE  link[r[k]] = IF k = Len(s) THEN Null ELSE r[k + 1]
    <2> DEFINE j == Len(s) + 1 - k
    <2>1. r[k] = s[j] /\ j \in 1 .. Len(s)
      BY <1>1, <1>2, <1>3
    <2>2. CASE k = Len(s)
      <3>1. j = 1
        BY <2>2, <1>1
      <3> QED BY <3>1, <2>1, <2>2, <1>1
    <2>3. CASE k # Len(s)
      <3>1. j # 1 /\ k + 1 \in 1 .. Len(s) /\ Len(s) + 1 - (k + 1) = j - 1
        <4>1. Len(s) \in Nat /\ k \in Nat /\ 1 <= k /\ k <= Len(s)
          BY <1>1
        <4> QED BY <4>1, <2>3
      <3>2. r[k + 1] = s[j - 1]
        <4>1. r[k + 1] = s[Len(s) + 1 - (k + 1)]
          BY <3>1, <1>2
        <4> QED BY <4>1, <3>1
      <3> QED BY <3>1, <3>2, <2>1, <2>3, <1>1
    <2> QED BY <2>2, <2>3
  <1> QED BY <1>4, <1>5, <1>6, <1>7 DEF r, Links

\* Both walks meet the chain.
LEMMA WalksMeetChain ==
  ASSUME NEW s, ListOK(s)
  PROVE  Walk(FromHead) = s /\ Walk(FromTail) = Reversed(s)
  <1>1. Walk(FromHead) = s
    BY WalkIsChain DEF ListOK, FromHead
  <1>2. Chained(Reversed(s)) /\ Links(Reversed(s), tail, prev)
    BY ReversedChain DEF ListOK, BackLinks
  <1>3. Walk(FromTail) = Reversed(s)
    BY <1>2, WalkIsChain DEF FromTail
  <1> QED BY <1>1, <1>3

LEMMA IndexInvImplies == ASSUME IndexInv PROVE IndexAgrees
  <1>1. PICK s : ListOK(s)
    BY DEF IndexInv
  <1>2. Walk(FromHead) = s /\ Walk(FromTail) = Reversed(s)
    BY <1>1, WalksMeetChain
  <1>3. {taskMap[i] : i \in Ids} \ {Null} = Members(s)
    <2>1. Members(s) \subseteq Task
      BY <1>1 DEF ListOK, Chained, Members
    <2> QED BY <2>1, <1>1, NullAssumption DEF ListOK, IndexInv, IndexTypeOK
  <1> QED BY <1>2, <1>3 DEF IndexAgrees, BothWays, MapIsChain, Members, IndexInv, OwnIds

LEMMA IndexInvInit == ASSUME IndexInit PROVE IndexInv
  <1>1. IndexTypeOK
    BY IdWidthAssumption, NullAssumption, FS_CardinalityType DEF IndexInit, IndexTypeOK, Ids
  <1>2. OwnIds
    BY DEF OwnIds, IndexInit, IsExist
  <1>3. ListOK(<<>>)
    BY NullAssumption DEF ListOK, Chained, Links, BackLinks, Members, IndexInit
  <1> QED BY <1>1, <1>2, <1>3 DEF IndexInv

-----------------------------------------------------------------------------
(* Ids.                                                                      *)

LEMMA AheadIsId ==
  ASSUME NEW i \in Ids, NEW k \in Nat
  PROVE  Ahead(i, k) \in Ids
  <1>1. IdWidth \in Nat \ {0} /\ i + k \in Nat
    BY IdWidthAssumption, NullAssumption, FS_CardinalityType DEF Ids
  <1> QED BY <1>1 DEF Ahead, Ids

\* Counting on from i every id comes round.
LEMMA EveryIdAhead ==
  ASSUME NEW i \in Ids, NEW j \in Ids
  PROVE  \E k \in Ids : Ahead(i, k) = j
  <1>1. IdWidth \in Nat \ {0} /\ i \in Nat /\ j \in Nat /\ i < IdWidth /\ j < IdWidth
    BY IdWidthAssumption, NullAssumption, FS_CardinalityType DEF Ids
  <1>2. CASE i <= j
    <2>1. j - i \in Ids /\ i + (j - i) = j
      BY <1>1, <1>2 DEF Ids
    <2>2. j % IdWidth = j
      BY <1>1
    <2> QED BY <2>1, <2>2 DEF Ahead
  <1>3. CASE j < i
    <2>1. j - i + IdWidth \in Ids /\ i + (j - i + IdWidth) = j + IdWidth
      BY <1>1, <1>3 DEF Ids
    <2>2. (j + IdWidth) % IdWidth = j
      BY <1>1
    <2> QED BY <2>1, <2>2 DEF Ahead
  <1> QED BY <1>1, <1>2, <1>3

\* The tasks do not use up the ids.
LEMMA SomeIdIsFree ==
  ASSUME IndexInv
  PROVE  \E i \in Ids : FreeId(i)
  <1> DEFINE used == 1 .. IdWidth - 1
             f == [i \in used |-> taskMap[i]]
  <1>1. /\ IdWidth \in Nat /\ Cardinality(Task) \in Nat /\ IdWidth - 1 > Cardinality(Task)
        /\ IsFiniteSet(Task)
    BY IdWidthAssumption, NullAssumption, FS_CardinalityType
  <1>2. SUFFICES ASSUME \A i \in Ids : ~FreeId(i) PROVE FALSE
    OBVIOUS
  <1>3. \A i \in used : i \in Ids /\ IsExist(i)
    BY <1>1, <1>2 DEF Ids, FreeId
  <1>4. f \in [used -> Task]
    BY <1>3 DEF IsExist, IndexInv, IndexTypeOK
  <1>5. \A i, j \in used : f[i] = f[j] => i = j
    BY <1>3 DEF IndexInv, OwnIds
  <1>6. f \in Injection(used, Task)
    <2> HIDE DEF f
    <2> QED BY <1>4, <1>5 DEF Injection, IsInjective
  <1>7. Cardinality(used) = IdWidth - 1
    <2>1. \A n \in Nat : Cardinality(1 .. n) = n
      BY FS_Interval
    <2> QED BY <2>1, <1>1
  <1>8. Cardinality(used) <= Cardinality(Task)
    <2> HIDE DEF f, used
    <2> QED BY <1>1, <1>6, FS_Injection
  <1> QED BY <1>1, <1>7, <1>8

\* How far the next free id is: what _getNextTaskId counts to.
Free(d) == FreeId(Ahead(nextId, d)) /\ \A j \in 0 .. d - 1 : ~FreeId(Ahead(nextId, j))

LEMMA NextFreeId ==
  ASSUME IndexInv
  PROVE  \E d \in Ids : Free(d)
  <1> DEFINE S == {k \in Ids : FreeId(Ahead(nextId, k))}
  <1>1. S \subseteq Nat
    BY DEF Ids
  <1>4. S # {}
    <2>1. PICK i \in Ids : FreeId(i)
      BY SomeIdIsFree
    <2>2. nextId \in Ids
      BY DEF IndexInv, IndexTypeOK
    <2>3. \E k \in Ids : Ahead(nextId, k) = i
      BY <2>1, <2>2, EveryIdAhead
    <2> QED BY <2>1, <2>3
  <1>2. PICK d \in S : \A k \in S : d <= k
    <2> HIDE DEF S
    <2> QED BY <1>1, <1>4, Least
  <1>3. \A j \in 0 .. d - 1 : j \in Ids /\ ~(d <= j)
    BY IdWidthAssumption, NullAssumption, FS_CardinalityType DEF Ids
  <1> QED BY <1>2, <1>3 DEF Free

LEMMA GetNextTaskIdInv ==
  ASSUME IndexInv, NEW t \in Task, GetNextTaskId(t)
  PROVE  IndexTypeOK' /\ OwnIds' /\ \A s : ListOK(s) => ListOK(s)'
  <1> DEFINE d == CHOOSE k \in Ids : Free(k)
  <1>1. d \in Ids
    BY NextFreeId
  <1>2. /\ taskId' = [taskId EXCEPT ![t] = Ahead(nextId, d)]
        /\ nextId' = Ahead(nextId, d + 1)
        /\ ~Linked(t) /\ UNCHANGED <<taskMap, head, tail, next, prev>>
    BY DEF GetNextTaskId, Free
  <1> HIDE DEF d
  <1>3. d \in Nat /\ d + 1 \in Nat /\ nextId \in Ids
    BY <1>1 DEF Ids, IndexInv, IndexTypeOK
  <1>4. Ahead(nextId, d) \in Ids /\ Ahead(nextId, d + 1) \in Ids
    BY <1>3, AheadIsId
  <1>5. IndexTypeOK'
    BY <1>2, <1>4 DEF IndexInv, IndexTypeOK
  <1>6. OwnIds'
    BY <1>2 DEF IndexInv, OwnIds, IsExist, Linked, IndexTypeOK
  <1>7. \A s : ListOK(s) => ListOK(s)'
    BY <1>2 DEF ListOK, BackLinks
  <1> QED BY <1>5, <1>6, <1>7

-----------------------------------------------------------------------------
(* Linking and unlinking.                                                    *)

\* The task becomes the first of the chain.
LEMMA AddTaskInv ==
  ASSUME IndexInv, NEW t \in Task, AddTask(t), NEW s, ListOK(s)
  PROVE  IndexTypeOK' /\ OwnIds' /\ t \notin Members(s) /\ ListOK(<<t>> \o s)'
  <1> DEFINE r == <<t>> \o s
             n == Len(s)
  <1>1. /\ s \in Seq(Task) /\ n \in Nat /\ DOMAIN s = 1 .. n
        /\ \A k \in 1 .. n : s[k] \in Task
        /\ \A i, j \in 1 .. n : s[i] = s[j] => i = j
        /\ (s = <<>>) <=> (n = 0)
    BY DEF ListOK, Chained
  <1>2. /\ IndexTypeOK /\ OwnIds /\ ~Linked(t) /\ ~IsExist(taskId[t]) /\ t # Null
        /\ taskId[t] \in Ids
    BY NullAssumption DEF IndexInv, AddTask, IndexTypeOK
  <1>3. /\ taskMap' = [taskMap EXCEPT ![taskId[t]] = t] /\ head' = t
        /\ next' = [next EXCEPT ![t] = head]
        /\ prev' = [x \in Task |-> IF x = t THEN Null ELSE IF x = head THEN t ELSE prev[x]]
        /\ tail' = IF tail = Null THEN t ELSE tail
        /\ UNCHANGED <<taskId, nextId>>
    BY DEF AddTask
  <1>4. IndexTypeOK'
    BY <1>2, <1>3 DEF IndexTypeOK
  <1>5. OwnIds'
    BY <1>2, <1>3 DEF OwnIds, IsExist, IndexTypeOK
  <1>6. t \notin Members(s)
    BY <1>2 DEF ListOK, Linked
  <1>7. \A k \in 1 .. n : s[k] # t
    BY <1>1, <1>6 DEF Members
  <1>8. /\ r \in Seq(Task) /\ Len(r) = n + 1 /\ DOMAIN r = 1 .. n + 1 /\ r[1] = t
        /\ \A k \in 2 .. n + 1 : r[k] = s[k - 1] /\ k - 1 \in 1 .. n
    BY <1>1
  <1> HIDE DEF r, n
  <1>9. Chained(r)
    <2> SUFFICES ASSUME NEW i \in 1 .. n + 1, NEW j \in 1 .. n + 1, r[i] = r[j]
                 PROVE  i = j
      BY <1>8 DEF Chained
    <2>1. CASE i = 1
      BY <2>1, <1>1, <1>7, <1>8
    <2>2. CASE j = 1
      BY <2>2, <1>1, <1>7, <1>8
    <2>3. CASE i # 1 /\ j # 1
      <3>1. i - 1 = j - 1
        BY <2>3, <1>1, <1>8
      <3> QED BY <3>1, <1>1
    <2> QED BY <2>1, <2>2, <2>3
  <1>10. /\ head = IF n = 0 THEN Null ELSE s[1]
         /\ tail = IF n = 0 THEN Null ELSE s[n]
         /\ \A k \in 1 .. n : /\ next[s[k]] = IF k = n THEN Null ELSE s[k + 1]
                              /\ prev[s[k]] = IF k = 1 THEN Null ELSE s[k - 1]
    BY <1>1 DEF ListOK, Links, BackLinks, n
  <1>11. Links(r, head', next')
    <2>1. head' = r[1] /\ r # <<>>
      BY <1>1, <1>3, <1>8
    <2>2. ASSUME NEW k \in 1 .. n + 1
          PROVE  next'[r[k]] = IF k = n + 1 THEN Null ELSE r[k + 1]
      <3>1. CASE k = 1
        <4>1. next'[t] = head
          BY <1>2, <1>3 DEF IndexTypeOK
        <4>2. n # 0 => 2 \in 2 .. n + 1 /\ 2 - 1 = 1
          BY <1>1
        <4> QED BY <3>1, <4>1, <4>2, <1>1, <1>8, <1>10
      <3>2. CASE k # 1
        <4>1. /\ k - 1 \in 1 .. n /\ r[k] = s[k - 1] /\ s[k - 1] # t /\ s[k - 1] \in Task
              /\ (k - 1 = n <=> k = n + 1) /\ k - 1 + 1 = k
          BY <3>2, <1>1, <1>7, <1>8
        <4>2. next'[r[k]] = next[s[k - 1]]
          BY <4>1, <1>2, <1>3 DEF IndexTypeOK
        <4>3. next[s[k - 1]] = IF k - 1 = n THEN Null ELSE s[k]
          BY <4>1, <1>10
        <4>4. k # n + 1 => r[k + 1] = s[k]
          BY <1>1, <1>8
        <4> QED BY <4>1, <4>2, <4>3, <4>4
      <3> QED BY <3>1, <3>2
    <2> QED BY <2>1, <2>2, <1>8 DEF Links
  <1>12. BackLinks(r)'
    <2>1. tail' = r[n + 1] /\ r # <<>>
      <3>1. n # 0 => tail # Null
        BY <1>1, <1>10, NullAssumption
      <3> QED BY <3>1, <1>1, <1>3, <1>8, <1>10
    <2>2. ASSUME NEW k \in 1 .. n + 1
          PROVE  prev'[r[k]] = IF k = 1 THEN Null ELSE r[k - 1]
      <3>1. CASE k = 1
        BY <3>1, <1>3, <1>8
      <3>2. CASE k = 2
        <4>1. r[2] = s[1] /\ 1 \in 1 .. n /\ head = s[1]
          BY <3>2, <1>1, <1>8, <1>10
        <4> QED BY <3>2, <4>1, <1>1, <1>3, <1>7, <1>8
      <3>3. CASE k # 1 /\ k # 2
        <4>1. /\ k - 1 \in 1 .. n /\ r[k] = s[k - 1] /\ s[k - 1] \in Task /\ k - 1 # 1
              /\ 1 \in 1 .. n
          BY <3>3, <1>1, <1>8
        <4>2. s[k - 1] # t /\ s[k - 1] # head
          BY <4>1, <1>1, <1>7, <1>10
        <4>3. prev'[r[k]] = prev[s[k - 1]]
          BY <4>1, <4>2, <1>3
        <4>4. r[k - 1] = s[k - 1 - 1]
          BY <3>3, <1>1, <1>8
        <4> QED BY <3>3, <4>1, <4>3, <4>4, <1>10
      <3> QED BY <3>1, <3>2, <3>3
    <2> QED BY <2>1, <2>2, <1>8 DEF BackLinks
  <1>13. ASSUME NEW u \in Task
         PROVE  (\E i \in Ids : taskMap'[i] = u) <=> u \in Members(r)
    <2>1. u \in Members(r) <=> u = t \/ u \in Members(s)
      <3>1. ASSUME NEW k \in 1 .. n PROVE k + 1 \in 1 .. n + 1 /\ r[k + 1] = s[k]
        BY <1>1, <1>8
      <3>2. t \in Members(r)
        <4>1. 1 \in DOMAIN r
          BY <1>1, <1>8
        <4> QED BY <4>1, <1>8 DEF Members
      <3>3. Members(s) \subseteq Members(r)
        <4> SUFFICES ASSUME NEW k \in 1 .. n PROVE s[k] \in Members(r)
          BY <1>1 DEF Members
        <4>1. k + 1 \in DOMAIN r /\ r[k + 1] = s[k]
          BY <3>1, <1>8
        <4> QED BY <4>1 DEF Members
      <3>4. ASSUME NEW k \in 1 .. n + 1 PROVE r[k] = t \/ r[k] \in Members(s)
        <4>1. CASE k = 1
          BY <4>1, <1>8
        <4>2. CASE k # 1
          <5>1. r[k] = s[k - 1] /\ k - 1 \in DOMAIN s
            BY <4>2, <1>1, <1>8
          <5> QED BY <5>1 DEF Members
        <4> QED BY <4>1, <4>2
      <3>5. Members(r) \subseteq {t} \cup Members(s)
        BY <3>4, <1>8 DEF Members
      <3> QED BY <3>2, <3>3, <3>5
    <2>2. (\E i \in Ids : taskMap'[i] = u) <=> u = t \/ \E i \in Ids : taskMap[i] = u
      <3>1. \A i \in Ids : taskMap'[i] = IF i = taskId[t] THEN t ELSE taskMap[i]
        BY <1>2, <1>3 DEF IndexTypeOK
      <3>2. taskMap[taskId[t]] # u
        BY <1>2, NullAssumption DEF IsExist
      <3> QED BY <3>1, <3>2, <1>2
    <2> QED BY <2>1, <2>2 DEF ListOK
  <1>14. ListOK(r)'
    BY <1>9, <1>11, <1>12, <1>13 DEF ListOK
  <1> QED BY <1>4, <1>5, <1>6, <1>14 DEF r

\* The chain without its p-th task.
Cut(s, p) == [k \in 1 .. Len(s) - 1 |-> IF k < p THEN s[k] ELSE s[k + 1]]

\* A task is taken out of the chain wherever it is.
LEMMA RemoveInv ==
  ASSUME IndexInv, NEW i \in Ids, Remove(i), NEW s, ListOK(s)
  PROVE  /\ IndexTypeOK' /\ OwnIds'
         /\ \E p \in DOMAIN s : s[p] \in Task /\ ListOK(Cut(s, p))'
  <1> DEFINE t == taskMap[i]
             n == Len(s)
  <1>1. /\ s \in Seq(Task) /\ n \in Nat /\ DOMAIN s = 1 .. n
        /\ \A k \in 1 .. n : s[k] \in Task
        /\ \A k, j \in 1 .. n : s[k] = s[j] => k = j
        /\ (s = <<>>) <=> (n = 0)
    BY DEF ListOK, Chained
  <1>2. /\ IndexTypeOK /\ OwnIds /\ t \in Task /\ t # Null /\ taskId[t] = i
    BY NullAssumption DEF IndexInv, Remove, IsExist, IndexTypeOK, OwnIds
  <1>3. /\ taskMap' = [taskMap EXCEPT ![i] = Null] /\ Unchain(t)
        /\ UNCHANGED <<taskId, nextId>>
    BY DEF Remove
  <1>4. OwnIds'
    BY <1>2, <1>3 DEF OwnIds, IsExist, IndexTypeOK
  <1>5. PICK p \in 1 .. n : s[p] = t
    BY <1>1, <1>2 DEF ListOK, Members
  <1>6. /\ head = s[1] /\ tail = s[n] /\ 1 \in 1 .. n /\ n \in 1 .. n
        /\ \A k \in 1 .. n : /\ next[s[k]] = IF k = n THEN Null ELSE s[k + 1]
                             /\ prev[s[k]] = IF k = 1 THEN Null ELSE s[k - 1]
    <2>1. 1 \in 1 .. n /\ n \in 1 .. n /\ s # <<>>
      BY <1>1, <1>5
    <2>2. Links(s, head, next) /\ BackLinks(s)
      BY DEF ListOK
    <2> QED BY <2>1, <2>2, <1>1 DEF Links, BackLinks
  <1> DEFINE r == Cut(s, p)
  <1>7. /\ \A k \in 1 .. n - 1 : r[k] = IF k < p THEN s[k] ELSE s[k + 1]
        /\ r \in Seq(Task) /\ Len(r) = n - 1 /\ DOMAIN r = 1 .. n - 1
        /\ (r = <<>>) <=> (n = 1)
    <2>1. ASSUME NEW k \in 1 .. n - 1 PROVE k \in 1 .. n /\ k + 1 \in 1 .. n
      BY <1>1
    <2>2. r = [k \in 1 .. n - 1 |-> IF k < p THEN s[k] ELSE s[k + 1]]
      BY DEF Cut
    <2> HIDE DEF r, n
    <2>3. n - 1 \in Nat /\ r \in [1 .. n - 1 -> Task]
      BY <2>1, <2>2, <1>1, <1>6
    <2> QED BY <2>2, <2>3, <1>1
  <1> HIDE DEF r, n, t
  \* What changes: the neighbours of the task are linked to each other.
  <1>8. /\ p > 1 => /\ p - 1 \in 1 .. n /\ s[p - 1] \in Task
                    /\ prev[t] = s[p - 1] /\ s[p - 1] # Null
        /\ p = 1 => prev[t] = Null
        /\ p < n => /\ p + 1 \in 1 .. n /\ s[p + 1] \in Task
                    /\ next[t] = s[p + 1] /\ s[p + 1] # Null
        /\ p = n => next[t] = Null
        /\ p \in Nat /\ 1 <= p /\ p <= n
    BY <1>1, <1>5, <1>6, NullAssumption
  <1>9. /\ head' = IF p = 1 THEN (IF p = n THEN Null ELSE s[p + 1]) ELSE head
        /\ tail' = IF p = n THEN (IF p = 1 THEN Null ELSE s[p - 1]) ELSE tail
        /\ next' = IF p = 1 THEN next
                   ELSE [next EXCEPT ![s[p - 1]] = IF p = n THEN Null ELSE s[p + 1]]
        /\ prev' = IF p = n THEN prev
                   ELSE [prev EXCEPT ![s[p + 1]] = IF p = 1 THEN Null ELSE s[p - 1]]
    <2>1. CASE p = 1 /\ p = n
      BY <2>1, <1>3, <1>8 DEF Unchain
    <2>2. CASE p = 1 /\ p # n
      BY <2>2, <1>1, <1>3, <1>8 DEF Unchain
    <2>3. CASE p # 1 /\ p = n
      BY <2>3, <1>1, <1>3, <1>8 DEF Unchain
    <2>4. CASE p # 1 /\ p # n
      BY <2>4, <1>1, <1>3, <1>8 DEF Unchain
    <2> QED BY <2>1, <2>2, <2>3, <2>4
  <1>10. IndexTypeOK'
    <2>1. /\ head' \in Task \cup {Null} /\ tail' \in Task \cup {Null}
          /\ next' \in [Task -> Task \cup {Null}] /\ prev' \in [Task -> Task \cup {Null}]
      BY <1>1, <1>2, <1>8, <1>9 DEF IndexTypeOK
    <2> QED BY <2>1, <1>2, <1>3 DEF IndexTypeOK
  <1>11. Chained(r)
    <2> SUFFICES ASSUME NEW j \in 1 .. n - 1, NEW k \in 1 .. n - 1, r[j] = r[k]
                 PROVE  j = k
      BY <1>7 DEF Chained
    <2> DEFINE Was(x) == IF x < p THEN x ELSE x + 1
    <2>1. ASSUME NEW x \in 1 .. n - 1 PROVE Was(x) \in 1 .. n /\ r[x] = s[Was(x)]
      BY <1>1, <1>7
    <2>2. Was(j) = Was(k)
      <3> HIDE DEF Was
      <3> QED BY <2>1, <1>1
    <2> QED BY <2>2, <1>1, <1>8
  <1>12. Links(r, head', next')
    <2>1. head' = IF n = 1 THEN Null ELSE r[1]
      <3>1. n # 1 => 1 \in 1 .. n - 1
        BY <1>1, <1>8
      <3> QED BY <3>1, <1>1, <1>6, <1>7, <1>8, <1>9
    <2>2. ASSUME NEW k \in 1 .. n - 1
          PROVE  next'[r[k]] = IF k = n - 1 THEN Null ELSE r[k + 1]
      <3>1. /\ k \in 1 .. n /\ k + 1 \in 1 .. n /\ (k # n - 1 => k + 1 \in 1 .. n - 1)
            /\ k \in Nat /\ n \in Nat
        BY <1>1
      <3>2. CASE k < p - 1
        <4>1. r[k] = s[k] /\ s[k] # s[p - 1] /\ r[k + 1] = s[k + 1] /\ k # n - 1
          BY <3>1, <3>2, <1>1, <1>7, <1>8
        <4>2. next'[s[k]] = next[s[k]]
          BY <4>1, <1>1, <1>2, <1>8, <1>9, <3>1 DEF IndexTypeOK
        <4> QED BY <4>1, <4>2, <3>1, <1>6
      <3>3. CASE k = p - 1
        <4>1. p # 1 /\ r[k] = s[p - 1] /\ (p = n <=> k = n - 1)
          BY <3>1, <3>3, <1>7, <1>8
        <4>2. next'[s[p - 1]] = IF p = n THEN Null ELSE s[p + 1]
          BY <4>1, <1>2, <1>8, <1>9 DEF IndexTypeOK
        <4>3. k # n - 1 => r[k + 1] = s[p + 1]
          BY <3>1, <3>3, <1>7, <1>8
        <4> QED BY <4>1, <4>2, <4>3
      <3>4. CASE k >= p
        <4>1. r[k] = s[k + 1] /\ (p > 1 => s[k + 1] # s[p - 1])
          BY <3>1, <3>4, <1>1, <1>7, <1>8
        <4>2. next'[s[k + 1]] = next[s[k + 1]]
          BY <4>1, <3>1, <1>1, <1>2, <1>8, <1>9 DEF IndexTypeOK
        <4>3. next[s[k + 1]] = IF k + 1 = n THEN Null ELSE s[k + 1 + 1]
          BY <3>1, <1>6
        <4>4. k # n - 1 => r[k + 1] = s[k + 1 + 1]
          BY <3>1, <3>4, <1>7, <1>8
        <4> QED BY <4>1, <4>2, <4>3, <4>4, <3>1
      <3> QED BY <3>1, <3>2, <3>3, <3>4, <1>8
    <2> QED BY <2>1, <2>2, <1>7 DEF Links
  <1>13. BackLinks(r)'
    <2>1. tail' = IF n = 1 THEN Null ELSE r[n - 1]
      <3>1. n # 1 => n - 1 \in 1 .. n - 1 /\ n - 1 + 1 = n
        BY <1>1, <1>8
      <3> QED BY <3>1, <1>1, <1>6, <1>7, <1>8, <1>9
    <2>2. ASSUME NEW k \in 1 .. n - 1
          PROVE  prev'[r[k]] = IF k = 1 THEN Null ELSE r[k - 1]
      <3>1. /\ k \in 1 .. n /\ k + 1 \in 1 .. n /\ (k # 1 => k - 1 \in 1 .. n - 1)
            /\ k \in Nat /\ n \in Nat
        BY <1>1
      <3>2. CASE k < p
        <4>1. r[k] = s[k] /\ (p < n => s[k] # s[p + 1])
          BY <3>1, <3>2, <1>1, <1>7, <1>8
        <4>2. prev'[s[k]] = prev[s[k]]
          BY <4>1, <3>1, <1>1, <1>2, <1>8, <1>9 DEF IndexTypeOK
        <4>3. k # 1 => r[k - 1] = s[k - 1]
          BY <3>1, <3>2, <1>7, <1>8
        <4> QED BY <4>1, <4>2, <4>3, <3>1, <1>6
      <3>3. CASE k = p
        <4>1. p # n /\ p < n /\ r[k] = s[p + 1]
          BY <3>1, <3>3, <1>7, <1>8
        <4>2. prev'[s[p + 1]] = IF p = 1 THEN Null ELSE s[p - 1]
          BY <4>1, <1>2, <1>8, <1>9 DEF IndexTypeOK
        <4>3. k # 1 => r[k - 1] = s[p - 1]
          BY <3>1, <3>3, <1>7, <1>8
        <4> QED BY <4>1, <4>2, <4>3, <3>3
      <3>4. CASE k > p
        <4>1. r[k] = s[k + 1] /\ s[k + 1] # s[p + 1] /\ k # 1
          BY <3>1, <3>4, <1>1, <1>7, <1>8
        <4>2. prev'[s[k + 1]] = prev[s[k + 1]]
          BY <4>1, <3>1, <1>1, <1>2, <1>8, <1>9 DEF IndexTypeOK
        <4>3. prev[s[k + 1]] = s[k]
          <5>1. k + 1 # 1 /\ k + 1 - 1 = k
            BY <3>1
          <5> QED BY <5>1, <3>1, <1>6
        <4>4. r[k - 1] = s[k]
          BY <4>1, <3>1, <3>4, <1>7, <1>8
        <4> QED BY <4>1, <4>2, <4>3, <4>4
      <3> QED BY <3>1, <3>2, <3>3, <3>4, <1>8
    <2> QED BY <2>1, <2>2, <1>7 DEF BackLinks
  <1>14. ASSUME NEW u \in Task
         PROVE  (\E j \in Ids : taskMap'[j] = u) <=> u \in Members(r)
    <2>1. u \in Members(r) <=> u # t /\ u \in Members(s)
      <3>1. ASSUME NEW k \in 1 .. n - 1 PROVE r[k] # t /\ r[k] \in Members(s)
        <4>1. PICK j \in 1 .. n : r[k] = s[j] /\ j # p
          <5>1. CASE k < p
            BY <5>1, <1>1, <1>7
          <5>2. CASE ~(k < p)
            <6>1. k + 1 \in 1 .. n /\ k + 1 # p /\ r[k] = s[k + 1]
              BY <5>2, <1>1, <1>7, <1>8
            <6> QED BY <6>1
          <5> QED BY <5>1, <5>2
        <4>2. s[j] # t
          BY <4>1, <1>1, <1>5
        <4> QED BY <4>1, <4>2, <1>1 DEF Members
      <3>2. ASSUME NEW k \in 1 .. n, s[k] # t PROVE \E j \in 1 .. n - 1 : r[j] = s[k]
        <4>1. CASE k < p
          BY <4>1, <1>1, <1>7, <1>8
        <4>2. CASE k > p
          <5>1. k - 1 \in 1 .. n - 1 /\ ~(k - 1 < p) /\ k - 1 + 1 = k
            BY <4>2, <1>1, <1>8
          <5> QED BY <5>1, <1>7
        <4>3. k # p
          BY <3>2, <1>5
        <4>4. k < p \/ k > p \/ k = p
          BY <1>1, <1>8
        <4> QED BY <4>1, <4>2, <4>3, <4>4
      <3>3. Members(r) = {s[k] : k \in 1 .. n} \ {t}
        <4>1. Members(r) = {r[k] : k \in 1 .. n - 1} /\ Members(s) = {s[k] : k \in 1 .. n}
          BY <1>1, <1>7 DEF Members
        <4>2. \A x \in Members(r) : x # t /\ x \in Members(s)
          BY <3>1, <4>1
        <4>3. \A x \in Members(s) : x # t => x \in Members(r)
          BY <3>2, <4>1
        <4> QED BY <4>1, <4>2, <4>3
      <3> QED BY <3>3, <1>1 DEF Members
    <2>2. (\E j \in Ids : taskMap'[j] = u) <=> u # t /\ \E j \in Ids : taskMap[j] = u
      <3>1. \A j \in Ids : taskMap'[j] = IF j = i THEN Null ELSE taskMap[j]
        BY <1>2, <1>3 DEF IndexTypeOK
      <3>2. \A j \in Ids : taskMap[j] = t => j = i
        BY <1>2 DEF OwnIds, IsExist
      <3>3. taskMap[i] = t /\ u # Null
        BY NullAssumption DEF t
      <3> QED BY <3>1, <3>2, <3>3
    <2> QED BY <2>1, <2>2 DEF ListOK
  <1>15. ListOK(r)'
    BY <1>11, <1>12, <1>13, <1>14 DEF ListOK
  <1> QED BY <1>1, <1>4, <1>5, <1>10, <1>15 DEF r

\* reset() meets all tasks of the chain, so nothing is left of it.
LEMMA ResetInv ==
  ASSUME IndexInv, Reset, NEW s, ListOK(s)
  PROVE  IndexTypeOK' /\ OwnIds' /\ s # <<>> /\ ListOK(<<>>)'
  <1>1. Walk(FromHead) = s
    BY WalksMeetChain
  <1>2. 0 \in Ids
    BY IdWidthAssumption, NullAssumption, FS_CardinalityType DEF Ids
  <1>3. IndexTypeOK'
    BY <1>2 DEF Reset, IndexInv, IndexTypeOK
  <1>4. OwnIds'
    BY DEF Reset, OwnIds, IsExist
  <1>5. s # <<>>
    BY DEF Reset, ListOK, Links
  <1>6. ListOK(<<>>)'
    BY NullAssumption DEF Reset, ListOK, Chained, Links, BackLinks, Members
  <1> QED BY <1>3, <1>4, <1>5, <1>6

\* Every step keeps the invariant, and is a step of the list or none.
LEMMA IndexStep ==
  ASSUME IndexInv, [IndexNext]_indexVars
  PROVE  IndexInv' /\ [Chain!Next]_(Walk(FromHead))
  <1>1. PICK s : ListOK(s)
    BY DEF IndexInv
  <1>2. Walk(FromHead) = s
    BY <1>1, WalksMeetChain
  <1>3. ASSUME NEW r, ListOK(r)' PROVE Walk(FromHead)' = r
    <2>1. Walk(FromHead)' = Walk(Met(head', next'))
      BY DEF FromHead
    <2>2. Chained(r) /\ Links(r, head', next')
      BY <1>3 DEF ListOK
    <2> QED BY <2>1, <2>2, WalkIsChain
  <1>4. ASSUME NEW t \in Task, AddTask(t) PROVE IndexInv' /\ Chain!PushFront(t)
    <2>1. IndexTypeOK' /\ OwnIds' /\ t \notin Members(s) /\ ListOK(<<t>> \o s)'
      BY <1>1, <1>4, AddTaskInv
    <2>2. IndexInv'
      BY <2>1 DEF IndexInv
    <2>3. Walk(FromHead)' = <<t>> \o s
      BY <2>1, <1>3
    <2> QED BY <2>1, <2>2, <2>3, <1>2 DEF Chain!PushFront, Chain!In, Members
  <1>5. ASSUME NEW i \in Ids, Remove(i) PROVE IndexInv' /\ \E t \in Task : Chain!Delete(t)
    <2>1. PICK p \in DOMAIN s : s[p] \in Task /\ ListOK(Cut(s, p))'
      BY <1>1, <1>5, RemoveInv
    <2>2. IndexTypeOK' /\ OwnIds'
      BY <1>1, <1>5, RemoveInv
    <2>3. IndexInv'
      BY <2>1, <2>2 DEF IndexInv
    <2>4. Walk(FromHead)' = Cut(s, p)
      BY <2>1, <1>3
    <2> QED BY <2>1, <2>3, <2>4, <1>2 DEF Chain!Delete, Cut
  <1>6. ASSUME NEW t \in Task, GetNextTaskId(t)
        PROVE  IndexInv' /\ Walk(FromHead)' = Walk(FromHead)
    <2>1. IndexTypeOK' /\ OwnIds' /\ ListOK(s)'
      BY <1>1, <1>6, GetNextTaskIdInv
    <2>2. Walk(FromHead)' = s
      BY <2>1, <1>3
    <2> QED BY <2>1, <2>2, <1>2 DEF IndexInv
  <1>7. CASE Reset
    <2>1. IndexTypeOK' /\ OwnIds' /\ s # <<>> /\ ListOK(<<>>)'
      BY <1>1, <1>7, ResetInv
    <2>2. Walk(FromHead)' = <<>>
      BY <2>1, <1>3
    <2> QED BY <2>1, <2>2, <1>2 DEF IndexInv, Chain!Next, Chain!Clear
  <1>8. CASE UNCHANGED indexVars
    <2>1. IndexTypeOK' /\ OwnIds' /\ ListOK(s)'
      BY <1>1, <1>8 DEF indexVars, IndexInv, IndexTypeOK, OwnIds, IsExist, ListOK, BackLinks
    <2>2. Walk(FromHead)' = s
      BY <2>1, <1>3
    <2> QED BY <2>1, <2>2, <1>2 DEF IndexInv
  <1> QED BY <1>4, <1>5, <1>6, <1>7, <1>8 DEF IndexNext, Chain!Next

\* At every moment the pointers of the tasks are those of one sequence, read from
\* m_pTaskHead or from m_pTaskTail, m_pTaskMap holds the tasks of this sequence,
\* each under its own id, and getNextTaskId has a free id to return.
THEOREM IndexInductive == IndexSpec => []IndexInv
  <1>1. IndexInv /\ [IndexNext]_indexVars => IndexInv'
    BY IndexStep
  <1> QED BY <1>1, IndexInvInit, PTL DEF IndexSpec

\* IndexAgrees: the sweep (from the tail), reset (from the head) and the lookup by
\* id mean the same tasks.
THEOREM ChainAndMapAgree == IndexSpec => []IndexAgrees
  BY IndexInductive, IndexInvImplies, PTL

\* ChainSpec: what _addTask, _remove and reset() do to the pointers is to push at the
\* front of a list, to delete in place and to clear it.
THEOREM PointersAreAList == IndexSpec => ChainSpec
  <1>1. IndexInit => Chain!Init
    <2> SUFFICES ASSUME IndexInit PROVE Walk(FromHead) = <<>>
      BY DEF Chain!Init
    <2>1. ListOK(<<>>)
      BY NullAssumption DEF ListOK, Chained, Links, BackLinks, Members, IndexInit
    <2> QED BY <2>1, WalksMeetChain
  <1>2. IndexInv /\ [IndexNext]_indexVars => [Chain!Next]_(Walk(FromHead))
    BY IndexStep
  <1> QED BY <1>1, <1>2, IndexInductive, PTL DEF IndexSpec, ChainSpec, Chain!Spec

-----------------------------------------------------------------------------
(* Loops.                                                                    *)

\* A set with 0 that has with each number the next one has all of them.
LEMMA AllNumbers ==
  ASSUME NEW S, 0 \in S, \A n \in Nat : n \in S => n + 1 \in S
  PROVE  \A n \in Nat : n \in S
  <1> DEFINE Bad == {n \in Nat : n \notin S}
  <1>1. SUFFICES ASSUME Bad # {} PROVE FALSE
    OBVIOUS
  <1>2. PICK n \in Bad : \A m \in Bad : n <= m
    <2>1. Bad \subseteq Nat
      OBVIOUS
    <2> HIDE DEF Bad
    <2> QED BY <2>1, <1>1, Least
  <1>3. n # 0 /\ n \in Nat
    BY <1>2
  <1>4. n - 1 \in Nat /\ n - 1 \notin Bad
    BY <1>2, <1>3
  <1> QED BY <1>3, <1>4, <1>2

\* The states of a loop, from the first one, by turns.
Turns(f, first, step) == f = [k \in Nat |-> IF k = 0 THEN first ELSE step[f[k - 1]]]

\* g is the first n turns.
Begins(g, n, V, first, step) ==
  /\ g \in [0 .. n -> V] /\ g[0] = first
  /\ \A k \in 1 .. n : g[k] = step[g[k - 1]]

LEMMA BeginsOnce ==
  ASSUME NEW V, NEW first, NEW step, NEW m \in Nat, NEW n \in Nat, m <= n,
         NEW g, NEW h, Begins(g, m, V, first, step), Begins(h, n, V, first, step)
  PROVE  \A k \in 0 .. m : g[k] = h[k]
  <1> DEFINE S == {k \in Nat : k <= m => g[k] = h[k]}
  <1>1. 0 \in S
    BY DEF Begins
  <1>2. ASSUME NEW k \in Nat, k \in S PROVE k + 1 \in S
    <2>1. SUFFICES ASSUME k + 1 <= m PROVE g[k + 1] = h[k + 1]
      OBVIOUS
    <2>2. k + 1 \in 1 .. m /\ k + 1 \in 1 .. n /\ k + 1 - 1 = k /\ g[k] = h[k]
      BY <1>2, <2>1
    <2>3. g[k + 1] = step[g[k]] /\ h[k + 1] = step[h[k]]
      BY <2>2 DEF Begins
    <2> QED BY <2>2, <2>3
  <1>3. \A k \in Nat : k \in S
    <2> HIDE DEF S
    <2> QED BY <1>1, <1>2, AllNumbers
  <1> QED BY <1>3

LEMMA BeginsExists ==
  ASSUME NEW V, NEW first \in V, NEW step \in [V -> V]
  PROVE  \A n \in Nat : \E g : Begins(g, n, V, first, step)
  <1> DEFINE S == {n \in Nat : \E g : Begins(g, n, V, first, step)}
  <1>1. 0 \in S
    <2>1. Begins([k \in 0 .. 0 |-> first], 0, V, first, step)
      BY DEF Begins
    <2> QED BY <2>1
  <1>2. ASSUME NEW n \in Nat, n \in S PROVE n + 1 \in S
    <2>1. PICK g : Begins(g, n, V, first, step)
      BY <1>2
    <2> DEFINE h == [k \in 0 .. n + 1 |-> IF k = n + 1 THEN step[g[n]] ELSE g[k]]
    <2>2. g \in [0 .. n -> V] /\ g[0] = first /\ \A k \in 1 .. n : g[k] = step[g[k - 1]]
      BY <2>1 DEF Begins
    <2>3. /\ \A k \in 0 .. n : h[k] = g[k] /\ g[k] \in V
          /\ h[n + 1] = step[g[n]] /\ step[g[n]] \in V
          /\ h \in [0 .. n + 1 -> V]
      <3>1. \A k \in 0 .. n : g[k] \in V
        BY <2>2
      <3>2. n \in 0 .. n /\ step[g[n]] \in V
        BY <3>1
      <3>3. \A k \in 0 .. n + 1 : k = n + 1 \/ k \in 0 .. n
        OBVIOUS
      <3> QED BY <3>1, <3>2, <3>3
    <2> HIDE DEF h
    <2>4. ASSUME NEW k \in 1 .. n + 1 PROVE h[k] = step[h[k - 1]]
      <3>1. CASE k = n + 1
        <4>1. k - 1 = n /\ n \in 0 .. n
          BY <3>1
        <4> QED BY <3>1, <4>1, <2>3
      <3>2. CASE k # n + 1
        <4>1. k \in 1 .. n /\ k \in 0 .. n /\ k - 1 \in 0 .. n
          BY <3>2
        <4> QED BY <4>1, <2>2, <2>3
      <3> QED BY <3>1, <3>2
    <2>5. 0 \in 0 .. n
      OBVIOUS
    <2>6. Begins(h, n + 1, V, first, step)
      BY <2>2, <2>3, <2>4, <2>5 DEF Begins
    <2> QED BY <2>6
  <1>3. \A n \in Nat : n \in S
    <2> HIDE DEF S
    <2> QED BY <1>1, <1>2, AllNumbers
  <1> QED BY <1>3

\* A loop whose turns stay in a set of states has a run.
LEMMA LoopRuns ==
  ASSUME NEW V, NEW first \in V, NEW step \in [V -> V]
  PROVE  \E f \in [Nat -> V] : Turns(f, first, step)
  <1> DEFINE G(n) == CHOOSE g : Begins(g, n, V, first, step)
             f == [n \in Nat |-> G(n)[n]]
  <1>1. ASSUME NEW n \in Nat PROVE Begins(G(n), n, V, first, step)
    <2>1. \E g : Begins(g, n, V, first, step)
      BY BeginsExists
    <2> QED BY <2>1, Zenon
  <1> HIDE DEF G
  <1>2. f \in [Nat -> V]
    <2>1. ASSUME NEW n \in Nat PROVE G(n)[n] \in V
      <3>1. n \in 0 .. n
        OBVIOUS
      <3> QED BY <3>1, <1>1 DEF Begins
    <2> QED BY <2>1
  <1>3. ASSUME NEW k \in Nat
        PROVE  f[k] = IF k = 0 THEN first ELSE step[f[k - 1]]
    <2>1. CASE k = 0
      BY <2>1, <1>1 DEF Begins
    <2>2. CASE k # 0
      <3>1. k - 1 \in Nat /\ k - 1 <= k /\ k - 1 \in 0 .. k - 1 /\ k \in 1 .. k
        BY <2>2
      <3>2. G(k)[k] = step[G(k)[k - 1]]
        BY <3>1, <1>1 DEF Begins
      <3>3. G(k - 1)[k - 1] = G(k)[k - 1]
        BY <3>1, <1>1, BeginsOnce
      <3> QED BY <2>2, <3>1, <3>2, <3>3
    <2> QED BY <2>1, <2>2
  <1>4. Turns(f, first, step)
    <2>1. f = [k \in Nat |-> f[k]]
      OBVIOUS
    <2> HIDE DEF f
    <2> QED BY <1>3, <2>1 DEF Turns
  <1> QED BY <1>2, <1>4

-----------------------------------------------------------------------------
(* The two loops of the heap.                                                *)

\* An array of n places, the places the handlers remember, and their moments.
Heaps(n)  == [at : [0 .. n - 1 -> Timer], place : [Timer -> Int], due : [Timer -> Nat]]
States(n) == [heap : Heaps(n), hole : 0 .. n - 1]

\* The first m elements but for the hole: nobody among them is e, each remembers
\* its place, and each is not earlier than its parent, also across the hole.
HoleAt(h, m, i, e) ==
  /\ \A j \in 0 .. m - 1 : j # i => h.place[h.at[j]] = j /\ h.at[j] # e
  /\ \A j \in 1 .. m - 1 : j # i /\ Parent(j) # i => h.due[h.at[Parent(j)]] <= h.due[h.at[j]]
  /\ \A j \in 1 .. m - 1 : Parent(j) = i /\ i # 0 => h.due[h.at[Parent(i)]] <= h.due[h.at[j]]

\* The elements under the hole are not earlier than e.
Fits(h, m, i, e) == \A j \in 1 .. m - 1 : Parent(j) = i => h.due[e] <= h.due[h.at[j]]

Others(h, m, i) == {h.at[j] : j \in (0 .. m - 1) \ {i}}

\* A heap of m elements, those of the set M.
Heaped(h, m, M) ==
  /\ \A j \in 0 .. m - 1 : h.place[h.at[j]] = j
  /\ \A j \in 1 .. m - 1 : h.due[h.at[Parent(j)]] <= h.due[h.at[j]]
  /\ {h.at[j] : j \in 0 .. m - 1} = M

\* What a turn leaves as it was: the moments, the elements, and what the others
\* remember.
Alike(h, g, M) == g.due = h.due /\ \A u \in Timer \ M : g.place[u] = h.place[u]

LEMMA ParentBelow ==
  \A i \in Nat \ {0} : Parent(i) \in Nat /\ Parent(i) < i
  BY DEF Parent

LEMMA PlacedIs ==
  ASSUME NEW n \in Nat, NEW h \in Heaps(n), NEW i \in 0 .. n - 1, NEW t \in Timer
  PROVE  /\ Placed(h, i, t) \in Heaps(n)
         /\ Placed(h, i, t).at = [h.at EXCEPT ![i] = t]
         /\ Placed(h, i, t).due = h.due
  <1> DEFINE g == [h EXCEPT !.at = [h.at EXCEPT ![i] = t],
                            !.place = [h.place EXCEPT ![t] = i]]
  <1>1. /\ h.at \in [0 .. n - 1 -> Timer] /\ h.place \in [Timer -> Int]
        /\ h.due \in [Timer -> Nat]
    BY DEF Heaps
  <1>2. Placed(h, i, t) = g
    BY <1>1 DEF Placed
  <1>3. /\ g.at = [h.at EXCEPT ![i] = t] /\ g.place = [h.place EXCEPT ![t] = i]
        /\ g.due = h.due
    BY DEF Heaps
  <1>4. /\ [h.at EXCEPT ![i] = t] \in [0 .. n - 1 -> Timer]
        /\ [h.place EXCEPT ![t] = i] \in [Timer -> Int]
    BY <1>1
  <1>5. g \in Heaps(n)
    BY <1>4 DEF Heaps
  <1> HIDE DEF g
  <1> QED BY <1>2, <1>3, <1>5

LEMMA PlacedAt ==
  ASSUME NEW n \in Nat, NEW h \in Heaps(n), NEW i \in 0 .. n - 1, NEW t \in Timer
  PROVE  Placed(h, i, t).place = [h.place EXCEPT ![t] = i]
  <1> DEFINE g == [h EXCEPT !.at = [h.at EXCEPT ![i] = t],
                            !.place = [h.place EXCEPT ![t] = i]]
  <1>1. /\ h.at \in [0 .. n - 1 -> Timer] /\ h.place \in [Timer -> Int]
        /\ h.due \in [Timer -> Nat]
    BY DEF Heaps
  <1>2. Placed(h, i, t) = g
    BY <1>1 DEF Placed
  <1>3. /\ g.at = [h.at EXCEPT ![i] = t] /\ g.place = [h.place EXCEPT ![t] = i]
        /\ g.due = h.due
    BY DEF Heaps
  <1> HIDE DEF g
  <1> QED BY <1>2, <1>3

LEMMA MoveType ==
  ASSUME NEW n \in Nat, NEW s \in States(n), NEW i \in 0 .. n - 1
  PROVE  Move(s, i) \in States(n)
  <1> DEFINE h == s.heap
             g == Placed(h, s.hole, h.at[i])
  <1>1. /\ s.hole \in 0 .. n - 1 /\ h.at \in [0 .. n - 1 -> Timer]
        /\ h.place \in [Timer -> Int] /\ h.due \in [Timer -> Nat] /\ h \in Heaps(n)
    BY DEF States, Heaps
  <1>2. h.at[i] \in Timer
    BY <1>1
  <1>3. g \in Heaps(n)
    <2> HIDE DEF h
    <2> QED BY <1>1, <1>2, PlacedIs
  <1> HIDE DEF g
  <1> QED BY <1>3 DEF Move, States, g

LEMMA RiseType ==
  ASSUME NEW n \in Nat, NEW t \in Timer, NEW s \in States(n)
  PROVE  Rise(t, s) \in States(n)
  <1>1. CASE s.hole # 0
    <2>1. Parent(s.hole) \in 0 .. n - 1
      BY <1>1, ParentBelow DEF States
    <2> QED BY <2>1, MoveType DEF Rise
  <1>2. CASE s.hole = 0
    BY <1>2 DEF Rise
  <1> QED BY <1>1, <1>2

LEMMA MinChildType ==
  ASSUME NEW n \in Nat, NEW m \in 0 .. n, NEW h \in Heaps(n), NEW i \in Nat, 2 * (i + 1) <= m
  PROVE  /\ MinChild(h, m, i) \in 0 .. m - 1 /\ MinChild(h, m, i) > i
         /\ Parent(MinChild(h, m, i)) = i
         /\ \A j \in 1 .. m - 1 :
              Parent(j) = i => h.due[h.at[MinChild(h, m, i)]] <= h.due[h.at[j]]
  <1> DEFINE r == 2 * (i + 1)
  <1>1. r \in Nat /\ r - 1 \in 0 .. m - 1 /\ r - 1 > i /\ Parent(r) = i /\ Parent(r - 1) = i
    BY DEF Parent
  <1>2. \A j \in 1 .. m - 1 : Parent(j) = i => j = r \/ j = r - 1
    BY DEF Parent
  <1>3. \A j \in 0 .. m - 1 : h.at[j] \in Timer /\ h.due[h.at[j]] \in Nat
    BY DEF Heaps
  <1>4. MinChild(h, m, i) = IF r = m \/ h.due[h.at[r]] > h.due[h.at[r - 1]] THEN r - 1 ELSE r
    BY DEF MinChild, Later
  <1> HIDE DEF r
  <1>5. CASE r = m
    BY <1>1, <1>2, <1>3, <1>4, <1>5
  <1>6. CASE r # m
    <2>1. r \in 0 .. m - 1 /\ r > i
      BY <1>1, <1>6 DEF r
    <2> QED BY <2>1, <1>1, <1>2, <1>3, <1>4, <1>6
  <1> QED BY <1>5, <1>6

LEMMA SinkType ==
  ASSUME NEW n \in Nat, NEW m \in 0 .. n, NEW t \in Timer, NEW s \in States(n)
  PROVE  Sink(m, t, s) \in States(n)
  <1>1. CASE 2 * (s.hole + 1) <= m
    <2>1. MinChild(s.heap, m, s.hole) \in 0 .. n - 1
      BY <1>1, MinChildType DEF States
    <2> QED BY <2>1, MoveType DEF Sink
  <1>2. CASE ~(2 * (s.hole + 1) <= m)
    BY <1>2 DEF Sink
  <1> QED BY <1>1, <1>2

\* The turns of both loops.
LEMMA RisenTurns ==
  ASSUME NEW n \in Nat, NEW h \in Heaps(n), NEW i \in 0 .. n - 1, NEW t \in Timer
  PROVE  /\ Risen(h, i, t)[0] = [heap |-> h, hole |-> i]
         /\ \A k \in Nat : /\ Risen(h, i, t)[k] \in States(n)
                           /\ Risen(h, i, t)[k + 1] = Rise(t, Risen(h, i, t)[k])
  <1> DEFINE V == States(n)
             first == [heap |-> h, hole |-> i]
             step == [s \in V |-> Rise(t, s)]
             Run(f) == f = [k \in Nat |-> IF k = 0 THEN first ELSE Rise(t, f[k - 1])]
             r == Risen(h, i, t)
  <1>1. first \in V /\ step \in [V -> V]
    BY RiseType DEF States
  <1>2. PICK f \in [Nat -> V] : Turns(f, first, step)
    <2> HIDE DEF V, first, step
    <2> QED BY <1>1, LoopRuns
  <1>3. Run(f)
    <2>1. ASSUME NEW k \in Nat, k # 0 PROVE step[f[k - 1]] = Rise(t, f[k - 1])
      <3>1. f[k - 1] \in V
        BY <2>1
      <3> QED BY <3>1
    <2> HIDE DEF V, first, step
    <2>2. f = [k \in Nat |-> IF k = 0 THEN first ELSE step[f[k - 1]]]
      BY <1>2 DEF Turns
    <2>3. [k \in Nat |-> IF k = 0 THEN first ELSE step[f[k - 1]]]
            = [k \in Nat |-> IF k = 0 THEN first ELSE Rise(t, f[k - 1])]
      BY <2>1
    <2> QED BY <2>2, <2>3
  <1>4. r = CHOOSE g : Run(g)
    BY DEF Risen
  <1>5. Run(r)
    <2>1. \E g : Run(g)
      BY <1>3
    <2> HIDE DEF Run, r
    <2> QED BY <2>1, <1>4
  <1> HIDE DEF r
  <1>6. r[0] = first
    BY <1>5
  <1>7. ASSUME NEW k \in Nat PROVE r[k + 1] = Rise(t, r[k])
    <2>1. k + 1 \in Nat /\ k + 1 # 0 /\ k + 1 - 1 = k
      OBVIOUS
    <2> HIDE DEF first
    <2> QED BY <1>5, <2>1
  <1> DEFINE S == {k \in Nat : r[k] \in V}
  <1>8. \A k \in Nat : k \in S
    <2>1. 0 \in S
      BY <1>1, <1>6
    <2>2. ASSUME NEW k \in Nat, k \in S PROVE k + 1 \in S
      BY <2>2, <1>7, RiseType
    <2> HIDE DEF S
    <2> QED BY <2>1, <2>2, AllNumbers
  <1> QED BY <1>6, <1>7, <1>8 DEF r

LEMMA SunkTurns ==
  ASSUME NEW n \in Nat, NEW h \in Heaps(n), NEW m \in 0 .. n, NEW i \in 0 .. n - 1, NEW t \in Timer
  PROVE  /\ Sunk(h, m, i, t)[0] = [heap |-> h, hole |-> i]
         /\ \A k \in Nat : /\ Sunk(h, m, i, t)[k] \in States(n)
                           /\ Sunk(h, m, i, t)[k + 1] = Sink(m, t, Sunk(h, m, i, t)[k])
  <1> DEFINE V == States(n)
             first == [heap |-> h, hole |-> i]
             step == [s \in V |-> Sink(m, t, s)]
             Run(f) == f = [k \in Nat |-> IF k = 0 THEN first ELSE Sink(m, t, f[k - 1])]
             r == Sunk(h, m, i, t)
  <1>1. first \in V /\ step \in [V -> V]
    BY SinkType DEF States
  <1>2. PICK f \in [Nat -> V] : Turns(f, first, step)
    <2> HIDE DEF V, first, step
    <2> QED BY <1>1, LoopRuns
  <1>3. Run(f)
    <2>1. ASSUME NEW k \in Nat, k # 0 PROVE step[f[k - 1]] = Sink(m, t, f[k - 1])
      <3>1. f[k - 1] \in V
        BY <2>1
      <3> QED BY <3>1
    <2> HIDE DEF V, first, step
    <2>2. f = [k \in Nat |-> IF k = 0 THEN first ELSE step[f[k - 1]]]
      BY <1>2 DEF Turns
    <2>3. [k \in Nat |-> IF k = 0 THEN first ELSE step[f[k - 1]]]
            = [k \in Nat |-> IF k = 0 THEN first ELSE Sink(m, t, f[k - 1])]
      BY <2>1
    <2> QED BY <2>2, <2>3
  <1>4. r = CHOOSE g : Run(g)
    BY DEF Sunk
  <1>5. Run(r)
    <2>1. \E g : Run(g)
      BY <1>3
    <2> HIDE DEF Run, r
    <2> QED BY <2>1, <1>4
  <1> HIDE DEF r
  <1>6. r[0] = first
    BY <1>5
  <1>7. ASSUME NEW k \in Nat PROVE r[k + 1] = Sink(m, t, r[k])
    <2>1. k + 1 \in Nat /\ k + 1 # 0 /\ k + 1 - 1 = k
      OBVIOUS
    <2> HIDE DEF first
    <2> QED BY <1>5, <2>1
  <1> DEFINE S == {k \in Nat : r[k] \in V}
  <1>8. \A k \in Nat : k \in S
    <2>1. 0 \in S
      BY <1>1, <1>6
    <2>2. ASSUME NEW k \in Nat, k \in S PROVE k + 1 \in S
      BY <2>2, <1>7, SinkType
    <2> HIDE DEF S
    <2> QED BY <2>1, <2>2, AllNumbers
  <1> QED BY <1>6, <1>7, <1>8 DEF r

\* Another element moves into the hole and leaves one where it was.
LEMMA MoveKeeps ==
  ASSUME NEW n \in Nat, NEW m \in 0 .. n, NEW e \in Timer, NEW s \in States(n),
         s.hole \in 0 .. m - 1, HoleAt(s.heap, m, s.hole, e),
         NEW i \in 0 .. m - 1, i # s.hole
  PROVE  /\ Move(s, i).hole = i /\ Move(s, i).heap \in Heaps(n)
         /\ Move(s, i).heap.due = s.heap.due
         /\ \A j \in 0 .. n - 1 : Move(s, i).heap.at[j] =
              IF j = s.hole THEN s.heap.at[i] ELSE s.heap.at[j]
         /\ \A j \in 0 .. m - 1 : j # i =>
              /\ Move(s, i).heap.place[Move(s, i).heap.at[j]] = j
              /\ Move(s, i).heap.at[j] # e
         /\ Others(Move(s, i).heap, m, i) = Others(s.heap, m, s.hole)
         /\ Alike(s.heap, Move(s, i).heap, Others(s.heap, m, s.hole))
  <1> DEFINE h == s.heap
             k == s.hole
             x == h.at[i]
             g == Placed(h, k, x)
  <1>1. /\ h \in Heaps(n) /\ k \in 0 .. n - 1 /\ k \in 0 .. m - 1 /\ i \in 0 .. n - 1
        /\ \A j \in 0 .. m - 1 : j \in 0 .. n - 1
    BY DEF States
  <1>2. /\ h.at \in [0 .. n - 1 -> Timer] /\ h.place \in [Timer -> Int] /\ x \in Timer
    BY <1>1 DEF Heaps
  <1>3. Move(s, i).heap = g /\ Move(s, i).hole = i
    BY DEF Move
  <1>4. \A j \in 0 .. m - 1 : j # k => h.place[h.at[j]] = j /\ h.at[j] # e
    BY DEF HoleAt
  <1> HIDE DEF h, k, x
  <1>5. /\ g \in Heaps(n) /\ g.due = h.due
        /\ g.at = [h.at EXCEPT ![k] = x] /\ g.place = [h.place EXCEPT ![x] = k]
    <2>1. h \in Heaps(n) /\ k \in 0 .. n - 1 /\ x \in Timer
      BY <1>1, <1>2
    <2>2. /\ Placed(h, k, x) \in Heaps(n) /\ Placed(h, k, x).due = h.due
          /\ Placed(h, k, x).at = [h.at EXCEPT ![k] = x]
      BY <2>1, PlacedIs
    <2>3. Placed(h, k, x).place = [h.place EXCEPT ![x] = k]
      BY <2>1, PlacedAt
    <2> QED BY <2>2, <2>3
  <1> HIDE DEF g
  <1>6. \A j \in 0 .. n - 1 : g.at[j] = IF j = k THEN x ELSE h.at[j]
    BY <1>2, <1>5
  <1>7. h.place[x] = i /\ x # e /\ i # k
    BY <1>4 DEF x, k, h
  <1>8. ASSUME NEW j \in 0 .. m - 1, j # i PROVE g.place[g.at[j]] = j /\ g.at[j] # e
    <2>1. CASE j = k
      BY <2>1, <1>1, <1>2, <1>5, <1>6, <1>7
    <2>2. CASE j # k
      <3>1. g.at[j] = h.at[j] /\ h.place[h.at[j]] = j /\ h.at[j] # e /\ h.at[j] \in Timer
        BY <2>2, <1>1, <1>2, <1>4, <1>6
      <3>2. h.at[j] # x
        BY <3>1, <1>7, <1>8
      <3> QED BY <3>1, <3>2, <1>2, <1>5
    <2> QED BY <2>1, <2>2
  <1>9. Others(g, m, i) = Others(h, m, k)
    <2>1. ASSUME NEW j \in 0 .. m - 1, j # i PROVE g.at[j] \in Others(h, m, k)
      <3>1. CASE j = k
        <4>1. g.at[j] = h.at[i] /\ i \in (0 .. m - 1) \ {k}
          BY <3>1, <1>1, <1>6, <1>7 DEF x
        <4> QED BY <4>1 DEF Others
      <3>2. CASE j # k
        <4>1. g.at[j] = h.at[j]
          BY <3>2, <1>1, <1>6
        <4> QED BY <4>1, <3>2 DEF Others
      <3> QED BY <3>1, <3>2
    <2>2. ASSUME NEW j \in 0 .. m - 1, j # k PROVE h.at[j] \in Others(g, m, i)
      <3>1. CASE j = i
        <4>1. h.at[j] = g.at[k] /\ k \in (0 .. m - 1) \ {i}
          BY <3>1, <1>1, <1>6, <1>7 DEF x
        <4> QED BY <4>1 DEF Others
      <3>2. CASE j # i
        <4>1. h.at[j] = g.at[j]
          BY <2>2, <1>1, <1>6
        <4> QED BY <4>1, <3>2 DEF Others
      <3> QED BY <3>1, <3>2
    <2>3. Others(g, m, i) \subseteq Others(h, m, k)
      BY <2>1 DEF Others
    <2>4. Others(h, m, k) \subseteq Others(g, m, i)
      BY <2>2 DEF Others
    <2> QED BY <2>3, <2>4
  <1>10. Alike(h, g, Others(h, m, k))
    <2>1. x \in Others(h, m, k)
      BY <1>7 DEF Others, x
    <2> QED BY <2>1, <1>2, <1>5 DEF Alike
  <1> QED BY <1>3, <1>5, <1>6, <1>8, <1>9, <1>10 DEF h, k, x

LEMMA RiseKeeps ==
  ASSUME NEW n \in Nat, NEW m \in 0 .. n, NEW e \in Timer, NEW s \in States(n),
         s.hole \in 0 .. m - 1, HoleAt(s.heap, m, s.hole, e), Fits(s.heap, m, s.hole, e),
         s.hole # 0, Later(s.heap, s.heap.at[Parent(s.hole)], e)
  PROVE  /\ Rise(e, s) = Move(s, Parent(s.hole)) /\ Rise(e, s).hole = Parent(s.hole)
         /\ Parent(s.hole) \in 0 .. m - 1 /\ Parent(s.hole) < s.hole
         /\ HoleAt(Rise(e, s).heap, m, Rise(e, s).hole, e)
         /\ Fits(Rise(e, s).heap, m, Rise(e, s).hole, e)
         /\ Others(Rise(e, s).heap, m, Rise(e, s).hole) = Others(s.heap, m, s.hole)
         /\ Alike(s.heap, Rise(e, s).heap, Others(s.heap, m, s.hole))
  <1> DEFINE h == s.heap
             k == s.hole
             q == Parent(k)
             g == Move(s, q).heap
  <1>1. /\ q \in 0 .. m - 1 /\ q # k /\ q < k /\ k \in 1 .. m - 1 /\ m \in Nat
        /\ \A j \in 0 .. m - 1 : j \in 0 .. n - 1
    BY ParentBelow
  <1>2. Rise(e, s) = Move(s, q)
    BY DEF Rise
  <1>3. /\ Move(s, q).hole = q /\ g \in Heaps(n) /\ g.due = h.due
        /\ \A j \in 0 .. n - 1 : g.at[j] = IF j = k THEN h.at[q] ELSE h.at[j]
        /\ \A j \in 0 .. m - 1 : j # q => g.place[g.at[j]] = j /\ g.at[j] # e
        /\ Others(g, m, q) = Others(h, m, k)
        /\ Alike(h, g, Others(h, m, k))
    BY <1>1, MoveKeeps
  <1>4. h \in Heaps(n)
    BY DEF States
  <1> DEFINE d(j) == h.due[h.at[j]]
             c(j) == g.due[g.at[j]]
  <1>5. \A j \in 0 .. m - 1 : d(j) \in Nat
    BY <1>1, <1>4 DEF Heaps
  <1>6. /\ \A j \in 1 .. m - 1 : j # k /\ Parent(j) # k => d(Parent(j)) <= d(j)
        /\ \A j \in 1 .. m - 1 : Parent(j) = k => d(q) <= d(j)
    BY DEF HoleAt
  <1>7. /\ \A j \in 1 .. m - 1 : Parent(j) = k => h.due[e] <= d(j)
        /\ d(q) > h.due[e] /\ h.due[e] \in Nat
    BY <1>4 DEF Fits, Later, Heaps
  <1>8. \A j \in 0 .. m - 1 : c(j) = IF j = k THEN d(q) ELSE d(j)
    BY <1>1, <1>3
  <1>9. \A j \in 1 .. m - 1 : Parent(j) \in 0 .. m - 1 /\ Parent(j) < j /\ j \in 0 .. m - 1
    BY <1>1, ParentBelow
  <1> HIDE DEF c, d, g, h
  <1>10. ASSUME NEW j \in 1 .. m - 1, j # q, Parent(j) # q PROVE c(Parent(j)) <= c(j)
    <2>1. j # k
      BY <1>10
    <2>2. CASE Parent(j) = k
      BY <2>1, <2>2, <1>1, <1>6, <1>8, <1>9
    <2>3. CASE Parent(j) # k
      BY <2>1, <2>3, <1>6, <1>8, <1>9
    <2> QED BY <2>2, <2>3
  <1>11. ASSUME NEW j \in 1 .. m - 1, Parent(j) = q
         PROVE  /\ q # 0 => c(Parent(q)) <= c(j)
                /\ h.due[e] <= c(j)
    <2>1. d(q) <= c(j)
      <3>1. CASE j = k
        BY <3>1, <1>1, <1>5, <1>8
      <3>2. CASE j # k
        BY <3>2, <1>1, <1>6, <1>8, <1>9, <1>11
      <3> QED BY <3>1, <3>2
    <2>2. c(j) \in Nat
      BY <1>1, <1>5, <1>8, <1>9
    <2>3. CASE q # 0
      <3>1. q \in 1 .. m - 1 /\ Parent(q) # k /\ Parent(q) \in 0 .. m - 1 /\ q # k
        BY <2>3, <1>1, <1>9
      <3>2. d(Parent(q)) <= d(q) /\ c(Parent(q)) = d(Parent(q))
        BY <3>1, <1>6, <1>8
      <3> QED BY <2>1, <2>2, <3>1, <3>2, <1>1, <1>5, <1>7
    <2> QED BY <2>1, <2>2, <2>3, <1>1, <1>5, <1>7
  <1>12. HoleAt(g, m, q, e)
    BY <1>3, <1>10, <1>11 DEF HoleAt, c
  <1>13. Fits(g, m, q, e)
    BY <1>3, <1>11 DEF Fits, c
  <1> QED BY <1>1, <1>2, <1>3, <1>12, <1>13 DEF g, h

LEMMA SinkKeeps ==
  ASSUME NEW n \in Nat, NEW m \in 0 .. n, NEW e \in Timer, NEW s \in States(n),
         s.hole \in 0 .. m - 1, HoleAt(s.heap, m, s.hole, e),
         2 * (s.hole + 1) <= m, Later(s.heap, e, s.heap.at[MinChild(s.heap, m, s.hole)])
  PROVE  /\ Sink(m, e, s) \in States(n)
         /\ Sink(m, e, s).hole \in 0 .. m - 1 /\ Sink(m, e, s).hole > s.hole
         /\ HoleAt(Sink(m, e, s).heap, m, Sink(m, e, s).hole, e)
         /\ Others(Sink(m, e, s).heap, m, Sink(m, e, s).hole) = Others(s.heap, m, s.hole)
         /\ Alike(s.heap, Sink(m, e, s).heap, Others(s.heap, m, s.hole))
  <1> DEFINE h == s.heap
             k == s.hole
             q == MinChild(h, m, k)
             g == Move(s, q).heap
  <1>0. h \in Heaps(n) /\ k \in Nat
    BY DEF States
  <1>1. /\ q \in 0 .. m - 1 /\ q > k /\ Parent(q) = k /\ q \in 1 .. m - 1
        /\ \A j \in 1 .. m - 1 : Parent(j) = k => h.due[h.at[q]] <= h.due[h.at[j]]
    <2>1. 2 * (k + 1) <= m
      OBVIOUS
    <2> HIDE DEF h, k
    <2>2. /\ q \in 0 .. m - 1 /\ q > k /\ Parent(q) = k
          /\ \A j \in 1 .. m - 1 : Parent(j) = k => h.due[h.at[q]] <= h.due[h.at[j]]
      BY <2>1, <1>0, MinChildType
    <2> HIDE DEF q
    <2> QED BY <2>2, <1>0
  <1>2. Sink(m, e, s) = Move(s, q)
    BY DEF Sink
  <1>a. Sink(m, e, s) \in States(n)
    BY SinkType
  <1>3. /\ k \in 0 .. m - 1 /\ q # k /\ \A j \in 0 .. m - 1 : j \in 0 .. n - 1
    BY <1>1
  <1>4. /\ Move(s, q).hole = q /\ g \in Heaps(n) /\ g.due = h.due
        /\ \A j \in 0 .. n - 1 : g.at[j] = IF j = k THEN h.at[q] ELSE h.at[j]
        /\ \A j \in 0 .. m - 1 : j # q => g.place[g.at[j]] = j /\ g.at[j] # e
        /\ Others(g, m, q) = Others(h, m, k)
        /\ Alike(h, g, Others(h, m, k))
    BY <1>1, <1>3, MoveKeeps
  <1> DEFINE d(j) == h.due[h.at[j]]
             c(j) == g.due[g.at[j]]
  <1>5. \A j \in 0 .. m - 1 : d(j) \in Nat
    BY <1>0, <1>3 DEF Heaps
  <1>6. /\ \A j \in 1 .. m - 1 : j # k /\ Parent(j) # k => d(Parent(j)) <= d(j)
        /\ \A j \in 1 .. m - 1 : Parent(j) = k /\ k # 0 => d(Parent(k)) <= d(j)
        /\ \A j \in 1 .. m - 1 : Parent(j) = k => d(q) <= d(j)
    BY <1>1 DEF HoleAt
  <1>7. \A j \in 0 .. m - 1 : c(j) = IF j = k THEN d(q) ELSE d(j)
    BY <1>3, <1>4
  <1>8. \A j \in 1 .. m - 1 : Parent(j) \in 0 .. m - 1 /\ Parent(j) < j /\ j \in 0 .. m - 1
    BY ParentBelow
  <1> HIDE DEF c, d, g, h, q
  <1>9. ASSUME NEW j \in 1 .. m - 1, j # q, Parent(j) # q PROVE c(Parent(j)) <= c(j)
    <2>1. CASE j = k
      <3>1. k # 0 /\ Parent(k) # k /\ Parent(k) \in 0 .. m - 1
        BY <2>1, <1>8
      <3>2. d(Parent(k)) <= d(q)
        BY <3>1, <1>1, <1>6
      <3> QED BY <2>1, <3>1, <3>2, <1>3, <1>7
    <2>2. CASE Parent(j) = k
      <3>1. j # k /\ d(q) <= d(j)
        BY <2>2, <1>6, <1>8
      <3> QED BY <2>2, <3>1, <1>3, <1>7, <1>8
    <2>3. CASE j # k /\ Parent(j) # k
      BY <2>3, <1>6, <1>7, <1>8
    <2> QED BY <2>1, <2>2, <2>3
  <1>10. ASSUME NEW j \in 1 .. m - 1, Parent(j) = q PROVE c(Parent(q)) <= c(j)
    <2>1. j # k /\ j # q /\ d(q) <= d(j)
      <3>1. q < j /\ k < q
        BY <1>1, <1>8, <1>10
      <3>2. j # k /\ q # k
        BY <3>1, <1>1, <1>3
      <3> QED BY <3>1, <3>2, <1>6, <1>10, <1>1
    <2> QED BY <2>1, <1>1, <1>3, <1>7, <1>8
  <1>11. HoleAt(g, m, q, e)
    BY <1>4, <1>9, <1>10 DEF HoleAt, c
  <1> QED BY <1>1, <1>2, <1>a, <1>4, <1>11 DEF g, h, q


-----------------------------------------------------------------------------
(* The loops leave a heap.                                                   *)

\* Once its parent is not later than e and no child is earlier, e fills the hole.
LEMMA FillKeeps ==
  ASSUME NEW n \in Nat, NEW m \in 0 .. n, NEW e \in Timer, NEW h \in Heaps(n),
         NEW k \in 0 .. m - 1, HoleAt(h, m, k, e), Fits(h, m, k, e),
         k = 0 \/ ~Later(h, h.at[Parent(k)], e)
  PROVE  /\ Placed(h, k, e) \in Heaps(n)
         /\ Heaped(Placed(h, k, e), m, Others(h, m, k) \cup {e})
         /\ Alike(h, Placed(h, k, e), Others(h, m, k) \cup {e})
  <1> DEFINE g == Placed(h, k, e)
             d(j) == h.due[h.at[j]]
             c(j) == g.due[g.at[j]]
  <1>0. k \in 0 .. n - 1
    OBVIOUS
  <1>1. /\ \A j \in 0 .. m - 1 : j \in 0 .. n - 1
        /\ h.at \in [0 .. n - 1 -> Timer] /\ h.place \in [Timer -> Int]
        /\ h.due \in [Timer -> Nat]
    BY DEF Heaps
  <1>2. g \in Heaps(n) /\ g.due = h.due /\ g.at = [h.at EXCEPT ![k] = e]
    BY <1>0, PlacedIs
  <1>3. g.place = [h.place EXCEPT ![e] = k]
    BY <1>0, PlacedAt
  <1> HIDE DEF g
  <1>4. \A j \in 0 .. m - 1 : g.at[j] = IF j = k THEN e ELSE h.at[j]
    BY <1>0, <1>1, <1>2
  <1>5. ASSUME NEW j \in 0 .. m - 1 PROVE g.place[g.at[j]] = j
    <2>1. CASE j = k
      BY <2>1, <1>1, <1>3, <1>4
    <2>2. CASE j # k
      <3>1. h.place[h.at[j]] = j /\ h.at[j] # e /\ h.at[j] \in Timer
        BY <2>2, <1>1 DEF HoleAt
      <3> QED BY <2>2, <3>1, <1>1, <1>3, <1>4
    <2> QED BY <2>1, <2>2
  <1>6. /\ \A j \in 0 .. m - 1 : c(j) = IF j = k THEN h.due[e] ELSE d(j)
        /\ \A j \in 0 .. m - 1 : d(j) \in Nat
        /\ h.due[e] \in Nat
    BY <1>1, <1>2, <1>4
  <1>7. /\ \A j \in 1 .. m - 1 : j # k /\ Parent(j) # k => d(Parent(j)) <= d(j)
        /\ \A j \in 1 .. m - 1 : Parent(j) = k => h.due[e] <= d(j)
        /\ k # 0 => ~(d(Parent(k)) > h.due[e])
    BY DEF HoleAt, Fits, Later
  <1>8. \A j \in 1 .. m - 1 : Parent(j) \in 0 .. m - 1 /\ Parent(j) < j /\ j \in 0 .. m - 1
    BY ParentBelow
  <1> HIDE DEF c, d
  <1>9. ASSUME NEW j \in 1 .. m - 1 PROVE c(Parent(j)) <= c(j)
    <2>1. CASE j = k
      BY <2>1, <1>6, <1>7, <1>8
    <2>2. CASE Parent(j) = k
      BY <2>2, <1>6, <1>7, <1>8
    <2>3. CASE j # k /\ Parent(j) # k
      BY <2>3, <1>6, <1>7, <1>8
    <2> QED BY <2>1, <2>2, <2>3
  <1>10. {g.at[j] : j \in 0 .. m - 1} = Others(h, m, k) \cup {e}
    BY <1>4 DEF Others
  <1>11. Heaped(g, m, Others(h, m, k) \cup {e})
    BY <1>5, <1>9, <1>10 DEF Heaped, c
  <1>12. Alike(h, g, Others(h, m, k) \cup {e})
    BY <1>1, <1>2, <1>3 DEF Alike
  <1> QED BY <1>2, <1>11, <1>12 DEF g

\* The element rises or stays: neither is later than e.
Stays(e, s) == s.hole = 0 \/ ~Later(s.heap, s.heap.at[Parent(s.hole)], e)
Rests(m, e, s) ==
  ~(2 * (s.hole + 1) <= m /\ Later(s.heap, e, s.heap.at[MinChild(s.heap, m, s.hole)]))

\* shift_up: the element e, put at the hole i, rises to where it belongs.
LEMMA ShiftUpHeaps ==
  ASSUME NEW n \in Nat, NEW m \in 0 .. n, NEW e \in Timer, NEW h \in Heaps(n),
         NEW i \in 0 .. m - 1, HoleAt(h, m, i, e), Fits(h, m, i, e)
  PROVE  /\ ShiftUp(h, i, e) \in Heaps(n)
         /\ Heaped(ShiftUp(h, i, e), m, Others(h, m, i) \cup {e})
         /\ Alike(h, ShiftUp(h, i, e), Others(h, m, i) \cup {e})
  <1> DEFINE r == Risen(h, i, e)
             M == Others(h, m, i)
             Good(s, k) == /\ s \in States(n) /\ s.hole \in 0 .. m - 1
                           /\ HoleAt(s.heap, m, s.hole, e) /\ Fits(s.heap, m, s.hole, e)
                           /\ Others(s.heap, m, s.hole) = M /\ Alike(h, s.heap, M)
                           /\ s.hole + k <= i \/ Stays(e, s)
             S == {k \in Nat : Good(r[k], k)}
  <1>1. /\ r[0] = [heap |-> h, hole |-> i] /\ i \in 0 .. n - 1
        /\ \A k \in Nat : r[k] \in States(n) /\ r[k + 1] = Rise(e, r[k])
    BY RisenTurns
  <1> HIDE DEF r
  <1>2. 0 \in S
    <2>1. r[0].heap = h /\ r[0].hole = i /\ r[0] \in States(n)
      BY <1>1
    <2> QED BY <2>1 DEF Alike
  <1> HIDE DEF M
  <1>3. ASSUME NEW k \in Nat, k \in S PROVE k + 1 \in S
    <2> DEFINE s == r[k]
               z == r[k + 1]
    <2>1. Good(s, k) /\ z = Rise(e, s) /\ z \in States(n)
      BY <1>1, <1>3
    <2> HIDE DEF s, z
    <2>2. CASE Stays(e, s)
      <3>1. z = s
        BY <2>1, <2>2 DEF Rise, Stays
      <3> QED BY <2>1, <2>2, <3>1 DEF z
    <2>3. CASE ~Stays(e, s)
      <3>1. s.hole # 0 /\ Later(s.heap, s.heap.at[Parent(s.hole)], e)
        BY <2>3 DEF Stays
      <3>2. /\ z.hole = Parent(s.hole)
            /\ z.hole \in 0 .. m - 1 /\ z.hole < s.hole
            /\ HoleAt(z.heap, m, z.hole, e) /\ Fits(z.heap, m, z.hole, e)
            /\ Others(z.heap, m, z.hole) = M /\ Alike(s.heap, z.heap, M)
        BY <2>1, <3>1, RiseKeeps
      <3>3. Alike(h, z.heap, M)
        BY <2>1, <3>2 DEF Alike
      <3>4. z.hole + (k + 1) <= i
        BY <2>1, <2>3, <3>2
      <3> QED BY <2>1, <3>2, <3>3, <3>4 DEF z
    <2> QED BY <2>2, <2>3
  <1>4. i \in S
    <2> HIDE DEF S
    <2> QED BY <1>2, <1>3, AllNumbers
  <1> DEFINE s == r[i]
  <1>5. Good(s, i) /\ s.heap \in Heaps(n) /\ s.hole \in 0 .. n - 1
    BY <1>4, <1>1 DEF States
  <1> HIDE DEF s
  <1>6. Stays(e, s)
    BY <1>5 DEF Stays
  <1>7. ShiftUp(h, i, e) = Placed(s.heap, s.hole, e)
    BY DEF ShiftUp, s, r
  <1>8. /\ Placed(s.heap, s.hole, e) \in Heaps(n)
        /\ Heaped(Placed(s.heap, s.hole, e), m, M \cup {e})
        /\ Alike(s.heap, Placed(s.heap, s.hole, e), M \cup {e})
    BY <1>5, <1>6, FillKeeps DEF Stays
  <1>9. Alike(h, Placed(s.heap, s.hole, e), M \cup {e})
    BY <1>5, <1>8 DEF Alike
  <1> QED BY <1>7, <1>8, <1>9 DEF M

\* shift_down: e, put at the hole i, sinks or rises to where it belongs.
LEMMA ShiftDownHeaps ==
  ASSUME NEW n \in Nat, NEW m \in 0 .. n, NEW e \in Timer, NEW h \in Heaps(n),
         NEW i \in 0 .. m - 1, HoleAt(h, m, i, e)
  PROVE  /\ ShiftDown(h, m, i, e) \in Heaps(n)
         /\ Heaped(ShiftDown(h, m, i, e), m, Others(h, m, i) \cup {e})
         /\ Alike(h, ShiftDown(h, m, i, e), Others(h, m, i) \cup {e})
  <1> DEFINE r == Sunk(h, m, i, e)
             M == Others(h, m, i)
             Good(s, k) == /\ s \in States(n) /\ s.hole \in 0 .. m - 1
                           /\ HoleAt(s.heap, m, s.hole, e)
                           /\ Others(s.heap, m, s.hole) = M /\ Alike(h, s.heap, M)
                           /\ s.hole >= k \/ Rests(m, e, s)
             S == {k \in Nat : Good(r[k], k)}
  <1>1. /\ r[0] = [heap |-> h, hole |-> i] /\ i \in 0 .. n - 1
        /\ \A k \in Nat : r[k] \in States(n) /\ r[k + 1] = Sink(m, e, r[k])
    BY SunkTurns
  <1> HIDE DEF r
  <1>2. 0 \in S
    <2>1. r[0].heap = h /\ r[0].hole = i /\ r[0] \in States(n)
      BY <1>1
    <2> QED BY <2>1 DEF Alike
  <1> HIDE DEF M
  <1>3. ASSUME NEW k \in Nat, k \in S PROVE k + 1 \in S
    <2> DEFINE s == r[k]
               z == r[k + 1]
    <2>1. Good(s, k) /\ z = Sink(m, e, s) /\ z \in States(n)
      BY <1>1, <1>3
    <2> HIDE DEF s, z
    <2>2. CASE Rests(m, e, s)
      <3>1. z = s
        BY <2>1, <2>2 DEF Sink, Rests
      <3> QED BY <2>1, <2>2, <3>1 DEF z
    <2>3. CASE ~Rests(m, e, s)
      <3>1. 2 * (s.hole + 1) <= m /\ Later(s.heap, e, s.heap.at[MinChild(s.heap, m, s.hole)])
        BY <2>3 DEF Rests
      <3>2. /\ z.hole \in 0 .. m - 1 /\ z.hole > s.hole
            /\ HoleAt(z.heap, m, z.hole, e)
            /\ Others(z.heap, m, z.hole) = M /\ Alike(s.heap, z.heap, M)
        BY <2>1, <3>1, SinkKeeps
      <3>3. Alike(h, z.heap, M)
        BY <2>1, <3>2 DEF Alike
      <3>4. z.hole >= k + 1
        BY <2>1, <2>3, <3>2
      <3> QED BY <2>1, <3>2, <3>3, <3>4 DEF z
    <2> QED BY <2>2, <2>3
  <1>4. m \in S
    <2> HIDE DEF S
    <2> QED BY <1>2, <1>3, AllNumbers
  <1> DEFINE s == r[m]
  <1>5. Good(s, m) /\ s.heap \in Heaps(n) /\ s.hole \in 0 .. n - 1
    BY <1>4, <1>1 DEF States
  <1> HIDE DEF s
  <1>6. Rests(m, e, s)
    BY <1>5
  <1>7. Fits(s.heap, m, s.hole, e)
    <2> DEFINE g == s.heap
               c == MinChild(g, m, s.hole)
    <2>1. SUFFICES ASSUME NEW j \in 1 .. m - 1, Parent(j) = s.hole
                   PROVE  g.due[e] <= g.due[g.at[j]]
      BY DEF Fits
    <2>2. 2 * (s.hole + 1) <= m
      BY <2>1, <1>5 DEF Parent
    <2>3. c \in 0 .. m - 1 /\ g.due[g.at[c]] <= g.due[g.at[j]]
      BY <2>1, <2>2, <1>5, MinChildType
    <2>4. ~(g.due[e] > g.due[g.at[c]])
      BY <1>6, <2>2 DEF Rests, Later
    <2>5. g \in Heaps(n) /\ c \in 0 .. n - 1 /\ j \in 0 .. n - 1
      BY <1>5, <2>3
    <2> HIDE DEF g, c
    <2>6. g.due[e] \in Nat /\ g.due[g.at[c]] \in Nat /\ g.due[g.at[j]] \in Nat
      BY <2>5 DEF Heaps
    <2> QED BY <2>3, <2>4, <2>6
  <1>8. ShiftDown(h, m, i, e) = ShiftUp(s.heap, s.hole, e)
    BY DEF ShiftDown, s, r
  <1>9. /\ ShiftUp(s.heap, s.hole, e) \in Heaps(n)
        /\ Heaped(ShiftUp(s.heap, s.hole, e), m, M \cup {e})
        /\ Alike(s.heap, ShiftUp(s.heap, s.hole, e), M \cup {e})
    BY <1>5, <1>7, ShiftUpHeaps
  <1>10. Alike(h, ShiftUp(s.heap, s.hole, e), M \cup {e})
    BY <1>5, <1>9 DEF Alike
  <1> QED BY <1>8, <1>9, <1>10 DEF M

-----------------------------------------------------------------------------
(* The operations.                                                           *)

\* A heap of n elements, those of M; the others know they are outside.
Sound(h, n, M) ==
  /\ n \in Nat /\ h \in Heaps(n) /\ Heaped(h, n, M)
  /\ \A u \in Timer \ M : h.place[u] = -1

LEMMA SoundFields ==
  ASSUME NEW h, NEW n, NEW M, Sound(h, n, M)
  PROVE  /\ n \in Nat /\ M \subseteq Timer
         /\ h.at \in [0 .. n - 1 -> Timer] /\ h.place \in [Timer -> Int]
         /\ h.due \in [Timer -> Nat]
         /\ \A j \in 0 .. n - 1 : h.at[j] \in M /\ h.place[h.at[j]] = j
         /\ \A u \in M : h.place[u] \in 0 .. n - 1 /\ h.at[h.place[u]] = u
  <1>1. /\ n \in Nat /\ h.at \in [0 .. n - 1 -> Timer] /\ h.place \in [Timer -> Int]
        /\ h.due \in [Timer -> Nat]
    BY DEF Sound, Heaps
  <1>2. /\ \A j \in 0 .. n - 1 : h.place[h.at[j]] = j
        /\ M = {h.at[j] : j \in 0 .. n - 1}
    BY DEF Sound, Heaped
  <1> QED BY <1>1, <1>2

LEMMA CountIs ==
  ASSUME NEW h, NEW n, NEW M, Sound(h, n, M)
  PROVE  Count(h) = n
  <1>1. n \in Nat /\ DOMAIN h.at = 0 .. n - 1
    BY SoundFields
  <1>2. Cardinality(0 .. n - 1) = n
    <2>1. 0 \in Int /\ n - 1 \in Int
      BY <1>1
    <2>2. Cardinality(0 .. n - 1) = IF 0 > n - 1 THEN 0 ELSE n - 1 - 0 + 1
      BY <2>1, FS_Interval
    <2> QED BY <2>2, <1>1
  <1> QED BY <1>1, <1>2 DEF Count

\* The top is due first.
LEMMA TopIsFirst ==
  ASSUME NEW h, NEW n, NEW M, Sound(h, n, M), n # 0
  PROVE  h.at[0] \in M /\ \A u \in M : h.due[h.at[0]] <= h.due[u]
  <1> DEFINE d(j) == h.due[h.at[j]]
             Bad == {j \in 0 .. n - 1 : ~(d(0) <= d(j))}
  <1>1. /\ n \in Nat /\ 0 \in 0 .. n - 1 /\ h.at[0] \in M
        /\ \A j \in 0 .. n - 1 : d(j) \in Nat
        /\ \A u \in M : h.place[u] \in 0 .. n - 1 /\ h.at[h.place[u]] = u
    BY SoundFields
  <1>2. \A j \in 1 .. n - 1 : d(Parent(j)) <= d(j)
    BY DEF Sound, Heaped
  <1> HIDE DEF d
  <1>3. Bad = {}
    <2>1. SUFFICES ASSUME Bad # {} PROVE FALSE
      OBVIOUS
    <2>2. PICK j \in Bad : \A k \in Bad : j <= k
      <3>1. Bad \subseteq Nat
        OBVIOUS
      <3> HIDE DEF Bad
      <3> QED BY <2>1, <3>1, Least
    <2>3. j # 0 /\ j \in 1 .. n - 1 /\ d(j) \in Nat /\ ~(d(0) <= d(j))
      BY <1>1, <2>2
    <2>4. Parent(j) \in 0 .. n - 1 /\ Parent(j) < j
      BY <1>1, <2>3, ParentBelow
    <2>5. Parent(j) \notin Bad
      <3>1. ~(j <= Parent(j))
        BY <2>3, <2>4
      <3> HIDE DEF Bad
      <3> QED BY <2>2, <3>1
    <2> QED BY <1>1, <1>2, <2>3, <2>4, <2>5
  <1>4. \A u \in M : d(0) <= h.due[u]
    BY <1>1, <1>3 DEF d
  <1> QED BY <1>1, <1>4 DEF d

LEMMA WithoutIs ==
  ASSUME NEW n \in Nat, NEW h \in Heaps(n + 1), NEW t \in Timer
  PROVE  /\ Without(h, n, t) \in Heaps(n) /\ Without(h, n, t).due = h.due
         /\ \A j \in 0 .. n - 1 : Without(h, n, t).at[j] = h.at[j]
  <1> DEFINE a == [i \in 0 .. n - 1 |-> h.at[i]]
             p == [h.place EXCEPT ![t] = -1]
             g == [h EXCEPT !.at = a, !.place = p]
  <1>1. /\ h.at \in [0 .. n -> Timer] /\ h.place \in [Timer -> Int]
        /\ h.due \in [Timer -> Nat]
    BY DEF Heaps
  <1>2. a \in [0 .. n - 1 -> Timer] /\ p \in [Timer -> Int]
    BY <1>1
  <1>3. Without(h, n, t) = g
    BY DEF Without
  <1> HIDE DEF a, p
  <1>4. g.at = a /\ g.due = h.due
    BY DEF Heaps
  <1>5. g \in Heaps(n)
    BY <1>2 DEF Heaps
  <1> HIDE DEF g
  <1> QED BY <1>3, <1>4, <1>5 DEF a

LEMMA WithoutAt ==
  ASSUME NEW n \in Nat, NEW h \in Heaps(n + 1), NEW t \in Timer
  PROVE  Without(h, n, t).place = [h.place EXCEPT ![t] = -1]
  <1> DEFINE a == [i \in 0 .. n - 1 |-> h.at[i]]
             p == [h.place EXCEPT ![t] = -1]
             g == [h EXCEPT !.at = a, !.place = p]
  <1>1. Without(h, n, t) = g
    BY DEF Without
  <1> HIDE DEF a, p
  <1>2. g.place = p
    BY DEF Heaps
  <1> HIDE DEF g
  <1> QED BY <1>1, <1>2 DEF p

\* What is left when the last element fills the place of t.
LEMMA LastFills ==
  ASSUME NEW n \in Nat, NEW h, NEW M, Sound(h, n + 1, M), NEW t \in M,
         NEW g \in Heaps(n + 1), Heaped(g, n, M \ {t}), Alike(h, g, M)
  PROVE  /\ Sound(Without(g, n, t), n, M \ {t})
         /\ Without(g, n, t).due = h.due
  <1> DEFINE w == Without(g, n, t)
  <1>1. M \subseteq Timer /\ t \in Timer /\ g.place \in [Timer -> Int]
    BY SoundFields DEF Heaps
  <1>2. /\ w \in Heaps(n) /\ w.due = g.due
        /\ \A j \in 0 .. n - 1 : w.at[j] = g.at[j]
    BY <1>1, WithoutIs
  <1>3. w.place = [g.place EXCEPT ![t] = -1]
    BY <1>1, WithoutAt
  <1> HIDE DEF w
  <1>4. /\ \A j \in 0 .. n - 1 : g.place[g.at[j]] = j
        /\ \A j \in 1 .. n - 1 : g.due[g.at[Parent(j)]] <= g.due[g.at[j]]
        /\ {g.at[j] : j \in 0 .. n - 1} = M \ {t}
    BY DEF Heaped
  <1>5. {w.at[j] : j \in 0 .. n - 1} = M \ {t}
    BY <1>2, <1>4
  <1>6. \A j \in 0 .. n - 1 : w.place[w.at[j]] = j
    BY <1>1, <1>2, <1>3, <1>4
  <1>7. \A j \in 1 .. n - 1 : w.due[w.at[Parent(j)]] <= w.due[w.at[j]]
    <2>1. \A j \in 1 .. n - 1 : Parent(j) \in 0 .. n - 1 /\ j \in 0 .. n - 1
      BY ParentBelow
    <2> QED BY <2>1, <1>2, <1>4
  <1>8. \A u \in Timer \ (M \ {t}) : w.place[u] = -1
    BY <1>1, <1>3 DEF Sound, Alike
  <1> QED BY <1>2, <1>5, <1>6, <1>7, <1>8 DEF Sound, Heaped, w, Alike

\* erase: the last element fills the place of t and rises or sinks from there.
LEMMA EraseHeaps ==
  ASSUME NEW n \in Nat, NEW h, NEW M, Sound(h, n + 1, M), NEW t \in M
  PROVE  Sound(Erase(h, t), n, M \ {t}) /\ Erase(h, t).due = h.due
  <1> DEFINE i == h.place[t]
             e == h.at[n]
             rises == i > 0 /\ Later(h, h.at[Parent(i)], e)
             g == IF rises THEN ShiftUp(h, i, e) ELSE ShiftDown(h, n, i, e)
  <1>1. /\ h \in Heaps(n + 1) /\ M \subseteq Timer
        /\ h.at \in [0 .. n -> Timer] /\ h.place \in [Timer -> Int] /\ h.due \in [Timer -> Nat]
        /\ \A j \in 0 .. n : h.at[j] \in M /\ h.place[h.at[j]] = j
        /\ \A u \in M : h.place[u] \in 0 .. n /\ h.at[h.place[u]] = u
    <2> DEFINE l == n + 1
    <2>1. l - 1 = n
      OBVIOUS
    <2>2. Sound(h, l, M) /\ h \in Heaps(l)
      BY DEF Sound
    <2> HIDE DEF l
    <2>3. /\ M \subseteq Timer
          /\ h.at \in [0 .. l - 1 -> Timer] /\ h.place \in [Timer -> Int]
          /\ h.due \in [Timer -> Nat]
          /\ \A j \in 0 .. l - 1 : h.at[j] \in M /\ h.place[h.at[j]] = j
          /\ \A u \in M : h.place[u] \in 0 .. l - 1 /\ h.at[h.place[u]] = u
      BY <2>2, SoundFields
    <2>4. h \in Heaps(n + 1)
      BY <2>2 DEF l
    <2> QED BY <2>1, <2>3, <2>4
  <1>2. i \in 0 .. n /\ h.at[i] = t /\ e \in M /\ e \in Timer /\ h.place[e] = n
    BY <1>1
  <1>3. Erase(h, t) = Without(g, n, t)
    <2>1. Count(h) = n + 1
      BY CountIs
    <2>2. Count(h) - 1 = n /\ ~(i < 0)
      BY <2>1, <1>2
    <2> QED BY <2>2 DEF Erase
  <1>4. \A j \in 1 .. n : /\ h.due[h.at[Parent(j)]] <= h.due[h.at[j]]
                          /\ Parent(j) \in 0 .. n /\ Parent(j) < j
    BY ParentBelow DEF Sound, Heaped
  <1>5. \A j \in 0 .. n : h.due[h.at[j]] \in Nat
    BY <1>1
  <1> HIDE DEF i, e, g, rises
  <1>6. g \in Heaps(n + 1) /\ Heaped(g, n, M \ {t}) /\ Alike(h, g, M)
    <2>1. CASE i # n
      <3>1. /\ i \in 0 .. n - 1 /\ n \in 0 .. n + 1 /\ n + 1 \in Nat /\ e \in Timer
            /\ h \in Heaps(n + 1)
        BY <1>1, <1>2, <2>1
      <3>2. ASSUME NEW j \in 0 .. n - 1 PROVE h.place[h.at[j]] = j /\ h.at[j] # e
        <4>1. j \in 0 .. n /\ j # n
          OBVIOUS
        <4>2. h.place[h.at[j]] = j
          BY <4>1, <1>1
        <4> QED BY <4>1, <4>2, <1>2
      <3>3. \A j \in 1 .. n - 1 : Parent(j) = i /\ i # 0 => h.due[h.at[Parent(i)]] <= h.due[h.at[j]]
        <4>1. SUFFICES ASSUME NEW j \in 1 .. n - 1, Parent(j) = i, i # 0
                       PROVE  h.due[h.at[Parent(i)]] <= h.due[h.at[j]]
          OBVIOUS
        <4>2. i \in 1 .. n /\ j \in 1 .. n /\ j \in 0 .. n
          BY <1>2, <4>1
        <4>3. /\ h.due[h.at[Parent(i)]] <= h.due[h.at[i]] /\ Parent(i) \in 0 .. n
              /\ h.due[h.at[i]] <= h.due[h.at[j]]
          BY <4>1, <4>2, <1>4
        <4> QED BY <1>5, <4>2, <4>3, <1>2
      <3>4. HoleAt(h, n, i, e)
        BY <3>2, <3>3, <1>4 DEF HoleAt
      <3>5. Others(h, n, i) \cup {e} = M \ {t}
        <4>1. ASSUME NEW u \in M, u # t, u # e PROVE u \in Others(h, n, i)
          <5>1. h.place[u] \in 0 .. n /\ h.at[h.place[u]] = u
            BY <1>1
          <5>2. h.place[u] # i /\ h.place[u] # n
            BY <5>1, <1>2, <4>1 DEF e
          <5> QED BY <5>1, <5>2 DEF Others
        <4>2. ASSUME NEW j \in 0 .. n - 1, j # i PROVE h.at[j] \in M \ {t}
          BY <4>2, <1>1, <1>2 DEF i
        <4>3. e \in M \ {t}
          BY <1>2, <2>1 DEF i
        <4>4. Others(h, n, i) \subseteq M \ {t}
          BY <4>2 DEF Others
        <4> QED BY <4>1, <4>3, <4>4
      <3>6. CASE rises
        <4>1. Fits(h, n, i, e)
          <5>1. SUFFICES ASSUME NEW j \in 1 .. n - 1, Parent(j) = i
                         PROVE  h.due[e] <= h.due[h.at[j]]
            BY DEF Fits
          <5>2. /\ i # 0 /\ h.due[h.at[Parent(i)]] > h.due[e]
            BY <3>6 DEF rises, Later
          <5>3. h.due[h.at[Parent(i)]] <= h.due[h.at[j]]
            BY <3>3, <5>1, <5>2
          <5>4. Parent(i) \in 0 .. n /\ j \in 0 .. n
            BY <1>2, <1>4, <5>2
          <5>5. h.due[e] \in Nat /\ h.due[h.at[Parent(i)]] \in Nat /\ h.due[h.at[j]] \in Nat
            BY <1>1, <1>2, <1>5, <5>4
          <5> QED BY <5>2, <5>3, <5>5
        <4>2. g = ShiftUp(h, i, e)
          BY <3>6 DEF g
        <4>3. /\ ShiftUp(h, i, e) \in Heaps(n + 1)
              /\ Heaped(ShiftUp(h, i, e), n, Others(h, n, i) \cup {e})
              /\ Alike(h, ShiftUp(h, i, e), Others(h, n, i) \cup {e})
          BY <4>1, <3>1, <3>4, ShiftUpHeaps
        <4> QED BY <4>2, <4>3, <3>5 DEF Alike
      <3>7. CASE ~rises
        <4>1. g = ShiftDown(h, n, i, e)
          BY <3>7 DEF g
        <4>2. /\ ShiftDown(h, n, i, e) \in Heaps(n + 1)
              /\ Heaped(ShiftDown(h, n, i, e), n, Others(h, n, i) \cup {e})
              /\ Alike(h, ShiftDown(h, n, i, e), Others(h, n, i) \cup {e})
          BY <3>1, <3>4, ShiftDownHeaps
        <4> QED BY <4>1, <4>2, <3>5 DEF Alike
      <3> QED BY <3>6, <3>7
    <2>2. CASE i = n
      <3> DEFINE r == Sunk(h, n, n, e)
                 q == Risen(h, n, e)
                 first == [heap |-> h, hole |-> n]
      <3>1. /\ n + 1 \in Nat /\ n \in 0 .. n + 1 /\ n \in 0 .. n + 1 - 1 /\ e = t
            /\ h \in Heaps(n + 1) /\ e \in Timer
        BY <1>1, <1>2, <2>2 DEF e
      <3>2. /\ r[0] = first /\ \A k \in Nat : r[k + 1] = Sink(n, e, r[k])
            /\ q[0] = first /\ \A k \in Nat : q[k + 1] = Rise(e, q[k])
        <4>1. r[0] = first /\ \A k \in Nat : r[k + 1] = Sink(n, e, r[k])
          BY <3>1, SunkTurns
        <4>2. q[0] = first /\ \A k \in Nat : q[k + 1] = Rise(e, q[k])
          BY <3>1, RisenTurns
        <4> QED BY <4>1, <4>2
      <3>3. n # 0 => ~Later(h, h.at[Parent(n)], e)
        <4>1. SUFFICES ASSUME n # 0 PROVE ~Later(h, h.at[Parent(n)], e)
          OBVIOUS
        <4>2. n \in 1 .. n
          BY <4>1
        <4>3. Parent(n) \in 0 .. n /\ n \in 0 .. n /\ h.due[h.at[Parent(n)]] <= h.due[h.at[n]]
          BY <4>2, <1>4
        <4> QED BY <4>3, <1>5 DEF Later, e
      <3>4. first.heap = h /\ first.hole = n
        OBVIOUS
      <3> HIDE DEF r, q, first
      <3>5. Sink(n, e, first) = first
        BY <3>4 DEF Sink
      <3>6. Rise(e, first) = first
        BY <3>3, <3>4 DEF Rise
      <3>7. r[n] = first
        <4> DEFINE D == {k \in Nat : r[k] = first}
        <4>1. 0 \in D /\ \A k \in Nat : k \in D => k + 1 \in D
          BY <3>2, <3>5
        <4> HIDE DEF D
        <4>2. n \in D
          BY <4>1, AllNumbers
        <4> QED BY <4>2 DEF D
      <3>8. q[n] = first
        <4> DEFINE D == {k \in Nat : q[k] = first}
        <4>1. 0 \in D /\ \A k \in Nat : k \in D => k + 1 \in D
          BY <3>2, <3>6
        <4> HIDE DEF D
        <4>2. n \in D
          BY <4>1, AllNumbers
        <4> QED BY <4>2 DEF D
      <3>9. ~rises
        BY <3>3, <2>2 DEF rises
      <3>10. g = Placed(h, n, e)
        <4>1. g = ShiftDown(h, n, n, e)
          BY <3>9, <2>2 DEF g
        <4>2. ShiftDown(h, n, n, e) = ShiftUp(h, n, e)
          BY <3>4, <3>7 DEF ShiftDown, r
        <4>3. ShiftUp(h, n, e) = Placed(h, n, e)
          BY <3>4, <3>8 DEF ShiftUp, q
        <4> QED BY <4>1, <4>2, <4>3
      <3>11. /\ Placed(h, n, e) \in Heaps(n + 1) /\ Placed(h, n, e).due = h.due
             /\ Placed(h, n, e).at = [h.at EXCEPT ![n] = e]
        BY <3>1, PlacedIs
      <3>12. Placed(h, n, e).place = [h.place EXCEPT ![e] = n]
        BY <3>1, PlacedAt
      <3>13. g \in Heaps(n + 1) /\ g.due = h.due /\ g.at = h.at /\ g.place = h.place
        <4>1. [h.at EXCEPT ![n] = e] = h.at
          BY <1>1 DEF e
        <4>2. [h.place EXCEPT ![e] = n] = h.place
          BY <1>1, <1>2
        <4> QED BY <4>1, <4>2, <3>10, <3>11, <3>12
      <3>14. {g.at[j] : j \in 0 .. n - 1} = M \ {t}
        <4>1. ASSUME NEW j \in 0 .. n - 1 PROVE h.at[j] \in M \ {t}
          BY <1>1, <1>2, <2>2 DEF i
        <4>2. ASSUME NEW u \in M \ {t} PROVE \E j \in 0 .. n - 1 : h.at[j] = u
          <5>1. h.place[u] \in 0 .. n /\ h.at[h.place[u]] = u /\ h.place[u] # n
            BY <1>1, <1>2, <2>2
          <5> QED BY <5>1
        <4> QED BY <4>1, <4>2, <3>13
      <3>15. Heaped(g, n, M \ {t})
        <4>1. \A j \in 0 .. n - 1 : g.place[g.at[j]] = j
          BY <3>13, <1>1
        <4>2. \A j \in 1 .. n - 1 : g.due[g.at[Parent(j)]] <= g.due[g.at[j]]
          BY <3>13, <1>4
        <4> QED BY <4>1, <4>2, <3>14 DEF Heaped
      <3> QED BY <3>13, <3>15 DEF Alike
    <2> QED BY <2>1, <2>2
  <1> QED BY <1>3, <1>6, LastFills

\* pop: the top is erased.
LEMMA PopErases ==
  ASSUME NEW n \in Nat, NEW h, NEW M, Sound(h, n + 1, M)
  PROVE  h.at[0] \in M /\ Pop(h) = Erase(h, h.at[0])
  <1> DEFINE l == n + 1
             t == h.at[0]
  <1>1. Sound(h, l, M) /\ l \in Nat /\ 0 \in 0 .. l - 1 /\ l - 1 = n
    OBVIOUS
  <1> HIDE DEF l
  <1>2. t \in M /\ h.place[t] = 0
    BY <1>1, SoundFields
  <1>3. Count(h) - 1 = n
    BY <1>1, CountIs
  <1>4. Pop(h) = Without(ShiftDown(h, n, 0, h.at[n]), n, t)
    BY <1>3 DEF Pop
  <1>5. Erase(h, t) = Without(ShiftDown(h, n, 0, h.at[n]), n, t)
    BY <1>2, <1>3 DEF Erase
  <1> QED BY <1>2, <1>4, <1>5

\* The array with one more place at its end.
Grown(h, n, t) == [h EXCEPT !.at = [i \in 0 .. n |-> IF i = n THEN t ELSE h.at[i]]]

LEMMA GrownIs ==
  ASSUME NEW n \in Nat, NEW h \in Heaps(n), NEW t \in Timer
  PROVE  /\ Grown(h, n, t) \in Heaps(n + 1)
         /\ Grown(h, n, t).due = h.due /\ Grown(h, n, t).place = h.place
         /\ \A j \in 0 .. n : Grown(h, n, t).at[j] = IF j = n THEN t ELSE h.at[j]
  <1> DEFINE a == [i \in 0 .. n |-> IF i = n THEN t ELSE h.at[i]]
             g == [h EXCEPT !.at = a]
  <1>1. /\ h.at \in [0 .. n - 1 -> Timer] /\ h.place \in [Timer -> Int]
        /\ h.due \in [Timer -> Nat]
    BY DEF Heaps
  <1>2. a \in [0 .. n + 1 - 1 -> Timer]
    <2>1. \A j \in 0 .. n : j # n => j \in 0 .. n - 1
      OBVIOUS
    <2>2. n + 1 - 1 = n
      OBVIOUS
    <2> QED BY <1>1, <2>1, <2>2
  <1>3. Grown(h, n, t) = g
    BY DEF Grown
  <1>4. \A j \in 0 .. n : a[j] = IF j = n THEN t ELSE h.at[j]
    OBVIOUS
  <1> HIDE DEF a
  <1>5. g.at = a /\ g.due = h.due /\ g.place = h.place
    BY DEF Heaps
  <1>6. g \in Heaps(n + 1)
    <2> DEFINE l == n + 1
    <2> HIDE DEF l
    <2>1. a \in [0 .. l - 1 -> Timer]
      BY <1>2 DEF l
    <2>2. g \in Heaps(l)
      BY <2>1 DEF Heaps
    <2> QED BY <2>2 DEF l
  <1> HIDE DEF g
  <1> QED BY <1>3, <1>4, <1>5, <1>6

\* push: t is put behind the last element and rises from there.
LEMMA PushHeaps ==
  ASSUME NEW n \in Nat, NEW h, NEW M, Sound(h, n, M), NEW t \in Timer \ M
  PROVE  Sound(Push(h, t), n + 1, M \cup {t}) /\ Push(h, t).due = h.due
  <1> DEFINE l == n + 1
             f == Grown(h, n, t)
             g == ShiftUp(f, n, t)
  <1>1. /\ h \in Heaps(n) /\ M \subseteq Timer /\ h.place \in [Timer -> Int]
        /\ \A j \in 0 .. n - 1 : h.at[j] \in M /\ h.place[h.at[j]] = j
        /\ M = {h.at[j] : j \in 0 .. n - 1}
        /\ \A j \in 1 .. n - 1 : h.due[h.at[Parent(j)]] <= h.due[h.at[j]]
    BY SoundFields DEF Sound, Heaped
  <1>2. Push(h, t) = g
    <2>1. Count(h) = n /\ h.place[t] = -1
      BY CountIs DEF Sound
    <2> QED BY <2>1 DEF Push, Grown
  <1>3. /\ f \in Heaps(n + 1) /\ f.due = h.due /\ f.place = h.place
        /\ \A j \in 0 .. n : f.at[j] = IF j = n THEN t ELSE h.at[j]
    BY <1>1, GrownIs
  <1>4. /\ l \in Nat /\ l \in 0 .. l /\ n \in 0 .. l - 1 /\ l - 1 = n /\ f \in Heaps(l)
        /\ \A j \in 0 .. l - 1 : j # n => j \in 0 .. n - 1
    BY <1>3
  <1> HIDE DEF f, g, l
  <1>5. HoleAt(f, l, n, t)
    <2>1. \A j \in 0 .. l - 1 : j # n => f.place[f.at[j]] = j /\ f.at[j] # t
      BY <1>1, <1>3, <1>4
    <2>2. ASSUME NEW j \in 1 .. l - 1 PROVE Parent(j) # n
      <3>1. Parent(j) < j /\ j <= n /\ Parent(j) \in Nat
        BY <1>4, ParentBelow
      <3> QED BY <3>1
    <2>3. ASSUME NEW j \in 1 .. l - 1, j # n
          PROVE  f.due[f.at[Parent(j)]] <= f.due[f.at[j]]
      <3>1. j \in 1 .. n - 1 /\ j \in 0 .. n
        BY <1>4, <2>3
      <3>2. Parent(j) \in 0 .. n /\ Parent(j) # n
        BY <3>1, ParentBelow
      <3> QED BY <2>3, <3>1, <3>2, <1>1, <1>3
    <2> QED BY <2>1, <2>2, <2>3 DEF HoleAt
  <1>6. Fits(f, l, n, t)
    <2>1. ASSUME NEW j \in 1 .. l - 1 PROVE Parent(j) # n
      <3>1. Parent(j) < j /\ j <= n /\ Parent(j) \in Nat
        BY <1>4, ParentBelow
      <3> QED BY <3>1
    <2> QED BY <2>1 DEF Fits
  <1>7. Others(f, l, n) = M
    <2>1. (0 .. l - 1) \ {n} = 0 .. n - 1
      BY <1>4
    <2>2. \A j \in 0 .. n - 1 : f.at[j] = h.at[j]
      BY <1>3
    <2> QED BY <2>1, <2>2, <1>1 DEF Others
  <1>8. /\ g \in Heaps(l) /\ Heaped(g, l, Others(f, l, n) \cup {t})
        /\ Alike(f, g, Others(f, l, n) \cup {t})
    BY <1>4, <1>5, <1>6, ShiftUpHeaps DEF g
  <1>9. g.due = h.due /\ \A u \in Timer \ (M \cup {t}) : g.place[u] = -1
    BY <1>3, <1>7, <1>8 DEF Alike, Sound
  <1>10. Sound(g, l, M \cup {t})
    BY <1>4, <1>7, <1>8, <1>9 DEF Sound
  <1> QED BY <1>2, <1>9, <1>10 DEF l

LEMMA SetIs ==
  ASSUME NEW n \in Nat, NEW h \in Heaps(n), NEW t \in Timer, NEW w \in Nat
  PROVE  /\ SetTimeout(h, t, w) \in Heaps(n)
         /\ SetTimeout(h, t, w).at = h.at /\ SetTimeout(h, t, w).place = h.place
  <1> DEFINE d == [h.due EXCEPT ![t] = w]
             g == [h EXCEPT !.due = d]
  <1>1. d \in [Timer -> Nat]
    BY DEF Heaps
  <1>2. SetTimeout(h, t, w) = g
    BY DEF SetTimeout
  <1> HIDE DEF d
  <1>3. g.at = h.at /\ g.place = h.place
    BY DEF Heaps
  <1>4. g \in Heaps(n)
    BY <1>1 DEF Heaps
  <1> HIDE DEF g
  <1> QED BY <1>2, <1>3, <1>4

LEMMA SetDue ==
  ASSUME NEW n \in Nat, NEW h \in Heaps(n), NEW t \in Timer, NEW w \in Nat
  PROVE  SetTimeout(h, t, w).due = [h.due EXCEPT ![t] = w]
  <1> DEFINE d == [h.due EXCEPT ![t] = w]
             g == [h EXCEPT !.due = d]
  <1>1. SetTimeout(h, t, w) = g
    BY DEF SetTimeout
  <1> HIDE DEF d
  <1>2. g.due = d
    BY DEF Heaps
  <1> HIDE DEF g
  <1> QED BY <1>1, <1>2 DEF d

\* The moments of those outside do not matter.
LEMMA SameHeap ==
  ASSUME NEW h, NEW n, NEW M, Sound(h, n, M), NEW g \in Heaps(n),
         g.at = h.at, g.place = h.place, \A u \in M : g.due[u] = h.due[u]
  PROVE  Sound(g, n, M)
  <1>1. n \in Nat /\ \A j \in 0 .. n - 1 : h.at[j] \in M
    BY SoundFields
  <1>2. \A j \in 1 .. n - 1 : Parent(j) \in 0 .. n - 1 /\ j \in 0 .. n - 1
    BY <1>1, ParentBelow
  <1>3. \A j \in 1 .. n - 1 : g.due[g.at[Parent(j)]] <= g.due[g.at[j]]
    BY <1>1, <1>2 DEF Sound, Heaped
  <1>4. \A j \in 0 .. n - 1 : g.place[g.at[j]] = j
    BY DEF Sound, Heaped
  <1>5. {g.at[j] : j \in 0 .. n - 1} = M
    BY DEF Sound, Heaped
  <1>6. Heaped(g, n, M)
    BY <1>3, <1>4, <1>5 DEF Heaped
  <1> QED BY <1>1, <1>6 DEF Sound

-----------------------------------------------------------------------------
(* The engine's timers.                                                      *)

\* The heap holds the n timers of M, and those are set.
Holds(n, M) == Sound(TheHeap, n, M) /\ \A u \in M : ullTimeout[u] \in When

HeapInv == \E n \in Nat, M \in SUBSET Timer : Holds(n, M)

\* What Moment is: the moments of the timers of M.
Moments(M, due) == [u \in Timer |-> IF u \in M THEN due[u] ELSE 0]

LEMMA MomentIs ==
  ASSUME NEW n, NEW M, Sound(TheHeap, n, M)
  PROVE  Moment = Moments(M, ullTimeout)
  <1>1. TheHeap.at = element
    BY DEF TheHeap
  <1>2. n \in Nat /\ DOMAIN element = 0 .. n - 1
    BY <1>1, SoundFields
  <1>3. M = {element[j] : j \in 0 .. n - 1}
    BY <1>1 DEF Sound, Heaped
  <1>4. ASSUME NEW u \in Timer
        PROVE  (\E i \in DOMAIN element : element[i] = u) <=> u \in M
    BY <1>2, <1>3
  <1> QED BY <1>4 DEF Moment, Moments

\* A heap that is sound is what the engine holds next.
LEMMA BecomesHolds ==
  ASSUME NEW n, NEW M, NEW h, Sound(h, n, M), \A u \in M : h.due[u] \in When, Becomes(h)
  PROVE  Holds(n, M)' /\ M \in SUBSET Timer /\ n \in Nat /\ ullTimeout' = h.due
  <1> DEFINE g == [at |-> h.at, place |-> h.place, due |-> h.due]
  <1>1. n \in Nat /\ M \subseteq Timer /\ g \in Heaps(n)
    BY SoundFields DEF Heaps
  <1>2. g.at = h.at /\ g.place = h.place /\ g.due = h.due
    OBVIOUS
  <1>3. TheHeap' = g /\ ullTimeout' = h.due
    BY DEF TheHeap, Becomes
  <1> HIDE DEF g
  <1>4. Sound(g, n, M)
    BY <1>1, <1>2, SameHeap
  <1> QED BY <1>1, <1>3, <1>4 DEF Holds

LEMMA NextMoment ==
  ASSUME NEW n, NEW M, Sound(TheHeap, n, M)'
  PROVE  Moment' = Moments(M, ullTimeout')
  <1>1. TheHeap'.at = element'
    BY DEF TheHeap
  <1>2. n \in Nat /\ DOMAIN element' = 0 .. n - 1
    BY <1>1, SoundFields
  <1>3. M = {element'[j] : j \in 0 .. n - 1}
    BY <1>1 DEF Sound, Heaped
  <1>4. ASSUME NEW u \in Timer
        PROVE  (\E i \in DOMAIN element' : element'[i] = u) <=> u \in M
    BY <1>2, <1>3
  <1> QED BY <1>4 DEF Moment, Moments

\* Whatever t was, it is out of the heap afterwards.
LEMMA OutOfHeap ==
  ASSUME NEW n \in Nat, NEW M, Sound(TheHeap, n, M), NEW t \in Timer
  PROVE  /\ \E l \in Nat : Sound(Erase(TheHeap, t), l, M \ {t})
         /\ Erase(TheHeap, t).due = ullTimeout
  <1>1. TheHeap.due = ullTimeout
    BY DEF TheHeap
  <1>2. CASE t \in M
    <2>1. n # 0
      BY <1>2, SoundFields
    <2> DEFINE l == n - 1
    <2>2. l \in Nat /\ l + 1 = n
      BY <2>1
    <2> HIDE DEF l
    <2>3. Sound(TheHeap, l + 1, M)
      BY <2>2
    <2>4. Sound(Erase(TheHeap, t), l, M \ {t}) /\ Erase(TheHeap, t).due = TheHeap.due
      BY <1>2, <2>2, <2>3, EraseHeaps
    <2> QED BY <1>1, <2>2, <2>4
  <1>3. CASE t \notin M
    <2>1. TheHeap.place[t] = -1
      BY <1>3 DEF Sound
    <2>2. Erase(TheHeap, t) = TheHeap /\ M \ {t} = M
      BY <1>3, <2>1 DEF Erase
    <2> QED BY <1>1, <2>2
  <1> QED BY <1>2, <1>3

LEMMA ScheduleSets ==
  ASSUME HeapInv, NEW t \in Timer, NEW w \in When, ScheduleTimer(t, w)
  PROVE  HeapInv' /\ Timers!Set(t, w)
  <1>1. PICK n \in Nat, M \in SUBSET Timer : Holds(n, M)
    BY DEF HeapInv
  <1>2. Sound(TheHeap, n, M) /\ \A u \in M : ullTimeout[u] \in When
    BY <1>1 DEF Holds
  <1> DEFINE f == Erase(TheHeap, t)
             g == SetTimeout(f, t, w)
             h == Push(g, t)
             K == M \ {t}
  <1>3. PICK l \in Nat : Sound(f, l, K)
    BY <1>2, OutOfHeap
  <1>4. f.due = ullTimeout
    BY <1>2, OutOfHeap
  <1>5. w \in Nat
    BY TimerAssumption
  <1>6. Becomes(h) /\ called' = Nobody
    BY DEF ScheduleTimer
  <1> HIDE DEF f, K
  <1>7. f \in Heaps(l) /\ ullTimeout \in [Timer -> Nat]
    BY <1>3, <1>4, SoundFields DEF Sound
  <1>8. /\ g \in Heaps(l) /\ g.at = f.at /\ g.place = f.place
         /\ g.due = [ullTimeout EXCEPT ![t] = w]
    <2>1. g \in Heaps(l) /\ g.at = f.at /\ g.place = f.place
      BY <1>4, <1>5, <1>7, SetIs
    <2>2. g.due = [f.due EXCEPT ![t] = w]
      BY <1>4, <1>5, <1>7, SetDue
    <2> QED BY <2>1, <2>2, <1>4
  <1>9. K = M \ {t} /\ t \notin K
    BY DEF K
  <1> HIDE DEF g
  <1>10. Sound(g, l, K)
    BY <1>3, <1>4, <1>7, <1>8, <1>9, SameHeap
  <1>11. Sound(h, l + 1, K \cup {t}) /\ h.due = g.due
    BY <1>9, <1>10, PushHeaps
  <1> HIDE DEF h
  <1>12. \A u \in K \cup {t} : h.due[u] \in When
    BY <1>2, <1>7, <1>8, <1>9, <1>11
  <1>13. /\ Holds(l + 1, K \cup {t})' /\ K \cup {t} \in SUBSET Timer /\ l + 1 \in Nat
         /\ ullTimeout' = h.due
    BY <1>6, <1>11, <1>12, BecomesHolds
  <1>14. Moment = Moments(M, ullTimeout)
    BY <1>2, MomentIs
  <1>15. Moment' = Moments(K \cup {t}, ullTimeout')
    BY <1>13, NextMoment DEF Holds
  <1>16. Moment' = [Moment EXCEPT ![t] = w]
    BY <1>7, <1>8, <1>9, <1>11, <1>13, <1>14, <1>15 DEF Moments
  <1> QED BY <1>6, <1>13, <1>16 DEF HeapInv, Timers!Set

LEMMA CancelUnsets ==
  ASSUME HeapInv, NEW t \in Timer, CancelTimer(t)
  PROVE  HeapInv' /\ Timers!Unset(t)
  <1>1. PICK n \in Nat, M \in SUBSET Timer : Holds(n, M)
    BY DEF HeapInv
  <1>2. Sound(TheHeap, n, M) /\ \A u \in M : ullTimeout[u] \in When
    BY <1>1 DEF Holds
  <1> DEFINE f == Erase(TheHeap, t)
             g == SetTimeout(f, t, 0)
             K == M \ {t}
  <1>3. PICK l \in Nat : Sound(f, l, K)
    BY <1>2, OutOfHeap
  <1>4. f.due = ullTimeout
    BY <1>2, OutOfHeap
  <1>5. Becomes(g) /\ called' = Nobody /\ index[t] # -1
    BY DEF CancelTimer
  <1>6. t \in M
    <2>1. TheHeap.place = index
      BY DEF TheHeap
    <2> QED BY <1>2, <1>5, <2>1 DEF Sound
  <1> HIDE DEF f, K
  <1>7. f \in Heaps(l) /\ ullTimeout \in [Timer -> Nat]
    BY <1>3, <1>4, SoundFields DEF Sound
  <1>8. /\ g \in Heaps(l) /\ g.at = f.at /\ g.place = f.place
         /\ g.due = [ullTimeout EXCEPT ![t] = 0]
    <2>1. g \in Heaps(l) /\ g.at = f.at /\ g.place = f.place
      BY <1>4, <1>7, SetIs
    <2>2. g.due = [f.due EXCEPT ![t] = 0]
      BY <1>4, <1>7, SetDue
    <2> QED BY <2>1, <2>2, <1>4
  <1>9. K = M \ {t} /\ t \notin K
    BY DEF K
  <1> HIDE DEF g
  <1>10. Sound(g, l, K)
    BY <1>3, <1>4, <1>7, <1>8, <1>9, SameHeap
  <1>11. \A u \in K : g.due[u] \in When
    BY <1>2, <1>7, <1>8, <1>9
  <1>12. Holds(l, K)' /\ K \in SUBSET Timer /\ l \in Nat /\ ullTimeout' = g.due
    BY <1>5, <1>10, <1>11, BecomesHolds
  <1>13. Moment = Moments(M, ullTimeout)
    BY <1>2, MomentIs
  <1>14. Moment' = Moments(K, ullTimeout')
    BY <1>12, NextMoment DEF Holds
  <1>15. Moment' = [Moment EXCEPT ![t] = 0]
    BY <1>7, <1>8, <1>9, <1>12, <1>13, <1>14 DEF Moments
  <1>16. Moment[t] # 0
    BY <1>2, <1>6, <1>13, TimerAssumption DEF Moments
  <1> QED BY <1>5, <1>12, <1>15, <1>16 DEF HeapInv, Timers!Unset

LEMMA TimeoutCalls ==
  ASSUME HeapInv, Timeout
  PROVE  HeapInv' /\ element[0] \in Timer /\ Timers!Call(element[0])
  <1>1. PICK n \in Nat, M \in SUBSET Timer : Holds(n, M)
    BY DEF HeapInv
  <1>2. Sound(TheHeap, n, M) /\ \A u \in M : ullTimeout[u] \in When
    BY <1>1 DEF Holds
  <1> PICK t : t = element[0]
    OBVIOUS
  <1> DEFINE f == Erase(TheHeap, t)
             g == SetTimeout(f, t, 0)
             K == M \ {t}
  <1>3. n # 0 /\ TheHeap.at = element /\ TheHeap.due = ullTimeout
    BY <1>2, CountIs DEF Timeout, TheHeap
  <1>4. t \in M /\ \A u \in M : ullTimeout[t] <= ullTimeout[u]
    BY <1>2, <1>3, TopIsFirst
  <1>5. Pop(TheHeap) = f
    <2> DEFINE l == n - 1
    <2>1. l \in Nat /\ l + 1 = n
      BY <1>3
    <2> HIDE DEF l
    <2>2. Sound(TheHeap, l + 1, M)
      BY <1>2, <2>1
    <2> QED BY <1>3, <2>1, <2>2, PopErases
  <1>6. Becomes(g) /\ called' = t
    BY <1>5 DEF Timeout
  <1>7. PICK l \in Nat : Sound(f, l, K)
    BY <1>2, <1>4, OutOfHeap
  <1>8. f.due = ullTimeout /\ t \in Timer
    BY <1>2, <1>4, OutOfHeap
  <1> HIDE DEF f, K
  <1>9. f \in Heaps(l) /\ ullTimeout \in [Timer -> Nat]
    BY <1>7, <1>8, SoundFields DEF Sound
  <1>10. /\ g \in Heaps(l) /\ g.at = f.at /\ g.place = f.place
         /\ g.due = [ullTimeout EXCEPT ![t] = 0]
    <2>1. g \in Heaps(l) /\ g.at = f.at /\ g.place = f.place
      BY <1>8, <1>9, SetIs
    <2>2. g.due = [f.due EXCEPT ![t] = 0]
      BY <1>8, <1>9, SetDue
    <2> QED BY <2>1, <2>2, <1>8
  <1>11. K = M \ {t} /\ t \notin K
    BY DEF K
  <1> HIDE DEF g
  <1>12. Sound(g, l, K)
    BY <1>7, <1>8, <1>9, <1>10, <1>11, SameHeap
  <1>13. \A u \in K : g.due[u] \in When
    BY <1>2, <1>9, <1>10, <1>11
  <1>14. Holds(l, K)' /\ K \in SUBSET Timer /\ l \in Nat /\ ullTimeout' = g.due
    BY <1>6, <1>12, <1>13, BecomesHolds
  <1>15. Moment = Moments(M, ullTimeout)
    BY <1>2, MomentIs
  <1>16. Moment' = Moments(K, ullTimeout')
    BY <1>14, NextMoment DEF Holds
  <1>17. Moment' = [Moment EXCEPT ![t] = 0]
    BY <1>9, <1>10, <1>11, <1>14, <1>15, <1>16 DEF Moments
  <1>18. Moment[t] # 0
    BY <1>2, <1>4, <1>15, TimerAssumption DEF Moments
  <1>19. \A u \in Timer : Moment[u] # 0 => Moment[t] <= Moment[u]
    BY <1>4, <1>15 DEF Moments
  <1>20. Timers!Call(t)
    BY <1>6, <1>17, <1>18, <1>19 DEF Timers!Call
  <1>21. HeapInv'
    BY <1>14 DEF HeapInv
  <1> QED BY <1>8, <1>20, <1>21

LEMMA HeapInvInit ==
  HeapInit => HeapInv /\ Timers!Init
  <1> SUFFICES ASSUME HeapInit PROVE HeapInv /\ Timers!Init
    OBVIOUS
  <1>1. /\ element = [i \in {} |-> Nobody] /\ index = [t \in Timer |-> -1]
        /\ ullTimeout = [t \in Timer |-> 0] /\ called = Nobody
    BY DEF HeapInit
  <1>2. 0 .. 0 - 1 = {} /\ 1 .. 0 - 1 = {}
    OBVIOUS
  <1>3. element \in [0 .. 0 - 1 -> Timer]
    BY <1>1, <1>2
  <1>4. TheHeap \in Heaps(0)
    BY <1>1, <1>3 DEF TheHeap, Heaps
  <1>5. TheHeap.place = index
    BY DEF TheHeap
  <1>6. Sound(TheHeap, 0, {})
    BY <1>1, <1>2, <1>4, <1>5 DEF Sound, Heaped
  <1>7. Holds(0, {})
    BY <1>6 DEF Holds
  <1>8. Moment = Moments({}, ullTimeout)
    BY <1>6, MomentIs
  <1> QED BY <1>1, <1>7, <1>8 DEF HeapInv, Timers!Init, Moments

LEMMA HeapStep ==
  HeapInv /\ [HeapNext]_heapVars => HeapInv' /\ [Timers!Next]_<<Moment, called>>
  <1> SUFFICES ASSUME HeapInv, [HeapNext]_heapVars
               PROVE  HeapInv' /\ [Timers!Next]_<<Moment, called>>
    OBVIOUS
  <1>1. CASE \E t \in Timer : CancelTimer(t)
    BY <1>1, CancelUnsets DEF Timers!Next
  <1>2. CASE \E t \in Timer, w \in When : ScheduleTimer(t, w)
    BY <1>2, ScheduleSets DEF Timers!Next
  <1>3. CASE Timeout
    BY <1>3, TimeoutCalls DEF Timers!Next
  <1>4. CASE UNCHANGED heapVars
    BY <1>4 DEF heapVars, HeapInv, Holds, TheHeap, Moment
  <1> QED BY <1>1, <1>2, <1>3, <1>4 DEF HeapNext

\* The array is a heap of the timers that are set, and every handler knows its
\* place in it, or that it has none.
THEOREM HeapInductive == HeapSpec => []HeapInv
  <1>1. HeapInv /\ [HeapNext]_heapVars => HeapInv'
    BY HeapStep
  <1> QED BY <1>1, HeapInvInit, PTL DEF HeapSpec

\* TimerSpec: whatever is scheduled, rescheduled and taken out of the middle, the
\* timer poll() calls is one of those that are due first.
THEOREM EarliestIsCalled == HeapSpec => TimerSpec
  <1>1. HeapInit => Timers!Init
    BY HeapInvInit
  <1>2. HeapInv /\ [HeapNext]_heapVars => [Timers!Next]_<<Moment, called>>
    BY HeapStep
  <1> QED BY <1>1, <1>2, HeapInductive, PTL DEF HeapSpec, TimerSpec, Timers!Spec
=============================================================================
