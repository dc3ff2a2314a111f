------------------------------ MODULE TimeHeap ------------------------------
(***************************************************************************)
(* CwxMinHeap as CwxAppEpoll uses it for timers: an array of handlers,     *)
(* earliest first in the order of a heap, in which every handler keeps its *)
(* own place (index(), -1 outside).  scheduleTimer and cancelTimer take a  *)
(* handler out of the middle by that place.  Only the owner's thread gets  *)
(* here, or one that holds the reactor's lock: an operation is one action. *)
(*                                                                         *)
(* The clock is left out: whatever is due first may be due now.  So is the *)
(* growth of the array, which fails only for lack of memory.  The moment   *)
(* of a handler outside the heap, which nobody reads, is 0.                *)
(***************************************************************************)
EXTENDS Integers, FiniteSets

CONSTANTS
  Timer,   \* the handlers
  When,    \* the moments a timer may be set to
  Nobody   \* no handler

ASSUME TimerAssumption == When \subseteq Nat \ {0} /\ Nobody \notin Timer

VARIABLES
  element,     \* m_pElement[0 .. m_uiCount - 1]
  index,       \* of a handler: m_index
  ullTimeout,  \* of a handler: m_ullTimeout
  called       \* the handler poll() called for its timer in the last step

heapVars == <<element, index, ullTimeout, called>>

HeapInit ==
  /\ element = [i \in {} |-> Nobody]
  /\ index = [t \in Timer |-> -1]
  /\ ullTimeout = [t \in Timer |-> 0]
  /\ called = Nobody

-----------------------------------------------------------------------------
(* The heap as a value: what an operation of CwxMinHeap makes of it.         *)

TheHeap == [at |-> element, place |-> index, due |-> ullTimeout]
Count(h) == Cardinality(DOMAIN h.at)

\* m_cmp, which is operator> of the handlers.
Later(h, t, u) == h.due[t] > h.due[u]

Parent(i) == (i - 1) \div 2

\* (m_pElement[i] = t)->index(i)
Placed(h, i, t) == [h EXCEPT !.at[i] = t, !.place[t] = i]

\* A turn of either loop, while it goes on: the element at i moves into the hole.
Move(s, i) == [heap |-> Placed(s.heap, s.hole, s.heap.at[i]), hole |-> i]

\* The hole at i rises while its parent is later than t; t fills it.
Rise(t, s) ==
  IF s.hole # 0 /\ Later(s.heap, s.heap.at[Parent(s.hole)], t)
  THEN Move(s, Parent(s.hole)) ELSE s

\* After so many turns; the hole, which only rises, can take i of them.
Risen(h, i, t) ==
  LET Run[k \in Nat] == IF k = 0 THEN [heap |-> h, hole |-> i] ELSE Rise(t, Run[k - 1])
  IN  Run

ShiftUp(h, i, t) ==
  LET end == Risen(h, i, t)[i] IN Placed(end.heap, end.hole, t)

\* The child of i to compare with, n elements being left: the right one unless
\* it is later or there is none.
MinChild_right(h, n, i) == IF 2 * (i + 1) = n THEN n - 1 ELSE 2 * (i + 1)
MinChild(h, n, i) ==
  LET right == 2 * (i + 1)
  IN  IF right = n \/ Later(h, h.at[right], h.at[right - 1]) THEN right - 1 ELSE right

\* The hole at i sinks while t is later than a child of it; then t fills it.
Sink(n, t, s) ==
  LET c == MinChild(s.heap, n, s.hole)
  IN  IF 2 * (s.hole + 1) <= n /\ Later(s.heap, t, s.heap.at[c]) THEN Move(s, c) ELSE s

\* After so many turns; the hole, which only sinks, can take n of them.
Sunk(h, n, i, t) ==
  LET Run[k \in Nat] == IF k = 0 THEN [heap |-> h, hole |-> i] ELSE Sink(n, t, Run[k - 1])
  IN  Run

ShiftDown(h, n, i, t) ==
  LET end == Sunk(h, n, i, t)[n] IN ShiftUp(end.heap, end.hole, t)

\* --m_uiCount at the start, index(-1) at the end.
Without(h, n, t) ==
  [h EXCEPT !.at = [i \in 0 .. n - 1 |-> h.at[i]], !.place[t] = -1]

Push(h, t) ==
  LET n == Count(h)
  IN  IF h.place[t] # -1 THEN h
      ELSE ShiftUp([h EXCEPT !.at = [i \in 0 .. n |-> IF i = n THEN t ELSE h.at[i]]], n, t)

Pop(h) == LET n == Count(h) - 1
          IN  Without(ShiftDown(h, n, 0, h.at[n]), n, h.at[0])

\* The last element takes the place of t, and from there rises or sinks.
Erase(h, t) ==
  LET n == Count(h) - 1
      i == h.place[t]
      rises == i > 0 /\ Later(h, h.at[Parent(i)], h.at[n])
  IN  IF i < 0 THEN h
      ELSE Without(IF rises THEN ShiftUp(h, i, h.at[n]) ELSE ShiftDown(h, n, i, h.at[n]), n, t)

SetTimeout(h, t, w) == [h EXCEPT !.due[t] = w]

-----------------------------------------------------------------------------
(* What the engine does with it.                                             *)

Becomes(h) == element' = h.at /\ index' = h.place /\ ullTimeout' = h.due

\* scheduleTimer; and registerHandler with a time limit, which asserts that the
\* handler is not in the heap.
ScheduleTimer(t, w) ==
  /\ \E h \in {Push(SetTimeout(Erase(TheHeap, t), t, w), t)} : Becomes(h)
  /\ called' = Nobody

\* cancelTimer; also removeHandler, an event of the handler's descriptor, and
\* registerHandler when epoll_ctl fails.
CancelTimer(t) ==
  /\ index[t] # -1
  /\ \E h \in {SetTimeout(Erase(TheHeap, t), t, 0)} : Becomes(h)
  /\ called' = Nobody

\* A round of the last loop of poll(): the top is popped if it has no descriptor,
\* or removed under its descriptor, and called.  The other loop, after the clock
\* was set back, takes all out before it calls them: TcpConn has that (late).
Timeout ==
  /\ Count(TheHeap) > 0
  /\ \E h \in {Pop(TheHeap), Erase(TheHeap, element[0])} : Becomes(SetTimeout(h, element[0], 0))
  /\ called' = element[0]

HeapNext ==
  \/ \E t \in Timer : CancelTimer(t) \/ \E w \in When : ScheduleTimer(t, w)
  \/ Timeout

HeapSpec == HeapInit /\ [][HeapNext]_heapVars

-----------------------------------------------------------------------------
\* Timers are called earliest first, whatever is scheduled, rescheduled,
\* cancelled and removed from the middle in between: the array and the places
\* the handlers remember implement a set of timers.
Moment == [t \in Timer |-> IF \E i \in DOMAIN element : element[i] = t THEN ullTimeout[t] ELSE 0]
Timers == INSTANCE TimerSet WITH moment <- Moment
TimerSpec == Timers!Spec
=============================================================================
