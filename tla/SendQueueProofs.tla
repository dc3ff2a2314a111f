--------------------------- MODULE SendQueueProofs ---------------------------
(***************************************************************************)
(* Proofs about SendQueue, for any messages, sizes, limits and numbers of  *)
(* connections: every message is in one place until it ends, the           *)
(* application is told once of each failure it asked to be told of, and    *)
(* what is written to a descriptor is whole messages in the order of the   *)
(* putting.                                                                *)
(***************************************************************************)
EXTENDS SendQueue, SequenceTheorems, TLAPS

\* What the argument needs to know of the types.
Types ==
  /\ notices \in Seq(Msg) /\ waiting \in Seq(Msg) /\ accepted \in Seq(Msg)
  /\ cur \in Msg \cup {None}
  /\ done \subseteq Msg /\ ended \subseteq Msg
  /\ told \in [Msg -> Nat]

\* A message that has not ended was not told of.
ToldWhenEnded == \A m \in Msg : m \notin ended => told[m] = 0

IInv == Types /\ OwnedOnce /\ ToldWhenEnded /\ FailureTold

-----------------------------------------------------------------------------
(* Sequences as sets.                                                        *)

LEMMA NoneIsSeq == <<>> \in Seq(Msg)
  OBVIOUS

LEMMA NothingQueued ==
  ASSUME NEW s, s = <<>>
  PROVE  ToSet(s) = {} /\ IsInjective(s)
  <1>1. DOMAIN s = {}
    OBVIOUS
  <1> QED
    BY <1>1 DEF ToSet, IsInjective

LEMMA OneQueued ==
  ASSUME NEW m \in Msg
  PROVE  <<m>> \in Seq(Msg) /\ ToSet(<<m>>) = {m} /\ IsInjective(<<m>>)
  <1>1. <<m>> \in Seq(Msg) /\ DOMAIN <<m>> = {1} /\ <<m>>[1] = m
    OBVIOUS
  <1> QED
    BY <1>1 DEF ToSet, IsInjective

LEMMA OneMoreQueued ==
  ASSUME NEW s \in Seq(Msg), NEW m \in Msg
  PROVE  /\ Append(s, m) \in Seq(Msg)
         /\ ToSet(Append(s, m)) = ToSet(s) \cup {m}
         /\ IsInjective(s) /\ m \notin ToSet(s) => IsInjective(Append(s, m))
  <1>1. /\ Append(s, m) \in Seq(Msg) /\ DOMAIN s = 1 .. Len(s) /\ Len(s) \in Nat
        /\ DOMAIN Append(s, m) = 1 .. Len(s) + 1
        /\ \A i \in 1 .. Len(s) : Append(s, m)[i] = s[i]
        /\ Append(s, m)[Len(s) + 1] = m
    OBVIOUS
  <1>2. ToSet(Append(s, m)) = ToSet(s) \cup {m}
    <2>1. 1 .. Len(s) + 1 = 1 .. Len(s) \cup {Len(s) + 1}
      BY <1>1
    <2> QED
      BY <1>1, <2>1 DEF ToSet
  <1>3. ASSUME IsInjective(s), m \notin ToSet(s) PROVE IsInjective(Append(s, m))
    <2>1. \A i \in 1 .. Len(s) : s[i] # m
      BY <1>1, <1>3 DEF ToSet
    <2> QED
      BY <1>1, <1>3, <2>1 DEF IsInjective
  <1> QED
    BY <1>1, <1>2, <1>3

LEMMA OneLessQueued ==
  ASSUME NEW s \in Seq(Msg), s # <<>>, IsInjective(s)
  PROVE  /\ Head(s) \in Msg /\ Head(s) \in ToSet(s)
         /\ Tail(s) \in Seq(Msg) /\ IsInjective(Tail(s))
         /\ ToSet(Tail(s)) = ToSet(s) \ {Head(s)}
  <1>1. /\ Head(s) = s[1] /\ Tail(s) \in Seq(Msg) /\ Len(s) \in Nat /\ Len(s) >= 1
        /\ DOMAIN s = 1 .. Len(s) /\ DOMAIN Tail(s) = 1 .. Len(s) - 1
        /\ \A i \in 1 .. Len(s) - 1 : Tail(s)[i] = s[i + 1]
    OBVIOUS
  <1>2. Head(s) \in Msg /\ Head(s) \in ToSet(s)
    BY <1>1 DEF ToSet
  <1>3. IsInjective(Tail(s))
    <2> SUFFICES ASSUME NEW i \in 1 .. Len(s) - 1, NEW j \in 1 .. Len(s) - 1, Tail(s)[i] = Tail(s)[j]
                 PROVE  i = j
      BY <1>1 DEF IsInjective
    <2>1. i + 1 \in DOMAIN s /\ j + 1 \in DOMAIN s /\ s[i + 1] = s[j + 1]
      BY <1>1
    <2>2. i + 1 = j + 1
      BY <2>1 DEF IsInjective
    <2> QED
      BY <2>2
  <1>4. ToSet(Tail(s)) \subseteq ToSet(s) \ {Head(s)}
    <2> SUFFICES ASSUME NEW i \in 1 .. Len(s) - 1
                 PROVE  s[i + 1] \in ToSet(s) /\ s[i + 1] # s[1]
      BY <1>1 DEF ToSet
    <2>1. i + 1 \in DOMAIN s /\ 1 \in DOMAIN s /\ i + 1 # 1
      BY <1>1
    <2> QED
      BY <2>1 DEF ToSet, IsInjective
  <1>5. ToSet(s) \ {Head(s)} \subseteq ToSet(Tail(s))
    <2> SUFFICES ASSUME NEW i \in 1 .. Len(s), s[i] # s[1] PROVE s[i] \in ToSet(Tail(s))
      BY <1>1 DEF ToSet
    <2>1. i - 1 \in 1 .. Len(s) - 1 /\ Tail(s)[i - 1] = s[i]
      BY <1>1
    <2> QED
      BY <1>1, <2>1 DEF ToSet
  <1> QED
    BY <1>1, <1>2, <1>3, <1>4, <1>5

-----------------------------------------------------------------------------
(* What the pieces of the actions do.                                        *)

\* The messages of S, none of which has ended, end; those that ask are told.
LEMMA FailOk ==
  ASSUME Types, ToldWhenEnded, FailureTold, NEW S \in SUBSET Msg, S \cap ended = {},
         Fail(S), done \subseteq done'
  PROVE  /\ ended' = ended \cup S /\ ended' \subseteq Msg
         /\ told' \in [Msg -> Nat]
         /\ ToldWhenEnded' /\ FailureTold'
  <1>1. ended' = ended \cup S /\ ended' \subseteq Msg
    BY DEF Fail, Types
  <1>2. \A m \in Msg : told'[m] = IF m \in S \cap FailNotice THEN told[m] + 1 ELSE told[m]
    BY DEF Fail
  <1>3. \A m \in Msg : told[m] \in Nat /\ (m \in S => told[m] = 0)
    BY DEF Types, ToldWhenEnded
  <1>4. told' \in [Msg -> Nat]
    BY <1>3 DEF Fail
  <1>5. ToldWhenEnded'
    BY <1>1, <1>2 DEF ToldWhenEnded
  <1>6. FailureTold'
    <2> SUFFICES ASSUME NEW m \in Msg
                 PROVE  /\ told'[m] <= 1
                        /\ m \in (ended' \cap FailNotice) \ done' => told'[m] = 1
      BY DEF FailureTold
    <2>1. told[m] <= 1 /\ (m \in (ended \cap FailNotice) \ done => told[m] = 1)
      BY DEF FailureTold
    <2>2. CASE m \in S
      <3>1. told[m] = 0
        BY <1>3, <2>2
      <3>2. CASE m \in FailNotice
        BY <1>2, <2>2, <3>1, <3>2
      <3>3. CASE m \notin FailNotice
        BY <1>2, <2>2, <3>1, <3>3
      <3> QED
        BY <3>2, <3>3
    <2>3. CASE m \notin S
      <3>1. told'[m] = told[m]
        BY <1>2, <2>3
      <3> QED
        BY <1>1, <2>1, <2>3, <3>1
    <2> QED
      BY <2>2, <2>3
  <1> QED
    BY <1>1, <1>4, <1>5, <1>6

\* Messages end that need not be told of: they were sent, or given up.
LEMMA EndOk ==
  ASSUME Types, ToldWhenEnded, FailureTold, NEW S \in SUBSET Msg,
         ended' = ended \cup S, done \subseteq done', S \subseteq done', told' = told
  PROVE  ToldWhenEnded' /\ FailureTold'
  BY DEF Types, ToldWhenEnded, FailureTold

LEMMA HeldFree ==
  ASSUME Types, OwnedOnce
  PROVE  Held \subseteq Msg /\ Held \cap ended = {} /\ ToSet(notices) \subseteq Msg
  BY DEF Types, OwnedOnce, Held, Chain, Sending, ToSet

-----------------------------------------------------------------------------
(* The actions, one group after the other.                                   *)

LEMMA InitOk == Init => IInv
  <1> SUFFICES ASSUME Init PROVE IInv
    OBVIOUS
  <1>a. notices = <<>> /\ waiting = <<>> /\ accepted = <<>>
    BY DEF Init
  <1>1. ToSet(notices) = {} /\ ToSet(waiting) = {} /\ ToSet(accepted) = {}
        /\ IsInjective(notices) /\ IsInjective(waiting)
    BY <1>a, NothingQueued
  <1>2. Types
    BY NoneIsSeq DEF Init, Types
  <1>3. OwnedOnce
    BY <1>1 DEF Init, OwnedOnce, Held, Chain, Sending
  <1> QED
    BY <1>2, <1>3 DEF Init, IInv, ToldWhenEnded, FailureTold

LEMMA SendMsgByConnOk ==
  ASSUME IInv, NEW m \in Msg, SendMsgByConn(m)
  PROVE  IInv'
  <1>1. /\ notices' \in Seq(Msg) /\ ToSet(notices') = ToSet(notices) \cup {m}
        /\ IsInjective(notices')
    BY OneMoreQueued DEF IInv, Types, OwnedOnce, SendMsgByConn, Given
  <1>2. UNCHANGED <<queue, history>> /\ m \notin Given
    BY DEF SendMsgByConn
  <1>3. Types'
    BY <1>1, <1>2 DEF IInv, Types, queue, history
  <1>4. OwnedOnce'
    BY <1>1, <1>2 DEF IInv, OwnedOnce, queue, history, Given, Held, Chain, Sending
  <1> QED
    BY <1>2, <1>3, <1>4 DEF IInv, ToldWhenEnded, FailureTold, history

\* The first message that is posted leaves the notices.
LEMMA FirstNotice ==
  ASSUME IInv, notices # <<>>
  PROVE  /\ Head(notices) \in Msg /\ Head(notices) \in ToSet(notices)
         /\ Head(notices) \notin Held /\ Head(notices) \notin ended
         /\ Tail(notices) \in Seq(Msg) /\ IsInjective(Tail(notices))
         /\ ToSet(Tail(notices)) = ToSet(notices) \ {Head(notices)}
  <1>1. notices \in Seq(Msg) /\ IsInjective(notices)
    BY DEF IInv, Types, OwnedOnce
  <1>2. \A m \in ToSet(notices) : m \notin Held /\ m \notin ended
    BY DEF IInv, OwnedOnce
  <1> QED
    BY <1>1, <1>2, OneLessQueued

\* It fails: no such connection, or its queue is full.
LEMMA NoticeFailsOk ==
  ASSUME IInv, NEW m \in Msg, notices # <<>>, m = Head(notices), notices' = Tail(notices),
         Fail({m}), UNCHANGED <<waiting, cur, accepted, done>>
  PROVE  IInv'
  <1>1. ended' = ended \cup {m} /\ ended' \subseteq Msg /\ told' \in [Msg -> Nat]
        /\ ToldWhenEnded' /\ FailureTold'
    BY FirstNotice, FailOk DEF IInv
  <1>2. Types'
    BY <1>1, FirstNotice DEF IInv, Types
  <1>3. OwnedOnce'
    <2>1. /\ ToSet(notices') = ToSet(notices) \ {m} /\ IsInjective(notices')
          /\ Held' = Held /\ Chain' = Chain /\ Sending' = Sending
          /\ m \in ToSet(notices) /\ m \notin Held
      BY FirstNotice DEF Held, Chain, Sending
    <2> QED
      BY <1>1, <2>1 DEF IInv, OwnedOnce, Given
  <1> QED
    BY <1>1, <1>2, <1>3 DEF IInv

\* It is put into the chain.
LEMMA NoticePutsOk ==
  ASSUME IInv, NEW m \in Msg, notices # <<>>, m = Head(notices), notices' = Tail(notices),
         Link(m), UNCHANGED <<done, ended, told>>
  PROVE  IInv'
  <1>1. /\ waiting' = Append(waiting, m) /\ accepted' = Append(accepted, m) /\ cur' = cur
        /\ waiting \in Seq(Msg) /\ accepted \in Seq(Msg) /\ IsInjective(waiting)
        /\ m \notin ToSet(waiting)
    BY FirstNotice DEF IInv, Types, OwnedOnce, Link, Held, Chain
  <1>2. /\ waiting' \in Seq(Msg) /\ accepted' \in Seq(Msg) /\ IsInjective(waiting')
        /\ ToSet(waiting') = ToSet(waiting) \cup {m}
        /\ ToSet(accepted') = ToSet(accepted) \cup {m}
    BY <1>1, OneMoreQueued
  <1>3. Types'
    BY <1>1, <1>2, FirstNotice DEF IInv, Types
  <1>4. OwnedOnce'
    <2>1. /\ ToSet(notices') = ToSet(notices) \ {m} /\ IsInjective(notices')
          /\ Held' = Held \cup {m} /\ Chain' = Chain \cup {m} /\ Sending' = Sending
          /\ m \in ToSet(notices) /\ m \notin Held /\ m \notin ended
      BY <1>1, <1>2, FirstNotice DEF Held, Chain, Sending
    <2> QED
      BY <1>2, <2>1 DEF IInv, OwnedOnce, Given, Held
  <1> QED
    BY <1>3, <1>4 DEF IInv, ToldWhenEnded, FailureTold

\* A channel's object is given one directly.
LEMMA PutMsgOk ==
  ASSUME IInv, NEW m \in Msg, PutMsg(m)
  PROVE  IInv'
  <1>1. /\ waiting' = Append(waiting, m) /\ accepted' = Append(accepted, m) /\ cur' = cur
        /\ waiting \in Seq(Msg) /\ accepted \in Seq(Msg) /\ IsInjective(waiting)
        /\ m \notin Given /\ UNCHANGED <<notices, done, ended, told>>
    BY DEF IInv, Types, OwnedOnce, PutMsg, Put, Link
  <1>2. /\ waiting' \in Seq(Msg) /\ accepted' \in Seq(Msg) /\ IsInjective(waiting')
        /\ ToSet(waiting') = ToSet(waiting) \cup {m}
        /\ ToSet(accepted') = ToSet(accepted) \cup {m}
    BY <1>1, OneMoreQueued DEF Given, Held, Chain
  <1>3. Types'
    BY <1>1, <1>2 DEF IInv, Types
  <1>4. OwnedOnce'
    <2>1. Held' = Held \cup {m} /\ Chain' = Chain \cup {m} /\ Sending' = Sending
          /\ m \notin Held /\ m \notin ended /\ m \notin ToSet(notices)
      BY <1>1, <1>2 DEF Given, Held, Chain, Sending
    <2> QED
      BY <1>1, <1>2, <2>1 DEF IInv, OwnedOnce, Given, Held
  <1> QED
    BY <1>1, <1>3, <1>4 DEF IInv, ToldWhenEnded, FailureTold

\* The connection is closed for the sake of the message, which is put on it all the
\* same, or fails with the others.
LEMMA NoticeClosesOk ==
  ASSUME IInv, NEW m \in Msg, NoticeCloses(m)
  PROVE  IInv'
  <1>1. /\ notices # <<>> /\ m = Head(notices) /\ notices' = Tail(notices)
        /\ cur' = None /\ done' = done
    BY DEF NoticeCloses, Arrives
  <1>2. /\ ToSet(notices') = ToSet(notices) \ {m} /\ IsInjective(notices')
        /\ notices' \in Seq(Msg)
        /\ m \in ToSet(notices) /\ m \notin Held /\ m \notin ended
    BY <1>1, FirstNotice
  <1>3. Sending' = {}
    BY <1>1 DEF Sending
  <1>4. CASE Full
    <2>1. Fail(Held \cup {m}) /\ waiting' = <<>> /\ accepted' = accepted
      BY <1>4 DEF NoticeCloses
    <2>2. /\ ended' = ended \cup Held \cup {m} /\ ended' \subseteq Msg
          /\ told' \in [Msg -> Nat] /\ ToldWhenEnded' /\ FailureTold'
      BY <1>1, <1>2, <2>1, HeldFree, FailOk DEF IInv
    <2>3. Chain' = {} /\ IsInjective(waiting') /\ Held' = {}
      BY <1>3, <2>1, NothingQueued DEF Chain, Held
    <2>4. Types'
      BY <1>1, <1>2, <2>1, <2>2, NoneIsSeq DEF IInv, Types
    <2>5. OwnedOnce'
      BY <1>1, <1>2, <1>3, <2>1, <2>2, <2>3 DEF IInv, OwnedOnce, Given
    <2> QED
      BY <2>2, <2>4, <2>5 DEF IInv
  <1>5. CASE ~Full
    <2>1. Fail(Held) /\ waiting' = <<m>> /\ accepted' = Append(accepted, m)
      BY <1>5 DEF NoticeCloses
    <2>2. /\ ended' = ended \cup Held /\ ended' \subseteq Msg
          /\ told' \in [Msg -> Nat] /\ ToldWhenEnded' /\ FailureTold'
      BY <1>1, <2>1, HeldFree, FailOk DEF IInv
    <2>3. Chain' = {m} /\ IsInjective(waiting') /\ waiting' \in Seq(Msg) /\ Held' = {m}
      BY <1>3, <2>1, OneQueued DEF Chain, Held
    <2>4. accepted' \in Seq(Msg) /\ ToSet(accepted') = ToSet(accepted) \cup {m}
      BY <2>1, OneMoreQueued DEF IInv, Types
    <2>5. Types'
      BY <1>1, <1>2, <2>2, <2>3, <2>4 DEF IInv, Types
    <2>6. OwnedOnce'
      BY <1>1, <1>2, <1>3, <2>2, <2>3, <2>4 DEF IInv, OwnedOnce, Given
    <2> QED
      BY <2>2, <2>5, <2>6 DEF IInv
  <1> QED
    BY <1>4, <1>5

\* Nothing the invariant speaks of changes but the history of the wire.
LEMMA SameMessages ==
  ASSUME IInv, UNCHANGED <<notices, waiting, accepted, cur, done, ended, told>>
  PROVE  IInv'
  BY DEF IInv, Types, OwnedOnce, ToldWhenEnded, FailureTold, Given, Held, Chain, Sending

\* getNextMsg, and the message that is given up instead of being sent.
LEMMA FirstWaiting ==
  ASSUME IInv, waiting # <<>>, cur = None
  PROVE  /\ Head(waiting) \in Msg /\ Head(waiting) \in Chain
         /\ Head(waiting) \notin ToSet(notices) /\ Head(waiting) \notin ended
         /\ Tail(waiting) \in Seq(Msg) /\ IsInjective(Tail(waiting))
         /\ ToSet(Tail(waiting)) = Chain \ {Head(waiting)}
         /\ Sending = {} /\ Held = Chain
  <1>1. waiting \in Seq(Msg) /\ IsInjective(waiting) /\ Held = Chain /\ Sending = {}
    BY DEF IInv, Types, OwnedOnce, Held, Sending
  <1>2. \A m \in Chain : m \notin ToSet(notices) /\ m \notin ended
    BY <1>1 DEF IInv, OwnedOnce
  <1> QED
    BY <1>1, <1>2, OneLessQueued DEF Chain

LEMMA GetNextMsgOk ==
  ASSUME IInv, GetNextMsg
  PROVE  IInv'
  <1> DEFINE h == Head(waiting)
  <1>1. /\ waiting # <<>> /\ cur = None /\ cur' = h /\ waiting' = Tail(waiting)
        /\ UNCHANGED <<notices, accepted, done, ended, told>>
    BY DEF GetNextMsg, CanTake, history
  <1>2. Types'
    BY <1>1, FirstWaiting DEF IInv, Types
  <1>3. OwnedOnce'
    <2>1. h # None
      BY <1>1, FirstWaiting, SendAssumption DEF SendAssumption
    <2>2. Chain' = Chain \ {h} /\ Sending' = {h} /\ Held' = Held /\ h \in Chain
          /\ IsInjective(waiting')
      BY <1>1, <2>1, FirstWaiting DEF Chain, Sending, Held
    <2> QED
      BY <1>1, <2>2 DEF IInv, OwnedOnce, Given
  <1> QED
    BY <1>1, <1>2, <1>3 DEF IInv, ToldWhenEnded, FailureTold

LEMMA GiveUpOk ==
  ASSUME IInv, GiveUp
  PROVE  IInv'
  <1> DEFINE h == Head(waiting)
  <1>1. /\ waiting # <<>> /\ cur = None /\ cur' = cur /\ waiting' = Tail(waiting)
        /\ ended' = ended \cup {h} /\ done' = done \cup {h}
        /\ UNCHANGED <<notices, accepted, told>>
    BY DEF GiveUp, CanTake
  <1>2. Types'
    BY <1>1, FirstWaiting DEF IInv, Types
  <1>3. OwnedOnce'
    <2>1. Chain' = Chain \ {h} /\ Sending' = {} /\ Held' = Held \ {h} /\ h \in Held
          /\ h \notin ToSet(notices) /\ IsInjective(waiting')
      BY <1>1, FirstWaiting DEF Chain, Sending, Held
    <2> QED
      BY <1>1, <2>1 DEF IInv, OwnedOnce, Given
  <1>4. ToldWhenEnded' /\ FailureTold'
    BY <1>1, FirstWaiting, EndOk DEF IInv
  <1> QED
    BY <1>2, <1>3, <1>4 DEF IInv

\* The message being sent is in no other place.
LEMMA BeingSent ==
  ASSUME IInv, cur # None
  PROVE  /\ cur \in Msg /\ cur \notin ended /\ cur \notin ToSet(notices) /\ cur \notin Chain
         /\ Sending = {cur} /\ Held = Chain \cup {cur}
  BY DEF IInv, Types, OwnedOnce, Held, Sending

\* It is sent wholly, and ends, or is left to be told of by close().
LEMMA SentOk ==
  ASSUME IInv, cur # None, done' = done \cup {cur},
         \/ UNCHANGED <<cur, ended>>
         \/ cur' = None /\ ended' = ended \cup {cur},
         UNCHANGED <<notices, waiting, accepted, told>>
  PROVE  IInv'
  <1>1. CASE UNCHANGED <<cur, ended>>
    <2>1. Held' = Held /\ Chain' = Chain /\ Sending' = Sending /\ cur \in Held
      BY <1>1, BeingSent DEF Held, Chain, Sending
    <2>2. OwnedOnce'
      BY <1>1, <2>1 DEF IInv, OwnedOnce, Given
    <2> QED
      BY <1>1, <2>2, BeingSent DEF IInv, Types, ToldWhenEnded, FailureTold
  <1>2. CASE cur' = None /\ ended' = ended \cup {cur}
    <2>1. Held' = Chain /\ Chain' = Chain /\ Sending' = {}
      BY <1>2 DEF Held, Chain, Sending
    <2>2. OwnedOnce'
      BY <1>2, <2>1, BeingSent DEF IInv, OwnedOnce, Given
    <2>3. ToldWhenEnded' /\ FailureTold'
      BY <1>2, BeingSent, EndOk DEF IInv
    <2> QED
      BY <1>2, <2>2, <2>3, BeingSent DEF IInv, Types
  <1> QED
    BY <1>1, <1>2

LEMMA SendFailsOk ==
  ASSUME IInv, SendFails
  PROVE  IInv'
  <1>1. /\ cur # None /\ Fail({cur}) /\ cur' = None
        /\ UNCHANGED <<notices, waiting, accepted, done>>
    BY DEF SendFails, CanSend
  <1>2. /\ ended' = ended \cup {cur} /\ ended' \subseteq Msg /\ told' \in [Msg -> Nat]
        /\ ToldWhenEnded' /\ FailureTold'
    BY <1>1, BeingSent, FailOk DEF IInv
  <1>3. Held' = Chain /\ Chain' = Chain /\ Sending' = {}
    BY <1>1 DEF Held, Chain, Sending
  <1>4. OwnedOnce'
    BY <1>1, <1>2, <1>3, BeingSent DEF IInv, OwnedOnce, Given
  <1> QED
    BY <1>1, <1>2, <1>4 DEF IInv, Types

\* close() of the object, or its clear(): all it holds fails.
LEMMA DrainedOk ==
  ASSUME IInv, Fail(Held), waiting' = <<>>, cur' = None,
         \/ accepted' = accepted
         \/ accepted' = <<>>,
         UNCHANGED <<notices, done>>
  PROVE  IInv'
  <1>1. /\ ended' = ended \cup Held /\ ended' \subseteq Msg /\ told' \in [Msg -> Nat]
        /\ ToldWhenEnded' /\ FailureTold'
    BY HeldFree, FailOk DEF IInv
  <1>2. Chain' = {} /\ Sending' = {} /\ Held' = {} /\ IsInjective(waiting')
    BY NothingQueued DEF Held, Chain, Sending
  <1>3. accepted' \in Seq(Msg) /\ ToSet(accepted') \subseteq ToSet(accepted)
    BY NothingQueued, NoneIsSeq DEF IInv, Types
  <1>4. OwnedOnce'
    BY <1>1, <1>2, <1>3 DEF IInv, OwnedOnce, Given
  <1> QED
    BY <1>1, <1>3, <1>4, NoneIsSeq DEF IInv, Types

LEMMA OpenOk ==
  ASSUME IInv, Open
  PROVE  IInv'
  <1>1. accepted' = <<>> /\ UNCHANGED <<notices, done>>
    BY DEF Open
  <1>2. CASE kind = "conn"
    BY <1>1, <1>2, DrainedOk DEF Open, Clear
  <1>3. CASE kind # "conn"
    <2>1. UNCHANGED <<waiting, cur, ended, told>>
      BY <1>3 DEF Open, queue
    <2>2. accepted' \in Seq(Msg) /\ ToSet(accepted') = {}
      BY <1>1, NothingQueued, NoneIsSeq
    <2>3. Held' = Held /\ Chain' = Chain /\ Sending' = Sending
      BY <2>1 DEF Held, Chain, Sending
    <2>4. OwnedOnce'
      BY <1>1, <2>1, <2>2, <2>3 DEF IInv, OwnedOnce, Given
    <2> QED
      BY <1>1, <2>1, <2>2, <2>4 DEF IInv, Types, ToldWhenEnded, FailureTold
  <1> QED
    BY <1>2, <1>3

-----------------------------------------------------------------------------
(* The results.                                                              *)

LEMMA NextOk == IInv /\ [Next]_vars => IInv'
  <1> SUFFICES ASSUME IInv, [Next]_vars PROVE IInv'
    OBVIOUS
  <1>1. ASSUME NEW m \in Msg, SendMsgByConn(m) PROVE IInv'
    BY <1>1, SendMsgByConnOk
  <1>2. ASSUME NEW m \in Msg, PutMsg(m) PROVE IInv'
    BY <1>2, PutMsgOk
  <1>3. CASE NoticeMisses
    BY <1>3, FirstNotice, NoticeFailsOk DEF NoticeMisses, queue
  <1>4. ASSUME NEW m \in Msg, NoticePuts(m) PROVE IInv'
    BY <1>4, NoticePutsOk DEF NoticePuts, Arrives, Put
  <1>5. ASSUME NEW m \in Msg, NoticeRefused(m) PROVE IInv'
    BY <1>5, NoticeFailsOk DEF NoticeRefused, Arrives, queue
  <1>6. ASSUME NEW m \in Msg, NoticeCloses(m) PROVE IInv'
    BY <1>6, NoticeClosesOk
  <1>7. CASE OutputStarts \/ NothingLeft \/ SendPart \/ Stop
    BY <1>7, SameMessages DEF OutputStarts, NothingLeft, SendPart, Stop, queue, history
  <1>8. CASE GetNextMsg
    BY <1>8, GetNextMsgOk
  <1>9. CASE GiveUp
    BY <1>9, GiveUpOk
  <1>10. CASE SendRest \/ SendRestAndClose
    BY <1>10, SentOk DEF SendRest, SendRestAndClose, SentWhole, CanSend
  <1>11. CASE SendFails
    BY <1>11, SendFailsOk
  <1>12. CASE Close
    BY <1>12, DrainedOk DEF Close, Drain
  <1>13. CASE Open
    BY <1>13, OpenOk
  <1>14. CASE UNCHANGED vars
    BY <1>14, SameMessages DEF vars, queue, history
  <1> QED
    BY <1>1, <1>2, <1>3, <1>4, <1>5, <1>6, <1>7, <1>8, <1>9, <1>10, <1>11, <1>12, <1>13, <1>14
    DEF Next, Notice, Output

\* The invariant the results rest on holds in every reachable state.
THEOREM Inductive == Spec => []IInv
  <1> QED
    BY InitOk, NextOk, PTL DEF Spec

\* A message is in one place, and none the framework took is lost
\* (CwxAppHandler4Msg, CwxAppHandler4Channel).
THEOREM EachInOnePlace == Spec => []OwnedOnce
  <1>1. IInv => OwnedOnce
    BY DEF IInv
  <1> QED
    BY Inductive, <1>1, PTL

\* Each failure is told once to the application that asks for it (onFailSendMsg).
THEOREM FailuresAreTold == Spec => []FailureTold
  <1>1. IInv => FailureTold
    BY DEF IInv
  <1> QED
    BY Inductive, <1>1, PTL

-----------------------------------------------------------------------------
(* The order on the wire.                                                    *)

Place(a, m) == CHOOSE i \in DOMAIN a : a[i] = m

\* An object that is down, or is a channel's, has nothing left over; only an
\* object that is up is being worked on.
LineInv ==
  /\ kind \in {"conn", "channel"}
  /\ sent \in 0 .. Size - 1 /\ wire \in Seq(Bytes)
  /\ kind = "channel" => notices = <<>>
  /\ kind = "channel" /\ ~up => Held = {} /\ sent = 0
  /\ run # "none" => up

\* A message is put at most once while the object is up, and nothing is held or
\* written that was not put.
AcceptedInv ==
  /\ IsInjective(accepted)
  /\ ToSet(accepted) \cap ToSet(notices) = {}
  /\ Held \subseteq ToSet(accepted)
  /\ \A i \in DOMAIN wire : wire[i][1] \in ToSet(accepted)

\* The chain is in the order of the putting, behind the message being sent.
ChainInv ==
  /\ \A i, j \in DOMAIN waiting :
        i < j => Place(accepted, waiting[i]) < Place(accepted, waiting[j])
  /\ cur # None =>
        \A i \in DOMAIN waiting : Place(accepted, cur) < Place(accepted, waiting[i])

\* The end of what was written is where m_curSndingMsg goes on.
WireEnd == wire[Len(wire)]
EndInv ==
  up /\ run # "close" =>
    /\ cur = None => sent = 0
    /\ sent = 0 /\ wire # <<>> =>
         /\ WireEnd[2] = Size
         /\ \A m \in Held : Place(accepted, WireEnd[1]) < Place(accepted, m)
    /\ sent # 0 => wire # <<>> /\ WireEnd = <<cur, sent>>

\* WireWhole, byte by byte.
InTurn(i) ==
  IF wire[i][2] > 1 THEN i > 1 /\ wire[i - 1] = <<wire[i][1], wire[i][2] - 1>>
  ELSE i > 1 => /\ wire[i - 1][2] = Size
                /\ Place(accepted, wire[i - 1][1]) < Place(accepted, wire[i][1])
WireInv == \A i \in DOMAIN wire : InTurn(i)

OrderInv == LineInv /\ AcceptedInv /\ ChainInv /\ EndInv /\ WireInv

LEMMA PlaceIs ==
  ASSUME NEW a \in Seq(Msg), NEW m \in ToSet(a)
  PROVE  Place(a, m) \in 1 .. Len(a) /\ a[Place(a, m)] = m
  <1>1. DOMAIN a = 1 .. Len(a)
    OBVIOUS
  <1>2. \E i \in 1 .. Len(a) : a[i] = m
    BY <1>1 DEF ToSet
  <1> QED BY <1>1, <1>2 DEF Place

\* A message that is put comes after those put before, which keep their places.
LEMMA PlaceOfNext ==
  ASSUME NEW a \in Seq(Msg), IsInjective(a), NEW x \in Msg, x \notin ToSet(a)
  PROVE  /\ IsInjective(Append(a, x)) /\ ToSet(Append(a, x)) = ToSet(a) \cup {x}
         /\ \A m \in ToSet(a) : /\ Place(Append(a, x), m) = Place(a, m)
                                /\ Place(a, m) < Place(Append(a, x), x)
  <1> DEFINE b == Append(a, x)
  <1>1. /\ b \in Seq(Msg) /\ DOMAIN a = 1 .. Len(a) /\ Len(a) \in Nat /\ Len(b) = Len(a) + 1
        /\ DOMAIN b = 1 .. Len(a) + 1 /\ \A i \in 1 .. Len(a) : b[i] = a[i]
        /\ b[Len(a) + 1] = x
    OBVIOUS
  <1>2. IsInjective(b) /\ ToSet(b) = ToSet(a) \cup {x}
    BY OneMoreQueued
  <1> HIDE DEF b
  <1>3. ASSUME NEW m \in ToSet(b)
        PROVE  Place(b, m) \in DOMAIN b /\ b[Place(b, m)] = m
    BY <1>1, <1>2, PlaceIs
  <1>4. Place(b, x) = Len(a) + 1
    <2>1. Place(b, x) \in DOMAIN b /\ b[Place(b, x)] = b[Len(a) + 1] /\ Len(a) + 1 \in DOMAIN b
      BY <1>1, <1>2, <1>3
    <2> QED BY <2>1, <1>2 DEF IsInjective
  <1>5. ASSUME NEW m \in ToSet(a) PROVE Place(b, m) = Place(a, m) /\ Place(a, m) \in 1 .. Len(a)
    <2>1. Place(a, m) \in 1 .. Len(a) /\ a[Place(a, m)] = m
      BY PlaceIs
    <2>2. Place(b, m) \in DOMAIN b /\ b[Place(b, m)] = m
      BY <1>2, <1>3
    <2>3. Place(a, m) \in DOMAIN b /\ b[Place(a, m)] = m
      BY <2>1, <1>1
    <2> QED BY <2>1, <2>2, <2>3, <1>2 DEF IsInjective
  <1> QED BY <1>1, <1>2, <1>4, <1>5 DEF b

\* What Write appends.
LEMMA BytesAppended ==
  ASSUME NEW w \in Seq(Bytes), NEW v \in Seq(Bytes), NEW n \in Nat, Len(v) = n
  PROVE  /\ w \o v \in Seq(Bytes) /\ Len(w) \in Nat /\ Len(w \o v) = Len(w) + n
         /\ DOMAIN w = 1 .. Len(w) /\ DOMAIN (w \o v) = 1 .. Len(w) + n
         /\ \A i \in 1 .. Len(w) : (w \o v)[i] = w[i]
         /\ \A k \in 1 .. n : (w \o v)[Len(w) + k] = v[k]
  <1>1. /\ w \o v \in Seq(Bytes) /\ Len(w \o v) = Len(w) + n
        /\ \A i \in 1 .. Len(w) + n : (w \o v)[i] = IF i <= Len(w) THEN w[i] ELSE v[i - Len(w)]
    BY ConcatProperties
  <1>2. Len(w) \in Nat /\ DOMAIN w = 1 .. Len(w)
    OBVIOUS
  <1>3. DOMAIN (w \o v) = 1 .. Len(w) + n
    BY <1>1
  <1>4. \A i \in 1 .. Len(w) : (w \o v)[i] = w[i]
    BY <1>1, <1>2
  <1>5. ASSUME NEW k \in 1 .. n PROVE (w \o v)[Len(w) + k] = v[k]
    <2>1. /\ Len(w) + k \in 1 .. Len(w) + n /\ ~(Len(w) + k <= Len(w))
          /\ Len(w) + k - Len(w) = k
      BY <1>2
    <2> QED BY <1>1, <2>1
  <1> QED BY <1>1, <1>2, <1>3, <1>4, <1>5

-----------------------------------------------------------------------------
(* The steps, by what they change of the line.                               *)

\* Nothing is put, written or taken out of the chain.
LEMMA LineKept ==
  ASSUME OrderInv, UNCHANGED <<kind, waiting, cur, sent, up, wire, accepted>>,
         ToSet(accepted) \cap ToSet(notices') = {},
         kind = "channel" => notices' = <<>>,
         run' # "none" => up, run = "close" => run' = "close"
  PROVE  OrderInv'
  <1> USE DEF OrderInv
  <1>0. Held' = Held
    BY DEF Held, Chain, Sending
  <1>1. LineInv'
    BY <1>0 DEF LineInv
  <1>2. AcceptedInv'
    BY <1>0 DEF AcceptedInv
  <1>3. ChainInv'
    BY DEF ChainInv
  <1>4. EndInv'
    BY <1>0 DEF EndInv, WireEnd
  <1>5. WireInv'
    BY DEF WireInv, InTurn
  <1> QED BY <1>1, <1>2, <1>3, <1>4, <1>5

\* One message more is put: what was put before keeps its place.
LEMMA PutKeepsWire ==
  ASSUME IInv, OrderInv, NEW m \in Msg, m \notin ToSet(accepted),
         accepted' = Append(accepted, m), wire' = wire
  PROVE  /\ accepted' \in Seq(Msg) /\ IsInjective(accepted')
         /\ ToSet(accepted') = ToSet(accepted) \cup {m}
         /\ \A x \in ToSet(accepted) : /\ Place(accepted', x) = Place(accepted, x)
                                       /\ Place(accepted, x) < Place(accepted', m)
         /\ WireInv'
  <1>1. accepted \in Seq(Msg) /\ IsInjective(accepted)
    BY DEF IInv, Types, OrderInv, AcceptedInv
  <1>2. /\ accepted' \in Seq(Msg) /\ IsInjective(accepted')
        /\ ToSet(accepted') = ToSet(accepted) \cup {m}
        /\ \A x \in ToSet(accepted) : /\ Place(accepted', x) = Place(accepted, x)
                                      /\ Place(accepted, x) < Place(accepted', m)
    BY <1>1, PlaceOfNext
  <1>3. wire \in Seq(Bytes) /\ \A i \in DOMAIN wire : wire[i][1] \in ToSet(accepted)
    BY DEF OrderInv, LineInv, AcceptedInv
  <1>4. WireInv'
    <2> SUFFICES ASSUME NEW i \in DOMAIN wire PROVE InTurn(i)'
      BY DEF WireInv
    <2>1. InTurn(i)
      BY DEF OrderInv, WireInv
    <2>2. i > 1 => i - 1 \in DOMAIN wire
      BY <1>3
    <2>3. Place(accepted', wire[i][1]) = Place(accepted, wire[i][1])
      BY <1>2, <1>3
    <2>4. i > 1 => Place(accepted', wire[i - 1][1]) = Place(accepted, wire[i - 1][1])
      BY <1>2, <1>3, <2>2
    <2> QED BY <2>1, <2>3, <2>4 DEF InTurn
  <1> QED BY <1>2, <1>4

LEMMA PutKeepsOrder ==
  ASSUME IInv, OrderInv, NEW m \in Msg, m \notin ToSet(accepted), Link(m),
         UNCHANGED <<kind, up, wire, run>>, up, run = "none",
         (ToSet(accepted) \cup {m}) \cap ToSet(notices') = {},
         kind = "channel" => notices' = <<>>
  PROVE  OrderInv'
  <1>1. /\ waiting' = Append(waiting, m) /\ accepted' = Append(accepted, m)
        /\ UNCHANGED <<cur, sent>>
    BY DEF Link
  <1>2. waiting \in Seq(Msg) /\ accepted \in Seq(Msg) /\ cur \in Msg \cup {None}
    BY DEF IInv, Types
  <1>3. /\ ToSet(accepted') = ToSet(accepted) \cup {m} /\ IsInjective(accepted')
        /\ \A x \in ToSet(accepted) : /\ Place(accepted', x) = Place(accepted, x)
                                      /\ Place(accepted, x) < Place(accepted', m)
        /\ WireInv'
    BY <1>1, PutKeepsWire
  <1>4. /\ ToSet(waiting') = ToSet(waiting) \cup {m} /\ Len(waiting) \in Nat
        /\ DOMAIN waiting = 1 .. Len(waiting)
        /\ DOMAIN waiting' = 1 .. Len(waiting) + 1
        /\ \A i \in 1 .. Len(waiting) : waiting'[i] = waiting[i]
        /\ waiting'[Len(waiting) + 1] = m
    BY <1>1, <1>2, OneMoreQueued
  <1>5. Held' = Held \cup {m}
    BY <1>1, <1>4 DEF Held, Chain, Sending
  <1>6. Held \subseteq ToSet(accepted)
    BY DEF OrderInv, AcceptedInv
  <1>7. /\ \A i \in 1 .. Len(waiting) : waiting[i] \in ToSet(accepted)
        /\ cur # None => cur \in ToSet(accepted)
    BY <1>2, <1>4, <1>6 DEF Held, Chain, Sending, ToSet
  <1>8. LineInv'
    BY <1>1 DEF OrderInv, LineInv
  <1>9. AcceptedInv'
    BY <1>3, <1>5 DEF OrderInv, AcceptedInv
  <1>10. ChainInv'
    <2>1. ASSUME NEW i \in DOMAIN waiting', NEW j \in DOMAIN waiting', i < j
          PROVE  Place(accepted', waiting'[i]) < Place(accepted', waiting'[j])
      <3>1. i \in 1 .. Len(waiting) /\ (j \in 1 .. Len(waiting) \/ j = Len(waiting) + 1)
        BY <2>1, <1>4
      <3>2. CASE j \in 1 .. Len(waiting)
        <4>1. Place(accepted, waiting[i]) < Place(accepted, waiting[j])
          BY <3>1, <3>2, <1>4, <2>1 DEF OrderInv, ChainInv
        <4> QED BY <4>1, <3>1, <3>2, <1>3, <1>4, <1>7
      <3>3. CASE j = Len(waiting) + 1
        BY <3>1, <3>3, <1>3, <1>4, <1>7
      <3> QED BY <3>1, <3>2, <3>3
    <2>2. ASSUME cur # None, NEW i \in DOMAIN waiting'
          PROVE  Place(accepted', cur) < Place(accepted', waiting'[i])
      <3>1. i \in 1 .. Len(waiting) \/ i = Len(waiting) + 1
        BY <1>4
      <3>2. CASE i \in 1 .. Len(waiting)
        <4>1. Place(accepted, cur) < Place(accepted, waiting[i])
          BY <3>2, <1>4, <2>2 DEF OrderInv, ChainInv
        <4> QED BY <4>1, <3>2, <1>3, <1>4, <1>7, <2>2
      <3>3. CASE i = Len(waiting) + 1
        BY <3>3, <1>3, <1>4, <1>7, <2>2
      <3> QED BY <3>1, <3>2, <3>3
    <2> QED BY <2>1, <2>2, <1>1 DEF ChainInv
  <1>11. EndInv'
    <2>0. /\ cur = None => sent = 0
          /\ sent = 0 /\ wire # <<>> =>
               /\ WireEnd[2] = Size
               /\ \A x \in Held : Place(accepted, WireEnd[1]) < Place(accepted, x)
          /\ sent # 0 => wire # <<>> /\ WireEnd = <<cur, sent>>
      BY DEF OrderInv, EndInv
    <2>1. wire # <<>> => WireEnd[1] \in ToSet(accepted)
      BY DEF OrderInv, LineInv, AcceptedInv, WireEnd
    <2>2. ASSUME sent = 0, wire # <<>>, NEW x \in Held \cup {m}
          PROVE  Place(accepted', WireEnd[1]) < Place(accepted', x)
      BY <2>0, <2>1, <2>2, <1>3, <1>6
    <2> QED BY <2>0, <2>2, <1>1, <1>5 DEF EndInv, WireEnd
  <1> QED BY <1>3, <1>8, <1>9, <1>10, <1>11 DEF OrderInv

\* The chain loses its head, which may become the message being sent.
LEMMA TakeKeepsOrder ==
  ASSUME IInv, OrderInv, CanTake, waiting' = Tail(waiting), cur' \in {None, Head(waiting)},
         UNCHANGED <<kind, notices, sent, up, run, wire, accepted>>
  PROVE  OrderInv'
  <1>1. waiting \in Seq(Msg) /\ waiting # <<>> /\ cur = None /\ run = "output"
    BY DEF IInv, Types, CanTake
  <1>2. /\ Len(waiting) \in Nat /\ Len(waiting) > 0 /\ DOMAIN waiting = 1 .. Len(waiting)
        /\ DOMAIN waiting' = 1 .. Len(waiting) - 1 /\ Head(waiting) = waiting[1]
        /\ \A i \in 1 .. Len(waiting) - 1 : waiting'[i] = waiting[i + 1]
    BY <1>1
  <1>3. Held' \subseteq Held
    <2>1. ToSet(waiting') \subseteq ToSet(waiting) /\ Head(waiting) \in ToSet(waiting)
      BY <1>2 DEF ToSet
    <2> QED BY <2>1 DEF Held, Chain, Sending
  <1>4. up
    BY <1>1 DEF OrderInv, LineInv
  <1>5. LineInv'
    BY <1>3, <1>4 DEF OrderInv, LineInv
  <1>6. AcceptedInv'
    BY <1>3 DEF OrderInv, AcceptedInv
  <1>7. ChainInv'
    <2>0. \A i, j \in DOMAIN waiting :
             i < j => Place(accepted, waiting[i]) < Place(accepted, waiting[j])
      BY DEF OrderInv, ChainInv
    <2>1. \A i, j \in DOMAIN waiting' :
             i < j => Place(accepted, waiting'[i]) < Place(accepted, waiting'[j])
      <3> SUFFICES ASSUME NEW i \in DOMAIN waiting', NEW j \in DOMAIN waiting', i < j
                   PROVE  Place(accepted, waiting'[i]) < Place(accepted, waiting'[j])
        OBVIOUS
      <3>1. /\ i + 1 \in DOMAIN waiting /\ j + 1 \in DOMAIN waiting /\ i + 1 < j + 1
            /\ waiting'[i] = waiting[i + 1] /\ waiting'[j] = waiting[j + 1]
        BY <1>2
      <3> QED BY <2>0, <3>1
    <2>2. \A i \in DOMAIN waiting' : Place(accepted, Head(waiting)) < Place(accepted, waiting'[i])
      <3> SUFFICES ASSUME NEW i \in DOMAIN waiting'
                   PROVE  Place(accepted, waiting[1]) < Place(accepted, waiting'[i])
        BY <1>2
      <3>1. /\ 1 \in DOMAIN waiting /\ i + 1 \in DOMAIN waiting /\ 1 < i + 1
            /\ waiting'[i] = waiting[i + 1]
        BY <1>2
      <3> QED BY <2>0, <3>1
    <2> QED BY <2>1, <2>2 DEF ChainInv
  <1>8. EndInv'
    BY <1>1, <1>3, <1>4 DEF OrderInv, EndInv, WireEnd
  <1>9. WireInv'
    BY DEF OrderInv, WireInv, InTurn
  <1> QED BY <1>5, <1>6, <1>7, <1>8, <1>9 DEF OrderInv

\* n more bytes of the message being sent go out, right behind those before.
LEMMA WriteKeepsWire ==
  ASSUME IInv, OrderInv, CanSend, NEW n \in Nat, sent + n <= Size, Write(n),
         accepted' = accepted
  PROVE  /\ wire' \in Seq(Bytes) /\ WireInv'
         /\ \A i \in DOMAIN wire' : wire'[i][1] \in ToSet(accepted)
         /\ n = 0 => wire' = wire
         /\ n > 0 => wire' # <<>> /\ wire'[Len(wire')] = <<cur, sent + n>>
  <1>1. /\ cur \in Msg /\ cur # None /\ run = "output" /\ up /\ sent \in Nat
        /\ wire \in Seq(Bytes) /\ cur \in Held /\ cur \in ToSet(accepted)
    BY SendAssumption DEF IInv, Types, OrderInv, LineInv, AcceptedInv, CanSend, Held, Sending
  <1>2. /\ wire' \in Seq(Bytes) /\ Len(wire) \in Nat /\ Len(wire') = Len(wire) + n
        /\ DOMAIN wire = 1 .. Len(wire) /\ DOMAIN wire' = 1 .. Len(wire) + n
        /\ \A i \in 1 .. Len(wire) : wire'[i] = wire[i]
        /\ \A k \in 1 .. n : wire'[Len(wire) + k] = <<cur, sent + k>>
    <2> DEFINE v == [i \in 1 .. n |-> <<cur, sent + i>>]
    <2>1. \A i \in 1 .. n : <<cur, sent + i>> \in Bytes
      BY <1>1, SendAssumption DEF Bytes
    <2>2. v \in Seq(Bytes) /\ Len(v) = n /\ \A i \in 1 .. n : v[i] = <<cur, sent + i>>
      BY <2>1
    <2>3. wire' = wire \o v
      BY DEF Write
    <2> HIDE DEF v
    <2> QED BY <1>1, <2>2, <2>3, BytesAppended
  <1>3. \A i \in DOMAIN wire' :
           i \in 1 .. Len(wire) \/ \E k \in 1 .. n : i = Len(wire) + k
    <2> SUFFICES ASSUME NEW i \in DOMAIN wire', i \notin 1 .. Len(wire)
                 PROVE  \E k \in 1 .. n : i = Len(wire) + k
      OBVIOUS
    <2>1. i \in 1 .. Len(wire) + n /\ Len(wire) \in Nat
      BY <1>2
    <2>2. i - Len(wire) \in 1 .. n /\ i = Len(wire) + (i - Len(wire))
      BY <2>1
    <2> QED BY <2>2
  <1>4. \A i \in DOMAIN wire' : wire'[i][1] \in ToSet(accepted)
    <2>1. \A i \in 1 .. Len(wire) : wire[i][1] \in ToSet(accepted)
      BY <1>2 DEF OrderInv, AcceptedInv
    <2> SUFFICES ASSUME NEW i \in DOMAIN wire' PROVE wire'[i][1] \in ToSet(accepted)
      OBVIOUS
    <2>2. CASE i \in 1 .. Len(wire)
      BY <1>2, <2>1, <2>2
    <2>3. ASSUME NEW k \in 1 .. n, i = Len(wire) + k PROVE wire'[i][1] \in ToSet(accepted)
      <3>1. wire'[i] = <<cur, sent + k>>
        BY <1>2, <2>3
      <3> QED BY <1>1, <3>1
    <2> QED BY <1>3, <2>2, <2>3
  <1>5. n = 0 => wire' = wire
    BY <1>1, <1>2, SeqEqual
  <1>6. n > 0 => wire' # <<>> /\ wire'[Len(wire')] = <<cur, sent + n>>
    BY <1>2
  <1>7. /\ sent = 0 /\ wire # <<>> =>
             /\ WireEnd[2] = Size
             /\ Place(accepted, WireEnd[1]) < Place(accepted, cur)
        /\ sent # 0 => wire # <<>> /\ WireEnd = <<cur, sent>>
    BY <1>1 DEF OrderInv, EndInv
  <1>8. WireInv'
    <2> SUFFICES ASSUME NEW i \in DOMAIN wire' PROVE InTurn(i)'
      BY DEF WireInv
    <2>1. CASE i \in 1 .. Len(wire)
      <3>1. InTurn(i)
        BY <2>1, <1>2 DEF OrderInv, WireInv
      <3>2. i > 1 => wire'[i - 1] = wire[i - 1]
        BY <2>1, <1>2
      <3> QED BY <3>1, <3>2, <2>1, <1>2 DEF InTurn
    <2>2. ASSUME NEW k \in 1 .. n, i = Len(wire) + k PROVE InTurn(i)'
      <3>1. wire'[i] = <<cur, sent + k>>
        BY <2>2, <1>2
      <3>2. CASE k > 1
        <4>1. k - 1 \in 1 .. n /\ i - 1 = Len(wire) + (k - 1)
          BY <3>2, <2>2, <1>2
        <4>2. wire'[i - 1] = <<cur, sent + (k - 1)>>
          BY <4>1, <1>2
        <4>3. /\ sent + k \in Nat /\ sent + k > 1 /\ sent + (k - 1) = sent + k - 1
              /\ i \in Nat /\ i > 1
          BY <3>2, <2>2, <1>1, <1>2
        <4>4. wire'[i][1] = cur /\ wire'[i][2] = sent + k
          BY <3>1
        <4>5. wire'[i - 1] = <<cur, sent + k - 1>> /\ sent + k > 1
          BY <4>2, <4>3
        <4>6. wire'[i][2] > 1 /\ wire'[i][2] - 1 = sent + k - 1
          BY <1>1, <4>3, <4>4
        <4>7. <<wire'[i][1], wire'[i][2] - 1>> = <<cur, sent + k - 1>>
          BY <4>4, <4>6
        <4> QED BY <4>3, <4>5, <4>6, <4>7 DEF InTurn
      <3>3. CASE k = 1
        <4>1. i > 1 => wire # <<>> /\ wire'[i - 1] = WireEnd /\ i - 1 = Len(wire)
          BY <3>3, <2>2, <1>2 DEF WireEnd
        <4>2. sent # 0 => i > 1
          BY <3>3, <2>2, <1>1, <1>2, <1>7
        <4>3. CASE sent = 0
          BY <3>1, <3>3, <4>1, <4>3, <1>7 DEF InTurn
        <4>4. CASE sent # 0
          BY <3>1, <3>3, <4>1, <4>2, <4>4, <1>1, <1>7 DEF InTurn
        <4> QED BY <4>3, <4>4
      <3> QED BY <3>2, <3>3
    <2> QED BY <1>3, <2>1, <2>2
  <1> QED BY <1>2, <1>4, <1>5, <1>6, <1>8

LEMMA SendPartOrder ==
  ASSUME IInv, OrderInv, SendPart PROVE OrderInv'
  <1>1. sent \in 0 .. Size - 1 /\ CanSend /\ up /\ Size \in Nat
    BY SendAssumption DEF OrderInv, LineInv, SendPart, CanSend
  <1>2. PICK n \in 0 .. Size - sent - 1 : Write(n) /\ sent' = sent + n
    BY DEF SendPart
  <1>3. n \in Nat /\ sent + n \in 0 .. Size - 1 /\ sent + n <= Size
    BY <1>1, <1>2
  <1>4. /\ UNCHANGED <<kind, notices, waiting, cur, up, accepted>> /\ run' = "none"
        /\ Held' = Held /\ cur # None
    BY <1>1 DEF SendPart, masks, CanSend, Held, Chain, Sending
  <1>5. /\ wire' \in Seq(Bytes) /\ WireInv'
        /\ \A i \in DOMAIN wire' : wire'[i][1] \in ToSet(accepted)
        /\ n = 0 => wire' = wire
        /\ n > 0 => wire' # <<>> /\ wire'[Len(wire')] = <<cur, sent + n>>
    BY <1>1, <1>2, <1>3, <1>4, WriteKeepsWire
  <1>6. LineInv' /\ AcceptedInv' /\ ChainInv'
    BY <1>1, <1>2, <1>3, <1>4, <1>5 DEF OrderInv, LineInv, AcceptedInv, ChainInv
  <1>7. EndInv'
    <2>1. CASE n = 0
      BY <2>1, <1>1, <1>2, <1>4, <1>5 DEF OrderInv, EndInv, WireEnd, CanSend
    <2>2. CASE n > 0
      <3>1. sent' # 0 /\ sent' = sent + n
        BY <2>2, <1>1, <1>2, <1>3
      <3> QED BY <2>2, <3>1, <1>4, <1>5 DEF EndInv, WireEnd
    <2> QED BY <2>1, <2>2, <1>3
  <1> QED BY <1>5, <1>6, <1>7 DEF OrderInv

\* After the last byte of a message the next one of the chain may follow.
LEMMA SentWholeOrder ==
  ASSUME IInv, OrderInv, SendRest \/ SendRestAndClose PROVE OrderInv'
  <1>1. sent \in 0 .. Size - 1 /\ CanSend /\ up /\ Size \in Nat
    BY SendAssumption DEF OrderInv, LineInv, SendRest, SendRestAndClose, SentWhole, CanSend
  <1> DEFINE n == Size - sent
  <1>2. Write(n) /\ sent' = 0
    BY DEF SendRest, SendRestAndClose, SentWhole
  <1>3. n \in Nat /\ sent + n = Size /\ n > 0 /\ sent + n <= Size
    BY <1>1
  <1>4. /\ UNCHANGED <<kind, notices, waiting, up, accepted>>
        /\ (cur' = None \/ (cur' = cur /\ run' = "close")) /\ cur # None
    BY <1>1 DEF SendRest, SendRestAndClose, masks, CanSend
  <1> HIDE DEF n
  <1>5. /\ wire' \in Seq(Bytes) /\ WireInv'
        /\ \A i \in DOMAIN wire' : wire'[i][1] \in ToSet(accepted)
        /\ wire' # <<>> /\ wire'[Len(wire')] = <<cur, Size>>
    BY <1>1, <1>2, <1>3, <1>4, WriteKeepsWire
  <1>6. Held' \subseteq Held
    BY <1>4 DEF Held, Chain, Sending
  <1>7. LineInv' /\ AcceptedInv' /\ ChainInv'
    BY <1>1, <1>2, <1>4, <1>5, <1>6 DEF OrderInv, LineInv, AcceptedInv, ChainInv
  <1>8. EndInv'
    <2>1. CASE run' = "close"
      BY <2>1 DEF EndInv
    <2>2. CASE run' # "close"
      <3>1. cur' = None /\ Held' = ToSet(waiting) /\ cur # None
        BY <2>2, <1>1, <1>4 DEF Held, Chain, Sending, CanSend
      <3>2. \A m \in Held' : Place(accepted, cur) < Place(accepted, m)
        BY <3>1 DEF OrderInv, ChainInv, ToSet
      <3> QED BY <3>1, <3>2, <1>2, <1>4, <1>5 DEF EndInv, WireEnd
    <2> QED BY <2>1, <2>2
  <1> QED BY <1>5, <1>7, <1>8 DEF OrderInv

\* The object goes down: nothing is held, and nothing will be written.
LEMMA DrainedOrder ==
  ASSUME OrderInv, UNCHANGED <<notices, kind, wire, accepted>>,
         sent' \in 0 .. Size - 1, cur' = None, run' # "none" => up',
         waiting' = waiting \/ waiting' = <<>>,
         up' => run' = "close", kind = "channel" /\ ~up' => waiting' = <<>> /\ sent' = 0
  PROVE  OrderInv'
  <1>1. ToSet(<<>>) = {}
    BY NothingQueued
  <1>2. Held' \subseteq Held /\ (waiting' = <<>> => Held' = {})
    BY <1>1 DEF Held, Chain, Sending
  <1>3. LineInv' /\ AcceptedInv'
    BY <1>2 DEF OrderInv, LineInv, AcceptedInv
  <1>4. ChainInv'
    BY DEF OrderInv, ChainInv
  <1>5. EndInv'
    BY DEF EndInv
  <1>6. WireInv'
    BY DEF OrderInv, WireInv, InTurn
  <1> QED BY <1>3, <1>4, <1>5, <1>6 DEF OrderInv

LEMMA OpenOrder ==
  ASSUME IInv, OrderInv, Open PROVE OrderInv'
  <1>1. /\ wire' = <<>> /\ accepted' = <<>> /\ UNCHANGED <<kind, notices, run>>
        /\ run = "none" /\ ~up /\ up'
    BY DEF Open, Idle
  <1>2. ToSet(<<>>) = {} /\ IsInjective(<<>>) /\ 0 \in 0 .. Size - 1 /\ <<>> \in Seq(Bytes)
    BY NothingQueued, SendAssumption
  <1>3. waiting' = <<>> /\ cur' = None /\ sent' = 0
    <2>1. CASE kind = "conn"
      BY <2>1 DEF Open, Clear
    <2>2. CASE kind = "channel"
      <3>1. UNCHANGED queue /\ Held = {} /\ sent = 0
        BY <2>2, <1>1 DEF Open, OrderInv, LineInv
      <3>2. waiting \in Seq(Msg) /\ ToSet(waiting) = {} /\ cur = None
        BY <3>1 DEF IInv, Types, Held, Chain, Sending
      <3>3. waiting = <<>>
        <4>1. waiting # <<>> => /\ Len(waiting) \in Nat /\ Len(waiting) >= 1
                                /\ DOMAIN waiting = 1 .. Len(waiting)
          BY <3>2
        <4>2. waiting # <<>> => waiting[1] \in ToSet(waiting)
          BY <4>1 DEF ToSet
        <4> QED BY <3>2, <4>2
      <3> QED BY <3>1, <3>2, <3>3 DEF queue
    <2>3. kind \in {"conn", "channel"}
      BY DEF OrderInv, LineInv
    <2> QED BY <2>1, <2>2, <2>3
  <1>4. Held' = {}
    BY <1>2, <1>3 DEF Held, Chain, Sending
  <1>5. LineInv' /\ AcceptedInv'
    BY <1>1, <1>2, <1>3, <1>4 DEF OrderInv, LineInv, AcceptedInv
  <1>6. ChainInv' /\ EndInv' /\ WireInv'
    BY <1>1, <1>3, <1>4 DEF ChainInv, EndInv, WireInv
  <1> QED BY <1>5, <1>6 DEF OrderInv

\* The first notice is taken: it was not put before, and is not a channel's.
LEMMA NoticeTaken ==
  ASSUME IInv, OrderInv, notices # <<>>, notices' = Tail(notices)
  PROVE  /\ kind = "conn" /\ Head(notices) \in Msg /\ Head(notices) \notin ToSet(accepted)
         /\ ToSet(notices') = ToSet(notices) \ {Head(notices)}
         /\ ToSet(accepted) \cap ToSet(notices') = {}
  <1>1. /\ Head(notices) \in Msg /\ Head(notices) \in ToSet(notices)
        /\ ToSet(notices') = ToSet(notices) \ {Head(notices)}
    BY FirstNotice
  <1>2. kind = "conn" /\ ToSet(accepted) \cap ToSet(notices) = {}
    BY DEF OrderInv, LineInv, AcceptedInv
  <1> QED BY <1>1, <1>2

\* The object goes down; the message is put all the same, unless the chain is full.
LEMMA NoticeClosesOrder ==
  ASSUME IInv, OrderInv, NEW m \in Msg, NoticeCloses(m)
  PROVE  OrderInv'
  <1>1. /\ notices # <<>> /\ m = Head(notices) /\ notices' = Tail(notices)
        /\ cur' = None /\ ~up' /\ run = "none" /\ UNCHANGED <<kind, sent, wire, run>>
    BY DEF NoticeCloses, Arrives, Idle
  <1>2. /\ kind = "conn" /\ m \notin ToSet(accepted)
        /\ ToSet(notices') = ToSet(notices) \ {m} /\ ToSet(accepted) \cap ToSet(notices') = {}
    BY <1>1, NoticeTaken
  <1>3. CASE Full
    <2>1. waiting' = <<>> /\ accepted' = accepted
      BY <1>3 DEF NoticeCloses
    <2>2. sent' \in 0 .. Size - 1
      BY <1>1 DEF OrderInv, LineInv
    <2>3. Held' = {}
      BY <1>1, <2>1, NothingQueued DEF Held, Chain, Sending
    <2>4. LineInv' /\ AcceptedInv'
      BY <1>1, <1>2, <2>1, <2>2, <2>3 DEF OrderInv, LineInv, AcceptedInv
    <2>5. ChainInv' /\ EndInv' /\ WireInv'
      BY <1>1, <2>1 DEF OrderInv, ChainInv, EndInv, WireInv, InTurn
    <2> QED BY <2>4, <2>5 DEF OrderInv
  <1>4. CASE ~Full
    <2>1. waiting' = <<m>> /\ accepted' = Append(accepted, m)
      BY <1>4 DEF NoticeCloses
    <2>2. /\ ToSet(accepted') = ToSet(accepted) \cup {m} /\ IsInjective(accepted') /\ WireInv'
      BY <1>1, <1>2, <2>1, PutKeepsWire
    <2>3. DOMAIN waiting' = {1} /\ Held' = {m}
      BY <1>1, <2>1, OneQueued DEF Held, Chain, Sending
    <2>4. LineInv'
      BY <1>1, <1>2 DEF OrderInv, LineInv
    <2>5. AcceptedInv'
      BY <1>1, <1>2, <2>2, <2>3 DEF OrderInv, AcceptedInv
    <2>6. ChainInv'
      BY <1>1, <2>3 DEF ChainInv
    <2>7. EndInv'
      BY <1>1 DEF EndInv
    <2> QED BY <2>2, <2>4, <2>5, <2>6, <2>7 DEF OrderInv
  <1> QED BY <1>3, <1>4

LEMMA NoticeOrder ==
  ASSUME IInv, OrderInv, Notice PROVE OrderInv'
  <1>1. CASE NoticeMisses
    <2>1. notices # <<>> /\ notices' = Tail(notices) /\ UNCHANGED run /\ run = "none"
          /\ UNCHANGED <<kind, waiting, cur, sent, up, wire, accepted>>
      BY <1>1 DEF NoticeMisses, Idle, queue, masks
    <2>2. kind = "conn" /\ ToSet(accepted) \cap ToSet(notices') = {}
      BY <2>1, NoticeTaken
    <2> QED BY <2>1, <2>2, LineKept
  <1>2. ASSUME NEW m \in Msg, NoticePuts(m) PROVE OrderInv'
    <2>1. /\ notices # <<>> /\ m = Head(notices) /\ notices' = Tail(notices)
          /\ Link(m) /\ UNCHANGED <<kind, up, wire, run>> /\ up /\ run = "none"
      BY <1>2 DEF NoticePuts, Arrives, Idle, Put
    <2>2. /\ kind = "conn" /\ m \notin ToSet(accepted)
          /\ ToSet(notices') = ToSet(notices) \ {m} /\ ToSet(accepted) \cap ToSet(notices') = {}
      BY <2>1, NoticeTaken
    <2>3. (ToSet(accepted) \cup {m}) \cap ToSet(notices') = {}
      BY <2>2
    <2> QED BY <2>1, <2>2, <2>3, PutKeepsOrder
  <1>3. ASSUME NEW m \in Msg, NoticeRefused(m) PROVE OrderInv'
    <2>1. notices # <<>> /\ notices' = Tail(notices) /\ UNCHANGED run /\ run = "none"
          /\ UNCHANGED <<kind, waiting, cur, sent, up, wire, accepted>>
      BY <1>3 DEF NoticeRefused, Arrives, Idle, queue
    <2>2. kind = "conn" /\ ToSet(accepted) \cap ToSet(notices') = {}
      BY <2>1, NoticeTaken
    <2> QED BY <2>1, <2>2, LineKept
  <1> QED BY <1>1, <1>2, <1>3, NoticeClosesOrder DEF Notice

\* The application gives a message away that the framework does not have.
LEMMA GivenOrder ==
  ASSUME IInv, OrderInv, NEW m \in Msg, SendMsgByConn(m) \/ PutMsg(m)
  PROVE  OrderInv'
  <1>1. m \notin ToSet(accepted) /\ m \notin ToSet(notices)
    BY DEF IInv, OwnedOnce, SendMsgByConn, PutMsg, Given
  <1>2. ToSet(accepted) \cap ToSet(notices) = {}
    BY DEF OrderInv, AcceptedInv
  <1>3. CASE SendMsgByConn(m)
    <2>1. /\ UNCHANGED <<kind, waiting, cur, sent, up, wire, accepted, run>> /\ kind = "conn"
          /\ notices' = Append(notices, m)
      BY <1>3 DEF SendMsgByConn, queue, masks, history
    <2>2. ToSet(notices') = ToSet(notices) \cup {m}
      BY <2>1, OneMoreQueued DEF IInv, Types
    <2>3. ToSet(accepted) \cap ToSet(notices') = {}
      BY <1>1, <1>2, <2>2
    <2>4. run' # "none" => up
      BY <2>1 DEF OrderInv, LineInv
    <2> QED BY <2>1, <2>3, <2>4, LineKept
  <1>4. CASE PutMsg(m)
    <2>1. /\ Link(m) /\ UNCHANGED <<kind, up, wire, run, notices>> /\ up /\ run = "none"
      BY <1>4 DEF PutMsg, Idle, Put
    <2>2. /\ (ToSet(accepted) \cup {m}) \cap ToSet(notices') = {}
          /\ kind = "channel" => notices' = <<>>
      BY <1>1, <1>2, <2>1 DEF OrderInv, LineInv
    <2> QED BY <1>1, <2>1, <2>2, PutKeepsOrder
  <1> QED BY <1>3, <1>4

LEMMA OutputOrder ==
  ASSUME IInv, OrderInv, Output PROVE OrderInv'
  <1>0. /\ ToSet(accepted) \cap ToSet(notices) = {}
        /\ (kind = "channel" => notices = <<>>)
        /\ run # "none" => up
    BY DEF OrderInv, LineInv, AcceptedInv
  <1>1. CASE OutputStarts
    <2>1. UNCHANGED <<kind, waiting, cur, sent, up, wire, accepted>> /\ UNCHANGED notices
          /\ up /\ run = "none"
      BY <1>1 DEF OutputStarts, Idle, queue, masks, history
    <2>2. /\ ToSet(accepted) \cap ToSet(notices') = {}
          /\ (kind = "channel" => notices' = <<>>)
          /\ (run' # "none" => up) /\ (run = "close" => run' = "close")
      BY <1>0, <2>1
    <2> QED BY <2>1, <2>2, LineKept
  <1>2. CASE GetNextMsg
    <2>1. /\ CanTake /\ waiting' = Tail(waiting) /\ cur' = Head(waiting)
          /\ UNCHANGED <<kind, notices, sent, up, run, wire, accepted>>
      BY <1>2 DEF GetNextMsg, masks, history
    <2> QED BY <2>1, TakeKeepsOrder
  <1>3. CASE GiveUp
    <2>1. /\ CanTake /\ waiting' = Tail(waiting) /\ cur' = None
          /\ UNCHANGED <<kind, notices, sent, up, run, wire, accepted>>
      BY <1>3 DEF GiveUp, CanTake, masks
    <2> QED BY <2>1, TakeKeepsOrder
  <1>4. CASE NothingLeft
    <2>1. UNCHANGED <<kind, waiting, cur, sent, up, wire, accepted>> /\ UNCHANGED notices
          /\ run = "output"
      BY <1>4 DEF NothingLeft, queue, history
    <2>2. /\ ToSet(accepted) \cap ToSet(notices') = {}
          /\ (kind = "channel" => notices' = <<>>)
          /\ (run' # "none" => up) /\ (run = "close" => run' = "close")
      BY <1>0, <2>1
    <2> QED BY <2>1, <2>2, LineKept
  <1>5. CASE SendFails
    <2>1. /\ UNCHANGED <<notices, kind, wire, accepted, sent, waiting, up>> /\ cur' = None
          /\ run' = "close" /\ run = "output"
      BY <1>5 DEF SendFails, CanSend, masks
    <2>2. sent' \in 0 .. Size - 1
      BY <2>1 DEF OrderInv, LineInv
    <2> QED BY <1>0, <2>1, <2>2, DrainedOrder
  <1> QED BY <1>1, <1>2, <1>3, <1>4, <1>5, SendPartOrder, SentWholeOrder DEF Output

LEMMA CloseOrder ==
  ASSUME IInv, OrderInv, Close PROVE OrderInv'
  <1>1. /\ UNCHANGED <<notices, kind, wire, accepted>> /\ cur' = None /\ waiting' = <<>>
        /\ run' = "none" /\ ~up' /\ sent' = IF kind = "channel" THEN 0 ELSE sent
    BY DEF Close, Drain
  <1>2. sent' \in 0 .. Size - 1 /\ (kind = "channel" => sent' = 0)
    BY <1>1, SendAssumption DEF OrderInv, LineInv
  <1> QED BY <1>1, <1>2, DrainedOrder

LEMMA OrderInit == Init => OrderInv
  <1> SUFFICES ASSUME Init PROVE OrderInv
    OBVIOUS
  <1>1. /\ notices = <<>> /\ waiting = <<>> /\ accepted = <<>> /\ wire = <<>> /\ cur = None
        /\ sent = 0 /\ ~up /\ run = "none"
    BY DEF Init
  <1>2. kind \in {"conn", "channel"} /\ 0 \in 0 .. Size - 1 /\ <<>> \in Seq(Bytes)
    BY SendAssumption DEF Init
  <1>3. ToSet(<<>>) = {} /\ IsInjective(<<>>) /\ Held = {}
    BY <1>1, NothingQueued DEF Held, Chain, Sending
  <1>4. LineInv /\ AcceptedInv
    BY <1>1, <1>2, <1>3 DEF LineInv, AcceptedInv
  <1>5. ChainInv /\ EndInv /\ WireInv
    BY <1>1 DEF ChainInv, EndInv, WireInv
  <1> QED BY <1>4, <1>5 DEF OrderInv

LEMMA OrderNext == IInv /\ OrderInv /\ [Next]_vars => OrderInv'
  <1> SUFFICES ASSUME IInv, OrderInv, [Next]_vars PROVE OrderInv'
    OBVIOUS
  <1>1. /\ ToSet(accepted) \cap ToSet(notices) = {}
        /\ (kind = "channel" => notices = <<>>)
        /\ run # "none" => up
    BY DEF OrderInv, LineInv, AcceptedInv
  <1>2. CASE Stop \/ UNCHANGED vars
    <2>1. UNCHANGED <<kind, waiting, cur, sent, up, wire, accepted>> /\ UNCHANGED <<notices, run>>
      BY <1>2 DEF Stop, vars, queue, masks, history
    <2>2. /\ ToSet(accepted) \cap ToSet(notices') = {}
          /\ (kind = "channel" => notices' = <<>>)
          /\ (run' # "none" => up) /\ (run = "close" => run' = "close")
      BY <1>1, <2>1
    <2> QED BY <2>1, <2>2, LineKept
  <1> QED BY <1>2, GivenOrder, NoticeOrder, OutputOrder, CloseOrder, OpenOrder DEF Next

\* What the peer receives is whole messages in the order they were put, whatever
\* became of the connections before (handle_output, close, clear).
THEOREM MessagesStayWhole == Spec => []WireWhole
  <1>1. Spec => []OrderInv
    <2>1. Init => OrderInv /\ IInv
      BY OrderInit, InitOk
    <2>2. OrderInv /\ IInv /\ [Next]_vars => (OrderInv /\ IInv)'
      BY OrderNext, NextOk
    <2> QED BY <2>1, <2>2, PTL DEF Spec
  <1>2. OrderInv => WireWhole
    BY DEF OrderInv, WireInv, InTurn, WireWhole, Place
  <1> QED BY <1>1, <1>2, PTL
=========================================================================
