----------------------------- MODULE SendQueue -----------------------------
(***************************************************************************)
(* The messages one connection has to send: CwxAppHandler4Msg, and its     *)
(* twin CwxAppHandler4Channel of a channel.  A message belongs to the      *)
(* application until it is given away, then lies in a notice, waits in the *)
(* object's chain, is being sent, and ends: freed, or kept by a callback   *)
(* of the application.                                                     *)
(*                                                                         *)
(* Everything here runs in the owner's thread, but the posting of a notice *)
(* and stop(); handle_output is cut after each message so that stop() may  *)
(* come in between.  What the socket takes, the peer does and the          *)
(* application's on...() functions answer is chosen freely.  All messages  *)
(* are Size bytes long (sendMsgByConn refuses empty ones).                 *)
(***************************************************************************)
EXTENDS Naturals, FiniteSets, SequencesExt

CONSTANTS
  Msg,         \* messages
  None,        \* NULL
  Size,        \* the bytes of a message
  MaxWaiting,  \* m_uiMaxWaitingMsgNum, 0 for no limit
  ContinueNum, \* m_uiContinueSendNum
  Modulus,     \* the counter m_uiWaitingMsgNum has 32 bits
  FailNotice,  \* the messages whose failure the application asks to be told
  Kinds,       \* which of the two classes: "conn", "channel"
  MaxOpens     \* bound: how often the object comes up

ASSUME SendAssumption ==
  /\ None \notin Msg
  /\ Size \in Nat \ {0}
  /\ MaxWaiting \in Nat /\ ContinueNum \in Nat /\ MaxOpens \in Nat
  /\ Modulus \in Nat \ {0, 1} /\ MaxWaiting < Modulus
  /\ FailNotice \subseteq Msg
  /\ Kinds \subseteq {"conn", "channel"}

VARIABLES
  kind,       \* the class of the object
  notices,    \* messages in notices the owner has not handled yet
  strange,    \* of those, the ones for a connection the object was before
  waiting,    \* m_waitSendMsgHead .. m_waitSendMsgTail
  cur,        \* m_curSndingMsg
  sent,       \* m_uiSendByte
  waitingNum, \* m_uiWaitingMsgNum
  up,         \* ESTABLISHED, and registered with the engine
  reading,    \* READ_MASK is in the engine's mask
  writing,    \* WRITE_MASK is in the engine's mask
  run,        \* what the owner is doing with the object
  uiNum,      \* messages sent by this handle_output
  stopped,    \* m_bStopped of the framework
  opens,      \* how often the object came up
  wire,       \* history: the bytes written to the present descriptor
  accepted,   \* history: the messages put, in order
  done,       \* history: messages wholly sent, or given up by the application
  ended,      \* history: messages freed or kept by a callback
  told        \* history: how often the failure of a message was told

queue   == <<waiting, cur, sent, waitingNum>>
masks   == <<up, reading, writing>>
history == <<wire, accepted, done, ended, told>>
vars    == <<kind, notices, strange, queue, masks, run, uiNum, stopped, opens, history>>

Bytes == Msg \X (1 .. Size)

TypeOK ==
  /\ kind \in Kinds
  /\ notices \in Seq(Msg) /\ strange \subseteq Msg
  /\ waiting \in Seq(Msg) /\ cur \in Msg \cup {None}
  /\ sent \in 0 .. Size - 1 /\ waitingNum \in 0 .. Modulus - 1
  /\ up \in BOOLEAN /\ reading \in BOOLEAN /\ writing \in BOOLEAN
  /\ run \in {"none", "output", "close"}
  /\ uiNum \in 0 .. ContinueNum /\ stopped \in BOOLEAN /\ opens \in 0 .. MaxOpens
  /\ wire \in Seq(Bytes) /\ accepted \in Seq(Msg)
  /\ done \subseteq Msg /\ ended \subseteq Msg /\ told \in [Msg -> 0 .. 2]

Init ==
  /\ kind \in Kinds
  /\ notices = <<>> /\ strange = {}
  /\ waiting = <<>> /\ cur = None /\ sent = 0 /\ waitingNum = 0
  /\ up = FALSE /\ reading = FALSE /\ writing = FALSE
  /\ run = "none" /\ uiNum = 0 /\ stopped = FALSE /\ opens = 0
  /\ wire = <<>> /\ accepted = <<>>
  /\ done = {} /\ ended = {} /\ told = [m \in Msg |-> 0]

-----------------------------------------------------------------------------
(* Helpers.                                                                  *)

Chain   == ToSet(waiting)
Sending == {cur} \ {None}
Held    == Chain \cup Sending
Given   == ToSet(notices) \cup Held \cup ended
Idle    == run = "none"

\* The counter of a connection; a channel's object has none.
CountUp   == (waitingNum + 1) % Modulus
CountDown == IF kind = "channel" THEN waitingNum ELSE (waitingNum + Modulus - 1) % Modulus

\* onFailSendMsg, for those that ask for it, before each is freed or kept.
Fail_silently(S) ==
  /\ ended' = ended \cup S
  /\ told' = [m \in Msg |-> IF m \in S \cap FailNotice \cap Sending THEN told[m] + 1 ELSE told[m]]

Fail(S) ==
  /\ ended' = ended \cup S
  /\ told' = [m \in Msg |-> IF m \in S \cap FailNotice THEN told[m] + 1 ELSE told[m]]

\* isWaitingMsgQueueFull
Full == MaxWaiting # 0 /\ waitingNum >= MaxWaiting

\* resumeHandler of a suspended descriptor fails in the engine (EEXIST), and
\* the caller does not look at the result.
CanResume == up /\ (reading \/ writing)

Write(n) == wire' = wire \o [i \in 1 .. n |-> <<cur, sent + i>>]

-----------------------------------------------------------------------------
(* Giving a message away.                                                    *)

\* sendMsgByConn.  (When the notice cannot be posted nothing changes: the
\* message stays with the application.)
SendMsgByConn(m) ==
  /\ kind = "conn" /\ m \notin Given
  /\ notices' = Append(notices, m)
  /\ UNCHANGED <<kind, strange, queue, masks, run, uiNum, stopped, opens, history>>

\* The message is appended; an empty chain makes the writer watch.
Link(m) ==
  /\ waiting' = Append(waiting, m)
  /\ accepted' = Append(accepted, m)
  /\ waitingNum' = IF kind = "channel" THEN waitingNum
                   ELSE IF waiting = <<>> THEN 1 ELSE CountUp
  /\ UNCHANGED <<cur, sent>>

Wake_onlyPartSent(isReading) ==
  writing' = (writing \/ (isReading /\ waiting = <<>> /\ sent # 0))

Wake(isReading) ==
  LET asked == kind = "channel" \/ waiting = <<>> IN
  writing' = (writing \/ (asked /\ isReading))

\* putMsg on an object that is up.
Put(m, isReading) == Link(m) /\ Wake(isReading) /\ UNCHANGED <<done, ended, told, wire>>

\* innerNoticeSendMsgByConn finds no such connection, or one that is not up.
NoticeMisses ==
  /\ Idle /\ notices # <<>>
  /\ ~up \/ Head(notices) \in strange
  /\ notices' = Tail(notices)
  /\ Fail({Head(notices)})
  /\ UNCHANGED <<kind, strange, queue, masks, run, uiNum, stopped, opens, wire, accepted, done>>

Arrives(m) == Idle /\ up /\ notices # <<>> /\ m = Head(notices) /\ m \notin strange

\* The message may ask for reading to be suspended or resumed first.
NoticePuts(m) ==
  /\ Arrives(m) /\ ~Full
  /\ \E r \in BOOLEAN :
       /\ r = reading \/ ~r \/ CanResume
       /\ reading' = r
       /\ Put(m, r)
  /\ notices' = Tail(notices)
  /\ UNCHANGED <<kind, strange, up, run, uiNum, stopped, opens>>

NoticeRefused(m) ==
  /\ Arrives(m) /\ Full
  /\ \E r \in BOOLEAN :
       /\ r = reading \/ ~r \/ CanResume
       /\ reading' = r
  /\ notices' = Tail(notices)
  /\ Fail({m})
  /\ UNCHANGED <<kind, strange, queue, up, writing, run, uiNum, stopped, opens,
                 wire, accepted, done>>

\* The resume fails: the connection is closed, and the message is put on it.
\* (Not followed when stop() came: close() then deletes the object.)
NoticeCloses(m) ==
  /\ Arrives(m) /\ ~CanResume /\ ~stopped
  /\ notices' = Tail(notices)
  /\ IF Full THEN /\ Fail(Held \cup {m})
                  /\ waiting' = <<>> /\ UNCHANGED <<accepted, waitingNum>>
             ELSE /\ Fail(Held)
                  /\ waiting' = <<m>> /\ accepted' = Append(accepted, m)
                  /\ waitingNum' = 1
  /\ cur' = None
  /\ up' = FALSE /\ reading' = FALSE /\ writing' = FALSE
  /\ UNCHANGED <<kind, strange, sent, run, uiNum, stopped, opens, wire, done>>

\* A channel's object is given messages by its own thread, while registered.
PutMsg(m) ==
  /\ kind = "channel" /\ Idle /\ up /\ m \notin Given
  /\ Put(m, reading)
  /\ UNCHANGED <<kind, notices, strange, up, reading, run, uiNum, stopped, opens>>

-----------------------------------------------------------------------------
(* handle_output, onOutput.                                                  *)

OutputStarts ==
  /\ Idle /\ up /\ writing /\ ~stopped
  /\ run' = "output" /\ uiNum' = 0
  /\ UNCHANGED <<kind, notices, strange, queue, masks, stopped, opens, history>>

\* Nothing is being sent and the chain is not empty.
CanTake == run = "output" /\ cur = None /\ waiting # <<>>

GetNextMsg ==
  /\ CanTake
  /\ cur' = Head(waiting) /\ waiting' = Tail(waiting)
  /\ UNCHANGED <<kind, notices, strange, sent, waitingNum, masks, run, uiNum, stopped,
                 opens, history>>

\* onStartSendMsg of a message with BEGIN_NOTICE says no.
GiveUp ==
  /\ CanTake
  /\ waiting' = Tail(waiting)
  /\ waitingNum' = CountDown
  /\ done' = done \cup {Head(waiting)} /\ ended' = ended \cup {Head(waiting)}
  /\ UNCHANGED <<kind, notices, strange, cur, sent, masks, run, uiNum, stopped, opens,
                 wire, accepted, told>>

\* cancelWakeup, which may fail.
NothingLeft ==
  /\ run = "output" /\ cur = None /\ waiting = <<>>
  /\ \/ writing' = FALSE /\ run' = "none"
     \/ run' = "close" /\ UNCHANGED writing
  /\ UNCHANGED <<kind, notices, strange, queue, up, reading, uiNum, stopped, opens, history>>

CanSend == run = "output" /\ cur # None

\* The socket takes a part, or nothing (EWOULDBLOCK, EINTR).
SendPart ==
  /\ CanSend
  /\ \E n \in 0 .. Size - sent - 1 : Write(n) /\ sent' = sent + n
  /\ run' = "none"
  /\ UNCHANGED <<kind, notices, strange, waiting, cur, waitingNum, masks, uiNum, stopped,
                 opens, accepted, done, ended, told>>

\* The rest is taken, and FINISH_NOTICE's callback may keep the message.  Then
\* the next, up to the limit.
SentWhole ==
  /\ CanSend /\ Write(Size - sent)
  /\ sent' = 0 /\ waitingNum' = CountDown
  /\ done' = done \cup {cur}

SendRest ==
  /\ SentWhole
  /\ cur' = None /\ ended' = ended \cup {cur}
  /\ reading' \in BOOLEAN
  /\ IF kind = "conn" /\ uiNum < ContinueNum
     THEN uiNum' = uiNum + 1 /\ UNCHANGED run
     ELSE run' = "none" /\ UNCHANGED uiNum
  /\ UNCHANGED <<kind, notices, strange, waiting, up, writing, stopped, opens, accepted, told>>

\* The message asks for the end of the connection or for another one (CLOSE_
\* NOTICE, RECONN_NOTICE), or its wish to suspend or resume reading fails: it
\* is still m_curSndingMsg, unless the callback kept it, when close() comes.
SendRestAndClose ==
  /\ SentWhole
  /\ \/ UNCHANGED <<cur, ended>>
     \/ cur' = None /\ ended' = ended \cup {cur}
  /\ run' = "close"
  /\ UNCHANGED <<kind, notices, strange, waiting, masks, uiNum, stopped, opens, accepted, told>>

SendFails ==
  /\ CanSend
  /\ Fail({cur}) /\ cur' = None
  /\ run' = "close"
  /\ UNCHANGED <<kind, notices, strange, waiting, sent, waitingNum, masks, uiNum, stopped,
                 opens, wire, accepted, done>>

-----------------------------------------------------------------------------
(* close and open.                                                           *)

\* Of a connection: m_uiSendByte and the counter keep their values, until the
\* object comes up again (clear) or is deleted.
Drain_onlyChain ==
  /\ Fail(Chain)
  /\ waiting' = <<>> /\ cur' = None
  /\ sent' = IF kind = "channel" THEN 0 ELSE sent
  /\ UNCHANGED waitingNum

Drain ==
  /\ Fail(Held)
  /\ waiting' = <<>> /\ cur' = None
  /\ sent' = IF kind = "channel" THEN 0 ELSE sent
  /\ UNCHANGED waitingNum

\* The peer, an error or the application ends it.  (onConnClosed of a channel
\* answers -1 or 0; with 1 the application has its own plans for the object.)
Close ==
  /\ run = "close" \/ (Idle /\ up)
  /\ Drain
  /\ up' = FALSE /\ reading' = FALSE /\ writing' = FALSE
  /\ run' = "none"
  /\ UNCHANGED <<kind, notices, strange, uiNum, stopped, opens, wire, accepted, done>>

\* clear() of a connection; what was put on it when it was down fails.
Clear_keepsSent ==
  /\ Fail(Held)
  /\ waiting' = <<>> /\ cur' = None /\ waitingNum' = 0
  /\ UNCHANGED sent

Clear ==
  /\ Fail(Held)
  /\ waiting' = <<>> /\ cur' = None /\ sent' = 0 /\ waitingNum' = 0

\* open(): the same connection again, or another one in a recycled object.
\* The application may want a connection that is not read yet.
Open ==
  /\ Idle /\ ~up /\ ~stopped /\ opens < MaxOpens
  /\ opens' = opens + 1
  /\ IF kind = "conn" THEN Clear ELSE UNCHANGED <<queue, ended, told>>
  /\ up' = TRUE /\ writing' = FALSE
  /\ IF kind = "conn" THEN reading' \in BOOLEAN ELSE reading' = TRUE
  /\ strange' \in {strange, strange \cup ToSet(notices)}
  /\ wire' = <<>> /\ accepted' = <<>>
  /\ UNCHANGED <<kind, notices, run, uiNum, stopped, done>>

Stop ==
  /\ kind = "conn" /\ ~stopped
  /\ stopped' = TRUE
  /\ UNCHANGED <<kind, notices, strange, queue, masks, run, uiNum, opens, history>>

-----------------------------------------------------------------------------
Notice == NoticeMisses \/ \E m \in Msg : NoticePuts(m) \/ NoticeRefused(m) \/ NoticeCloses(m)
Output == \/ OutputStarts \/ GetNextMsg \/ GiveUp \/ NothingLeft
          \/ SendPart \/ SendRest \/ SendRestAndClose \/ SendFails

Next ==
  \/ \E m \in Msg : SendMsgByConn(m) \/ PutMsg(m)
  \/ Notice \/ Output
  \/ Close \/ Open \/ Stop

Spec == Init /\ [][Next]_vars

\* The owner goes on; a peer that keeps reading takes a message whole at last.
\* Nothing makes messages come, connections end or come up.
Fairness ==
  /\ WF_vars(~stopped /\ Notice)
  /\ WF_vars(Output)
  /\ WF_vars(run = "close" /\ Close)
  /\ SF_vars(SendRest \/ SendRestAndClose)

FairSpec == Spec /\ Fairness

-----------------------------------------------------------------------------
(* Properties.                                                               *)

\* A message is in one place: nothing that was freed, or kept by a callback, is
\* held by the object or by a notice, and none is in the chain twice; a message
\* the framework took is never dropped without being freed.
OwnedOnce ==
  /\ ended \cap (Held \cup ToSet(notices)) = {}
  /\ ToSet(notices) \cap Held = {} /\ Sending \cap Chain = {}
  /\ IsInjective(waiting) /\ IsInjective(notices)
  /\ ToSet(accepted) \cup done \subseteq Given

\* What the peer receives is whole messages in the order they were put; only the
\* last may be cut short.  Nothing of one connection of the object is left in
\* the way of the next.
WireWhole ==
  LET place(m) == CHOOSE i \in DOMAIN accepted : accepted[i] = m IN
  \A i \in DOMAIN wire :
    LET m == wire[i][1]  b == wire[i][2] IN
    IF b > 1 THEN i > 1 /\ wire[i - 1] = <<m, b - 1>>
    ELSE i > 1 => wire[i - 1][2] = Size /\ place(wire[i - 1][1]) < place(m)

\* The application is told once of each message that asks for it and ended
\* without being sent, whatever path it ended on (onFailSendMsg).
FailureTold ==
  \A m \in Msg : /\ told[m] <= 1
                 /\ m \in (ended \cap FailNotice) \ done => told[m] = 1

\* A message put on a connection that is up ends: it is sent, given up or told
\* as failed, as long as reading is not suspended (a suspended descriptor cannot be
\* resumed, see CanResume) and the framework is not stopped.
EveryMessageEnds ==
  \A m \in Msg : (m \in Held /\ up) ~> (m \in ended \/ ~reading \/ stopped)
=============================================================================
