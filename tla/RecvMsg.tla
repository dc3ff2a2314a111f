------------------------------ MODULE RecvMsg ------------------------------
(***************************************************************************)
(* How CwxAppHandler4Msg::handle_input cuts the bytes of a connection into  *)
(* messages: a header of fixed length, checked by CwxMsgHead::fromNet, and  *)
(* as many bytes as it says.  What is there of a message when the socket    *)
(* has no more waits in the object for the next event.                      *)
(*                                                                          *)
(* Bytes are positions in the stream the peer sends.  A header read at the  *)
(* wrong position may say anything.                                         *)
(***************************************************************************)
EXTENDS Naturals, Sequences

CONSTANTS
  HeadLen, \* CwxMsgHead::MSG_HEAD_LEN
  DataLen, \* the data lengths peers send
  MaxSent, \* bound: messages sent on a connection
  MaxConns \* bound: connections the object serves in turn

ASSUME RecvAssumption ==
  /\ HeadLen \in Nat \ {0} /\ DataLen \subseteq Nat
  /\ MaxSent \in Nat /\ MaxConns \in Nat

VARIABLES
  stream,   \* history: the messages the peer sends: where each begins, its data
            \* length, and whether the header is one fromNet accepts
  read,     \* bytes read from it
  eof,      \* the peer has closed
  rxAt,     \* where handle_input is
  headLen,  \* m_uiRecvHeadLen
  needLen,  \* m_header.getDataLen()
  dataLen,  \* m_uiRecvDataLen
  block,    \* m_recvMsgData is not NULL
  dataFrom, \* history: the position of the first byte in the block
  got,      \* history: what the application received: the bytes from, to
  conns     \* connections served

wire   == <<stream, eof>>
buffer == <<headLen, needLen, dataLen, block, dataFrom>>
rxVars == <<wire, read, rxAt, buffer, got, conns>>

\* Where the next message of the peer begins: behind the last one.
Sent == IF stream = <<>> THEN 0
        ELSE stream[Len(stream)].at + HeadLen + stream[Len(stream)].len

RecvInit ==
  /\ stream = <<>> /\ eof = FALSE
  /\ read = 0 /\ rxAt = "closed"
  /\ headLen = 0 /\ needLen = 0 /\ dataLen = 0 /\ block = FALSE /\ dataFrom = 0
  /\ got = <<>> /\ conns = 0

-----------------------------------------------------------------------------
(* The peer and the network.                                                 *)

PeerSends(n, good) ==
  /\ rxAt # "closed" /\ ~eof /\ Len(stream) < MaxSent
  /\ stream' = Append(stream, [at |-> Sent, len |-> n, good |-> good])
  /\ UNCHANGED <<eof, read, rxAt, buffer, got, conns>>

PeerCloses ==
  /\ rxAt # "closed" /\ ~eof
  /\ eof' = TRUE
  /\ UNCHANGED <<stream, read, rxAt, buffer, got, conns>>

-----------------------------------------------------------------------------
(* handle_input.                                                             *)

\* What was sent may have arrived or not.
Left == Sent - read

InputStarts ==
  /\ rxAt = "idle" /\ (Left > 0 \/ eof)
  /\ rxAt' = "input"
  /\ UNCHANGED <<wire, read, buffer, got, conns>>

InHead == rxAt = "input" /\ headLen < HeadLen
InData == rxAt = "input" /\ headLen = HeadLen

\* No data, or a signal.
RecvNothing ==
  /\ InHead \/ (InData /\ dataLen < needLen)
  /\ ~(eof /\ Left = 0 /\ InHead)
  /\ rxAt' = "idle"
  /\ UNCHANGED <<wire, read, buffer, got, conns>>

\* An error, or the end of the stream.  (The end inside the data of a message is
\* taken for one or the other, as errno happens to be: see README.)
RecvFails ==
  /\ InHead \/ (InData /\ dataLen < needLen)
  /\ rxAt' = "failed"
  /\ UNCHANGED <<wire, read, buffer, got, conns>>

\* What the header at position p says: fromNet.
Says(p, n) ==
  \A k \in DOMAIN stream : stream[k].at = p => stream[k].good /\ n = stream[k].len

RecvHead(n) ==
  /\ InHead /\ n \in 1 .. Left /\ headLen + n <= HeadLen
  /\ read' = read + n /\ headLen' = headLen + n
  /\ IF headLen + n < HeadLen
     THEN rxAt' = "idle" /\ UNCHANGED <<needLen, block, dataFrom>>
     ELSE \/ /\ needLen' \in {d \in DataLen : Says(read + n - HeadLen, d)}
             /\ block' = TRUE /\ dataFrom' = read + n
             /\ UNCHANGED rxAt
          \/ /\ \A d \in DataLen : ~Says(read + n - HeadLen, d)
             /\ rxAt' = "failed"
             /\ UNCHANGED <<needLen, block, dataFrom>>
  /\ UNCHANGED <<wire, dataLen, got, conns>>

RecvData(n) ==
  /\ InData /\ n \in 1 .. Left /\ dataLen + n <= needLen
  /\ read' = read + n /\ dataLen' = dataLen + n
  /\ rxAt' = IF dataLen + n < needLen THEN "idle" ELSE rxAt
  /\ UNCHANGED <<wire, headLen, needLen, block, dataFrom, got, conns>>

\* The whole message: recvMessage takes the block, and says whether to go on.  If
\* it wants reading suspended and that fails, the object keeps what it has.
Taken == headLen' = 0 /\ dataLen' = 0 /\ block' = FALSE

RecvMessage ==
  /\ InData /\ dataLen = needLen
  /\ got' = Append(got, [from |-> dataFrom, to |-> dataFrom + dataLen])
  /\ \/ Taken /\ rxAt' \in {"input", "idle", "failed"}
     \/ rxAt' = "failed" /\ UNCHANGED <<headLen, dataLen, block>>
  /\ UNCHANGED <<wire, read, needLen, dataFrom, conns>>

-----------------------------------------------------------------------------
CloseConn ==
  /\ rxAt \in {"idle", "failed"}
  /\ rxAt' = "closed" /\ block' = FALSE
  /\ UNCHANGED <<wire, read, headLen, needLen, dataLen, dataFrom, got, conns>>

\* open() of the next connection: clear().
RxClear_keepsData ==
  /\ headLen' = 0 /\ block' = FALSE
  /\ UNCHANGED dataLen

RxClear == headLen' = 0 /\ dataLen' = 0 /\ block' = FALSE

OpenConn ==
  /\ rxAt = "closed" /\ conns < MaxConns
  /\ RxClear /\ UNCHANGED <<needLen, dataFrom>>
  /\ rxAt' = "idle" /\ conns' = conns + 1
  /\ stream' = <<>> /\ eof' = FALSE /\ read' = 0 /\ got' = <<>>

RecvNext ==
  \/ \E n \in DataLen, good \in BOOLEAN : PeerSends(n, good)
  \/ \E n \in 1 .. HeadLen + 1 : RecvHead(n) \/ RecvData(n)
  \/ PeerCloses \/ InputStarts \/ RecvNothing \/ RecvFails \/ RecvMessage
  \/ CloseConn \/ OpenConn

RecvSpec == RecvInit /\ [][RecvNext]_rxVars

-----------------------------------------------------------------------------
\* The application gets the messages of the connection one by one, each with its
\* own bytes and all of them, however the bytes arrive and whatever the previous
\* connection of the object left half read.
ReceivedWhole ==
  \A k \in DOMAIN got :
    LET first == stream[k].at + HeadLen
    IN  /\ stream[k].good
        /\ got[k] = [from |-> first, to |-> first + stream[k].len]
=============================================================================
