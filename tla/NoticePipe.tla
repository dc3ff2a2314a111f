----------------------------- MODULE NoticePipe -----------------------------
(***************************************************************************)
(* CwxAppNoticePipe (lib/app): the list of notices other threads leave for *)
(* the reactor's owner, and the pipe that wakes the owner up.  Every call  *)
(* holds the pipe object's own m_lock, so every operator is one step.  A   *)
(* byte is written only when m_bPipeEmpty says that none is outstanding.   *)
(***************************************************************************)
EXTENDS Naturals, Sequences

VARIABLES
  notices,    \* m_noticeHead .. m_noticeTail
  bPipeEmpty, \* m_bPipeEmpty
  bytes       \* what the pipe itself holds

PipeInit == /\ notices = <<>>
            /\ bPipeEmpty = TRUE
            /\ bytes = 0

\* The wake-up byte of both calls, written unless one is outstanding.
Raise == /\ bytes' = IF bPipeEmpty THEN bytes + 1 ELSE bytes
         /\ bPipeEmpty' = FALSE

PutNotice_overwrites(item) == /\ Raise
                              /\ notices' = <<item>>
PutNotice(item) == /\ Raise
                   /\ notices' = Append(notices, item)

NoticeDummy == /\ Raise
               /\ UNCHANGED notices

\* The write fails: nothing is queued and the flag stays.
WriteFails == /\ bPipeEmpty
              /\ UNCHANGED <<notices, bPipeEmpty, bytes>>

\* noticed: the owner takes the whole list; the flag is reset whether or not
\* the byte has been read.
Noticed_keepsFlag == /\ notices' = <<>>
                     /\ UNCHANGED <<bPipeEmpty, bytes>>
Noticed == /\ notices' = <<>>
           /\ bPipeEmpty' = TRUE
           /\ UNCHANGED bytes

\* CwxAppHandler4Notice reads one byte, whatever the pipe holds.
ReadByte == /\ bytes > 0
            /\ bytes' = bytes - 1
            /\ UNCHANGED <<notices, bPipeEmpty>>
=============================================================================
