---------------------------- MODULE ModbusAscii -----------------------------
(***************************************************************************)
(* The Modbus ASCII transport, ciaaModbus_ascii.c: one buffer in which     *)
(* answers are put together and requests are made.  An answer arrives in   *)
(* pieces of PieceLength characters each; a frame is made of pieces of its *)
(* message, the first of which begins with the colon and the last of which *)
(* ends with CR and LF.                                                    *)
(***************************************************************************)
EXTENDS Integers, FiniteSetsExt, SequencesExt

CONSTANTS
  PieceLength,     \* characters of a piece
  MAXLENGHT,       \* CIAAMODBUS_ASCII_MAXLENGHT, in pieces
  TIMOUT_RCV,      \* CIAAMODBUS_ASCII_TIMOUT_RCV, in runs of the task
  ReadPieces       \* pieces of the answer to a read; other frames have two

ASSUME AsciiAssumption ==
  /\ PieceLength \in Nat /\ PieceLength >= 9
  /\ MAXLENGHT \in Nat /\ MAXLENGHT >= ReadPieces
  /\ TIMOUT_RCV \in Nat \ {0}
  /\ ReadPieces \in Nat /\ ReadPieces >= 2

NoMessage == [kind |-> "none"]

Pieces(m) == IF m.kind = "answer" THEN ReadPieces ELSE 2
Frame(m) == [i \in 1 .. Pieces(m) |-> [msg |-> m, place |-> i]]
IsStart(p) == p.place = 1
IsEnd(p) == p.place = Pieces(p.msg)

AsciiOpen == [buffer |-> <<>>, timeOut |-> 0]

\* The room for reading: the timeout, or a full buffer, empties it first.
Kept(a) == IF a.timeOut = 0 \/ Len(a.buffer) = MAXLENGHT THEN <<>> ELSE a.buffer
Room(a) == MAXLENGHT - Len(Kept(a))

FromFirstStart(b) ==                                     \* mutant: wrong colon
  LET starts == {i \in DOMAIN b : IsStart(b[i])}
  IN IF starts = {} THEN b ELSE SubSeq(b, Min(starts), Len(b))
FromStart(b) ==
  LET starts == {i \in DOMAIN b : IsStart(b[i])}
  IN IF starts = {} THEN b ELSE SubSeq(b, Max(starts), Len(b))

\* asciiTask, which has read these pieces from the device.
AsciiTask(a, read) ==
  IF read = <<>>
  THEN [buffer |-> Kept(a), timeOut |-> Max({a.timeOut - 1, 0})]
  ELSE [buffer |-> FromStart(Kept(a) \o read), timeOut |-> TIMOUT_RCV]

\* The length is passed as an int8_t.
Int8(n) == ((n + 128) % 256) - 128

\* Where the message in the buffer ends, 0 if it is not complete.
CheckCompleteMsg(b) ==
  LET ends == {i \in DOMAIN b : /\ IsStart(b[1]) /\ IsEnd(b[i])
                                /\ i * PieceLength <= Int8(Len(b) * PieceLength)}
  IN IF ends = {} THEN 0 ELSE Min(ends)

\* A mixture of two frames does not pass the check of LRC.
CheckLRC(b, end) == SubSeq(b, 1, end) = Frame(b[1].msg)

\* asciiRecvMsg: what it returns, and what it leaves.  The timeout means nothing
\* while the buffer is empty.
AsciiReceived(a) ==
  LET end == CheckCompleteMsg(a.buffer)
  IN IF end # 0 /\ CheckLRC(a.buffer, end) THEN a.buffer[1].msg ELSE NoMessage
AsciiRecvMsg(a) == IF CheckCompleteMsg(a.buffer) # 0 THEN AsciiOpen ELSE a

\* asciiSendMsg makes the frame in the same buffer and leaves its size.
AsciiSendMsg(a, m) ==
  [a EXCEPT !.buffer = [i \in DOMAIN @ |-> IF i <= Pieces(m) THEN Frame(m)[i] ELSE @[i]]]
=============================================================================
