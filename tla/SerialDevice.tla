---------------------------- MODULE SerialDevice -----------------------------
(***************************************************************************)
(* One serial device: ciaaSerialDevices.c over the UART driver.  Tasks     *)
(* call read, write and ioctl; the interrupt handler of the UART moves     *)
(* bytes between its registers and the two circular buffers and wakes the  *)
(* task that is blocked.  The handler may come between any two steps of a  *)
(* task; it is one step itself, because tasks do not run meanwhile.        *)
(*                                                                         *)
(* A byte is its number in the order of its direction, modulo RxNumbers or *)
(* TxNumbers: enough to tell it from those next to it.                     *)
(***************************************************************************)
EXTENDS CircBuf, FiniteSetsExt

CONSTANTS
  INVALID_TASK,    \* 255
  Tasks,           \* a greater task is a more urgent one
  Readers,         \* the tasks that read, and set up the reading
  Writers,
  ReadSizes,       \* the values of nbyte
  WriteSizes,
  FifoDepth,       \* of the receive FIFO of the UART
  RxNumbers,       \* received bytes are 0 .. RxNumbers - 1
  TxNumbers,       \* bytes to send are 0 .. TxNumbers - 1
  HandlerInTime    \* no character ends between the last write of the handler
                   \* and its test of THRE

ASSUME SerialAssumption ==
  /\ Tasks \subseteq Nat /\ INVALID_TASK \in Nat \ Tasks
  /\ Readers \subseteq Tasks /\ Writers \subseteq Tasks
  /\ ReadSizes \subseteq Nat \ {0} /\ WriteSizes \subseteq Nat \ {0}
  /\ FifoDepth \in Nat \ {0} /\ RxNumbers \in Nat \ {0, 1}
  /\ TxNumbers \in Nat /\ TxNumbers >= Size    \* tells apart all that are in the buffer
  /\ HandlerInTime \in BOOLEAN

VARIABLES
  rx, tx,          \* rxBuf and txBuf
  blocked,         \* the task to wake, and the function it is blocked in
  hwbuf,           \* uartControl[].hwbuf, rxcnt bytes long
  rxFifo, thre,    \* the UART: receive FIFO, transmit register empty
  rxInt, txInt,    \* the UART: interrupts enabled
  pc,              \* where each task is
  call,            \* the local variables of its call
  event,           \* POSIXE is set for the task
  arrived,         \* the last byte that arrived on the line
  written,         \* the last byte of a task that was put into the buffer
  moved            \* what the last step moved in or out

tasks == <<pc, call, event>>
uart == <<rxFifo, thre, rxInt, txInt>>
vars == <<rx, tx, blocked, hwbuf, uart, tasks, arrived, written, moved>>

NoCall == [fct |-> "none", left |-> 0, mark |-> 0, data |-> <<>>]
Nobody == [taskID |-> INVALID_TASK, fct |-> "none"]

\* The four places where bytes enter and leave the device.
Moved(place, bytes) == [at |-> place, bytes |-> bytes]
Nothing == Moved("none", <<>>)
Quiet == moved' = Nothing /\ UNCHANGED <<arrived, written>>

Init ==
  /\ rx = CircBufInit /\ tx = CircBufInit
  /\ blocked = Nobody
  /\ hwbuf = <<>> /\ rxFifo = <<>> /\ thre = TRUE
  /\ rxInt = TRUE /\ txInt = FALSE
  /\ pc = [t \in Tasks |-> "idle"]
  /\ call = [t \in Tasks |-> NoCall]
  /\ event = [t \in Tasks |-> FALSE]
  /\ arrived = 0 /\ written = 0 /\ moved = Nothing

-----------------------------------------------------------------------------
(* What happens in the interrupt.                                           *)

WaitsAny(b, fct) == b.taskID # INVALID_TASK              \* mutant: any call
Waits(b, fct) == b.taskID # INVALID_TASK /\ b.fct = fct

Woken(b, fct) == IF Waits(b, fct) THEN {b.taskID} ELSE {}
StillBlockedNever(b, fct) == Nobody                      \* mutant: frees always
StillBlocked(b, fct) == IF Waits(b, fct) THEN Nobody ELSE b

SetEvents(woken) == event' = [t \in Tasks |-> event[t] \/ t \in woken]

\* The number of bytes the driver gives from its buffer, of those available.
DeviceRead(size, available) ==
  IF size = 0 THEN -1 ELSE Min({size, available})

\* rxIndication, with the bytes in the driver's buffer.  If the receive buffer
\* is full the driver returns -1, and the tail goes back by one.
RxIndication(bytes) ==
  LET raw == RawSpace(rx, rx.head)
      space == Space(rx, rx.head)
      first == DeviceRead(raw, Len(bytes))
      second == IF first = raw /\ space > raw
                THEN DeviceRead(space - raw, Len(bytes) - first) ELSE 0
      read == first + second
      stored == Stored(Stored(rx.buf, rx.tail, SubSeq(bytes, 1, first)),
                       0, SubSeq(bytes, first + 1, read))
  IN [rx |-> MoveTail([rx EXCEPT !.buf = stored], read),
      rest |-> SubSeq(bytes, Max({read, 0}) + 1, Len(bytes)),
      read |-> read # 0]

\* What ciaaDriverUart_write may do: it fills the transmit register as often as
\* it finds it empty, and stops for want of bytes or because it is full.
DeviceWrite(size, empty) ==
  IF empty /\ size > 0
  THEN {w \in [n : 1 .. size, thre : BOOLEAN] : w.thre => w.n = size}
  ELSE {[n |-> 0, thre |-> empty]}

\* txConfirmation, in the interrupt or in the task that starts a transmission.
TxConfirmation ==
  LET raw == RawCount(tx, tx.tail)
      count == Count(tx, tx.tail)
      Next(b, w) == MoveHead(b, w.n)
  IN UNION { IF w.n = raw /\ count > raw
             THEN LET b == Next(tx, w)
                  IN {[tx |-> Next(b, v), thre |-> v.thre,
                       sent |-> Loaded(tx.buf, tx.head, w.n) \o Loaded(b.buf, b.head, v.n)] :
                        v \in DeviceWrite(RawCount(b, tx.tail), w.thre)}
             ELSE {[tx |-> Next(tx, w), thre |-> w.thre,
                    sent |-> Loaded(tx.buf, tx.head, w.n)]} :
             w \in DeviceWrite(raw, thre)}

Sends(c) ==
  /\ tx' = c.tx
  /\ moved' = Moved("sent", c.sent)

\* The driver's own buffer is larger than the FIFO, which it empties.
Receives(c) ==
  /\ rx' = c.rx
  /\ hwbuf' = c.rest
  /\ rxFifo' = <<>>

\* The handler serves what it finds, whichever interrupt has called it; it
\* sends only if the interrupt for it is enabled.
Pending == (rxFifo # <<>> /\ rxInt) \/ (thre /\ txInt)

SwitchesOffAlways(empty) == FALSE                        \* mutant: no test
SwitchesOff(empty) == IF empty THEN FALSE ELSE txInt

ReceivedSome == rxFifo # <<>> /\ RxIndication(hwbuf \o rxFifo).read

Handler ==
  LET b == IF ReceivedSome THEN StillBlocked(blocked, "read") ELSE blocked
      reader == IF ReceivedSome THEN Woken(blocked, "read") ELSE {}
      sending == thre /\ txInt
      confirms == sending /\ ~Empty(tx)
  IN /\ Pending
     /\ IF rxFifo = <<>> THEN UNCHANGED <<rx, hwbuf, rxFifo>>
        ELSE Receives(RxIndication(hwbuf \o rxFifo))
     /\ IF sending
        THEN \E c \in TxConfirmation, late \in (IF HandlerInTime THEN {FALSE} ELSE BOOLEAN) :
               /\ Sends(c)
               /\ thre' = (c.thre \/ late)
               /\ txInt' = SwitchesOff(thre')
        ELSE moved' = Nothing /\ UNCHANGED <<tx, thre, txInt>>
     /\ blocked' = IF confirms THEN StillBlocked(b, "write") ELSE b
     /\ SetEvents(reader \cup (IF confirms THEN Woken(b, "write") ELSE {}))
     /\ UNCHANGED <<rxInt, pc, call, arrived, written>>

-----------------------------------------------------------------------------
(* What the tasks do, one step between any two of which the handler may run. *)

Asleep(t) == pc[t] = "wait" /\ ~event[t]

\* No more urgent task is inside a call and ready.
Runs(t) == \A u \in Tasks : u > t => pc[u] = "idle" \/ Asleep(u)

At(t, step) == pc[t] = step /\ Runs(t)
Goes(t, step) == pc' = [pc EXCEPT ![t] = step]
Returns(t) == Goes(t, "idle") /\ call' = [call EXCEPT ![t] = NoCall]

buffers == <<rx, tx, hwbuf>>

\* read: with data in the buffer it takes them, else it registers itself.
\* In the nonblocking mode it returns at once, and nothing has changed.
Read(t) ==
  /\ t \in Readers /\ At(t, "idle")
  /\ \E n \in ReadSizes : call' = [call EXCEPT ![t].fct = "read", ![t].left = n]
  /\ Goes(t, IF Empty(rx) THEN "off" ELSE "get")
  /\ Quiet
  /\ UNCHANGED <<buffers, blocked, uart, event>>

GetTail(t) ==
  /\ At(t, "get")
  /\ call' = [call EXCEPT ![t].mark = rx.tail, ![t].left = Min({@, Count(rx, rx.tail)})]
  /\ Goes(t, "copy")
  /\ Quiet
  /\ UNCHANGED <<buffers, blocked, uart, event>>

GetCopy(t) ==
  /\ At(t, "copy") /\ call[t].fct = "read"
  /\ call' = [call EXCEPT ![t].data = Taken(rx, call[t].mark, call[t].left)]
  /\ Goes(t, "head")
  /\ Quiet
  /\ UNCHANGED <<buffers, blocked, uart, event>>

GetHead(t) ==
  /\ At(t, "head")
  /\ rx' = MoveHead(rx, call[t].left)
  /\ moved' = Moved("read", call[t].data)
  /\ Returns(t)
  /\ UNCHANGED <<tx, hwbuf, blocked, uart, event, arrived, written>>

\* write: as much as there is space for, then it starts the transmission and
\* waits if something is left.
Write(t) ==
  /\ t \in Writers /\ At(t, "idle")
  /\ \E n \in WriteSizes : call' = [call EXCEPT ![t].fct = "write", ![t].left = n]
  /\ Goes(t, "space")
  /\ Quiet
  /\ UNCHANGED <<buffers, blocked, uart, event>>

WriteSpace(t) ==
  /\ At(t, "space")
  /\ call' = [call EXCEPT ![t].mark = Min({call[t].left, Space(tx, tx.head)})]
  /\ Goes(t, "copy")
  /\ Quiet
  /\ UNCHANGED <<buffers, blocked, uart, event>>

NextBytes(n) == [i \in 1 .. n |-> (written + i) % TxNumbers]

\* circBufPut reads the head again, and puts all of the bytes or none.
PutCopy(t) ==
  LET n == call[t].mark
      fits == Space(tx, tx.head) >= n
  IN /\ At(t, "copy") /\ call[t].fct = "write"
     /\ tx' = IF fits THEN [tx EXCEPT !.buf = Filled(tx, tx.head, NextBytes(n))] ELSE tx
     /\ call' = [call EXCEPT ![t].mark = IF fits THEN n ELSE 0]
     /\ Goes(t, "tail")
     /\ Quiet
     /\ UNCHANGED <<rx, hwbuf, blocked, uart, event>>

PutTail(t) ==
  LET n == call[t].mark
  IN /\ At(t, "tail")
     /\ tx' = MoveTail(tx, n)
     /\ written' = (written + n) % TxNumbers
     /\ moved' = Moved("written", NextBytes(n))
     /\ call' = [call EXCEPT ![t].left = @ - n, ![t].mark = 0]
     /\ Goes(t, "start")
     /\ UNCHANGED <<rx, hwbuf, blocked, uart, event, arrived>>

\* ioctl STARTTX: the confirmation with the transmit interrupt disabled, which
\* is then enabled.  What a receive interrupt in between changes is not used.
StartTx(t) ==
  /\ At(t, "start")
  /\ \E c \in TxConfirmation : Sends(c) /\ thre' = c.thre
  /\ txInt' = TRUE
  /\ blocked' = IF Empty(tx) THEN blocked ELSE StillBlocked(blocked, "write")
  /\ SetEvents(IF Empty(tx) THEN {} ELSE Woken(blocked, "write"))
  /\ IF call[t].left > 0 THEN Goes(t, "off") /\ UNCHANGED call ELSE Returns(t)
  /\ UNCHANGED <<rx, hwbuf, rxFifo, rxInt, arrived, written>>

\* Both register themselves with the interrupt of their direction disabled.
InterruptOff(t) ==
  /\ At(t, "off")
  /\ rxInt' = (rxInt /\ call[t].fct # "read")
  /\ txInt' = (txInt /\ call[t].fct # "write")
  /\ Goes(t, "who")
  /\ Quiet
  /\ UNCHANGED <<buffers, blocked, rxFifo, thre, call, event>>

RegisterTask(t) ==
  /\ At(t, "who")
  /\ blocked' = [blocked EXCEPT !.taskID = t]
  /\ Goes(t, "fct")
  /\ Quiet
  /\ UNCHANGED <<buffers, uart, call, event>>

RegisterFct(t) ==
  /\ At(t, "fct")
  /\ blocked' = [blocked EXCEPT !.fct = call[t].fct]
  /\ Goes(t, "on")
  /\ Quiet
  /\ UNCHANGED <<buffers, uart, call, event>>

InterruptOn(t) ==
  /\ At(t, "on")
  /\ rxInt' = (rxInt \/ call[t].fct = "read")
  /\ txInt' = (txInt \/ call[t].fct = "write")
  /\ Goes(t, "wait")
  /\ Quiet
  /\ UNCHANGED <<buffers, blocked, rxFifo, thre, call, event>>

\* WaitEvent returns, and ClearEvent.
WakeUp(t) ==
  /\ At(t, "wait") /\ event[t]
  /\ event' = [event EXCEPT ![t] = FALSE]
  /\ Goes(t, IF call[t].fct = "read" THEN "get" ELSE "space")
  /\ Quiet
  /\ UNCHANGED <<buffers, blocked, uart, call>>

\* ioctl CLEAR_RX_BUFFER.
ClearHead(t) ==
  /\ t \in Readers /\ At(t, "idle")
  /\ rx' = [rx EXCEPT !.head = 0]
  /\ Goes(t, "clear")
  /\ Quiet
  /\ UNCHANGED <<tx, hwbuf, blocked, uart, call, event>>

ClearTail(t) ==
  /\ At(t, "clear")
  /\ rx' = [rx EXCEPT !.tail = 0]
  /\ Goes(t, "idle")
  /\ Quiet
  /\ UNCHANGED <<tx, hwbuf, blocked, uart, call, event>>

-----------------------------------------------------------------------------
(* The line.                                                                *)

Clearing == \E t \in Tasks : pc[t] = "clear"
RxBytes == (IF Clearing THEN <<>> ELSE Contents(rx)) \o hwbuf \o rxFifo

\* The partner does not send more than the receive buffer can take: nothing in
\* the code stops it.
Arrive ==
  /\ Len(rxFifo) < FifoDepth /\ Len(RxBytes) < Size - 1
  /\ arrived' = (arrived + 1) % RxNumbers
  /\ rxFifo' = Append(rxFifo, arrived')
  /\ moved' = Moved("arrived", <<arrived'>>)
  /\ UNCHANGED <<buffers, blocked, thre, rxInt, txInt, tasks, written>>

\* A character has been sent and the next one leaves the transmit register.
Shift ==
  /\ ~thre
  /\ thre' = TRUE
  /\ Quiet
  /\ UNCHANGED <<buffers, blocked, rxFifo, rxInt, txInt, tasks>>

TaskStep(t) ==
  \/ Read(t) \/ GetTail(t) \/ GetCopy(t) \/ GetHead(t)
  \/ Write(t) \/ WriteSpace(t) \/ PutCopy(t) \/ PutTail(t) \/ StartTx(t)
  \/ InterruptOff(t) \/ RegisterTask(t) \/ RegisterFct(t) \/ InterruptOn(t) \/ WakeUp(t)
  \/ ClearHead(t) \/ ClearTail(t)

Next == Handler \/ Arrive \/ Shift \/ \E t \in Tasks : TaskStep(t)

Spec == Init /\ [][Next]_vars

-----------------------------------------------------------------------------
(* Properties.                                                              *)

RxByte == 0 .. (RxNumbers - 1)
TxByte == 0 .. (TxNumbers - 1)
Buffers(bytes) == [head : Places, tail : Places, buf : [Places -> bytes]]
Steps == {"idle", "get", "copy", "head", "space", "tail", "start", "off", "who",
          "fct", "on", "wait", "clear"}

\* The indices stay in the array, also where the driver's error code -1 is
\* added to the tail, and every variable keeps its type.
SerialTypeOK ==
  /\ rx \in Buffers(RxByte) /\ tx \in Buffers(TxByte)
  /\ blocked \in [taskID : Tasks \cup {INVALID_TASK}, fct : {"none", "read", "write"}]
  /\ thre \in BOOLEAN /\ rxInt \in BOOLEAN /\ txInt \in BOOLEAN
  /\ pc \in [Tasks -> Steps] /\ event \in [Tasks -> BOOLEAN]
  /\ \A t \in Tasks :
       /\ call[t].fct \in {"none", "read", "write"}
       /\ call[t].left \in Nat /\ call[t].mark \in Nat
       /\ call[t].data \in Seq(RxByte)
  /\ hwbuf \in Seq(RxByte) /\ rxFifo \in Seq(RxByte)
  /\ arrived \in RxByte /\ written \in TxByte

Through(place) == IF moved.at = place THEN moved.bytes ELSE <<>>

\* Reading gives the bytes that arrived, each once and in order, although the
\* handler adds to the buffer while the task copies from it; only
\* CLEAR_RX_BUFFER drops bytes, and then the oldest.
Received == INSTANCE ByteFifo WITH
  in <- Through("arrived"), q <- RxBytes, out <- Through("read"), clearing <- Clearing
RxIsFifo == Received!Spec

\* What is sent is what was written, each byte once and in order, although the
\* task and the handler both take bytes from the buffer.
Transmitted == INSTANCE ByteFifo WITH
  in <- Through("written"), q <- Contents(tx), out <- Through("sent"), clearing <- FALSE
TxIsFifo == Transmitted!Spec

\* A task that waits is registered as the one to wake, for what it waits for, and
\* the interrupt that will wake it is enabled if there is something to happen.
Remembered ==
  \A t \in Tasks : Asleep(t) =>
    /\ blocked = [taskID |-> t, fct |-> call[t].fct]
    /\ IF call[t].fct = "read" THEN rxInt ELSE txInt \/ Empty(tx)

\* "after the wait is not needed to check if data is avaibale": a read that has
\* been woken finds some.
NeverEmptyHanded ==
  \A t \in Tasks : pc[t] \in {"copy", "head"} /\ call[t].fct = "read" => call[t].left > 0

\* As long as there are bytes to send the transmit interrupt is enabled, except
\* in the steps of write that disable it or are about to start the transmission.
TransmitOn ==
  \/ Empty(tx) \/ txInt
  \/ \E t \in Tasks : call[t].fct = "write" /\ pc[t] \in {"start", "who", "fct", "on"}

\* "if no data wait for it": a task that waits in read waits for data.
AwakeForData == \A t \in Tasks : Asleep(t) /\ call[t].fct = "read" => Empty(rx)
==============================================================================
