--------------------------- MODULE ModbusGateway ----------------------------
(***************************************************************************)
(* The Modbus gateway with masters for clients: ciaaModbus_gateway.c and   *)
(* ciaaModbus_master.c over the ASCII transport.  User tasks give a        *)
(* command to a master and sleep; the gateway's task, which an alarm       *)
(* activates, takes the command from the master, sends it to a server (a   *)
(* slave in this program, or those at the other end of the line) and gives *)
(* the answer to the master, which wakes the user.                         *)
(*                                                                         *)
(* A message is its kind and the command it stems from.  The answer to a   *)
(* write of one coil or register repeats the request.                      *)
(***************************************************************************)
EXTENDS ModbusAscii

CONSTANTS
  Clients,         \* the number of clients; client c is master c
  Servers,         \* their ids: 0 for a transport, that of the slave if not
  Users,
  Gateway,         \* the task that runs gatewayMainTask
  MasterOf,        \* the master each user gives its commands to
  Wants,           \* the commands of each user
  Priority,        \* of the users and of Gateway
  RetryComm,       \* retryComm
  RespTimeout,     \* respTimeout / CIAA_MODBUS_TIME_BASE
  LIMIT_CALLS,     \* CIAA_MODBUS_GATEWAY_LIMIT_CALLS
  RemoteQueue,     \* requests that the slaves on the line have not served yet
  LineRoom,        \* pieces that the receive buffer of the device holds
  Cuts,            \* answers on the line may end after so many pieces
  Punctuality      \* TRUE: answers arrive before the timeout; FALSE: perhaps

ASSUME GatewayAssumption ==
  /\ Clients \in Nat \ {0} /\ Servers \in Seq(Nat) /\ Servers # <<>>
  /\ Gateway \notin Users
  /\ MasterOf \in [Users -> 1 .. Clients]
  /\ \A u \in Users : \A c \in Wants[u] : c.fct \in {"read", "write"} /\ c.id \in Nat \ {0}
  /\ Priority \in [Users \cup {Gateway} -> Nat]
  /\ RetryComm \in Nat \ {0} /\ RespTimeout \in Nat /\ LIMIT_CALLS \in Nat \ {0}
  /\ RemoteQueue \in Nat \ {0} /\ LineRoom \in Nat \ {0}
  /\ Cuts \subseteq Nat /\ Punctuality \subseteq BOOLEAN

\* Two tasks that share a master are beside this model: see the README.
ASSUME OneUserEach == \A u, v \in Users : MasterOf[u] = MasterOf[v] => u = v

VARIABLES
  client,          \* ciaaModbus_gatewayObj[].client
  busy,            \* ciaaModbus_gatewayObj[].server[].busy
  turn,            \* loopi and countCall of gatewayMainTask, and the place in it
  master,          \* ciaaModbus_masterObj
  ascii,           \* ciaaModbus_asciiObj[0]
  remote,          \* requests under way to the slaves on the line
  line,            \* what they have sent, in the receive buffer
  ready,           \* the tasks that can run, the one that does first
  pc, event,       \* where each user is, and its event MODBUSE
  call,            \* its command, the attempts made and the right answer to it
  punctual

wire == <<ascii, remote, line>>
tasks == <<pc, event, call>>
vars == <<client, busy, turn, master, wire, ready, tasks, punctual>>

NoCommand == [id |-> 0, fct |-> "none", addr |-> 0]
Call(c) == [order |-> c, attempts |-> 0, answer |-> NoMessage]
NoCall == Call(NoCommand)
Commands == UNION {Wants[u] : u \in Users}
Request(c) == [kind |-> "request", cmd |-> c]
Answer(c) == IF c.fct = "write" THEN Request(c) ELSE [kind |-> "answer", cmd |-> c]
Exception(c) == [kind |-> "exception", cmd |-> c]
Messages == UNION {{Request(c), Answer(c), Exception(c)} : c \in Commands}

\* What a slave may answer; what is not a request of its own it does not know.
Replies(m) ==
  IF m.kind = "request" THEN {Answer(m.cmd), Exception(m.cmd)} ELSE {Exception(m.cmd)}

Init ==
  /\ client = [c \in 1 .. Clients |->
       [state |-> "IDLE", msg |-> NoMessage, timeout |-> 0, server |-> 0]]
  /\ busy = [s \in DOMAIN Servers |-> FALSE]
  /\ turn = [client |-> 1, calls |-> 0, at |-> "process"]
  /\ master = [c \in 1 .. Clients |->
       [cmd |-> FALSE, order |-> NoCommand, code |-> "NO_ERROR", retry |-> 0,
        task |-> Gateway]]
  /\ ascii = AsciiOpen /\ remote = <<>> /\ line = <<>>
  /\ ready = <<>>
  /\ pc = [u \in Users |-> "idle"]
  /\ event = [u \in Users |-> FALSE]
  /\ call = [u \in Users |-> NoCall]
  /\ punctual \in Punctuality

-----------------------------------------------------------------------------
(* The kernel: the first of the most urgent tasks runs.                     *)

Running(t) == ready # <<>> /\ Head(ready) = t

MadeReady(t) ==
  InsertAt(ready, 1 + Cardinality({i \in DOMAIN ready : Priority[ready[i]] >= Priority[t]}), t)

\* SetEvent(taskID, MODBUSE)
SetEvent(u) ==
  IF pc[u] = "asleep"
  THEN /\ ready' = MadeReady(u)
       /\ pc' = [pc EXCEPT ![u] = "clear"]
       /\ UNCHANGED event
  ELSE event' = [event EXCEPT ![u] = TRUE] /\ UNCHANGED <<ready, pc>>

\* The alarm; the task of the last period has ended.
Tick ==
  /\ \A i \in DOMAIN ready : ready[i] # Gateway
  /\ ready' = MadeReady(Gateway)
  /\ turn' = [client |-> 1, calls |-> 0, at |-> "process"]
  /\ UNCHANGED <<client, busy, master, wire, tasks, punctual>>

-----------------------------------------------------------------------------
(* A user: one call of a ciaaModbus_masterCmd function without call back.   *)

Start(u) ==
  /\ pc[u] = "idle"
  /\ \E c \in Wants[u] : call' = [call EXCEPT ![u] = Call(c)]
  /\ pc' = [pc EXCEPT ![u] = "check"]
  /\ ready' = MadeReady(u)
  /\ UNCHANGED <<client, busy, turn, master, wire, event, punctual>>

Leave(u) ==
  /\ call' = [call EXCEPT ![u] = NoCall]
  /\ pc' = [pc EXCEPT ![u] = "idle"]
  /\ ready' = Tail(ready)

\* No command pending?  If there is one, the call returns -1.
Check(u) ==
  /\ Running(u) /\ pc[u] = "check"
  /\ IF master[MasterOf[u]].cmd
     THEN Leave(u)
     ELSE pc' = [pc EXCEPT ![u] = "fill"] /\ UNCHANGED <<ready, call>>
  /\ UNCHANGED <<client, busy, turn, master, wire, event, punctual>>

\* Everything but the command, which comes last.
FilledEarly(m, u) ==                                     \* mutant: command first
  [m EXCEPT !.order = call[u].order, !.code = "NO_ERROR", !.retry = RetryComm, !.cmd = TRUE]
Filled(m, u) ==
  [m EXCEPT !.order = call[u].order, !.code = "NO_ERROR", !.retry = RetryComm, !.task = u]

Fill(u) ==
  /\ Running(u) /\ pc[u] = "fill"
  /\ master' = [master EXCEPT ![MasterOf[u]] = Filled(@, u)]
  /\ pc' = [pc EXCEPT ![u] = "command"]
  /\ UNCHANGED <<client, busy, turn, wire, ready, event, call, punctual>>

Command(u) ==
  /\ Running(u) /\ pc[u] = "command"
  /\ master' = [master EXCEPT ![MasterOf[u]].cmd = TRUE]
  /\ pc' = [pc EXCEPT ![u] = "wait"]
  /\ UNCHANGED <<client, busy, turn, wire, ready, event, call, punctual>>

WaitEvent(u) ==
  /\ Running(u) /\ pc[u] = "wait"
  /\ IF event[u]
     THEN pc' = [pc EXCEPT ![u] = "clear"] /\ UNCHANGED ready
     ELSE pc' = [pc EXCEPT ![u] = "asleep"] /\ ready' = Tail(ready)
  /\ UNCHANGED <<client, busy, turn, master, wire, event, call, punctual>>

\* ClearEvent, and the exception code that is read afterwards and returned.
Return(u) ==
  /\ Running(u) /\ pc[u] = "clear"
  /\ event' = [event EXCEPT ![u] = FALSE]
  /\ Leave(u)
  /\ UNCHANGED <<client, busy, turn, master, wire, punctual>>

User(u) == Check(u) \/ Fill(u) \/ Command(u) \/ WaitEvent(u) \/ Return(u)

-----------------------------------------------------------------------------
(* The gateway.  One step is one call of gatewayClientProcess; the call is   *)
(* split where it sets the event of a user, who may be more urgent.         *)

Processes(c, state) ==
  /\ Running(Gateway) /\ turn.client = c /\ turn.at = "process"
  /\ client[c].state = state

\* The loops of gatewayMainTask.
NextCallMore(pending) ==                                 \* mutant: one call too many
  LET again == pending /\ turn.calls < LIMIT_CALLS
      over == ~again /\ turn.client = Clients
  IN /\ turn' = [at |-> "process",
                 client |-> IF again THEN turn.client ELSE IF over THEN 1 ELSE turn.client + 1,
                 calls |-> IF again THEN turn.calls + 1 ELSE 0]
     /\ ready' = IF over THEN Tail(ready) ELSE ready
NextCall(pending) ==
  LET again == pending /\ turn.calls + 1 < LIMIT_CALLS
      over == ~again /\ turn.client = Clients
  IN /\ turn' = [at |-> "process",
                 client |-> IF again THEN turn.client ELSE IF over THEN 1 ELSE turn.client + 1,
                 calls |-> IF again THEN turn.calls + 1 ELSE 0]
     /\ ready' = IF over THEN Tail(ready) ELSE ready

\* The rest of the idle state: msg is what the client then has in its buffer,
\* NoMessage if its size is 0.
Received(c, msg) ==
  /\ client' = [client EXCEPT ![c] =
       [@ EXCEPT !.msg = msg, !.state = IF msg = NoMessage THEN "IDLE" ELSE "ROUTING"]]
  /\ NextCall(msg # NoMessage)

\* masterRecvMsg writes nothing when there is no command: what the client had
\* received before counts as received again.
IdleWithout(c) ==
  /\ Processes(c, "IDLE") /\ ~master[c].cmd
  /\ Received(c, client[c].msg)
  /\ UNCHANGED <<busy, master, wire, tasks, punctual>>

RetriedForEver(m) == m                                   \* mutant: not counted
RetriedTwice(m) == [m EXCEPT !.retry = Max({@ - 2, 0})]  \* mutant: counted twice
Retried(m) == [m EXCEPT !.retry = @ - 1]

Attempt(m) ==
  call' = [call EXCEPT ![m.task].attempts = IF @ < RetryComm THEN @ + 1 ELSE @]

IdleRequest(c) ==
  /\ Processes(c, "IDLE") /\ master[c].cmd /\ master[c].retry > 0
  /\ master' = [master EXCEPT ![c] = Retried(@)]
  /\ Attempt(master[c])
  /\ Received(c, Request(master[c].order))
  /\ UNCHANGED <<busy, wire, pc, event, punctual>>

\* No retry is left: the user is woken, and the command is cancelled after that.
IdleCancel(c) ==
  /\ Processes(c, "IDLE") /\ master[c].cmd /\ master[c].retry = 0
  /\ master' = [master EXCEPT ![c].code = IF @ = "NO_ERROR" THEN "SLAVE_NOT_RESPOND" ELSE @]
  /\ SetEvent(master[c].task)
  /\ turn' = [turn EXCEPT !.at = "cancel"]
  /\ UNCHANGED <<client, busy, wire, call, punctual>>

Cancelled(c) ==
  /\ Running(Gateway) /\ turn.client = c /\ turn.at = "cancel"
  /\ master' = [master EXCEPT ![c].cmd = FALSE]
  /\ Received(c, client[c].msg)
  /\ UNCHANGED <<busy, wire, tasks, punctual>>

\* The server with the id of the message, else a transport, else none.
ServerFor(id) ==
  LET with(i) == {s \in DOMAIN Servers : Servers[s] = i}
  IN IF with(id) # {} THEN Min(with(id))
     ELSE IF with(0) # {} THEN Min(with(0)) ELSE 0

Routing(c) ==
  LET s == ServerFor(client[c].msg.cmd.id)
  IN /\ Processes(c, "ROUTING")
     /\ client' = [client EXCEPT ![c] =
          IF s = 0 THEN [@ EXCEPT !.state = "IDLE"]
          ELSE [@ EXCEPT !.state = "SEND_MSG_TO_SERVER", !.server = s]]
     /\ NextCall(s # 0)
     /\ UNCHANGED <<busy, master, wire, tasks, punctual>>

ServerFreeAlways(s) == TRUE                              \* mutant: busy not tested
ServerFree(s) == ~busy[s]

\* A slave of this program keeps a pointer to the message; a transport sends it.
SendMsg(c) ==
  LET s == client[c].server
      m == client[c].msg
  IN /\ Processes(c, "SEND_MSG_TO_SERVER") /\ ServerFree(s)
     /\ busy' = [busy EXCEPT ![s] = TRUE]
     /\ client' = [client EXCEPT ![c] = [@ EXCEPT !.state = "WAITING_SERVER_RESPONSE",
                                                  !.timeout = RespTimeout]]
     /\ IF Servers[s] = 0
        THEN /\ ascii' = AsciiSendMsg(ascii, m)
             /\ remote' = IF Len(remote) < RemoteQueue THEN Append(remote, m) ELSE remote
        ELSE UNCHANGED <<ascii, remote>>
     /\ NextCall(TRUE)
     /\ UNCHANGED <<line, master, tasks, punctual>>

SendMsgLater(c) ==
  /\ Processes(c, "SEND_MSG_TO_SERVER") /\ ~ServerFree(client[c].server)
  /\ NextCall(FALSE)
  /\ UNCHANGED <<client, busy, master, wire, tasks, punctual>>

\* What the task and recvMsg of the server give: a message or NoMessage.
ServerGives(c, m) ==
  IF Servers[client[c].server] = 0
  THEN \E n \in 0 .. Min({Len(line), Room(ascii)}) :
         LET a == AsciiTask(ascii, SubSeq(line, 1, n))
         IN /\ m = AsciiReceived(a)
            /\ ascii' = AsciiRecvMsg(a)
            /\ line' = SubSeq(line, n + 1, Len(line))
            /\ UNCHANGED remote
  ELSE m \in Replies(client[c].msg) /\ UNCHANGED wire

\* Whether the master takes the message for the answer to its command, as far
\* as it looks: of an answer to a read it checks the quantity only.
Outcome(m, msg) ==
  IF ~m.cmd \/ msg.cmd.fct # m.order.fct THEN "PDU_RECEIVED_WRONG"
  ELSE IF msg.kind = "exception" THEN "EXCEPTION"
  ELSE IF msg.kind = "answer" \/ (m.order.fct = "write" /\ msg = Request(m.order))
       THEN "NO_ERROR" ELSE "PDU_RECEIVED_WRONG"

ToMe(m, msg) == msg.cmd.id = m.order.id

Freed(s) == [busy EXCEPT ![s] = FALSE]

\* timeout and indexServer mean nothing before they are written again.
BackToIdle(cl, msg) ==
  [cl EXCEPT !.state = "IDLE", !.msg = msg, !.timeout = 0, !.server = 0]

\* masterSendMsg wakes the user at the right answer, and is not done then.
WaitingRight(c) ==
  \E msg \in Messages :
    /\ Processes(c, "WAITING_SERVER_RESPONSE")
    /\ ToMe(master[c], msg) /\ Outcome(master[c], msg) = "NO_ERROR"
    /\ ServerGives(c, msg)
    /\ client' = [client EXCEPT ![c].msg = msg]
    /\ master' = [master EXCEPT ![c].code = "NO_ERROR"]
    /\ call' = [call EXCEPT ![master[c].task].answer = msg]
    /\ SetEvent(master[c].task)
    /\ turn' = [turn EXCEPT !.at = "answered"]
    /\ UNCHANGED <<busy, punctual>>

Answered(c) ==
  /\ Running(Gateway) /\ turn.client = c /\ turn.at = "answered"
  /\ master' = [master EXCEPT ![c].cmd = FALSE]
  /\ busy' = Freed(client[c].server)
  /\ client' = [client EXCEPT ![c] = BackToIdle(@, @.msg)]
  /\ NextCall(TRUE)
  /\ UNCHANGED <<wire, tasks, punctual>>

WaitingWrong(c) ==
  \E msg \in Messages :
    /\ Processes(c, "WAITING_SERVER_RESPONSE")
    /\ ToMe(master[c], msg) => Outcome(master[c], msg) # "NO_ERROR"
    /\ ServerGives(c, msg)
    /\ client' = [client EXCEPT ![c] = BackToIdle(@, msg)]
    /\ master' = IF ToMe(master[c], msg)
                 THEN [master EXCEPT ![c].code = Outcome(master[c], msg)] ELSE master
    /\ busy' = Freed(client[c].server)
    /\ NextCall(TRUE)
    /\ UNCHANGED <<tasks, punctual>>

\* The slaves are punctual: when time is up, nothing is under way.
NothingComes == punctual => remote = <<>> /\ line' = <<>>

TimedOutBusy(c) == busy                                  \* mutant: not freed
TimedOut(c) == Freed(client[c].server)

WaitingLonger(c) ==
  /\ Processes(c, "WAITING_SERVER_RESPONSE")
  /\ ServerGives(c, NoMessage)
  /\ IF client[c].timeout # 0
     THEN /\ client' = [client EXCEPT ![c].timeout = @ - 1]
          /\ UNCHANGED busy
     ELSE /\ NothingComes
          /\ client' = [client EXCEPT ![c] = BackToIdle(@, NoMessage)]
          /\ busy' = TimedOut(c)
  /\ NextCall(FALSE)
  /\ UNCHANGED <<master, tasks, punctual>>

GatewayStep ==
  \E c \in 1 .. Clients :
    \/ IdleWithout(c) \/ IdleRequest(c) \/ IdleCancel(c) \/ Cancelled(c)
    \/ Routing(c) \/ SendMsg(c) \/ SendMsgLater(c)
    \/ WaitingRight(c) \/ Answered(c) \/ WaitingWrong(c) \/ WaitingLonger(c)

-----------------------------------------------------------------------------
\* A slave on the line serves a request: it answers, or not, and of the answer
\* the end may be lost, on the line or in a full receive buffer.
Remote ==
  /\ remote # <<>>
  /\ remote' = Tail(remote)
  /\ \E m \in Replies(Head(remote)) :
       \E n \in {k \in Cuts : k < Pieces(m)} \cup {Pieces(m)} :
         line' = line \o SubSeq(Frame(m), 1, Min({n, LineRoom - Len(line)}))
  /\ UNCHANGED <<client, busy, turn, master, ascii, ready, tasks, punctual>>

Next == Tick \/ GatewayStep \/ Remote \/ \E u \in Users : Start(u) \/ User(u)

Spec == Init /\ [][Next]_vars

\* The alarm goes on, slaves serve or drop what they get, and a task that has the
\* processor again and again takes a step at last.
FairSpec ==
  /\ Spec
  /\ WF_vars(Tick) /\ WF_vars(Remote)
  /\ []<>Running(Gateway) => []<><<GatewayStep>>_vars
  /\ \A u \in Users : []<>Running(u) => []<><<User(u)>>_vars

-----------------------------------------------------------------------------
\* The types of all variables.
GatewayTypeOK ==
  /\ client \in [1 .. Clients ->
       [state : {"IDLE", "ROUTING", "SEND_MSG_TO_SERVER", "WAITING_SERVER_RESPONSE"},
        msg : Messages \cup {NoMessage},
        timeout : 0 .. RespTimeout, server : {0} \cup DOMAIN Servers]]
  /\ busy \in [DOMAIN Servers -> BOOLEAN]
  /\ turn \in [client : 1 .. Clients, calls : 0 .. LIMIT_CALLS - 1,
               at : {"process", "cancel", "answered"}]
  /\ master \in [1 .. Clients ->
       [cmd : BOOLEAN, order : Commands \cup {NoCommand},
        code : {"NO_ERROR", "SLAVE_NOT_RESPOND", "EXCEPTION", "PDU_RECEIVED_WRONG"},
        retry : 0 .. RetryComm, task : Users \cup {Gateway}]]
  /\ Len(ascii.buffer) <= MAXLENGHT /\ ascii.timeOut \in 0 .. TIMOUT_RCV
  /\ ToSet(remote) \subseteq Messages /\ Len(remote) <= RemoteQueue /\ Len(line) <= LineRoom
  /\ ToSet(ready) \subseteq Users \cup {Gateway} /\ IsInjective(ready)
  /\ pc \in [Users -> {"idle", "check", "fill", "command", "wait", "asleep", "clear"}]
  /\ event \in [Users -> BOOLEAN]
  /\ call \in [Users -> [order : Commands \cup {NoCommand}, attempts : 0 .. RetryComm,
                         answer : Messages \cup {NoMessage}]]

\* The line is half duplex: a server is busy exactly while one client waits for
\* it, and never two, whatever times out and whatever is answered late.
BusyHeld ==
  \A s \in DOMAIN Servers :
    Cardinality({c \in 1 .. Clients : /\ client[c].state = "WAITING_SERVER_RESPONSE"
                                      /\ client[c].server = s}) = (IF busy[s] THEN 1 ELSE 0)

\* Who sleeps in a master function will be woken: its command is pending, and the
\* master knows whom to wake.
SleeperRemembered ==
  \A u \in Users :
    LET m == master[MasterOf[u]]
    IN pc[u] = "asleep" => m.cmd /\ m.task = u /\ m.order = call[u].order

\* A call returns 0 only if the answer to its own command has come, provided that
\* slaves answer in time.
ZeroMeansAnswered ==
  \A u \in Users :
    LET returns == Running(u) /\ pc[u] = "clear"
    IN punctual /\ returns /\ master[MasterOf[u]].code = "NO_ERROR"
         => call[u].answer = Answer(call[u].order)

\* A call reports that the slave does not respond only after all the retries.
GivesUpLast ==
  \A u \in Users :
    LET returns == Running(u) /\ pc[u] = "clear"
    IN returns /\ master[MasterOf[u]].code = "SLAVE_NOT_RESPOND"
         => call[u].attempts = RetryComm

\* What a client gets from its server is an answer to what it has sent, and not
\* the rest of another answer, nor its own request out of the shared buffer,
\* provided that slaves answer in time.
AnswerIsForRequest ==
  [][\A c \in 1 .. Clients :
       LET waits == /\ client[c].state = "WAITING_SERVER_RESPONSE"
                    /\ turn.client = c /\ turn.at = "process"
           gets == client'[c].state = "IDLE" \/ turn'.at = "answered"
       IN punctual /\ waits /\ gets /\ client'[c].msg # NoMessage
            => client'[c].msg \in Replies(client[c].msg)]_vars

\* A user who sleeps is woken at last, unless the client of another master has
\* its server again and again.  (It may: see the README.)
CommandsEnd ==
  \A u \in Users :
    \/ \E c \in 1 .. Clients : /\ c # MasterOf[u]
                               /\ []<>(client[c].state = "WAITING_SERVER_RESPONSE")
    \/ pc[u] = "asleep" ~> pc[u] # "asleep"

-----------------------------------------------------------------------------
\* What theorems about the content of messages ask of the configuration, since the
\* transport depends on it: no answer is cut to the length of a request; the
\* device's buffer takes a whole answer, and an int8_t its length; and what has
\* been received of an answer is kept as long as the client waits.
LineSuits ==
  /\ Cuts \subseteq {0, 1}
  /\ ReadPieces <= LineRoom
  /\ ReadPieces * PieceLength <= 127
  /\ RespTimeout <= TIMOUT_RCV
=============================================================================
