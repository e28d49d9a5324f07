---------------------------- MODULE ModbusProofs ----------------------------
(***************************************************************************)
(* Proofs about the Modbus gateway: types, one client at a time at each    *)
(* server, who wakes the users of the masters, and the retries; then what  *)
(* comes over the line, that it answers what was sent, and what a call     *)
(* returns.                                                                *)
(***************************************************************************)
EXTENDS ModbusGateway, TLAPS, WellFoundedInduction, FiniteSetTheorems, SequenceTheorems

-----------------------------------------------------------------------------
(* Sequences and numbers.                                                  *)

\* The lesser and the greater of two numbers.
LEMMA OfTwo ==
  ASSUME NEW a \in Int, NEW b \in Int
  PROVE  /\ Min({a, b}) = IF a <= b THEN a ELSE b
         /\ Max({a, b}) = IF a >= b THEN a ELSE b
<1>1. Min({a, b}) = IF a <= b THEN a ELSE b
  <2>1. \A x \in {a, b} : (\A y \in {a, b} : x <= y) <=> x = (IF a <= b THEN a ELSE b)
    OBVIOUS
  <2>2. (IF a <= b THEN a ELSE b) \in {a, b}
    OBVIOUS
  <2> QED BY <2>1, <2>2 DEF Min
<1>2. Max({a, b}) = IF a >= b THEN a ELSE b
  <2>1. \A x \in {a, b} : (\A y \in {a, b} : x >= y) <=> x = (IF a >= b THEN a ELSE b)
    OBVIOUS
  <2>2. (IF a >= b THEN a ELSE b) \in {a, b}
    OBVIOUS
  <2> QED BY <2>1, <2>2 DEF Max
<1> QED BY <1>1, <1>2

\* What InsertAt makes of a sequence, position by position.
LEMMA InsertedAt ==
  ASSUME NEW S, NEW s \in Seq(S), NEW e \in S, NEW k \in 1 .. Len(s) + 1
  PROVE  /\ InsertAt(s, k, e) \in Seq(S)
         /\ Len(InsertAt(s, k, e)) = Len(s) + 1
         /\ \A i \in 1 .. Len(s) + 1 : InsertAt(s, k, e)[i] =
              IF i < k THEN s[i] ELSE IF i = k THEN e ELSE s[i - 1]
<1> DEFINE a == SubSeq(s, 1, k - 1)
           b == SubSeq(s, k, Len(s))
<1>0. Len(s) \in Nat /\ \A i \in 1 .. Len(s) : s[i] \in S
  BY LenProperties, ElementOfSeq
<1>1. a \in Seq(S) /\ Len(a) = k - 1 /\ \A i \in 1 .. k - 1 : a[i] = s[i]
  <2>1. \A i \in 1 .. k - 1 : s[i] \in S
    BY <1>0
  <2>2. /\ a \in Seq(S)
        /\ Len(a) = IF 1 <= k - 1 THEN k - 1 - 1 + 1 ELSE 0
        /\ \A i \in 1 .. k - 1 - 1 + 1 : a[i] = s[1 + i - 1]
    BY <1>0, <2>1, SubSeqProperties
  <2> QED BY <1>0, <2>2
<1>2. b \in Seq(S) /\ Len(b) = Len(s) - k + 1 /\ \A i \in 1 .. Len(s) - k + 1 : b[i] = s[k + i - 1]
  <2>1. \A i \in k .. Len(s) : s[i] \in S
    BY <1>0
  <2>2. /\ b \in Seq(S)
        /\ Len(b) = IF k <= Len(s) THEN Len(s) - k + 1 ELSE 0
        /\ \A i \in 1 .. Len(s) - k + 1 : b[i] = s[k + i - 1]
    BY <1>0, <2>1, SubSeqProperties
  <2> QED BY <1>0, <2>2
<1>3. <<e>> \in Seq(S) /\ Len(<<e>>) = 1 /\ <<e>>[1] = e
  OBVIOUS
<1> HIDE DEF a, b
<1>4. /\ a \o <<e>> \in Seq(S)
      /\ Len(a \o <<e>>) = k
      /\ \A i \in 1 .. k : (a \o <<e>>)[i] = IF i < k THEN s[i] ELSE e
  <2>1. /\ a \o <<e>> \in Seq(S)
        /\ Len(a \o <<e>>) = Len(a) + Len(<<e>>)
        /\ \A i \in 1 .. Len(a) + Len(<<e>>) : (a \o <<e>>)[i] =
             IF i <= Len(a) THEN a[i] ELSE <<e>>[i - Len(a)]
    BY <1>1, <1>3, ConcatProperties
  <2>2. \A i \in 1 .. k : (a \o <<e>>)[i] = IF i < k THEN s[i] ELSE e
    <3> TAKE i \in 1 .. k
    <3>1. CASE i < k
      BY <1>0, <1>1, <1>3, <2>1, <3>1
    <3>2. CASE i = k
      BY <1>0, <1>1, <1>3, <2>1, <3>2
    <3>3. i < k \/ i = k
      BY <1>0
    <3> QED BY <3>1, <3>2, <3>3
  <2> QED BY SMTT(30), <1>0, <1>1, <1>3, <2>1, <2>2
<1>5. /\ (a \o <<e>>) \o b \in Seq(S)
      /\ Len((a \o <<e>>) \o b) = k + (Len(s) - k + 1)
      /\ \A i \in 1 .. k + (Len(s) - k + 1) : ((a \o <<e>>) \o b)[i] =
           IF i <= k THEN (a \o <<e>>)[i] ELSE b[i - k]
  <2>1. /\ (a \o <<e>>) \o b \in Seq(S)
        /\ Len((a \o <<e>>) \o b) = Len(a \o <<e>>) + Len(b)
        /\ \A i \in 1 .. Len(a \o <<e>>) + Len(b) : ((a \o <<e>>) \o b)[i] =
             IF i <= Len(a \o <<e>>) THEN (a \o <<e>>)[i] ELSE b[i - Len(a \o <<e>>)]
    <3> DEFINE a1 == a \o <<e>>
    <3>1. a1 \in Seq(S)
      BY <1>4
    <3> HIDE DEF a1
    <3>2. /\ a1 \o b \in Seq(S)
          /\ Len(a1 \o b) = Len(a1) + Len(b)
          /\ \A i \in 1 .. Len(a1) + Len(b) : (a1 \o b)[i] =
               IF i <= Len(a1) THEN a1[i] ELSE b[i - Len(a1)]
      BY <1>2, <3>1, ConcatProperties
    <3> QED BY <3>2 DEF a1
  <2> QED BY <1>2, <1>4, <2>1
<1>6. InsertAt(s, k, e) = (a \o <<e>>) \o b
  BY DEF InsertAt, a, b
<1>7. \A i \in 1 .. Len(s) + 1 : ((a \o <<e>>) \o b)[i] =
        IF i < k THEN s[i] ELSE IF i = k THEN e ELSE s[i - 1]
  <2> TAKE i \in 1 .. Len(s) + 1
  <2>1. CASE i < k
    BY <1>0, <1>4, <1>5, <2>1
  <2>2. CASE i = k
    BY <1>0, <1>4, <1>5, <2>2
  <2>3. CASE i > k
    <3>1. i - k \in 1 .. Len(s) - k + 1 /\ k + (i - k) - 1 = i - 1
      BY <1>0, <2>3
    <3>2. b[i - k] = s[i - 1]
      BY <1>2, <3>1
    <3>3. i \in 1 .. k + (Len(s) - k + 1) /\ ~(i <= k) /\ ~(i < k) /\ i # k
      BY <1>0, <2>3
    <3> QED BY <1>5, <3>2, <3>3
  <2>4. i < k \/ i = k \/ i > k
    BY <1>0
  <2> QED BY <2>1, <2>2, <2>3, <2>4
<1> QED BY <1>0, <1>5, <1>6, <1>7

-----------------------------------------------------------------------------
(* The tasks that can run.                                                 *)

Tasks == Users \cup {Gateway}
ReadyOK == ready \in Seq(Tasks) /\ IsInjective(ready)
IsReady(t) == \E i \in 1 .. Len(ready) : ready[i] = t

\* A task made ready joins the others, none of which is lost or doubled.
LEMMA MadeReadyJoins ==
  ASSUME ReadyOK, NEW t \in Tasks
  PROVE  /\ MadeReady(t) \in Seq(Tasks)
         /\ ~IsReady(t) => IsInjective(MadeReady(t))
         /\ \A u : (\E i \in 1 .. Len(MadeReady(t)) : MadeReady(t)[i] = u) <=> (IsReady(u) \/ u = t)
<1> DEFINE M == MadeReady(t)
           before == {i \in DOMAIN ready : Priority[ready[i]] >= Priority[t]}
           k == 1 + Cardinality(before)
<1>0. Len(ready) \in Nat /\ DOMAIN ready = 1 .. Len(ready) /\ ready \in Seq(Tasks)
  BY LenProperties DEF ReadyOK
<1>1. k \in 1 .. Len(ready) + 1
  <2>1. IsFiniteSet(DOMAIN ready) /\ Cardinality(DOMAIN ready) = Len(ready)
    BY SMTT(30), <1>0, FS_Interval
  <2>2. before \in SUBSET DOMAIN ready
    OBVIOUS
  <2>3. IsFiniteSet(before) /\ Cardinality(before) <= Cardinality(DOMAIN ready)
    BY <2>1, <2>2, FS_Subset
  <2>4. Cardinality(before) \in Nat
    BY <2>3, FS_CardinalityType
  <2> QED BY <1>0, <2>1, <2>3, <2>4
<1>2. M = InsertAt(ready, k, t)
  BY DEF MadeReady
<1> HIDE DEF k, M
<1>3. /\ M \in Seq(Tasks)
      /\ Len(M) = Len(ready) + 1
      /\ \A i \in 1 .. Len(ready) + 1 : M[i] =
           IF i < k THEN ready[i] ELSE IF i = k THEN t ELSE ready[i - 1]
  <2>1. /\ InsertAt(ready, k, t) \in Seq(Tasks)
        /\ Len(InsertAt(ready, k, t)) = Len(ready) + 1
        /\ \A i \in 1 .. Len(ready) + 1 : InsertAt(ready, k, t)[i] =
             IF i < k THEN ready[i] ELSE IF i = k THEN t ELSE ready[i - 1]
    BY <1>0, <1>1, InsertedAt
  <2> QED BY <1>2, <2>1
<1>4. DOMAIN M = 1 .. Len(ready) + 1
  BY <1>3, LenProperties
<1>5. ASSUME ~IsReady(t) PROVE IsInjective(M)
  <2>1. \A i \in 1 .. Len(ready) : ready[i] # t
    BY <1>5 DEF IsReady
  <2>2. \A i, j \in 1 .. Len(ready) : ready[i] = ready[j] => i = j
    BY <1>0 DEF ReadyOK, IsInjective
  <2>3. ASSUME NEW i \in 1 .. Len(ready) + 1, NEW j \in 1 .. Len(ready) + 1, M[i] = M[j]
        PROVE  i = j
    <3>1. \A n \in 1 .. Len(ready) + 1 :
            \/ n < k /\ M[n] = ready[n] /\ n \in 1 .. Len(ready)
            \/ n = k /\ M[n] = t
            \/ n > k /\ M[n] = ready[n - 1] /\ n - 1 \in 1 .. Len(ready)
      BY <1>0, <1>1, <1>3
    <3>2. CASE i < k
      BY <1>0, <1>1, <2>1, <2>2, <2>3, <3>1, <3>2
    <3>3. CASE i = k
      BY <1>0, <1>1, <2>1, <2>2, <2>3, <3>1, <3>3
    <3>4. CASE i > k
      BY <1>0, <1>1, <2>1, <2>2, <2>3, <3>1, <3>4
    <3> QED BY <1>0, <1>1, <3>2, <3>3, <3>4
  <2> QED BY <1>4, <2>3 DEF IsInjective
<1>6. ASSUME NEW u
      PROVE  (\E i \in 1 .. Len(M) : M[i] = u) <=> (IsReady(u) \/ u = t)
  <2>1. ASSUME NEW i \in 1 .. Len(M), M[i] = u PROVE IsReady(u) \/ u = t
    <3>1. CASE i < k
      <4>1. i \in 1 .. Len(ready) /\ ready[i] = u
        BY <1>0, <1>1, <1>3, <2>1, <3>1
      <4> QED BY <4>1 DEF IsReady
    <3>2. CASE i = k
      BY <1>0, <1>1, <1>3, <2>1, <3>2
    <3>3. CASE i > k
      <4>1. i - 1 \in 1 .. Len(ready) /\ ready[i - 1] = u
        BY <1>0, <1>1, <1>3, <2>1, <3>3
      <4> QED BY <4>1 DEF IsReady
    <3> QED BY <1>0, <1>1, <1>3, <3>1, <3>2, <3>3
  <2>2. ASSUME IsReady(u) PROVE \E i \in 1 .. Len(M) : M[i] = u
    <3>1. PICK n \in 1 .. Len(ready) : ready[n] = u
      BY <2>2 DEF IsReady
    <3>2. CASE n < k
      <4>1. n \in 1 .. Len(M) /\ M[n] = u
        BY <1>0, <1>1, <1>3, <3>1, <3>2
      <4> QED BY <4>1
    <3>3. CASE n >= k
      <4>1. n + 1 \in 1 .. Len(ready) + 1 /\ ~(n + 1 < k) /\ n + 1 # k /\ (n + 1) - 1 = n
        BY <1>0, <1>1, <3>3
      <4>2. n + 1 \in 1 .. Len(M) /\ M[n + 1] = u
        BY <1>3, <3>1, <4>1
      <4> QED BY <4>2
    <3> QED BY <1>0, <1>1, <3>2, <3>3
  <2>3. k \in 1 .. Len(M) /\ M[k] = t
    BY <1>0, <1>1, <1>3
  <2> QED BY <2>1, <2>2, <2>3
<1> QED BY <1>3, <1>5, <1>6 DEF M

\* The task that runs is ready; when it leaves, it is not, and the others are.
LEMMA HeadLeaves ==
  ASSUME ReadyOK, NEW t, Running(t)
  PROVE  /\ IsReady(t) /\ t \in Tasks
         /\ Tail(ready) \in Seq(Tasks) /\ IsInjective(Tail(ready))
         /\ \A u : (\E i \in 1 .. Len(Tail(ready)) : Tail(ready)[i] = u) <=> (IsReady(u) /\ u # t)
<1>0. ready \in Seq(Tasks) /\ Len(ready) \in Nat \ {0} /\ DOMAIN ready = 1 .. Len(ready)
      /\ ready[1] = t /\ t \in Tasks
  BY LenProperties, EmptySeq DEF ReadyOK, Running
<1>1. /\ Tail(ready) \in Seq(Tasks)
      /\ Len(Tail(ready)) = Len(ready) - 1
      /\ \A i \in 1 .. Len(Tail(ready)) : Tail(ready)[i] = ready[i + 1]
  BY HeadTailProperties DEF ReadyOK, Running
<1>2. DOMAIN Tail(ready) = 1 .. Len(ready) - 1
  BY <1>1, LenProperties
<1>3. \A i, j \in 1 .. Len(ready) : ready[i] = ready[j] => i = j
  BY <1>0 DEF ReadyOK, IsInjective
<1>4. IsInjective(Tail(ready))
  <2>1. ASSUME NEW i \in 1 .. Len(ready) - 1, NEW j \in 1 .. Len(ready) - 1,
               Tail(ready)[i] = Tail(ready)[j]
        PROVE  i = j
    <3>1. i + 1 \in 1 .. Len(ready) /\ j + 1 \in 1 .. Len(ready) /\ ready[i + 1] = ready[j + 1]
      BY <1>0, <1>1, <2>1
    <3>2. i + 1 = j + 1
      BY <1>3, <3>1
    <3> QED BY <3>2
  <2> QED BY <1>2, <2>1 DEF IsInjective
<1>5. ASSUME NEW u
      PROVE  (\E i \in 1 .. Len(Tail(ready)) : Tail(ready)[i] = u) <=> (IsReady(u) /\ u # t)
  <2>1. ASSUME NEW i \in 1 .. Len(Tail(ready)), Tail(ready)[i] = u PROVE IsReady(u) /\ u # t
    <3>1. i + 1 \in 1 .. Len(ready) /\ ready[i + 1] = u /\ i + 1 # 1 /\ 1 \in 1 .. Len(ready)
      BY <1>0, <1>1, <2>1
    <3>2. ready[i + 1] # ready[1]
      BY <1>3, <3>1
    <3> QED BY <1>0, <3>1, <3>2 DEF IsReady
  <2>2. ASSUME IsReady(u), u # t PROVE \E i \in 1 .. Len(Tail(ready)) : Tail(ready)[i] = u
    <3>1. PICK n \in 1 .. Len(ready) : ready[n] = u
      BY <2>2 DEF IsReady
    <3>2. n # 1
      BY <1>0, <2>2, <3>1
    <3>3. n - 1 \in 1 .. Len(ready) - 1 /\ (n - 1) + 1 = n
      BY <1>0, <3>2
    <3>4. Tail(ready)[n - 1] = u
      BY <1>1, <3>1, <3>3
    <3> QED BY <1>1, <3>3, <3>4
  <2> QED BY <2>1, <2>2
<1>6. IsReady(t)
  BY <1>0 DEF IsReady
<1> QED BY <1>0, <1>1, <1>4, <1>5, <1>6

-----------------------------------------------------------------------------
(* The inductive invariant.                                                *)

States == {"IDLE", "ROUTING", "SEND_MSG_TO_SERVER", "WAITING_SERVER_RESPONSE"}
ClientRecords ==
  [state : States, msg : Messages \cup {NoMessage}, timeout : 0 .. RespTimeout,
   server : {0} \cup DOMAIN Servers]
Codes == {"NO_ERROR", "SLAVE_NOT_RESPOND", "EXCEPTION", "PDU_RECEIVED_WRONG"}
MasterRecords ==
  [cmd : BOOLEAN, order : Commands \cup {NoCommand}, code : Codes,
   retry : 0 .. RetryComm, task : Tasks]
CallRecords ==
  [order : Commands \cup {NoCommand}, attempts : 0 .. RetryComm,
   answer : Messages \cup {NoMessage}]
FramePieces == [msg : Messages, place : Nat]

ClientOK ==
  /\ client \in [1 .. Clients -> ClientRecords]
  /\ \A c \in 1 .. Clients : client[c].state # "IDLE" => client[c].msg \in Messages
TurnOK ==
  turn \in [client : 1 .. Clients, calls : 0 .. LIMIT_CALLS - 1,
            at : {"process", "cancel", "answered"}]
MasterOK ==
  /\ master \in [1 .. Clients -> MasterRecords]
  /\ \A c \in 1 .. Clients : master[c].cmd => master[c].order \in Commands
TasksOK ==
  /\ pc \in [Users -> {"idle", "check", "fill", "command", "wait", "asleep", "clear"}]
  /\ event \in [Users -> BOOLEAN]
  /\ call \in [Users -> CallRecords]
  /\ \A u \in Users : pc[u] # "idle" => call[u].order \in Commands
AsciiOK ==
  /\ ascii \in [buffer : Seq(FramePieces), timeOut : 0 .. TIMOUT_RCV]
  /\ Len(ascii.buffer) <= MAXLENGHT
RemoteOK == remote \in Seq(Messages) /\ Len(remote) <= RemoteQueue
LineOK == line \in Seq(FramePieces) /\ Len(line) <= LineRoom
ReadyMeans == \A u \in Users : IsReady(u) => pc[u] # "idle" /\ pc[u] # "asleep"

\* The types, with what they rest on: who is ready, and that a command or a
\* message is there where one is used.
TInv ==
  /\ ClientOK /\ TurnOK /\ MasterOK /\ TasksOK
  /\ AsciiOK /\ RemoteOK /\ LineOK
  /\ ReadyOK /\ ReadyMeans
  /\ busy \in [DOMAIN Servers -> BOOLEAN]

\* The servers: who waits has made its server busy, each busy server is waited for
\* by one client, and the client whose answer is being delivered still waits.
Waits(c) == client[c].state = "WAITING_SERVER_RESPONSE"
SInv ==
  /\ \A c \in 1 .. Clients :
       client[c].state \in {"SEND_MSG_TO_SERVER", "WAITING_SERVER_RESPONSE"}
         => client[c].server \in DOMAIN Servers
  /\ \A c \in 1 .. Clients : Waits(c) => busy[client[c].server]
  /\ \A s \in DOMAIN Servers :
       busy[s] => \E c \in 1 .. Clients : Waits(c) /\ client[c].server = s
  /\ \A c, d \in 1 .. Clients :
       Waits(c) /\ Waits(d) /\ client[c].server = client[d].server => c = d
  /\ turn.at = "answered" => Waits(turn.client)
  /\ turn.at = "cancel" => client[turn.client].state = "IDLE"

\* The master c has woken its user and still has the command.
Woken(c) == turn.client = c /\ turn.at # "process"

\* A user finds its master without a command, and gives it one only when all of it
\* is filled in.
NotGiven(u) == pc[u] \in {"fill", "command"} => ~master[MasterOf[u]].cmd
FilledIn(u) ==
  pc[u] \in {"command", "wait", "asleep"}
    => /\ master[MasterOf[u]].task = u
       /\ master[MasterOf[u]].order = call[u].order
\* The user waits for its event just when its master has the command and has not
\* set the event.
StillWaits(u) == pc[u] = "asleep" \/ (pc[u] = "wait" /\ ~event[u])
Pending(u) == master[MasterOf[u]].cmd /\ ~Woken(MasterOf[u])
WaitsJustWhenPending(u) == StillWaits(u) <=> Pending(u)
EventInTime(u) == event[u] => pc[u] \in {"wait", "clear"}
Handshake(u) == NotGiven(u) /\ FilledIn(u) /\ WaitsJustWhenPending(u) /\ EventInTime(u)
WInv ==
  /\ \A u \in Users : Handshake(u)
  /\ \A c \in 1 .. Clients : Woken(c) => master[c].cmd
  /\ \A c \in 1 .. Clients : master[c].cmd => \E u \in Users : MasterOf[u] = c
  /\ turn.at # "process" => IsReady(Gateway)

\* The retries: what is left of them and the attempts are all of them, until the
\* user is woken; the code that it finds then says whether they were used up.
Retries(u) ==
  LET m == master[MasterOf[u]]
  IN /\ pc[u] \in {"check", "fill", "command"} => call[u].attempts = 0
     /\ pc[u] = "command" => m.retry = RetryComm /\ m.code # "SLAVE_NOT_RESPOND"
     /\ StillWaits(u) => /\ m.retry + call[u].attempts = RetryComm
                         /\ m.code # "SLAVE_NOT_RESPOND"
     /\ (pc[u] = "clear" \/ event[u]) /\ m.code = "SLAVE_NOT_RESPOND"
          => call[u].attempts = RetryComm
RInv == \A u \in Users : Retries(u)

GInv == TInv /\ SInv /\ WInv /\ RInv

-----------------------------------------------------------------------------
(* The operators of the gateway.                                           *)

\* What a slave answers to a message that stems from a command does, too.
LEMMA MessagesOfCommands ==
  /\ \A c \in Commands : Request(c) \in Messages
  /\ \A m \in Messages : Replies(m) \subseteq Messages
<1>1. \A c \in Commands : {Request(c), Answer(c), Exception(c)} \subseteq Messages
  BY DEF Messages
<1>2. \A m \in Messages : m.cmd \in Commands
  <2>1. ASSUME NEW c \in Commands
        PROVE  Request(c).cmd = c /\ Answer(c).cmd = c /\ Exception(c).cmd = c
    BY DEF Request, Answer, Exception
  <2> QED BY <2>1 DEF Messages
<1>3. \A m \in Messages : Replies(m) \subseteq {Answer(m.cmd), Exception(m.cmd)}
  BY DEF Replies
<1> QED BY <1>1, <1>2, <1>3

\* Of some indices of servers there is a least one.
LEMMA FirstServer ==
  ASSUME NEW S, S \subseteq DOMAIN Servers, S # {}
  PROVE  Min(S) \in S
<1>1. S \subseteq Nat
  BY GatewayAssumption, LenProperties
<1>2. \E m \in S : \A n \in S : m <= n
  <2>1. PICK m \in S : \A n \in S : ~ (<<n, m>> \in OpToRel(<, Nat))
    BY <1>1, NatLessThanWellFounded, WFMin
  <2>2. \A n \in S : ~ (n < m)
    BY <1>1, <2>1 DEF OpToRel
  <2> QED BY <1>1, <2>2
<1> QED BY <1>2 DEF Min

\* The search for a server returns the index of one, or none.
LEMMA ServerForType ==
  ASSUME NEW id
  PROVE  ServerFor(id) \in {0} \cup DOMAIN Servers
<1> DEFINE with(i) == {s \in DOMAIN Servers : Servers[s] = i}
<1>1. ASSUME NEW i, with(i) # {} PROVE Min(with(i)) \in with(i)
  BY <1>1, FirstServer
<1> QED BY <1>1 DEF ServerFor

\* A transport that it returns is the one it always returns.
LEMMA TransportIsOne ==
  ASSUME NEW id, ServerFor(id) \in DOMAIN Servers, Servers[ServerFor(id)] = 0
  PROVE  ServerFor(id) = ServerFor(0)
<1> DEFINE with(i) == {s \in DOMAIN Servers : Servers[s] = i}
<1>1. 0 \notin DOMAIN Servers
  BY GatewayAssumption, LenProperties
<1>2. CASE with(id) # {}
  <2>1. ServerFor(id) \in with(id)
    BY <1>2, FirstServer DEF ServerFor
  <2>2. id = 0
    BY <2>1
  <2> QED BY <2>2
<1>3. CASE with(id) = {}
  BY <1>1, <1>3 DEF ServerFor
<1> QED BY <1>2, <1>3

\* The loops of the task stay in their limits, and end with the task.
LEMMA NextCallEffect ==
  ASSUME TurnOK, NEW pending \in BOOLEAN, NextCall(pending)
  PROVE  /\ TurnOK' /\ turn'.at = "process"
         /\ ready' = ready \/ ready' = Tail(ready)
<1> USE GatewayAssumption
<1>1. turn.client \in 1 .. Clients /\ turn.calls \in 0 .. LIMIT_CALLS - 1
  BY DEF TurnOK
<1> DEFINE again == pending /\ turn.calls + 1 < LIMIT_CALLS
           over == ~again /\ turn.client = Clients
           next == IF again THEN turn.client ELSE IF over THEN 1 ELSE turn.client + 1
           count == IF again THEN turn.calls + 1 ELSE 0
<1>2. turn' = [at |-> "process", client |-> next, calls |-> count]
  BY DEF NextCall
<1>3. next \in 1 .. Clients /\ count \in 0 .. LIMIT_CALLS - 1
  BY <1>1
<1> HIDE DEF next, count
<1>4. TurnOK' /\ turn'.at = "process"
  BY <1>2, <1>3 DEF TurnOK
<1>5. ready' = ready \/ ready' = Tail(ready)
  BY DEF NextCall
<1> QED BY <1>4, <1>5

\* Who joins, and who leaves, as the steps have it.
LEMMA Joins ==
  ASSUME ReadyOK, NEW t \in Tasks, ready' = MadeReady(t)
  PROVE  /\ ~IsReady(t) => ReadyOK'
         /\ \A u : IsReady(u)' <=> IsReady(u) \/ u = t
<1>1. /\ MadeReady(t) \in Seq(Tasks)
      /\ ~IsReady(t) => IsInjective(MadeReady(t))
      /\ \A u : (\E i \in 1 .. Len(MadeReady(t)) : MadeReady(t)[i] = u) <=> (IsReady(u) \/ u = t)
  BY MadeReadyJoins
<1>2. /\ ready' \in Seq(Tasks)
      /\ ~IsReady(t) => IsInjective(ready')
      /\ \A u : (\E i \in 1 .. Len(ready') : ready'[i] = u) <=> (IsReady(u) \/ u = t)
  BY <1>1
<1>3. ~IsReady(t) => ReadyOK'
  BY <1>2 DEF ReadyOK
<1>4. ASSUME NEW u PROVE IsReady(u)' <=> IsReady(u) \/ u = t
  <2>1. IsReady(u)' <=> \E i \in 1 .. Len(ready') : ready'[i] = u
    BY DEF IsReady
  <2> QED BY <1>2, <2>1
<1> QED BY <1>3, <1>4

\* Who ends or goes to sleep is the one task that is not ready any more.
LEMMA Leaves ==
  ASSUME ReadyOK, NEW t, Running(t), ready' = Tail(ready)
  PROVE  /\ ReadyOK' /\ IsReady(t) /\ t \in Tasks
         /\ \A u : IsReady(u)' <=> IsReady(u) /\ u # t
<1>1. IsReady(t) /\ t \in Tasks
  BY HeadLeaves
<1>2. ready' \in Seq(Tasks) /\ IsInjective(ready')
  BY HeadLeaves
<1>3. \A u : IsReady(u)' <=> IsReady(u) /\ u # t
  BY HeadLeaves DEF IsReady
<1> QED BY <1>1, <1>2, <1>3 DEF ReadyOK

\* The task that runs is ready.
LEMMA RunsReady ==
  ASSUME ReadyOK, NEW t, Running(t)
  PROVE  IsReady(t)
  BY HeadLeaves

-----------------------------------------------------------------------------
(* Types, one lemma for each variable.                                     *)

\* Whatever a client becomes has its type, if the new record has.
LEMMA ClientBecomes ==
  ASSUME ClientOK, NEW c \in 1 .. Clients, NEW r \in ClientRecords,
         r.state # "IDLE" => r.msg \in Messages,
         client' = [client EXCEPT ![c] = r]
  PROVE  ClientOK'
  BY DEF ClientOK

\* The end of the idle state gives the client the type it has to have.
LEMMA ReceivedType ==
  ASSUME ClientOK, NEW c \in 1 .. Clients, NEW msg \in Messages \cup {NoMessage},
         Received(c, msg)
  PROVE  ClientOK'
<1> DEFINE r == [client[c] EXCEPT !.msg = msg,
                                  !.state = IF msg = NoMessage THEN "IDLE" ELSE "ROUTING"]
<1>1. r \in ClientRecords
  BY DEF ClientOK, ClientRecords, States
<1>2. r.state # "IDLE" => r.msg \in Messages
  BY DEF ClientOK, ClientRecords
<1>3. client' = [client EXCEPT ![c] = r]
  BY DEF Received
<1> HIDE DEF r
<1> QED BY <1>1, <1>2, <1>3, ClientBecomes

\* So does the way back to the idle state.
LEMMA IdleType ==
  ASSUME ClientOK, NEW c \in 1 .. Clients, NEW msg \in Messages \cup {NoMessage}
  PROVE  /\ BackToIdle(client[c], msg) \in ClientRecords
         /\ BackToIdle(client[c], msg).state = "IDLE"
<1>1. client[c] \in ClientRecords
  BY DEF ClientOK
<1>2. 0 \in 0 .. RespTimeout /\ 0 \in {0} \cup DOMAIN Servers /\ "IDLE" \in States
  BY GatewayAssumption DEF States
<1> DEFINE cl == client[c]
           d == {0} \cup DOMAIN Servers
           m == Messages \cup {NoMessage}
           t == 0 .. RespTimeout
<1> HIDE DEF cl
<1>3. cl \in [state : States, msg : m, timeout : t, server : d]
  BY <1>1 DEF ClientRecords, cl
<1>4. 0 \in d /\ 0 \in t /\ "IDLE" \in States /\ msg \in m
  BY <1>2
<1> HIDE DEF d, m, t
<1>5. /\ BackToIdle(cl, msg) \in [state : States, msg : m, timeout : t, server : d]
      /\ BackToIdle(cl, msg).state = "IDLE"
  BY <1>3, <1>4 DEF BackToIdle
<1> QED BY <1>5 DEF ClientRecords, cl, d, m, t

\* The clients have their type, and a message where one is used.
LEMMA ClientType ==
  ASSUME TInv, [Next]_vars
  PROVE  ClientOK'
<1> USE GatewayAssumption
<1>0. ClientOK /\ MasterOK
  BY DEF TInv
<1>1. ASSUME UNCHANGED client PROVE ClientOK'
  BY <1>0, <1>1 DEF ClientOK
<1>2. ASSUME NEW c \in 1 .. Clients, IdleWithout(c) \/ Cancelled(c) PROVE ClientOK'
  <2>1. Received(c, client[c].msg)
    BY <1>2 DEF IdleWithout, Cancelled
  <2>2. client[c].msg \in Messages \cup {NoMessage}
    BY <1>0 DEF ClientOK, ClientRecords
  <2> QED BY <1>0, <2>1, <2>2, ReceivedType
<1>3. ASSUME NEW c \in 1 .. Clients, IdleRequest(c) PROVE ClientOK'
  <2>1. Received(c, Request(master[c].order)) /\ master[c].cmd
    BY <1>3 DEF IdleRequest
  <2>2. Request(master[c].order) \in Messages
    BY <1>0, <2>1, MessagesOfCommands DEF MasterOK
  <2> QED BY <1>0, <2>1, <2>2, ReceivedType
<1>4. ASSUME NEW c \in 1 .. Clients, Routing(c) PROVE ClientOK'
  <2> DEFINE s == ServerFor(client[c].msg.cmd.id)
             r == IF s = 0 THEN [client[c] EXCEPT !.state = "IDLE"]
                  ELSE [client[c] EXCEPT !.state = "SEND_MSG_TO_SERVER", !.server = s]
  <2>1. client' = [client EXCEPT ![c] = r] /\ client[c].state = "ROUTING"
    BY <1>4 DEF Routing, Processes
  <2>2. s \in {0} \cup DOMAIN Servers
    BY ServerForType
  <2> HIDE DEF s
  <2>3. r \in ClientRecords /\ (r.state # "IDLE" => r.msg \in Messages)
    <3>1. client[c] \in ClientRecords /\ client[c].msg \in Messages
      BY <1>0, <2>1 DEF ClientOK
    <3>2. CASE s = 0
      BY <3>1, <3>2 DEF ClientRecords, States
    <3>3. CASE s # 0
      BY <2>2, <3>1, <3>3 DEF ClientRecords, States
    <3> QED BY <3>2, <3>3
  <2> HIDE DEF r
  <2> QED BY <1>0, <2>1, <2>3, ClientBecomes
<1>5. ASSUME NEW c \in 1 .. Clients, SendMsg(c) PROVE ClientOK'
  <2> DEFINE r == [client[c] EXCEPT !.state = "WAITING_SERVER_RESPONSE",
                                    !.timeout = RespTimeout]
  <2>1. client' = [client EXCEPT ![c] = r] /\ client[c].state = "SEND_MSG_TO_SERVER"
    BY <1>5 DEF SendMsg, Processes
  <2>2. client[c] \in ClientRecords /\ client[c].msg \in Messages
    BY <1>0, <2>1 DEF ClientOK
  <2>3. RespTimeout \in 0 .. RespTimeout
    OBVIOUS
  <2>4. r \in ClientRecords /\ (r.state # "IDLE" => r.msg \in Messages)
    BY <2>2, <2>3 DEF ClientRecords, States
  <2> HIDE DEF r
  <2> QED BY <1>0, <2>1, <2>4, ClientBecomes
<1>6. ASSUME NEW c \in 1 .. Clients, WaitingRight(c) PROVE ClientOK'
  <2>1. PICK msg \in Messages : client' = [client EXCEPT ![c].msg = msg]
    BY <1>6 DEF WaitingRight
  <2> DEFINE r == [client[c] EXCEPT !.msg = msg]
  <2>2. client' = [client EXCEPT ![c] = r]
    BY <2>1
  <2>3. r \in ClientRecords /\ (r.state # "IDLE" => r.msg \in Messages)
    BY ZenonT(40), <1>0 DEF ClientOK, ClientRecords
  <2> HIDE DEF r
  <2> QED BY <1>0, <2>2, <2>3, ClientBecomes
<1>7. ASSUME NEW c \in 1 .. Clients, Answered(c) PROVE ClientOK'
  <2>1. client' = [client EXCEPT ![c] = BackToIdle(client[c], client[c].msg)]
    BY <1>7 DEF Answered
  <2>2. client[c].msg \in Messages \cup {NoMessage}
    BY <1>0 DEF ClientOK, ClientRecords
  <2> QED BY <1>0, <2>1, <2>2, IdleType, ClientBecomes
<1>8. ASSUME NEW c \in 1 .. Clients, WaitingWrong(c) PROVE ClientOK'
  <2>1. PICK msg \in Messages : client' = [client EXCEPT ![c] = BackToIdle(client[c], msg)]
    BY <1>8 DEF WaitingWrong
  <2> QED BY <1>0, <2>1, IdleType, ClientBecomes
<1>9. ASSUME NEW c \in 1 .. Clients, WaitingLonger(c) PROVE ClientOK'
  <2>1. CASE client[c].timeout # 0
    <3> DEFINE r == [client[c] EXCEPT !.timeout = @ - 1]
    <3>1. client' = [client EXCEPT ![c] = r]
      BY <1>9, <2>1 DEF WaitingLonger
    <3>2. client[c].timeout - 1 \in 0 .. RespTimeout
      BY <1>0, <2>1 DEF ClientOK, ClientRecords
    <3>3. r \in ClientRecords /\ (r.state # "IDLE" => r.msg \in Messages)
      BY ZenonT(40), <1>0, <3>2 DEF ClientOK, ClientRecords
    <3> HIDE DEF r
    <3> QED BY <1>0, <3>1, <3>3, ClientBecomes
  <2>2. CASE client[c].timeout = 0
    <3>1. client' = [client EXCEPT ![c] = BackToIdle(client[c], NoMessage)]
      BY <1>9, <2>2 DEF WaitingLonger
    <3> QED BY <1>0, <3>1, IdleType, ClientBecomes
  <2> QED BY <2>1, <2>2
<1>10. ASSUME NEW c \in 1 .. Clients, IdleCancel(c) \/ SendMsgLater(c) PROVE ClientOK'
  BY <1>1, <1>10 DEF IdleCancel, SendMsgLater
<1>11. ASSUME NEW u \in Users, Start(u) \/ User(u) PROVE ClientOK'
  BY <1>1, <1>11 DEF Start, User, Check, Fill, Command, WaitEvent, Return
<1>12. CASE Tick \/ Remote \/ UNCHANGED vars
  BY <1>1, <1>12 DEF Tick, Remote, vars
<1> QED
  BY <1>2, <1>3, <1>4, <1>5, <1>6, <1>7, <1>8, <1>9, <1>10, <1>11, <1>12 DEF Next, GatewayStep

\* A message other than the right answer never says that the slave is silent.
LEMMA OutcomeCodes ==
  ASSUME NEW m, NEW msg
  PROVE  /\ Outcome(m, msg) \in Codes
         /\ Outcome(m, msg) # "SLAVE_NOT_RESPOND"
         /\ Outcome(m, msg) = "NO_ERROR" => m.cmd
  BY DEF Outcome, Codes

\* A master that has a command and has not woken its user knows the user, who waits.
LEMMA WakesUser ==
  ASSUME TInv, WInv, NEW c \in 1 .. Clients, master[c].cmd, ~Woken(c)
  PROVE  \E u \in Users :
           /\ MasterOf[u] = c /\ master[c].task = u /\ master[c].order = call[u].order
           /\ StillWaits(u) /\ ~event[u] /\ pc[u] \in {"wait", "asleep"}
<1>1. PICK u \in Users : MasterOf[u] = c
  BY DEF WInv
<1>2. StillWaits(u)
  BY <1>1 DEF WInv, Handshake, WaitsJustWhenPending, Pending
<1>3. ~event[u] /\ pc[u] \in {"wait", "asleep"}
  <2>1. event[u] => pc[u] \in {"wait", "clear"}
    BY DEF WInv, Handshake, EventInTime
  <2> QED BY <1>2, <2>1 DEF StillWaits
<1>4. master[c].task = u /\ master[c].order = call[u].order
  BY <1>1, <1>3 DEF WInv, Handshake, FilledIn
<1> QED BY <1>1, <1>2, <1>3, <1>4

\* SetEvent makes the user go on, now or when it comes to wait.
LEMMA SetEventEffect ==
  ASSUME NEW u \in Users, StillWaits(u), SetEvent(u)
  PROVE  \/ /\ pc[u] = "asleep" /\ ready' = MadeReady(u)
            /\ pc' = [pc EXCEPT ![u] = "clear"] /\ event' = event
         \/ /\ pc[u] = "wait" /\ event' = [event EXCEPT ![u] = TRUE]
            /\ pc' = pc /\ ready' = ready
  BY DEF StillWaits, SetEvent

\* Where the master sets the event of its user.
LEMMA CancelWakes ==
  ASSUME TInv, WInv, NEW c \in 1 .. Clients, IdleCancel(c) \/ WaitingRight(c)
  PROVE  /\ Running(Gateway) /\ turn.client = c /\ turn.at = "process" /\ master[c].cmd
         /\ turn'.at # "process" /\ turn'.client = c
         /\ \E u \in Users :
              /\ MasterOf[u] = c /\ master[c].task = u /\ master[c].order = call[u].order
              /\ StillWaits(u) /\ ~event[u] /\ pc[u] \in {"wait", "asleep"}
              /\ SetEvent(u)
<1>1. Running(Gateway) /\ turn.client = c /\ turn.at = "process"
  BY DEF IdleCancel, WaitingRight, Processes
<1>2. master[c].cmd
  BY OutcomeCodes DEF IdleCancel, WaitingRight
<1>3. turn'.at # "process" /\ turn'.client = c
  <2>1. turn' = [turn EXCEPT !.at = "cancel"] \/ turn' = [turn EXCEPT !.at = "answered"]
    BY DEF IdleCancel, WaitingRight
  <2> QED BY <1>1, <2>1 DEF TInv, TurnOK
<1>4. SetEvent(master[c].task)
  BY DEF IdleCancel, WaitingRight
<1>5. ~Woken(c)
  BY <1>1 DEF Woken
<1> QED BY <1>1, <1>2, <1>3, <1>4, <1>5, WakesUser

\* Whatever a master becomes has its type, if the new record has.
LEMMA MasterBecomes ==
  ASSUME MasterOK, NEW c \in 1 .. Clients, NEW r \in MasterRecords,
         r.cmd => r.order \in Commands,
         master' = [master EXCEPT ![c] = r]
  PROVE  MasterOK'
  BY DEF MasterOK

\* The masters have their type, and a command is one of a user.
LEMMA MasterType ==
  ASSUME TInv, WInv, [Next]_vars
  PROVE  MasterOK'
<1> USE GatewayAssumption
<1>0. MasterOK /\ TasksOK
  BY DEF TInv
<1>1. ASSUME UNCHANGED master PROVE MasterOK'
  BY <1>0, <1>1 DEF MasterOK
<1>2. ASSUME NEW c \in 1 .. Clients, NEW code \in Codes,
             master' = [master EXCEPT ![c].code = code]
      PROVE  MasterOK'
  <2> DEFINE r == [master[c] EXCEPT !.code = code]
  <2>1. master' = [master EXCEPT ![c] = r]
    BY <1>2
  <2>2. r \in MasterRecords /\ (r.cmd => r.order \in Commands)
    <3>1. master[c] \in MasterRecords /\ (master[c].cmd => master[c].order \in Commands)
      BY <1>0 DEF MasterOK
    <3> QED BY <3>1 DEF MasterRecords
  <2> HIDE DEF r
  <2> QED BY <1>0, <2>1, <2>2, MasterBecomes
<1>3. ASSUME NEW u \in Users, Fill(u) PROVE MasterOK'
  <2> DEFINE c == MasterOf[u]
             r == Filled(master[c], u)
  <2>1. c \in 1 .. Clients /\ master' = [master EXCEPT ![c] = r] /\ pc[u] = "fill"
    BY <1>3 DEF Fill
  <2>2. call[u].order \in Commands
    BY <1>0, <2>1 DEF TasksOK
  <2>3. RetryComm \in 0 .. RetryComm /\ "NO_ERROR" \in Codes /\ u \in Tasks
    BY DEF Codes, Tasks
  <2>4. master[c] \in MasterRecords
    BY <1>0, <2>1 DEF MasterOK
  <2> HIDE DEF c
  <2>5. r \in MasterRecords /\ (r.cmd => r.order \in Commands)
    BY <2>2, <2>3, <2>4 DEF MasterRecords, Filled
  <2> HIDE DEF r
  <2> QED BY <1>0, <2>1, <2>5, MasterBecomes
<1>4. ASSUME NEW u \in Users, Command(u) PROVE MasterOK'
  <2> DEFINE c == MasterOf[u]
             r == [master[c] EXCEPT !.cmd = TRUE]
  <2>1. c \in 1 .. Clients /\ master' = [master EXCEPT ![c] = r] /\ pc[u] = "command"
    BY <1>4 DEF Command
  <2>2. master[c].order \in Commands
    BY <1>0, <2>1 DEF TasksOK, WInv, Handshake, FilledIn
  <2>3. master[c] \in MasterRecords
    BY <1>0, <2>1 DEF MasterOK
  <2> HIDE DEF c
  <2>4. r \in MasterRecords /\ (r.cmd => r.order \in Commands)
    BY <2>2, <2>3 DEF MasterRecords
  <2> HIDE DEF r
  <2> QED BY <1>0, <2>1, <2>4, MasterBecomes
<1>5. ASSUME NEW c \in 1 .. Clients, IdleRequest(c) PROVE MasterOK'
  <2> DEFINE r == Retried(master[c])
  <2>1. master' = [master EXCEPT ![c] = r] /\ master[c].retry > 0
    BY <1>5 DEF IdleRequest
  <2>2. r \in MasterRecords /\ (r.cmd => r.order \in Commands)
    <3>1. master[c] \in MasterRecords /\ (master[c].cmd => master[c].order \in Commands)
      BY <1>0 DEF MasterOK
    <3>2. master[c].retry - 1 \in 0 .. RetryComm
      BY <2>1, <3>1 DEF MasterRecords
    <3> QED BY <3>1, <3>2 DEF MasterRecords, Retried
  <2> HIDE DEF r
  <2> QED BY <1>0, <2>1, <2>2, MasterBecomes
<1>6. ASSUME NEW c \in 1 .. Clients, IdleCancel(c) PROVE MasterOK'
  <2>1. master' = [master EXCEPT ![c].code =
          IF master[c].code = "NO_ERROR" THEN "SLAVE_NOT_RESPOND" ELSE master[c].code]
    BY <1>6 DEF IdleCancel
  <2>2. (IF master[c].code = "NO_ERROR" THEN "SLAVE_NOT_RESPOND" ELSE master[c].code) \in Codes
    BY <1>0 DEF MasterOK, MasterRecords, Codes
  <2> QED BY <1>2, <2>1, <2>2
<1>7. ASSUME NEW c \in 1 .. Clients, Cancelled(c) \/ Answered(c) PROVE MasterOK'
  <2> DEFINE r == [master[c] EXCEPT !.cmd = FALSE]
  <2>1. master' = [master EXCEPT ![c] = r]
    BY <1>7 DEF Cancelled, Answered
  <2>2. r \in MasterRecords /\ (r.cmd => r.order \in Commands)
    <3>1. master[c] \in MasterRecords /\ (master[c].cmd => master[c].order \in Commands)
      BY <1>0 DEF MasterOK
    <3> QED BY <3>1 DEF MasterRecords
  <2> HIDE DEF r
  <2> QED BY <1>0, <2>1, <2>2, MasterBecomes
<1>8. ASSUME NEW c \in 1 .. Clients, WaitingRight(c) PROVE MasterOK'
  <2>1. master' = [master EXCEPT ![c].code = "NO_ERROR"]
    BY <1>8 DEF WaitingRight
  <2> QED BY <1>2, <2>1 DEF Codes
<1>9. ASSUME NEW c \in 1 .. Clients, WaitingWrong(c) PROVE MasterOK'
  <2>1. PICK msg \in Messages :
          master' = IF ToMe(master[c], msg)
                    THEN [master EXCEPT ![c].code = Outcome(master[c], msg)] ELSE master
    BY <1>9 DEF WaitingWrong
  <2>2. CASE ToMe(master[c], msg)
    BY <1>2, <2>1, <2>2, OutcomeCodes
  <2>3. CASE ~ToMe(master[c], msg)
    BY <1>1, <2>1, <2>3
  <2> QED BY <2>2, <2>3
<1>10. ASSUME NEW c \in 1 .. Clients,
              \/ IdleWithout(c) \/ Routing(c) \/ SendMsg(c) \/ SendMsgLater(c)
              \/ WaitingLonger(c)
       PROVE  MasterOK'
  BY <1>1, <1>10 DEF IdleWithout, Routing, SendMsg, SendMsgLater, WaitingLonger
<1>11. ASSUME NEW u \in Users, Start(u) \/ Check(u) \/ WaitEvent(u) \/ Return(u) PROVE MasterOK'
  BY <1>1, <1>11 DEF Start, Check, WaitEvent, Return
<1>12. CASE Tick \/ Remote \/ UNCHANGED vars
  BY <1>1, <1>12 DEF Tick, Remote, vars
<1> QED
  BY <1>3, <1>4, <1>5, <1>6, <1>7, <1>8, <1>9, <1>10, <1>11, <1>12 DEF Next, GatewayStep, User

\* A step of a user, or the alarm, keeps the calls well-formed.
LEMMA TasksType ==
  ASSUME TInv, WInv, [Next]_vars
  PROVE  TasksOK'
<1> USE GatewayAssumption
<1>0. TasksOK /\ MasterOK
  BY DEF TInv
<1>1. ASSUME UNCHANGED tasks PROVE TasksOK'
  BY <1>0, <1>1 DEF TasksOK, tasks
<1>2. ASSUME NEW u \in Users, Start(u) PROVE TasksOK'
  <2>1. PICK o \in Wants[u] : call' = [call EXCEPT ![u] = Call(o)]
    BY <1>2 DEF Start
  <2>2. o \in Commands
    BY DEF Commands
  <2>3. Call(o) \in CallRecords /\ Call(o).order = o
    BY <2>2 DEF Call, CallRecords
  <2>4. pc' = [pc EXCEPT ![u] = "check"] /\ event' = event
    BY <1>2 DEF Start
  <2> QED BY <1>0, <2>1, <2>2, <2>3, <2>4 DEF TasksOK
<1>3. ASSUME NEW u \in Users, Leave(u), event' \in [Users -> BOOLEAN] PROVE TasksOK'
  <2>1. NoCall \in CallRecords
    BY DEF NoCall, Call, CallRecords
  <2>2. call' = [call EXCEPT ![u] = NoCall] /\ pc' = [pc EXCEPT ![u] = "idle"]
    BY <1>3 DEF Leave
  <2> QED BY <1>0, <1>3, <2>1, <2>2 DEF TasksOK
<1>4. ASSUME NEW u \in Users, Check(u) PROVE TasksOK'
  <2>1. CASE Leave(u)
    BY <1>0, <1>3, <1>4, <2>1 DEF Check, TasksOK
  <2>2. CASE pc' = [pc EXCEPT ![u] = "fill"] /\ call' = call
    BY <1>0, <1>4, <2>2 DEF Check, TasksOK
  <2> QED BY <1>4, <2>1, <2>2 DEF Check
<1>5. ASSUME NEW u \in Users, Return(u) PROVE TasksOK'
  <2>1. Leave(u) /\ event' = [event EXCEPT ![u] = FALSE]
    BY <1>5 DEF Return
  <2>2. event' \in [Users -> BOOLEAN]
    BY <1>0, <2>1 DEF TasksOK
  <2> QED BY <1>3, <2>1, <2>2
<1>6. ASSUME NEW u \in Users, Fill(u) \/ Command(u) \/ WaitEvent(u) PROVE TasksOK'
  <2>1. pc[u] # "idle" /\ event' = event /\ call' = call
    BY <1>6 DEF Fill, Command, WaitEvent
  <2>2. \E p \in {"command", "wait", "clear", "asleep"} : pc' = [pc EXCEPT ![u] = p]
    BY <1>6 DEF Fill, Command, WaitEvent
  <2> QED BY <1>0, <2>1, <2>2 DEF TasksOK
<1>7. ASSUME NEW c \in 1 .. Clients, IdleRequest(c) PROVE TasksOK'
  <2> DEFINE t == master[c].task
             n == call[t].attempts
             r == [call[t] EXCEPT !.attempts = IF n < RetryComm THEN n + 1 ELSE n]
  <2>1. call' = [call EXCEPT ![t] = r] /\ pc' = pc /\ event' = event
    BY <1>7 DEF IdleRequest, Attempt
  <2>2. ASSUME t \in Users PROVE r \in CallRecords /\ r.order = call[t].order
    <3>1. call[t] \in CallRecords
      BY <1>0, <2>2 DEF TasksOK
    <3>2. (IF n < RetryComm THEN n + 1 ELSE n) \in 0 .. RetryComm
      BY SMTT(30), <3>1 DEF CallRecords
    <3> QED BY <3>1, <3>2 DEF CallRecords
  <2> HIDE DEF r
  <2>3. CASE t \in Users
    BY <1>0, <2>1, <2>2, <2>3 DEF TasksOK
  <2>4. CASE t \notin Users
    BY <1>0, <2>1, <2>4 DEF TasksOK
  <2> QED BY <2>3, <2>4
<1>8. ASSUME NEW u \in Users, StillWaits(u), pc[u] \in {"wait", "asleep"}, SetEvent(u)
      PROVE  /\ pc' \in [Users -> {"idle", "check", "fill", "command", "wait", "asleep", "clear"}]
             /\ event' \in [Users -> BOOLEAN]
             /\ \A v \in Users : pc'[v] # "idle" => call[v].order \in Commands
  BY <1>0, <1>8, SetEventEffect DEF TasksOK
<1>9. ASSUME NEW c \in 1 .. Clients, IdleCancel(c) PROVE TasksOK'
  <2>1. call' = call
    BY <1>9 DEF IdleCancel
  <2>2. PICK u \in Users : StillWaits(u) /\ pc[u] \in {"wait", "asleep"} /\ SetEvent(u)
    BY <1>9, CancelWakes
  <2> QED BY <1>0, <1>8, <2>1, <2>2 DEF TasksOK
<1>10. ASSUME NEW c \in 1 .. Clients, WaitingRight(c) PROVE TasksOK'
  <2>1. PICK u \in Users : /\ StillWaits(u) /\ pc[u] \in {"wait", "asleep"} /\ SetEvent(u)
                           /\ master[c].task = u
    BY <1>10, CancelWakes
  <2>2. PICK msg \in Messages : call' = [call EXCEPT ![u].answer = msg]
    BY <1>10, <2>1 DEF WaitingRight
  <2> DEFINE r == [call[u] EXCEPT !.answer = msg]
  <2>3. call' = [call EXCEPT ![u] = r]
    BY <2>2
  <2>4. r \in CallRecords /\ r.order = call[u].order
    <3>1. call[u] \in CallRecords
      BY <1>0 DEF TasksOK
    <3> QED BY <3>1 DEF CallRecords
  <2> HIDE DEF r
  <2>5. call' \in [Users -> CallRecords] /\ \A v \in Users : call'[v].order = call[v].order
    BY <1>0, <2>3, <2>4 DEF TasksOK
  <2> QED BY <1>8, <2>1, <2>5 DEF TasksOK
<1>11. ASSUME NEW c \in 1 .. Clients,
              \/ IdleWithout(c) \/ Cancelled(c) \/ Routing(c) \/ SendMsg(c) \/ SendMsgLater(c)
              \/ Answered(c) \/ WaitingWrong(c) \/ WaitingLonger(c)
       PROVE  TasksOK'
  BY <1>1, <1>11 DEF IdleWithout, Cancelled, Routing, SendMsg, SendMsgLater, Answered,
                     WaitingWrong, WaitingLonger
<1>12. CASE Tick \/ Remote \/ UNCHANGED vars
  BY <1>1, <1>12 DEF Tick, Remote, vars
<1> QED
  BY <1>2, <1>4, <1>5, <1>6, <1>7, <1>9, <1>10, <1>11, <1>12 DEF Next, GatewayStep, User

\* Only the gateway's task runs when a step of its is taken; it stays ready, or ends.
LEMMA GatewayKeepsReady ==
  ASSUME TInv, Running(Gateway), ready' = ready \/ ready' = Tail(ready), pc' = pc
  PROVE  ReadyOK' /\ ReadyMeans'
<1>0. ReadyOK /\ ReadyMeans
  BY DEF TInv
<1>1. CASE ready' = ready
  BY <1>0, <1>1 DEF ReadyOK, ReadyMeans, IsReady
<1>2. CASE ready' = Tail(ready)
  <2>1. ReadyOK' /\ \A u : IsReady(u)' <=> IsReady(u) /\ u # Gateway
    BY <1>0, <1>2, Leaves
  <2>2. ReadyMeans'
    BY <1>0, <2>1 DEF ReadyMeans
  <2> QED BY <2>1, <2>2
<1> QED BY <1>1, <1>2

\* The steps of the gateway that are whole calls of gatewayClientProcess, and the
\* second halves of the others.
WholeCall(c) ==
  \/ IdleWithout(c) \/ IdleRequest(c) \/ Cancelled(c) \/ Routing(c) \/ SendMsg(c)
  \/ SendMsgLater(c) \/ Answered(c) \/ WaitingWrong(c) \/ WaitingLonger(c)

\* What all of them have in common.
LEMMA WholeCallEffect ==
  ASSUME TInv, NEW c \in 1 .. Clients, WholeCall(c)
  PROVE  /\ Running(Gateway) /\ turn.client = c
         /\ turn.at # "process" => Cancelled(c) \/ Answered(c)
         /\ TurnOK' /\ turn'.at = "process"
         /\ ready' = ready \/ ready' = Tail(ready)
         /\ pc' = pc /\ event' = event
<1>1. \E p \in BOOLEAN : NextCall(p)
  BY DEF WholeCall, IdleWithout, IdleRequest, Cancelled, Routing, SendMsg, SendMsgLater,
         Answered, WaitingWrong, WaitingLonger, Received
<1>2. TurnOK' /\ turn'.at = "process" /\ (ready' = ready \/ ready' = Tail(ready))
  BY <1>1, NextCallEffect DEF TInv
<1>3. Running(Gateway) /\ turn.client = c
      /\ (turn.at # "process" => Cancelled(c) \/ Answered(c))
  BY DEF WholeCall, IdleWithout, IdleRequest, Cancelled, Routing, SendMsg, SendMsgLater,
         Answered, WaitingWrong, WaitingLonger, Processes
<1>4. pc' = pc /\ event' = event
  BY DEF WholeCall, IdleWithout, IdleRequest, Cancelled, Routing, SendMsg, SendMsgLater,
         Answered, WaitingWrong, WaitingLonger, tasks
<1> QED BY <1>2, <1>3, <1>4

\* No task is ready twice, and a user that is ready neither sleeps nor is idle.
LEMMA ReadyType ==
  ASSUME TInv, WInv, [Next]_vars
  PROVE  ReadyOK' /\ ReadyMeans'
<1> USE GatewayAssumption
<1>0. ReadyOK /\ ReadyMeans /\ TasksOK
  BY DEF TInv
<1>1. ASSUME UNCHANGED <<ready, pc>> PROVE ReadyOK' /\ ReadyMeans'
  BY <1>0, <1>1 DEF ReadyOK, ReadyMeans, IsReady
<1>2. CASE Tick
  <2>1. ready' = MadeReady(Gateway) /\ pc' = pc /\ ~IsReady(Gateway)
    BY <1>0, <1>2, LenProperties DEF Tick, tasks, IsReady, ReadyOK
  <2>2. ReadyOK' /\ \A u : IsReady(u)' <=> IsReady(u) \/ u = Gateway
    BY <1>0, <2>1, Joins DEF Tasks
  <2> QED BY <1>0, <2>1, <2>2 DEF ReadyMeans
<1>3. ASSUME NEW u \in Users, ready' = MadeReady(u), ~IsReady(u),
             NEW p \in {"check", "clear"}, pc' = [pc EXCEPT ![u] = p]
      PROVE  ReadyOK' /\ ReadyMeans'
  <2>1. ReadyOK' /\ \A v : IsReady(v)' <=> IsReady(v) \/ v = u
    BY <1>0, <1>3, Joins DEF Tasks
  <2> QED BY <1>0, <1>3, <2>1 DEF ReadyMeans, TasksOK
<1>4. ASSUME NEW u \in Users, Start(u) PROVE ReadyOK' /\ ReadyMeans'
  <2>1. ready' = MadeReady(u) /\ pc' = [pc EXCEPT ![u] = "check"] /\ pc[u] = "idle"
    BY <1>4 DEF Start
  <2> QED BY <1>0, <1>3, <2>1 DEF ReadyMeans
<1>5. ASSUME NEW u \in Users, Running(u), ready' = Tail(ready),
             NEW p \in {"idle", "asleep"}, pc' = [pc EXCEPT ![u] = p]
      PROVE  ReadyOK' /\ ReadyMeans'
  <2>1. ReadyOK' /\ \A v : IsReady(v)' <=> IsReady(v) /\ v # u
    BY <1>0, <1>5, Leaves
  <2> QED BY <1>0, <1>5, <2>1 DEF ReadyMeans, TasksOK
<1>6. ASSUME NEW u \in Users, ready' = ready,
             NEW p \in {"fill", "command", "wait", "clear"}, pc' = [pc EXCEPT ![u] = p]
      PROVE  ReadyOK' /\ ReadyMeans'
  BY <1>0, <1>6 DEF ReadyOK, ReadyMeans, TasksOK, IsReady
<1>7. ASSUME NEW u \in Users, User(u) PROVE ReadyOK' /\ ReadyMeans'
  <2>1. CASE Check(u) \/ Return(u)
    BY <1>5, <1>6, <2>1 DEF Check, Return, Leave
  <2>2. CASE WaitEvent(u)
    BY <1>5, <1>6, <2>2 DEF WaitEvent
  <2>3. CASE Fill(u) \/ Command(u)
    BY <1>6, <2>3 DEF Fill, Command
  <2> QED BY <1>7, <2>1, <2>2, <2>3 DEF User
<1>8. ASSUME NEW c \in 1 .. Clients, IdleCancel(c) \/ WaitingRight(c)
      PROVE  ReadyOK' /\ ReadyMeans'
  <2>1. PICK u \in Users : StillWaits(u) /\ SetEvent(u)
    BY <1>8, CancelWakes
  <2>2. CASE pc[u] = "asleep" /\ ready' = MadeReady(u) /\ pc' = [pc EXCEPT ![u] = "clear"]
    BY <1>0, <1>3, <2>2 DEF ReadyMeans
  <2>3. CASE pc' = pc /\ ready' = ready
    BY <1>1, <2>3
  <2> QED BY <2>1, <2>2, <2>3, SetEventEffect
<1>9. ASSUME NEW c \in 1 .. Clients, WholeCall(c) PROVE ReadyOK' /\ ReadyMeans'
  BY <1>9, WholeCallEffect, GatewayKeepsReady
<1>10. CASE Remote \/ UNCHANGED vars
  BY <1>1, <1>10 DEF Remote, vars, tasks
<1> QED BY <1>2, <1>4, <1>7, <1>8, <1>9, <1>10 DEF Next, GatewayStep, WholeCall

\* The gateway's task stays within its loops.
LEMMA TurnType ==
  ASSUME TInv, WInv, [Next]_vars
  PROVE  TurnOK'
<1> USE GatewayAssumption
<1>0. TurnOK
  BY DEF TInv
<1>1. ASSUME UNCHANGED turn PROVE TurnOK'
  BY <1>0, <1>1 DEF TurnOK
<1>2. CASE Tick
  BY <1>2 DEF Tick, TurnOK
<1>3. ASSUME NEW c \in 1 .. Clients, WholeCall(c) PROVE TurnOK'
  BY <1>3, WholeCallEffect
<1>4. ASSUME NEW c \in 1 .. Clients, IdleCancel(c) \/ WaitingRight(c) PROVE TurnOK'
  <2>1. turn' = [turn EXCEPT !.at = "cancel"] \/ turn' = [turn EXCEPT !.at = "answered"]
    BY <1>4 DEF IdleCancel, WaitingRight
  <2> QED BY <1>0, <2>1 DEF TurnOK
<1>5. ASSUME NEW u \in Users, Start(u) \/ User(u) PROVE TurnOK'
  BY <1>1, <1>5 DEF Start, User, Check, Fill, Command, WaitEvent, Return
<1>6. CASE Remote \/ UNCHANGED vars
  BY <1>1, <1>6 DEF Remote, vars
<1> QED BY <1>2, <1>3, <1>4, <1>5, <1>6 DEF Next, GatewayStep, WholeCall

\* The servers' flags are flags.
LEMMA BusyType ==
  ASSUME TInv, [Next]_vars
  PROVE  busy' \in [DOMAIN Servers -> BOOLEAN]
<1>0. busy \in [DOMAIN Servers -> BOOLEAN]
  BY DEF TInv
<1>1. ASSUME GatewayStep PROVE busy' \in [DOMAIN Servers -> BOOLEAN]
  <2>1. \/ busy' = busy
        \/ \E s : busy' = [busy EXCEPT ![s] = TRUE]
        \/ \E s : busy' = [busy EXCEPT ![s] = FALSE]
    BY <1>1 DEF GatewayStep, IdleWithout, IdleRequest, IdleCancel, Cancelled, Routing,
                SendMsg, SendMsgLater, WaitingRight, Answered, WaitingWrong,
                WaitingLonger, Freed, TimedOut
  <2> QED BY <1>0, <2>1
<1>2. ASSUME ~GatewayStep PROVE busy' = busy
  BY <1>2 DEF Next, Tick, Start, User, Check, Fill, Command, WaitEvent, Return, Remote, vars
<1> QED BY <1>0, <1>1, <1>2

-----------------------------------------------------------------------------
(* The transport and the line.                                             *)

\* A frame is a sequence of as many pieces as its message has.
LEMMA FrameIsSequence ==
  ASSUME NEW m \in Messages
  PROVE  /\ Pieces(m) \in Nat /\ Frame(m) \in Seq(FramePieces)
         /\ Len(Frame(m)) = Pieces(m)
         /\ \A i \in 1 .. Pieces(m) : Frame(m)[i] \in FramePieces
<1>1. Pieces(m) \in Nat
  BY AsciiAssumption DEF Pieces
<1>2. \A i \in 1 .. Pieces(m) : [msg |-> m, place |-> i] \in FramePieces
  BY <1>1 DEF FramePieces
<1>3. Frame(m) \in [1 .. Pieces(m) -> FramePieces]
  BY <1>2 DEF Frame
<1>4. Frame(m) \in Seq(FramePieces)
  BY <1>1, <1>3, SeqDef
<1> QED BY <1>1, <1>3, <1>4, LenProperties

\* A part of a sequence is a sequence, and no longer than it.
LEMMA PartOfSequence ==
  ASSUME NEW S, NEW s \in Seq(S), NEW m \in Nat \ {0}, NEW n \in 0 .. Len(s)
  PROVE  /\ SubSeq(s, m, n) \in Seq(S)
         /\ Len(SubSeq(s, m, n)) = IF m <= n THEN n - m + 1 ELSE 0
<1>1. Len(s) \in Nat /\ \A i \in m .. n : s[i] \in S
  BY LenProperties, ElementOfSeq
<1> QED BY <1>1, SubSeqProperties

\* The transport drops pieces before a start, and makes none.
LEMMA FromStartType ==
  ASSUME NEW b \in Seq(FramePieces)
  PROVE  FromStart(b) \in Seq(FramePieces) /\ Len(FromStart(b)) <= Len(b)
<1> DEFINE starts == {i \in DOMAIN b : IsStart(b[i])}
<1>1. Len(b) \in Nat /\ DOMAIN b = 1 .. Len(b)
  BY LenProperties
<1>2. CASE starts = {}
  BY <1>1, <1>2 DEF FromStart
<1>3. CASE starts # {}
  <2>1. \E i \in starts : \A n \in starts : n <= i
    <3> DEFINE after == {Len(b) - n : n \in starts}
    <3>1. after \subseteq Nat /\ after # {}
      BY <1>1, <1>3
    <3>2. PICK d \in after : \A e \in after : ~ (<<e, d>> \in OpToRel(<, Nat))
      <4> HIDE DEF after
      <4> QED BY <3>1, NatLessThanWellFounded, WFMin
    <3>3. \A e \in after : ~ (e < d)
      BY <3>1, <3>2 DEF OpToRel
    <3>4. PICK i \in starts : d = Len(b) - i
      OBVIOUS
    <3>5. \A n \in starts : ~ (Len(b) - n < Len(b) - i)
      BY <3>3, <3>4
    <3>6. Len(b) \in Nat /\ starts \subseteq Int
      BY <1>1
    <3> HIDE DEF starts
    <3> QED BY <3>5, <3>6
  <2>2. Max(starts) \in starts
    <3>1. \E i \in starts : \A n \in starts : i >= n
      BY <1>1, <2>1
    <3> QED BY <3>1 DEF Max
  <2>3. Max(starts) \in 1 .. Len(b)
    BY <1>1, <2>2
  <2>4. FromStart(b) = SubSeq(b, Max(starts), Len(b))
    BY <1>3 DEF FromStart
  <2> HIDE DEF starts
  <2>5. /\ SubSeq(b, Max(starts), Len(b)) \in Seq(FramePieces)
        /\ Len(SubSeq(b, Max(starts), Len(b))) = Len(b) - Max(starts) + 1
    BY <1>1, <2>3, PartOfSequence
  <2> QED BY <1>1, <2>3, <2>4, <2>5
<1> QED BY <1>2, <1>3

\* The transport's task reads no more than its buffer has room for.
LEMMA AsciiTaskType ==
  ASSUME AsciiOK, NEW read \in Seq(FramePieces), Len(read) <= Room(ascii)
  PROVE  LET a == AsciiTask(ascii, read)
         IN /\ a \in [buffer : Seq(FramePieces), timeOut : 0 .. TIMOUT_RCV]
            /\ Len(a.buffer) <= MAXLENGHT
<1> USE AsciiAssumption
<1> DEFINE k == Kept(ascii)
<1>1. ascii.buffer \in Seq(FramePieces) /\ ascii.timeOut \in 0 .. TIMOUT_RCV
      /\ Len(ascii.buffer) <= MAXLENGHT
  BY DEF AsciiOK
<1>2. k \in Seq(FramePieces) /\ Len(k) \in Nat /\ Len(k) <= MAXLENGHT
  <2>1. CASE k = <<>>
    BY <2>1, EmptySeq
  <2>2. CASE k = ascii.buffer
    BY <1>1, <2>2, LenProperties
  <2> QED BY <2>1, <2>2 DEF Kept
<1>3. Len(read) \in Nat /\ Len(k) + Len(read) <= MAXLENGHT
  BY <1>2, LenProperties DEF Room
<1> HIDE DEF k
<1>4. ASSUME NEW b \in Seq(FramePieces), Len(b) <= MAXLENGHT
      PROVE  FromStart(b) \in Seq(FramePieces) /\ Len(FromStart(b)) <= MAXLENGHT
  <2>1. Len(FromStart(b)) \in Nat /\ Len(b) \in Nat
    BY FromStartType, LenProperties
  <2> QED BY <1>4, <2>1, FromStartType
<1>5. CASE read = <<>>
  <2>1. Max({ascii.timeOut - 1, 0}) \in 0 .. TIMOUT_RCV
    <3> DEFINE x == ascii.timeOut - 1
    <3>1. x \in Int /\ 0 \in Int /\ x <= TIMOUT_RCV
      BY <1>1
    <3> HIDE DEF x
    <3>2. Max({x, 0}) = IF x >= 0 THEN x ELSE 0
      BY <3>1, OfTwo
    <3> QED BY <3>1, <3>2 DEF x
  <2> QED BY <1>2, <1>5, <2>1 DEF AsciiTask, k
<1>6. CASE read # <<>>
  <2>1. k \o read \in Seq(FramePieces) /\ Len(k \o read) <= MAXLENGHT
    BY <1>2, <1>3, ConcatProperties
  <2>2. FromStart(k \o read) \in Seq(FramePieces) /\ Len(FromStart(k \o read)) <= MAXLENGHT
    BY <1>4, <2>1
  <2>3. AsciiTask(ascii, read) = [buffer |-> FromStart(k \o read), timeOut |-> TIMOUT_RCV]
    BY <1>6 DEF AsciiTask, k
  <2> QED BY <2>2, <2>3
<1> QED BY <1>5, <1>6

\* A server takes from the line what the transport has room for.
LEMMA ServerGivesType ==
  ASSUME TInv, NEW c \in 1 .. Clients, NEW m, ServerGives(c, m)
  PROVE  AsciiOK' /\ RemoteOK' /\ LineOK'
<1> USE GatewayAssumption, AsciiAssumption
<1>0. AsciiOK /\ RemoteOK /\ LineOK
  BY DEF TInv
<1>1. CASE Servers[client[c].server] = 0
  <2>1. PICK n \in 0 .. Min({Len(line), Room(ascii)}) :
          /\ ascii' = AsciiRecvMsg(AsciiTask(ascii, SubSeq(line, 1, n)))
          /\ line' = SubSeq(line, n + 1, Len(line))
          /\ remote' = remote
    BY <1>1 DEF ServerGives
  <2>2. Len(line) \in Nat /\ Room(ascii) \in Int
    <3>1. Len(Kept(ascii)) \in Nat
      BY <1>0, LenProperties, EmptySeq DEF AsciiOK, Kept
    <3> QED BY <1>0, <3>1, LenProperties DEF LineOK, Room
  <2>3. n \in 0 .. Len(line) /\ n <= Room(ascii)
    BY <2>2, OfTwo
  <2>4. SubSeq(line, 1, n) \in Seq(FramePieces) /\ Len(SubSeq(line, 1, n)) = n
    BY <1>0, <2>2, <2>3, PartOfSequence DEF LineOK
  <2>5. LineOK'
    <3>1. /\ SubSeq(line, n + 1, Len(line)) \in Seq(FramePieces)
          /\ Len(SubSeq(line, n + 1, Len(line))) <= Len(line)
      BY <1>0, <2>2, <2>3, PartOfSequence DEF LineOK
    <3> QED BY SMTT(30), <1>0, <2>1, <2>2, <3>1 DEF LineOK
  <2>6. AsciiOK'
    <3> DEFINE a == AsciiTask(ascii, SubSeq(line, 1, n))
    <3>1. /\ a \in [buffer : Seq(FramePieces), timeOut : 0 .. TIMOUT_RCV]
          /\ Len(a.buffer) <= MAXLENGHT
      BY <1>0, <2>3, <2>4, AsciiTaskType
    <3>2. /\ AsciiOpen \in [buffer : Seq(FramePieces), timeOut : 0 .. TIMOUT_RCV]
          /\ Len(AsciiOpen.buffer) <= MAXLENGHT
      BY EmptySeq DEF AsciiOpen
    <3> HIDE DEF a
    <3>3. ascii' = a \/ ascii' = AsciiOpen
      BY <2>1 DEF AsciiRecvMsg, a
    <3> QED BY <3>1, <3>2, <3>3 DEF AsciiOK
  <2>7. RemoteOK'
    BY <1>0, <2>1 DEF RemoteOK
  <2> QED BY <2>5, <2>6, <2>7
<1>2. CASE Servers[client[c].server] # 0
  BY <1>0, <1>2 DEF ServerGives, wire, AsciiOK, RemoteOK, LineOK
<1> QED BY <1>1, <1>2

\* The buffers of the transport and of the line hold no more than they can.
LEMMA WireType ==
  ASSUME TInv, [Next]_vars
  PROVE  AsciiOK' /\ RemoteOK' /\ LineOK'
<1> USE GatewayAssumption, AsciiAssumption
<1>0. AsciiOK /\ RemoteOK /\ LineOK /\ ClientOK
  BY DEF TInv
<1>1. ASSUME UNCHANGED wire PROVE AsciiOK' /\ RemoteOK' /\ LineOK'
  BY <1>0, <1>1 DEF wire, AsciiOK, RemoteOK, LineOK
<1>2. ASSUME NEW c \in 1 .. Clients, SendMsg(c) PROVE AsciiOK' /\ RemoteOK' /\ LineOK'
  <2> DEFINE m == client[c].msg
  <2>1. m \in Messages
    BY <1>0, <1>2 DEF SendMsg, Processes, ClientOK
  <2>2. CASE ascii' = AsciiSendMsg(ascii, m)
             /\ remote' = IF Len(remote) < RemoteQueue THEN Append(remote, m) ELSE remote
    <3> HIDE DEF m
    <3>1. LineOK'
      BY <1>0, <1>2 DEF SendMsg, LineOK
    <3>2. RemoteOK'
      <4>1. CASE Len(remote) < RemoteQueue
        <5>1. Append(remote, m) \in Seq(Messages) /\ Len(Append(remote, m)) = Len(remote) + 1
          BY <1>0, <2>1, AppendProperties DEF RemoteOK
        <5>2. Len(remote) \in Nat
          BY <1>0, LenProperties DEF RemoteOK
        <5> QED BY <2>2, <4>1, <5>1, <5>2 DEF RemoteOK
      <4>2. CASE ~(Len(remote) < RemoteQueue)
        BY <1>0, <2>2, <4>2 DEF RemoteOK
      <4> QED BY <4>1, <4>2
    <3>3. AsciiOK'
      <4> DEFINE b == ascii.buffer
                 f == [i \in DOMAIN b |-> IF i <= Pieces(m) THEN Frame(m)[i] ELSE b[i]]
      <4>1. b \in Seq(FramePieces) /\ Len(b) \in Nat /\ DOMAIN b = 1 .. Len(b)
            /\ \A i \in 1 .. Len(b) : b[i] \in FramePieces
        BY <1>0, LenProperties, ElementOfSeq DEF AsciiOK
      <4>2. f \in [1 .. Len(b) -> FramePieces]
        BY <2>1, <4>1, FrameIsSequence
      <4>3. f \in Seq(FramePieces)
        BY <4>1, <4>2, SeqDef
      <4>4. Len(f) = Len(b)
        BY <4>1, <4>2, <4>3, LenProperties
      <4>5. ascii' = [ascii EXCEPT !.buffer = f]
        BY <2>2 DEF AsciiSendMsg
      <4> HIDE DEF f
      <4> QED BY <1>0, <4>3, <4>4, <4>5 DEF AsciiOK
    <3> QED BY <3>1, <3>2, <3>3
  <2>3. CASE UNCHANGED <<ascii, remote>>
    BY <1>0, <1>2, <2>3 DEF SendMsg, AsciiOK, RemoteOK, LineOK
  <2> QED BY <1>2, <2>2, <2>3 DEF SendMsg
<1>3. ASSUME NEW c \in 1 .. Clients, WaitingRight(c) \/ WaitingWrong(c) \/ WaitingLonger(c)
      PROVE  AsciiOK' /\ RemoteOK' /\ LineOK'
  <2>1. \E m : ServerGives(c, m)
    BY <1>3 DEF WaitingRight, WaitingWrong, WaitingLonger
  <2> QED BY <2>1, ServerGivesType
<1>4. CASE Remote
  <2>0. remote # <<>> /\ ascii' = ascii /\ remote' = Tail(remote)
    BY <1>4 DEF Remote
  <2>1. Head(remote) \in Messages /\ RemoteOK'
    BY <1>0, <2>0, HeadTailProperties, LenProperties, EmptySeq DEF RemoteOK
  <2>3. \E x \in Replies(Head(remote)) :
          \E y \in {k \in Cuts : k < Pieces(x)} \cup {Pieces(x)} :
            line' = line \o SubSeq(Frame(x), 1, Min({y, LineRoom - Len(line)}))
    BY <1>4 DEF Remote
  <2>4. PICK x \in Messages, y \in Nat :
          /\ y <= Pieces(x)
          /\ line' = line \o SubSeq(Frame(x), 1, Min({y, LineRoom - Len(line)}))
    <3>1. PICK x \in Replies(Head(remote)) :
            \E y \in {k \in Cuts : k < Pieces(x)} \cup {Pieces(x)} :
              line' = line \o SubSeq(Frame(x), 1, Min({y, LineRoom - Len(line)}))
      BY <2>3
    <3>2. x \in Messages
      BY <2>1, MessagesOfCommands
    <3>3. Pieces(x) \in Nat
      BY <3>2, FrameIsSequence
    <3>4. PICK y \in {k \in Cuts : k < Pieces(x)} \cup {Pieces(x)} :
            line' = line \o SubSeq(Frame(x), 1, Min({y, LineRoom - Len(line)}))
      BY <3>1
    <3>5. y \in Nat /\ y <= Pieces(x)
      BY <3>3
    <3> QED BY <3>2, <3>4, <3>5
  <2>5. Len(line) \in Nat
    BY <1>0, LenProperties DEF LineOK
  <2> DEFINE e == Min({y, LineRoom - Len(line)})
  <2>6. e \in 0 .. Pieces(x) /\ e <= LineRoom - Len(line)
    <3> DEFINE room == LineRoom - Len(line)
    <3>1. room \in Nat /\ y \in Int /\ Pieces(x) \in Nat
      BY <1>0, <2>4, <2>5, FrameIsSequence DEF LineOK
    <3> HIDE DEF room
    <3>2. Min({y, room}) = IF y <= room THEN y ELSE room
      BY <3>1, OfTwo
    <3>3. Min({y, room}) \in 0 .. Pieces(x) /\ Min({y, room}) <= room
      BY <2>4, <3>1, <3>2
    <3> QED BY <3>3 DEF room
  <2> HIDE DEF e
  <2>7. SubSeq(Frame(x), 1, e) \in Seq(FramePieces) /\ Len(SubSeq(Frame(x), 1, e)) = e
    BY <2>4, <2>6, FrameIsSequence, PartOfSequence
  <2>8. line' = line \o SubSeq(Frame(x), 1, e)
    BY <2>4 DEF e
  <2>9. LineOK'
    BY SMTT(30), <1>0, <2>5, <2>6, <2>7, <2>8, ConcatProperties DEF LineOK
  <2> QED BY <1>0, <2>0, <2>1, <2>9 DEF AsciiOK
<1>5. ASSUME NEW c \in 1 .. Clients,
             \/ IdleWithout(c) \/ IdleRequest(c) \/ IdleCancel(c) \/ Cancelled(c)
             \/ Routing(c) \/ SendMsgLater(c) \/ Answered(c)
      PROVE  AsciiOK' /\ RemoteOK' /\ LineOK'
  BY <1>1, <1>5 DEF IdleWithout, IdleRequest, IdleCancel, Cancelled, Routing, SendMsgLater,
                    Answered, wire
<1>6. ASSUME NEW u \in Users, Start(u) \/ User(u) PROVE AsciiOK' /\ RemoteOK' /\ LineOK'
  BY <1>1, <1>6 DEF Start, User, Check, Fill, Command, WaitEvent, Return
<1>7. CASE Tick \/ UNCHANGED vars
  BY <1>1, <1>7 DEF Tick, vars
<1> QED BY <1>2, <1>3, <1>4, <1>5, <1>6, <1>7 DEF Next, GatewayStep

\* The types are preserved.
LEMMA TypesKept ==
  ASSUME TInv, WInv, [Next]_vars
  PROVE  TInv'
  BY ClientType, MasterType, TasksType, ReadyType, TurnType, BusyType, WireType DEF TInv

-----------------------------------------------------------------------------
(* The servers.                                                            *)

\* A step that lets no client begin or end waiting changes nothing about servers.
LEMMA ServersUntouched ==
  ASSUME SInv, busy' = busy,
         turn'.at = "answered" => turn'.client \in 1 .. Clients /\ Waits(turn'.client),
         turn'.at # "cancel",
         \A c \in 1 .. Clients :
           /\ Waits(c)' <=> Waits(c)
           /\ Waits(c) => client'[c].server = client[c].server
           /\ client'[c].state = "SEND_MSG_TO_SERVER" => client'[c].server \in DOMAIN Servers
  PROVE  SInv'
<1>1. \A c \in 1 .. Clients :
        client'[c].state \in {"SEND_MSG_TO_SERVER", "WAITING_SERVER_RESPONSE"}
          => client'[c].server \in DOMAIN Servers
  BY DEF SInv, Waits
<1>2. \A c \in 1 .. Clients : Waits(c)' => busy'[client'[c].server]
  BY DEF SInv
<1>3. \A s \in DOMAIN Servers :
        busy'[s] => \E c \in 1 .. Clients : Waits(c)' /\ client'[c].server = s
  BY DEF SInv
<1>4. \A c, d \in 1 .. Clients :
        Waits(c)' /\ Waits(d)' /\ client'[c].server = client'[d].server => c = d
  BY DEF SInv
<1>5. turn'.at = "answered" => Waits(turn.client)'
  BY DEF SInv, Waits
<1> QED BY <1>1, <1>2, <1>3, <1>4, <1>5 DEF SInv, Waits

\* A client that goes back to idle leaves its server free: no other waits for it.
LEMMA ServerReleased ==
  ASSUME TInv, SInv, NEW c \in 1 .. Clients, Waits(c),
         client' = [client EXCEPT ![c] = client'[c]], client'[c].state = "IDLE",
         busy' = Freed(client[c].server), turn'.at = "process"
  PROVE  SInv'
<1> DEFINE s == client[c].server
<1>1. s \in DOMAIN Servers /\ busy[s]
  BY DEF SInv, Waits
<1>2. busy' = [busy EXCEPT ![s] = FALSE]
  BY DEF Freed
<1> HIDE DEF s
<1>3. busy \in [DOMAIN Servers -> BOOLEAN] /\ client \in [1 .. Clients -> ClientRecords]
  BY DEF TInv, ClientOK
<1>4. \A d \in 1 .. Clients : d # c => client'[d] = client[d]
  BY <1>3
<1>5. \A d \in 1 .. Clients : Waits(d)' <=> Waits(d) /\ d # c
  BY <1>4 DEF Waits
<1>6. \A d \in 1 .. Clients : Waits(d) /\ d # c => client[d].server # s
  BY DEF SInv, s
<1>7. \A d \in 1 .. Clients :
        client'[d].state \in {"SEND_MSG_TO_SERVER", "WAITING_SERVER_RESPONSE"}
          => client'[d].server \in DOMAIN Servers
  <2>1. client'[c].state \notin {"SEND_MSG_TO_SERVER", "WAITING_SERVER_RESPONSE"}
    OBVIOUS
  <2> QED BY <1>4, <2>1 DEF SInv
<1>8. \A d \in 1 .. Clients : Waits(d)' => busy'[client'[d].server]
  <2> SUFFICES ASSUME NEW d \in 1 .. Clients, Waits(d)' PROVE busy'[client'[d].server]
    OBVIOUS
  <2>1. Waits(d) /\ d # c /\ client'[d] = client[d] /\ client[d].server # s
    BY <1>4, <1>5, <1>6
  <2>2. busy[client[d].server] /\ client[d].server \in DOMAIN Servers
    BY <2>1 DEF SInv, Waits
  <2> QED BY <1>2, <1>3, <2>1, <2>2
<1>9. \A t \in DOMAIN Servers :
        busy'[t] => \E d \in 1 .. Clients : Waits(d)' /\ client'[d].server = t
  <2> SUFFICES ASSUME NEW t \in DOMAIN Servers, busy'[t]
               PROVE  \E d \in 1 .. Clients : Waits(d)' /\ client'[d].server = t
    OBVIOUS
  <2>1. t # s /\ busy[t]
    BY <1>1, <1>2, <1>3
  <2>2. PICK d \in 1 .. Clients : Waits(d) /\ client[d].server = t
    BY <2>1 DEF SInv
  <2>3. d # c
    BY <2>1, <2>2 DEF s
  <2> QED BY <1>4, <1>5, <2>2, <2>3
<1>10. \A d, e \in 1 .. Clients :
         Waits(d)' /\ Waits(e)' /\ client'[d].server = client'[e].server => d = e
  BY <1>4, <1>5 DEF SInv
<1> QED BY <1>7, <1>8, <1>9, <1>10 DEF SInv, Waits

\* The servers are held by one client each in every step.
LEMMA ServersKept ==
  ASSUME TInv, SInv, WInv, [Next]_vars
  PROVE  SInv'
<1> USE GatewayAssumption
<1>0. /\ client \in [1 .. Clients -> ClientRecords]
      /\ busy \in [DOMAIN Servers -> BOOLEAN] /\ TurnOK
  BY DEF TInv, ClientOK
<1>1. ASSUME UNCHANGED <<client, busy>>, UNCHANGED turn \/ turn'.at = "process" PROVE SInv'
  BY <1>1 DEF SInv, Waits
<1>2. ASSUME NEW c \in 1 .. Clients, NEW r, client' = [client EXCEPT ![c] = r],
             r.state \in {"IDLE", "ROUTING"}, ~Waits(c), busy' = busy, turn'.at = "process"
      PROVE  SInv'
  <2>1. ASSUME NEW d \in 1 .. Clients
        PROVE  /\ Waits(d)' <=> Waits(d)
               /\ Waits(d) => client'[d].server = client[d].server
               /\ client'[d].state = "SEND_MSG_TO_SERVER"
                    => client'[d].server \in DOMAIN Servers
    <3>1. CASE d = c
      BY <1>0, <1>2, <3>1 DEF Waits
    <3>2. CASE d # c
      <4>1. client'[d] = client[d]
        BY <1>0, <1>2, <3>2
      <4> QED BY <4>1 DEF Waits, SInv
    <3> QED BY <3>1, <3>2
  <2> QED BY <1>2, <2>1, ServersUntouched
<1>3. ASSUME NEW c \in 1 .. Clients, NEW m, Received(c, m), client[c].state = "IDLE",
             busy' = busy, turn'.at = "process"
      PROVE  SInv'
  <2> DEFINE r == [client[c] EXCEPT !.msg = m,
                                    !.state = IF m = NoMessage THEN "IDLE" ELSE "ROUTING"]
  <2>1. client' = [client EXCEPT ![c] = r]
    BY <1>3 DEF Received
  <2>2. r.state \in {"IDLE", "ROUTING"}
    BY <1>0 DEF ClientRecords
  <2> HIDE DEF r
  <2> QED BY <1>2, <1>3, <2>1, <2>2 DEF Waits
<1>4. ASSUME NEW c \in 1 .. Clients, IdleCancel(c) PROVE SInv'
  <2>1. UNCHANGED <<client, busy>> /\ turn' = [turn EXCEPT !.at = "cancel"]
        /\ turn.client = c /\ client[c].state = "IDLE"
    BY <1>4 DEF IdleCancel, Processes
  <2>2. turn'.at = "cancel" /\ turn'.client = c
    BY <1>0, <2>1 DEF TurnOK
  <2> QED BY <2>1, <2>2 DEF SInv, Waits
<1>5. ASSUME NEW c \in 1 .. Clients, Cancelled(c) PROVE SInv'
  <2>1. Received(c, client[c].msg) /\ busy' = busy /\ turn'.at = "process"
    BY <1>5, WholeCallEffect DEF Cancelled, WholeCall
  <2>2. client[c].state = "IDLE"
    BY <1>5 DEF Cancelled, SInv
  <2> QED BY <1>3, <2>1, <2>2
<1>17. ASSUME NEW c \in 1 .. Clients, IdleWithout(c) \/ IdleRequest(c) PROVE SInv'
  <2>1. /\ \E m : Received(c, m)
        /\ client[c].state = "IDLE" /\ busy' = busy
    BY <1>17 DEF IdleWithout, IdleRequest, Processes
  <2>2. turn'.at = "process"
    BY <1>17, WholeCallEffect DEF WholeCall
  <2> QED BY <1>3, <2>1, <2>2
<1>6. ASSUME NEW c \in 1 .. Clients, Routing(c) PROVE SInv'
  <2> DEFINE s == ServerFor(client[c].msg.cmd.id)
             r == IF s = 0 THEN [client[c] EXCEPT !.state = "IDLE"]
                  ELSE [client[c] EXCEPT !.state = "SEND_MSG_TO_SERVER", !.server = s]
  <2>1. /\ client' = [client EXCEPT ![c] = r] /\ client[c].state = "ROUTING"
        /\ busy' = busy
    BY <1>6 DEF Routing, Processes
  <2>2. turn'.at = "process"
    BY <1>6, WholeCallEffect DEF WholeCall
  <2>3. s \in {0} \cup DOMAIN Servers
    BY ServerForType
  <2>4. client[c] \in ClientRecords
    BY <1>0
  <2> HIDE DEF s
  <2>5. r.state # "WAITING_SERVER_RESPONSE"
        /\ (r.state = "SEND_MSG_TO_SERVER" => r.server \in DOMAIN Servers)
    <3>1. CASE s = 0
      BY <2>4, <3>1 DEF ClientRecords
    <3>2. CASE s # 0
      BY <2>3, <2>4, <3>2 DEF ClientRecords
    <3> QED BY <3>1, <3>2
  <2> HIDE DEF r
  <2>6. ASSUME NEW d \in 1 .. Clients
        PROVE  /\ Waits(d)' <=> Waits(d)
               /\ Waits(d) => client'[d].server = client[d].server
               /\ client'[d].state = "SEND_MSG_TO_SERVER"
                    => client'[d].server \in DOMAIN Servers
    <3>1. CASE d = c
      BY <1>0, <2>1, <2>5, <3>1 DEF Waits
    <3>2. CASE d # c
      BY <1>0, <2>1, <3>2 DEF Waits, SInv
    <3> QED BY <3>1, <3>2
  <2> QED BY <2>1, <2>2, <2>6, ServersUntouched
<1>7. ASSUME NEW c \in 1 .. Clients, SendMsg(c) PROVE SInv'
  <2> DEFINE s == client[c].server
             r == [client[c] EXCEPT !.state = "WAITING_SERVER_RESPONSE",
                                    !.timeout = RespTimeout]
  <2>1. /\ client' = [client EXCEPT ![c] = r] /\ client[c].state = "SEND_MSG_TO_SERVER"
        /\ busy' = [busy EXCEPT ![s] = TRUE] /\ ~busy[s]
    BY <1>7 DEF SendMsg, Processes, ServerFree
  <2>2. turn'.at = "process"
    BY <1>7, WholeCallEffect DEF WholeCall
  <2>3. r.state = "WAITING_SERVER_RESPONSE" /\ r.server = s
    BY <1>0 DEF ClientRecords
  <2>4. s \in DOMAIN Servers
    BY <2>1 DEF SInv
  <2>5. \A d \in 1 .. Clients : Waits(d) => client[d].server # s /\ d # c
    BY <2>1 DEF SInv, Waits
  <2> HIDE DEF r, s
  <2>6. \A d \in 1 .. Clients : d # c => client'[d] = client[d]
    BY <1>0, <2>1
  <2>7. client'[c] = r
    BY <1>0, <2>1
  <2>8. \A d \in 1 .. Clients : Waits(d)' <=> Waits(d) \/ d = c
    BY <2>3, <2>6, <2>7 DEF Waits
  <2>9. \A d \in 1 .. Clients :
          client'[d].state \in {"SEND_MSG_TO_SERVER", "WAITING_SERVER_RESPONSE"}
            => client'[d].server \in DOMAIN Servers
    BY <2>3, <2>4, <2>6, <2>7 DEF SInv
  <2>10. \A d \in 1 .. Clients : Waits(d)' => busy'[client'[d].server]
    <3> SUFFICES ASSUME NEW d \in 1 .. Clients, Waits(d)' PROVE busy'[client'[d].server]
      OBVIOUS
    <3>1. CASE d = c
      BY <1>0, <2>1, <2>3, <2>4, <2>7, <3>1
    <3>2. CASE d # c
      <4>1. busy[client[d].server] /\ client[d].server \in DOMAIN Servers
        BY <2>8, <3>2 DEF SInv, Waits
      <4>2. busy'[client[d].server]
        BY <1>0, <2>1, <4>1
      <4> QED BY <2>6, <3>2, <4>2
    <3> QED BY <3>1, <3>2
  <2>11. \A t \in DOMAIN Servers :
           busy'[t] => \E d \in 1 .. Clients : Waits(d)' /\ client'[d].server = t
    <3> SUFFICES ASSUME NEW t \in DOMAIN Servers, busy'[t]
                 PROVE  \E d \in 1 .. Clients : Waits(d)' /\ client'[d].server = t
      OBVIOUS
    <3>1. CASE t = s
      BY <2>3, <2>7, <2>8, <3>1
    <3>2. CASE t # s
      <4>1. busy[t]
        BY <1>0, <2>1, <3>2
      <4>2. PICK d \in 1 .. Clients : Waits(d) /\ client[d].server = t
        BY <4>1 DEF SInv
      <4> QED BY <2>5, <2>6, <2>8, <4>2
    <3> QED BY <3>1, <3>2
  <2>12. \A d, e \in 1 .. Clients :
           Waits(d)' /\ Waits(e)' /\ client'[d].server = client'[e].server => d = e
    <3> SUFFICES ASSUME NEW d \in 1 .. Clients, NEW e \in 1 .. Clients,
                        Waits(d)', Waits(e)', client'[d].server = client'[e].server
                 PROVE  d = e
      OBVIOUS
    <3>1. \A x \in 1 .. Clients :
            Waits(x)' => \/ x = c /\ client'[x].server = s
                         \/ x # c /\ Waits(x) /\ client'[x].server = client[x].server
      BY <2>3, <2>6, <2>7, <2>8
    <3>2. CASE d = c
      BY <2>5, <3>1, <3>2
    <3>3. CASE d # c
      <4>1. e # c
        BY <2>5, <3>1, <3>3
      <4> QED BY <3>1, <3>3, <4>1 DEF SInv
    <3> QED BY <3>2, <3>3
  <2> QED BY <2>2, <2>9, <2>10, <2>11, <2>12 DEF SInv, Waits
<1>8. ASSUME NEW c \in 1 .. Clients, NEW r \in ClientRecords, Waits(c),
             client' = [client EXCEPT ![c] = r], busy' = busy,
             r.state = client[c].state, r.server = client[c].server,
             turn'.at = "process" \/ (turn'.at = "answered" /\ turn'.client = c)
      PROVE  SInv'
  <2>1. ASSUME NEW d \in 1 .. Clients
        PROVE  /\ Waits(d)' <=> Waits(d)
               /\ Waits(d) => client'[d].server = client[d].server
               /\ client'[d].state = "SEND_MSG_TO_SERVER"
                    => client'[d].server \in DOMAIN Servers
    <3>1. CASE d = c
      BY <1>0, <1>8, <3>1 DEF Waits
    <3>2. CASE d # c
      BY <1>0, <1>8, <3>2 DEF Waits, SInv
    <3> QED BY <3>1, <3>2
  <2> QED BY <1>8, <2>1, ServersUntouched
<1>9. ASSUME NEW c \in 1 .. Clients, WaitingRight(c) PROVE SInv'
  <2>1. PICK msg \in Messages : client' = [client EXCEPT ![c].msg = msg]
    BY <1>9 DEF WaitingRight
  <2> DEFINE r == [client[c] EXCEPT !.msg = msg]
  <2>2. client' = [client EXCEPT ![c] = r]
    BY <2>1
  <2>3. r \in ClientRecords /\ r.state = client[c].state /\ r.server = client[c].server
    <3>1. client[c] \in ClientRecords
      BY <1>0
    <3> QED BY <3>1 DEF ClientRecords
  <2>4. busy' = busy /\ Waits(c)
    BY <1>9 DEF WaitingRight, Processes, Waits
  <2>5. turn'.client = c /\ turn'.at = "answered"
    BY <1>0, <1>9, CancelWakes DEF WaitingRight, TurnOK
  <2> HIDE DEF r
  <2> QED BY <1>8, <2>2, <2>3, <2>4, <2>5
<1>10. ASSUME NEW c \in 1 .. Clients, NEW m, Waits(c), turn'.at = "process",
              client' = [client EXCEPT ![c] = BackToIdle(client[c], m)],
              m \in Messages \cup {NoMessage}, busy' = Freed(client[c].server)
       PROVE  SInv'
  <2>1. client'[c].state = "IDLE" /\ client' = [client EXCEPT ![c] = client'[c]]
    BY <1>0, <1>10, IdleType DEF TInv
  <2> QED BY <1>10, <2>1, ServerReleased
<1>11. ASSUME NEW c \in 1 .. Clients, Answered(c) PROVE SInv'
  <2>1. /\ client' = [client EXCEPT ![c] = BackToIdle(client[c], client[c].msg)]
        /\ busy' = Freed(client[c].server) /\ Waits(c)
    BY <1>11 DEF Answered, SInv
  <2>2. client[c].msg \in Messages \cup {NoMessage}
    BY <1>0 DEF ClientRecords
  <2> QED BY <1>10, <1>11, <2>1, <2>2, WholeCallEffect DEF WholeCall
<1>12. ASSUME NEW c \in 1 .. Clients, WaitingWrong(c) PROVE SInv'
  <2>1. PICK m \in Messages : client' = [client EXCEPT ![c] = BackToIdle(client[c], m)]
    BY <1>12 DEF WaitingWrong
  <2>2. busy' = Freed(client[c].server) /\ Waits(c)
    BY <1>12 DEF WaitingWrong, Processes, Waits
  <2> QED BY <1>10, <1>12, <2>1, <2>2, WholeCallEffect DEF WholeCall
<1>13. ASSUME NEW c \in 1 .. Clients, WaitingLonger(c) PROVE SInv'
  <2>0. Waits(c) /\ turn'.at = "process"
    BY <1>13, WholeCallEffect DEF WaitingLonger, Processes, Waits, WholeCall
  <2>1. CASE client[c].timeout # 0
    <3> DEFINE r == [client[c] EXCEPT !.timeout = @ - 1]
    <3>1. client' = [client EXCEPT ![c] = r] /\ busy' = busy
      BY <1>13, <2>1 DEF WaitingLonger
    <3>2. client[c] \in ClientRecords /\ client[c].timeout - 1 \in 0 .. RespTimeout
      BY <1>0, <2>1 DEF ClientRecords
    <3>3. r \in ClientRecords /\ r.state = client[c].state /\ r.server = client[c].server
      BY <3>2 DEF ClientRecords
    <3> HIDE DEF r
    <3> QED BY <1>8, <2>0, <3>1, <3>3
  <2>2. CASE client[c].timeout = 0
    <3>1. /\ client' = [client EXCEPT ![c] = BackToIdle(client[c], NoMessage)]
          /\ busy' = Freed(client[c].server)
      BY <1>13, <2>2 DEF WaitingLonger, TimedOut
    <3> QED BY <1>10, <2>0, <3>1
  <2> QED BY <2>1, <2>2
<1>14. ASSUME NEW c \in 1 .. Clients, SendMsgLater(c) PROVE SInv'
  BY <1>1, <1>14, WholeCallEffect DEF SendMsgLater, WholeCall
<1>15. ASSUME NEW u \in Users, Start(u) \/ User(u) PROVE SInv'
  BY <1>1, <1>15 DEF Start, User, Check, Fill, Command, WaitEvent, Return
<1>16. CASE Tick \/ Remote \/ UNCHANGED vars
  BY <1>1, <1>16 DEF Tick, Remote, vars
<1> QED
  BY <1>4, <1>5, <1>6, <1>7, <1>9, <1>11, <1>12, <1>13, <1>14, <1>15, <1>16, <1>17
  DEF Next, GatewayStep

-----------------------------------------------------------------------------
(* Users and their masters.                                                *)

\* What a step leaves alone, for a user and its master, it leaves right.
LEMMA HandshakeFrame ==
  ASSUME NEW u \in Users, Handshake(u), NEW c, c = MasterOf[u],
         pc'[u] = pc[u], event'[u] = event[u], call'[u].order = call[u].order,
         master'[c].cmd = master[c].cmd, master'[c].task = master[c].task,
         master'[c].order = master[c].order, Woken(c)' <=> Woken(c)
  PROVE  Handshake(u)'
<1>1. NotGiven(u)' /\ FilledIn(u)' /\ EventInTime(u)'
  BY DEF Handshake, NotGiven, FilledIn, EventInTime
<1>2. (StillWaits(u)' <=> StillWaits(u)) /\ (Pending(u)' <=> Pending(u))
  BY DEF StillWaits, Pending
<1>3. WaitsJustWhenPending(u)'
  BY <1>2 DEF Handshake, WaitsJustWhenPending
<1> QED BY <1>1, <1>3 DEF Handshake

\* The gateway's task is not lost while a user is taken up or leaves.
LEMMA GatewayStaysReady ==
  ASSUME TInv, NEW u \in Users,
         \/ ready' = ready \/ ready' = MadeReady(u)
         \/ Running(u) /\ ready' = Tail(ready),
         IsReady(Gateway)
  PROVE  IsReady(Gateway)'
<1>1. ReadyOK /\ u # Gateway /\ u \in Tasks
  BY GatewayAssumption DEF TInv, Tasks
<1>2. CASE ready' = ready
  BY <1>2 DEF IsReady
<1>3. CASE ready' = MadeReady(u)
  BY <1>1, <1>3, Joins
<1>4. CASE Running(u) /\ ready' = Tail(ready)
  BY <1>1, <1>4, Leaves
<1> QED BY <1>2, <1>3, <1>4

\* A whole call that was not begun before leaves the commands of the masters.
LEMMA CommandsLeft ==
  ASSUME TInv, NEW c \in 1 .. Clients, WholeCall(c), turn.at = "process"
  PROVE  /\ \A d \in 1 .. Clients :
              /\ master'[d].cmd = master[d].cmd /\ master'[d].task = master[d].task
              /\ master'[d].order = master[d].order
         /\ \A u \in Users : call'[u].order = call[u].order
<1>0. /\ master \in [1 .. Clients -> MasterRecords]
      /\ call \in [Users -> CallRecords]
  BY DEF TInv, MasterOK, TasksOK
<1>1. CASE UNCHANGED <<master, call>>
  BY <1>1
<1>2. CASE IdleRequest(c)
  <2>1. master' = [master EXCEPT ![c] = Retried(master[c])]
    BY <1>2 DEF IdleRequest
  <2>2. /\ Retried(master[c]).cmd = master[c].cmd /\ Retried(master[c]).task = master[c].task
        /\ Retried(master[c]).order = master[c].order
    BY <1>0 DEF MasterRecords, Retried
  <2>3. \A d \in 1 .. Clients :
          /\ master'[d].cmd = master[d].cmd /\ master'[d].task = master[d].task
          /\ master'[d].order = master[d].order
    BY <1>0, <2>1, <2>2
  <2> DEFINE t == master[c].task
  <2>4. \E n : call' = [call EXCEPT ![t].attempts = n]
    BY <1>2 DEF IdleRequest, Attempt
  <2> HIDE DEF t
  <2>5. \A u \in Users : call'[u].order = call[u].order
    BY <1>0, <2>4 DEF CallRecords
  <2> QED BY <2>3, <2>5
<1>3. CASE WaitingWrong(c)
  <2>1. /\ call' = call
        /\ master' = master \/ \E code : master' = [master EXCEPT ![c].code = code]
    BY <1>3 DEF WaitingWrong, tasks
  <2>2. ASSUME NEW code, master' = [master EXCEPT ![c].code = code], NEW d \in 1 .. Clients
        PROVE  /\ master'[d].cmd = master[d].cmd /\ master'[d].task = master[d].task
               /\ master'[d].order = master[d].order
    BY <1>0, <2>2 DEF MasterRecords
  <2> QED BY <2>1, <2>2
<1> QED
  BY <1>1, <1>2, <1>3 DEF WholeCall, IdleWithout, Cancelled, Routing, SendMsg, SendMsgLater,
                          Answered, WaitingLonger, tasks

\* What a user does to its own master, no other user sees.
LEMMA MasterOfOther ==
  ASSUME TInv, NEW u \in Users, NEW v \in Users, v # u,
         NEW r, master' = [master EXCEPT ![MasterOf[u]] = r]
  PROVE  master'[MasterOf[v]] = master[MasterOf[v]]
<1>1. MasterOf[v] # MasterOf[u] /\ MasterOf[v] \in 1 .. Clients
  BY OneUserEach, GatewayAssumption
<1>2. master \in [1 .. Clients -> MasterRecords]
  BY DEF TInv, MasterOK
<1> QED BY <1>1, <1>2

\* What a user owes and is owed where it is then.
LEMMA HandshakeThen ==
  ASSUME NEW u \in Users, NEW p, pc'[u] = p,
         p \in {"fill", "command"} => ~master'[MasterOf[u]].cmd,
         p \in {"command", "wait", "asleep"}
           => master'[MasterOf[u]].task = u /\ master'[MasterOf[u]].order = call'[u].order,
         Pending(u)' <=> (p = "asleep" \/ (p = "wait" /\ ~event'[u])),
         event'[u] => p \in {"wait", "clear"}
  PROVE  Handshake(u)'
<1>1. NotGiven(u)' /\ FilledIn(u)'
  BY DEF NotGiven, FilledIn
<1>2. WaitsJustWhenPending(u)'
  BY DEF WaitsJustWhenPending, StillWaits
<1>3. EventInTime(u)'
  BY DEF EventInTime
<1> QED BY <1>1, <1>2, <1>3 DEF Handshake

\* A step of a user keeps its handshake with its master, and those of the others.
LEMMA UserKeepsHandshake ==
  ASSUME TInv, WInv, NEW u \in Users, Start(u) \/ User(u)
  PROVE  \A v \in Users : Handshake(v)'
<1> DEFINE c == MasterOf[u]
<1>0. /\ pc \in [Users -> {"idle", "check", "fill", "command", "wait", "asleep", "clear"}]
      /\ event \in [Users -> BOOLEAN] /\ call \in [Users -> CallRecords]
      /\ master \in [1 .. Clients -> MasterRecords]
      /\ c \in 1 .. Clients /\ \A v \in Users : MasterOf[v] \in 1 .. Clients
  BY GatewayAssumption DEF TInv, TasksOK, MasterOK
<1>1. turn' = turn
  BY DEF Start, User, Check, Fill, Command, WaitEvent, Return
<1>2. \A d : Woken(d)' <=> Woken(d)
  BY <1>1 DEF Woken
<1>3. ASSUME NEW v \in Users, v # u PROVE Handshake(v)'
  <2>1. master' = master \/ \E r : master' = [master EXCEPT ![c] = r]
    BY DEF Start, User, Check, Fill, Command, WaitEvent, Return
  <2>2. master'[MasterOf[v]] = master[MasterOf[v]]
    BY <1>3, <2>1, MasterOfOther
  <2>3. pc' = pc \/ \E p : pc' = [pc EXCEPT ![u] = p]
    BY DEF Start, User, Check, Fill, Command, WaitEvent, Return, Leave
  <2>4. event' = event \/ \E e : event' = [event EXCEPT ![u] = e]
    BY DEF Start, User, Check, Fill, Command, WaitEvent, Return
  <2>5. call' = call \/ \E a : call' = [call EXCEPT ![u] = a]
    BY DEF Start, User, Check, Fill, Command, WaitEvent, Return, Leave
  <2>6. pc'[v] = pc[v] /\ event'[v] = event[v] /\ call'[v] = call[v]
    BY <1>0, <1>3, <2>3, <2>4, <2>5
  <2> QED BY <1>2, <2>2, <2>6, HandshakeFrame DEF WInv
<1>4. Handshake(u)
  BY DEF WInv
<1>5. ASSUME Start(u) PROVE Handshake(u)'
  <2>1. /\ pc[u] = "idle" /\ pc' = [pc EXCEPT ![u] = "check"] /\ event' = event
        /\ master' = master
    BY <1>5 DEF Start
  <2>2. pc'[u] = "check"
    BY <1>0, <2>1
  <2>3. ~Pending(u)' /\ ~event[u]
    BY <1>2, <1>4, <2>1 DEF Handshake, WaitsJustWhenPending, StillWaits, Pending, EventInTime
  <2>4. ~event'[u]
    BY <2>1, <2>3
  <2> QED BY <2>2, <2>3, <2>4, HandshakeThen
<1>6. ASSUME Leave(u), master' = master, ~event'[u], pc[u] \in {"check", "clear"}
      PROVE  Handshake(u)'
  <2>1. pc'[u] = "idle"
    BY <1>0, <1>6 DEF Leave
  <2>2. ~Pending(u)'
    BY <1>2, <1>4, <1>6 DEF Handshake, WaitsJustWhenPending, StillWaits, Pending
  <2> QED BY <1>6, <2>1, <2>2, HandshakeThen
<1>7. ASSUME Check(u) PROVE Handshake(u)'
  <2>1. pc[u] = "check" /\ event' = event /\ master' = master /\ ~event[u]
    BY <1>4, <1>7 DEF Check, Handshake, EventInTime
  <2>2. CASE Leave(u)
    <3>1. ~event'[u]
      BY <2>1
    <3> QED BY <1>6, <2>1, <2>2, <3>1
  <2>3. CASE pc' = [pc EXCEPT ![u] = "fill"] /\ ~master[c].cmd
    <3>1. pc'[u] = "fill" /\ ~Pending(u)'
      BY <1>0, <2>1, <2>3 DEF Pending
    <3>2. ~event'[u] /\ ~master'[c].cmd
      BY <2>1, <2>3
    <3> QED BY <3>1, <3>2, HandshakeThen
  <2> QED BY <1>7, <2>2, <2>3 DEF Check
<1>8. ASSUME Fill(u) PROVE Handshake(u)'
  <2>1. /\ pc[u] = "fill" /\ pc' = [pc EXCEPT ![u] = "command"] /\ event' = event
        /\ call' = call /\ master' = [master EXCEPT ![c] = Filled(master[c], u)]
    BY <1>8 DEF Fill
  <2>2. ~event[u] /\ ~master[c].cmd
    BY <1>4, <2>1 DEF Handshake, EventInTime, NotGiven
  <2>3. /\ Filled(master[c], u).cmd = master[c].cmd /\ Filled(master[c], u).task = u
        /\ Filled(master[c], u).order = call[u].order
    <3>1. master[c] \in MasterRecords
      BY <1>0
    <3> QED BY <3>1 DEF MasterRecords, Filled
  <2>4. master'[c] = Filled(master[c], u) /\ pc'[u] = "command"
    BY <1>0, <2>1
  <2>5. ~event'[u] /\ call'[u] = call[u]
    BY <2>1, <2>2
  <2>6. ~master'[c].cmd /\ master'[c].task = u /\ master'[c].order = call'[u].order
    BY <2>2, <2>3, <2>4, <2>5
  <2>7. ~Pending(u)'
    BY <2>6 DEF Pending
  <2> QED BY <2>4, <2>5, <2>6, <2>7, HandshakeThen
<1>9. ASSUME Command(u) PROVE Handshake(u)'
  <2>1. /\ pc[u] = "command" /\ pc' = [pc EXCEPT ![u] = "wait"] /\ event' = event
        /\ call' = call /\ master' = [master EXCEPT ![c].cmd = TRUE]
    BY <1>9 DEF Command
  <2>2. /\ ~event[u] /\ ~master[c].cmd /\ master[c].task = u
        /\ master[c].order = call[u].order
    BY <1>4, <2>1 DEF Handshake, EventInTime, NotGiven, FilledIn
  <2>3. ~Woken(c)
    BY <1>0, <2>2 DEF WInv
  <2>4. /\ master'[c].cmd /\ master'[c].task = master[c].task
        /\ master'[c].order = master[c].order /\ pc'[u] = "wait"
    <3>1. master[c] \in MasterRecords
      BY <1>0
    <3> QED BY <1>0, <2>1, <3>1 DEF MasterRecords
  <2>5. ~event'[u] /\ call'[u] = call[u]
    BY <2>1, <2>2
  <2>6. master'[c].task = u /\ master'[c].order = call'[u].order
    BY <2>2, <2>4, <2>5
  <2>7. Pending(u)'
    BY <1>2, <2>3, <2>4 DEF Pending
  <2> QED BY <2>4, <2>5, <2>6, <2>7, HandshakeThen
<1>10. ASSUME WaitEvent(u) PROVE Handshake(u)'
  <2>1. /\ pc[u] = "wait" /\ event' = event /\ call' = call /\ master' = master
        /\ IF event[u] THEN pc' = [pc EXCEPT ![u] = "clear"]
           ELSE pc' = [pc EXCEPT ![u] = "asleep"]
    BY <1>10 DEF WaitEvent
  <2>2. pc'[u] = IF event[u] THEN "clear" ELSE "asleep"
    BY <1>0, <2>1
  <2>3. master'[c].task = u /\ master'[c].order = call'[u].order
    BY <1>4, <2>1 DEF Handshake, FilledIn
  <2>4. Pending(u)' <=> Pending(u)
    BY <1>2, <2>1 DEF Pending
  <2>5. Pending(u) <=> ~event[u]
    BY <1>4, <2>1 DEF Handshake, WaitsJustWhenPending, StillWaits
  <2>6. CASE event[u]
    BY <2>2, <2>3, <2>4, <2>5, <2>6, HandshakeThen
  <2>7. CASE ~event[u]
    <3>1. ~event'[u]
      BY <2>1, <2>7
    <3> QED BY <2>2, <2>3, <2>4, <2>5, <2>7, <3>1, HandshakeThen
  <2> QED BY <2>6, <2>7
<1>11. ASSUME Return(u) PROVE Handshake(u)'
  <2>1. /\ pc[u] = "clear" /\ event' = [event EXCEPT ![u] = FALSE] /\ master' = master
        /\ Leave(u)
    BY <1>11 DEF Return
  <2>2. ~event'[u]
    BY <1>0, <2>1
  <2> QED BY <1>6, <2>1, <2>2
<1>12. Handshake(u)'
  BY <1>5, <1>7, <1>8, <1>9, <1>10, <1>11 DEF User
<1> QED BY <1>3, <1>12

\* A call of gatewayClientProcess keeps the handshakes; the second half of one takes the
\* command back from a user that has been woken.
LEMMA GatewayKeepsHandshake ==
  ASSUME TInv, WInv, NEW c \in 1 .. Clients, WholeCall(c)
  PROVE  \A v \in Users : Handshake(v)'
<1> SUFFICES ASSUME NEW v \in Users PROVE Handshake(v)'
  OBVIOUS
<1> DEFINE d == MasterOf[v]
<1>0. /\ master \in [1 .. Clients -> MasterRecords] /\ d \in 1 .. Clients
      /\ turn.client = c /\ turn'.at = "process" /\ pc' = pc /\ event' = event
  BY GatewayAssumption, WholeCallEffect DEF TInv, MasterOK
<1>1. ~Woken(d)'
  BY <1>0 DEF Woken
<1>2. CASE turn.at = "process"
  <2>1. ~Woken(d)
    BY <1>2 DEF Woken
  <2>2. /\ master'[d].cmd = master[d].cmd /\ master'[d].task = master[d].task
        /\ master'[d].order = master[d].order /\ call'[v].order = call[v].order
    BY <1>0, <1>2, CommandsLeft
  <2> QED BY <1>0, <1>1, <2>1, <2>2, HandshakeFrame DEF WInv
<1>3. CASE turn.at # "process"
  <2>1. master' = [master EXCEPT ![c].cmd = FALSE] /\ call' = call
    BY <1>3, WholeCallEffect DEF Cancelled, Answered, tasks
  <2>2. CASE d = c
    <3>1. Woken(d)
      BY <1>0, <1>3, <2>2 DEF Woken
    <3>2. ~StillWaits(v)
      BY <3>1 DEF WInv, Handshake, WaitsJustWhenPending, Pending
    <3>3. /\ ~master'[d].cmd /\ master'[d].task = master[d].task
          /\ master'[d].order = master[d].order
      <4>1. master[c] \in MasterRecords
        BY <1>0
      <4> QED BY <1>0, <2>1, <2>2, <4>1 DEF MasterRecords
    <3> QED BY <1>0, <2>1, <3>2, <3>3
            DEF WInv, Handshake, NotGiven, FilledIn, WaitsJustWhenPending, StillWaits,
                Pending, EventInTime
  <2>3. CASE d # c
    <3>1. ~Woken(d) /\ master'[d] = master[d]
      BY <1>0, <2>1, <2>3 DEF Woken
    <3> QED BY <1>0, <1>1, <2>1, <3>1, HandshakeFrame DEF WInv
  <2> QED BY <2>2, <2>3
<1> QED BY <1>2, <1>3

\* The event reaches the user that the command is from, and none waits that is not owed one.
LEMMA WakingKeepsHandshake ==
  ASSUME TInv, WInv, NEW c \in 1 .. Clients, IdleCancel(c) \/ WaitingRight(c)
  PROVE  \A v \in Users : Handshake(v)'
<1>0. /\ pc \in [Users -> {"idle", "check", "fill", "command", "wait", "asleep", "clear"}]
      /\ event \in [Users -> BOOLEAN] /\ call \in [Users -> CallRecords]
      /\ master \in [1 .. Clients -> MasterRecords]
      /\ \A v \in Users : MasterOf[v] \in 1 .. Clients
  BY GatewayAssumption DEF TInv, TasksOK, MasterOK
<1>1. PICK u \in Users :
        /\ MasterOf[u] = c /\ master[c].task = u /\ master[c].order = call[u].order
        /\ StillWaits(u) /\ ~event[u] /\ pc[u] \in {"wait", "asleep"}
        /\ SetEvent(u)
  BY CancelWakes
<1>2. /\ turn.client = c /\ turn.at = "process" /\ turn'.at # "process" /\ turn'.client = c
  BY CancelWakes
<1>3. \A d : (Woken(d)' <=> d = c) /\ ~Woken(d)
  BY <1>2 DEF Woken
<1>4. ASSUME NEW d \in 1 .. Clients
      PROVE  /\ master'[d].cmd = master[d].cmd /\ master'[d].task = master[d].task
             /\ master'[d].order = master[d].order
  <2>1. PICK code : master' = [master EXCEPT ![c].code = code]
    BY DEF IdleCancel, WaitingRight
  <2>2. master[d] \in MasterRecords
    BY <1>0
  <2> QED BY <1>0, <2>1, <2>2 DEF MasterRecords
<1>5. \A v \in Users : call'[v].order = call[v].order
  <2>1. call' = call \/ \E m : call' = [call EXCEPT ![u].answer = m]
    BY <1>1 DEF IdleCancel, WaitingRight
  <2>2. ASSUME NEW m, call' = [call EXCEPT ![u].answer = m], NEW v \in Users
        PROVE  call'[v].order = call[v].order
    BY <1>0, <2>2 DEF CallRecords
  <2> QED BY <2>1, <2>2
<1>6. \/ pc' = [pc EXCEPT ![u] = "clear"] /\ event' = event
      \/ event' = [event EXCEPT ![u] = TRUE] /\ pc' = pc /\ pc[u] = "wait"
  BY <1>1, SetEventEffect
<1>7. ASSUME NEW v \in Users, v # u PROVE Handshake(v)'
  <2>1. pc'[v] = pc[v] /\ event'[v] = event[v]
    BY <1>0, <1>6, <1>7
  <2>2. MasterOf[v] # c /\ MasterOf[v] \in 1 .. Clients
    BY <1>0, <1>1, <1>7, OneUserEach
  <2> QED BY <1>3, <1>4, <1>5, <2>1, <2>2, HandshakeFrame DEF WInv
<1>8. Handshake(u)'
  <2>1. ~Pending(u)'
    BY <1>1, <1>3 DEF Pending
  <2>2. (pc'[u] = "clear" /\ ~event'[u]) \/ (pc'[u] = "wait" /\ event'[u])
    <3>1. CASE pc' = [pc EXCEPT ![u] = "clear"] /\ event' = event
      <4>1. ~event'[u]
        BY <1>1, <3>1
      <4>2. pc'[u] = "clear"
        BY <1>0, <3>1
      <4> QED BY <4>1, <4>2
    <3>2. CASE event' = [event EXCEPT ![u] = TRUE] /\ pc' = pc /\ pc[u] = "wait"
      <4>1. event'[u]
        BY <1>0, <3>2
      <4> QED BY <3>2, <4>1
    <3> QED BY <1>6, <3>1, <3>2
  <2>3. ~StillWaits(u)'
    BY <2>2 DEF StillWaits
  <2>4. master'[c].task = u /\ master'[c].order = call'[u].order
    BY <1>1, <1>4, <1>5
  <2> QED BY <1>1, <2>1, <2>2, <2>3, <2>4
          DEF Handshake, NotGiven, FilledIn, WaitsJustWhenPending, EventInTime
<1> QED BY <1>7, <1>8

\* The handshakes are kept in every step.
LEMMA HandshakesKept ==
  ASSUME TInv, WInv, [Next]_vars
  PROVE  \A v \in Users : Handshake(v)'
<1>1. ASSUME UNCHANGED <<master, tasks>>, \A d : Woken(d)' <=> Woken(d)
      PROVE  \A v \in Users : Handshake(v)'
  <2> SUFFICES ASSUME NEW v \in Users PROVE Handshake(v)'
    OBVIOUS
  <2> QED BY <1>1, HandshakeFrame DEF WInv, tasks
<1>2. CASE Tick
  <2>1. ~IsReady(Gateway)
    BY <1>2, LenProperties DEF Tick, IsReady, TInv, ReadyOK
  <2>2. turn.at = "process" /\ turn'.at = "process"
    BY <1>2, <2>1 DEF WInv, Tick
  <2> QED BY <1>1, <1>2, <2>2 DEF Tick, Woken
<1>3. CASE Remote \/ UNCHANGED vars
  BY <1>1, <1>3 DEF Remote, vars, Woken
<1> QED
  BY <1>2, <1>3, UserKeepsHandshake, GatewayKeepsHandshake, WakingKeepsHandshake
  DEF Next, GatewayStep, WholeCall

\* The commands that masters have, and the gateway's task, in every step.
LEMMA MastersKept ==
  ASSUME TInv, WInv, [Next]_vars
  PROVE  /\ \A d \in 1 .. Clients : Woken(d)' => master'[d].cmd
         /\ \A d \in 1 .. Clients : master'[d].cmd => \E u \in Users : MasterOf[u] = d
         /\ turn'.at # "process" => IsReady(Gateway)'
<1> DEFINE Goal == /\ \A d \in 1 .. Clients : Woken(d)' => master'[d].cmd
                   /\ \A d \in 1 .. Clients : master'[d].cmd => \E u \in Users : MasterOf[u] = d
                   /\ turn'.at # "process" => IsReady(Gateway)'
<1>0. /\ master \in [1 .. Clients -> MasterRecords]
      /\ \A u \in Users : MasterOf[u] \in 1 .. Clients
  BY GatewayAssumption DEF TInv, MasterOK
<1>1. ASSUME master' = master, turn' = turn, IsReady(Gateway) => IsReady(Gateway)'
      PROVE  Goal
  BY <1>1 DEF WInv, Woken
<1>2. ASSUME Tick PROVE Goal
  BY <1>2 DEF Tick, WInv, Woken
<1>3. ASSUME NEW u \in Users, Start(u) \/ User(u) PROVE Goal
  <2>1. turn' = turn
    BY <1>3 DEF Start, User, Check, Fill, Command, WaitEvent, Return
  <2>2. IsReady(Gateway) => IsReady(Gateway)'
    <3>1. \/ ready' = ready \/ ready' = MadeReady(u)
          \/ Running(u) /\ ready' = Tail(ready)
      BY <1>3 DEF Start, User, Check, Fill, Command, WaitEvent, Return, Leave
    <3> QED BY <3>1, GatewayStaysReady
  <2>3. CASE master' = master
    BY <1>1, <2>1, <2>2, <2>3
  <2>4. ASSUME NEW r, master' = [master EXCEPT ![MasterOf[u]] = r],
               master[MasterOf[u]].cmd => r.cmd
        PROVE  Goal
    <3>1. \A d \in 1 .. Clients : master'[d] = IF d = MasterOf[u] THEN r ELSE master[d]
      BY <1>0, <2>4
    <3>2. \A d \in 1 .. Clients : Woken(d)' => master'[d].cmd
      BY <2>1, <2>4, <3>1 DEF WInv, Woken
    <3>3. \A d \in 1 .. Clients : master'[d].cmd => \E v \in Users : MasterOf[v] = d
      BY <3>1 DEF WInv
    <3>4. turn'.at # "process" => IsReady(Gateway)'
      BY <2>1, <2>2 DEF WInv
    <3> QED BY <3>2, <3>3, <3>4
  <2>5. CASE Fill(u)
    <3>1. master' = [master EXCEPT ![MasterOf[u]] = Filled(master[MasterOf[u]], u)]
      BY <2>5 DEF Fill
    <3>2. master[MasterOf[u]] \in MasterRecords
      BY <1>0
    <3>3. Filled(master[MasterOf[u]], u).cmd = master[MasterOf[u]].cmd
      BY <3>2 DEF MasterRecords, Filled
    <3> QED BY <2>4, <3>1, <3>3
  <2>6. CASE Command(u)
    <3> DEFINE r == [master[MasterOf[u]] EXCEPT !.cmd = TRUE]
    <3>1. master' = [master EXCEPT ![MasterOf[u]] = r]
      BY <2>6 DEF Command
    <3>2. master[MasterOf[u]] \in MasterRecords
      BY <1>0
    <3>3. r.cmd
      BY <3>2 DEF MasterRecords
    <3> HIDE DEF r
    <3> QED BY <2>4, <3>1, <3>3
  <2> QED BY <1>3, <2>3, <2>5, <2>6 DEF Start, User, Check, WaitEvent, Return
<1>4. ASSUME NEW c \in 1 .. Clients, WholeCall(c) PROVE Goal
  <2>1. turn'.at = "process"
    BY <1>4, WholeCallEffect
  <2>2. \A d \in 1 .. Clients : master'[d].cmd => master[d].cmd
    <3>1. CASE turn.at = "process"
      BY <1>4, <3>1, CommandsLeft
    <3>2. CASE turn.at # "process"
      <4>1. master' = [master EXCEPT ![c].cmd = FALSE]
        BY <1>4, <3>2, WholeCallEffect DEF Cancelled, Answered
      <4>2. ASSUME NEW d \in 1 .. Clients, master'[d].cmd PROVE master[d].cmd
        <5>1. master[c] \in MasterRecords
          BY <1>0
        <5>2. ~master'[c].cmd
          BY <1>0, <4>1, <5>1 DEF MasterRecords
        <5>3. master'[d] = master[d]
          BY <1>0, <4>1, <4>2, <5>2
        <5> QED BY <4>2, <5>3
      <4> QED BY <4>2
    <3> QED BY <3>1, <3>2
  <2> QED BY <2>1, <2>2 DEF WInv, Woken
<1>5. ASSUME NEW c \in 1 .. Clients, IdleCancel(c) \/ WaitingRight(c) PROVE Goal
  <2>1. /\ Running(Gateway) /\ master[c].cmd /\ turn'.client = c
        /\ \E u \in Users : MasterOf[u] = c /\ StillWaits(u) /\ SetEvent(u)
    BY <1>5, CancelWakes
  <2>2. ASSUME NEW d \in 1 .. Clients PROVE master'[d].cmd = master[d].cmd
    <3>1. PICK code : master' = [master EXCEPT ![c].code = code]
      BY <1>5 DEF IdleCancel, WaitingRight
    <3>2. master[d] \in MasterRecords
      BY <1>0
    <3> QED BY <1>0, <3>1, <3>2 DEF MasterRecords
  <2>3. IsReady(Gateway)'
    <3>1. IsReady(Gateway)
      BY <2>1, RunsReady DEF TInv
    <3>2. PICK u \in Users : StillWaits(u) /\ SetEvent(u)
      BY <2>1
    <3>3. ready' = MadeReady(u) \/ ready' = ready
      BY <3>2, SetEventEffect
    <3> QED BY <3>1, <3>3, GatewayStaysReady
  <2> QED BY <2>1, <2>2, <2>3 DEF WInv, Woken
<1>6. ASSUME Remote \/ UNCHANGED vars PROVE Goal
  BY <1>1, <1>6 DEF Remote, vars, IsReady
<1>7. Goal
  BY <1>2, <1>3, <1>4, <1>5, <1>6 DEF Next, GatewayStep, WholeCall
<1> QED BY <1>7

\* All that is said of users and masters is kept.
LEMMA WakingKept ==
  ASSUME TInv, WInv, [Next]_vars
  PROVE  WInv'
  BY HandshakesKept, MastersKept DEF WInv

-----------------------------------------------------------------------------
(* The retries.                                                            *)

\* What a step leaves alone stays accounted for; a code may become another one
\* that does not say that the slave is silent.
LEMMA RetriesFrame ==
  ASSUME NEW u \in Users, Retries(u), NEW c, c = MasterOf[u],
         pc'[u] = pc[u], event'[u] = event[u], call'[u].attempts = call[u].attempts,
         master'[c].retry = master[c].retry,
         \/ master'[c].code = master[c].code
         \/ master'[c].code # "SLAVE_NOT_RESPOND"
  PROVE  Retries(u)'
<1>1. StillWaits(u)' <=> StillWaits(u)
  BY DEF StillWaits
<1> QED BY <1>1 DEF Retries

\* Nothing is promised to a user that has made no call.
LEMMA RetriesIdle ==
  ASSUME NEW u \in Users, pc'[u] = "idle", ~event'[u]
  PROVE  Retries(u)'
  BY DEF Retries, StillWaits

\* A step of a user keeps its count and those of the others.
LEMMA UserKeepsRetries ==
  ASSUME TInv, WInv, RInv, NEW u \in Users, Start(u) \/ User(u)
  PROVE  \A v \in Users : Retries(v)'
<1> DEFINE c == MasterOf[u]
<1>0. /\ pc \in [Users -> {"idle", "check", "fill", "command", "wait", "asleep", "clear"}]
      /\ event \in [Users -> BOOLEAN] /\ call \in [Users -> CallRecords]
      /\ master \in [1 .. Clients -> MasterRecords]
      /\ c \in 1 .. Clients
  BY GatewayAssumption DEF TInv, TasksOK, MasterOK
<1>1. ASSUME NEW v \in Users, v # u PROVE Retries(v)'
  <2>1. master' = master \/ \E r : master' = [master EXCEPT ![c] = r]
    BY DEF Start, User, Check, Fill, Command, WaitEvent, Return
  <2>2. master'[MasterOf[v]] = master[MasterOf[v]]
    BY <1>1, <2>1, MasterOfOther
  <2>3. pc' = pc \/ \E p : pc' = [pc EXCEPT ![u] = p]
    BY DEF Start, User, Check, Fill, Command, WaitEvent, Return, Leave
  <2>4. event' = event \/ \E e : event' = [event EXCEPT ![u] = e]
    BY DEF Start, User, Check, Fill, Command, WaitEvent, Return
  <2>5. call' = call \/ \E a : call' = [call EXCEPT ![u] = a]
    BY DEF Start, User, Check, Fill, Command, WaitEvent, Return, Leave
  <2>6. pc'[v] = pc[v] /\ event'[v] = event[v] /\ call'[v] = call[v]
    BY <1>0, <1>1, <2>3, <2>4, <2>5
  <2> QED BY <2>2, <2>6, RetriesFrame DEF RInv
<1>2. Retries(u) /\ Handshake(u)
  BY DEF RInv, WInv
<1>3. ASSUME Start(u) PROVE Retries(u)'
  <2>1. PICK o \in Wants[u] : call' = [call EXCEPT ![u] = Call(o)]
    BY <1>3 DEF Start
  <2>2. pc[u] = "idle" /\ pc' = [pc EXCEPT ![u] = "check"] /\ event' = event
    BY <1>3 DEF Start
  <2>3. ~event'[u] /\ pc'[u] = "check"
    BY <1>0, <1>2, <2>2 DEF Handshake, EventInTime
  <2>4. call'[u].attempts = 0
    BY <1>0, <2>1 DEF Call
  <2> QED BY <2>3, <2>4 DEF Retries, StillWaits
<1>4. ASSUME Leave(u), ~event'[u] PROVE Retries(u)'
  <2>1. pc'[u] = "idle"
    BY <1>0, <1>4 DEF Leave
  <2> QED BY <1>4, <2>1, RetriesIdle
<1>5. ASSUME Check(u) PROVE Retries(u)'
  <2>1. pc[u] = "check" /\ event' = event /\ ~event'[u]
    BY <1>2, <1>5 DEF Check, Handshake, EventInTime
  <2>2. ASSUME pc' = [pc EXCEPT ![u] = "fill"], call' = call PROVE Retries(u)'
    <3>1. pc'[u] = "fill"
      BY <1>0, <2>2
    <3>2. call'[u].attempts = 0
      BY <1>2, <2>1, <2>2 DEF Retries
    <3> QED BY <2>1, <3>1, <3>2 DEF Retries, StillWaits
  <2> QED BY <1>4, <1>5, <2>1, <2>2 DEF Check
<1>6. ASSUME Fill(u) PROVE Retries(u)'
  <2>1. /\ pc[u] = "fill" /\ pc' = [pc EXCEPT ![u] = "command"] /\ event' = event
        /\ call' = call /\ master' = [master EXCEPT ![c] = Filled(master[c], u)]
    BY <1>6 DEF Fill
  <2>2. pc'[u] = "command" /\ ~event'[u] /\ master'[c] = Filled(master[c], u)
    BY <1>0, <1>2, <2>1 DEF Handshake, EventInTime
  <2>3. call'[u].attempts = 0
    BY <1>2, <2>1 DEF Retries
  <2>4. Filled(master[c], u).retry = RetryComm /\ Filled(master[c], u).code = "NO_ERROR"
    <3>1. master[c] \in MasterRecords
      BY <1>0
    <3> QED BY <3>1 DEF MasterRecords, Filled
  <2> QED BY <2>2, <2>3, <2>4 DEF Retries, StillWaits
<1>7. ASSUME Command(u) PROVE Retries(u)'
  <2>1. /\ pc[u] = "command" /\ pc' = [pc EXCEPT ![u] = "wait"] /\ event' = event
        /\ call' = call /\ master' = [master EXCEPT ![c].cmd = TRUE]
    BY <1>7 DEF Command
  <2>2. pc'[u] = "wait" /\ ~event'[u]
    BY <1>0, <1>2, <2>1 DEF Handshake, EventInTime
  <2>3. master'[c].retry = master[c].retry /\ master'[c].code = master[c].code
    <3>1. master[c] \in MasterRecords
      BY <1>0
    <3> QED BY <1>0, <2>1, <3>1 DEF MasterRecords
  <2>4. /\ master[c].retry = RetryComm /\ master[c].code # "SLAVE_NOT_RESPOND"
        /\ call'[u].attempts = 0
    BY <1>2, <2>1 DEF Retries
  <2>5. master'[c].retry + call'[u].attempts = RetryComm
    BY <2>3, <2>4, GatewayAssumption
  <2> QED BY <2>2, <2>3, <2>4, <2>5 DEF Retries, StillWaits
<1>8. ASSUME WaitEvent(u) PROVE Retries(u)'
  <2>1. /\ pc[u] = "wait" /\ event' = event /\ call' = call /\ master' = master
        /\ IF event[u] THEN pc' = [pc EXCEPT ![u] = "clear"]
           ELSE pc' = [pc EXCEPT ![u] = "asleep"]
    BY <1>8 DEF WaitEvent
  <2>2. CASE event[u]
    <3>1. pc'[u] = "clear"
      BY <1>0, <2>1, <2>2
    <3> QED BY <1>2, <2>1, <2>2, <3>1 DEF Retries, StillWaits
  <2>3. CASE ~event[u]
    <3>1. pc'[u] = "asleep" /\ ~event'[u] /\ StillWaits(u)
      BY <1>0, <2>1, <2>3 DEF StillWaits
    <3> QED BY <1>2, <2>1, <3>1 DEF Retries
  <2> QED BY <2>2, <2>3
<1>9. ASSUME Return(u) PROVE Retries(u)'
  <2>1. event' = [event EXCEPT ![u] = FALSE] /\ Leave(u)
    BY <1>9 DEF Return
  <2>2. ~event'[u]
    BY <1>0, <2>1
  <2> QED BY <1>4, <2>1, <2>2
<1>10. Retries(u)'
  BY <1>3, <1>5, <1>6, <1>7, <1>8, <1>9 DEF User
<1> QED BY <1>1, <1>10

\* The gateway counts an attempt in the master just when it makes one.
LEMMA GatewayKeepsRetries ==
  ASSUME TInv, WInv, RInv, NEW c \in 1 .. Clients, WholeCall(c)
  PROVE  \A v \in Users : Retries(v)'
<1>0. /\ call \in [Users -> CallRecords] /\ master \in [1 .. Clients -> MasterRecords]
      /\ pc' = pc /\ event' = event /\ \A v \in Users : MasterOf[v] \in 1 .. Clients
  BY GatewayAssumption, WholeCallEffect DEF TInv, TasksOK, MasterOK
<1>1. ASSUME call' = call,
             \A d \in 1 .. Clients :
               /\ master'[d].retry = master[d].retry
               /\ \/ master'[d].code = master[d].code
                  \/ master'[d].code # "SLAVE_NOT_RESPOND",
             NEW v \in Users
      PROVE  Retries(v)'
  BY <1>0, <1>1, RetriesFrame DEF RInv
<1>2. CASE IdleRequest(c)
  <2>1. /\ turn.at = "process" /\ master[c].cmd /\ master[c].retry > 0
        /\ master' = [master EXCEPT ![c] = Retried(master[c])] /\ Attempt(master[c])
    BY <1>2 DEF IdleRequest, Processes
  <2>2. ~Woken(c)
    BY <2>1 DEF Woken
  <2>3. PICK u \in Users : MasterOf[u] = c /\ master[c].task = u /\ StillWaits(u) /\ ~event[u]
                           /\ pc[u] \in {"wait", "asleep"}
    BY <2>1, <2>2, WakesUser
  <2> DEFINE n == call[u].attempts
             k == master[c].retry
  <2>4. k \in Nat /\ n \in Nat /\ k + n = RetryComm /\ master[c].code # "SLAVE_NOT_RESPOND"
    <3>1. master[c] \in MasterRecords /\ call[u] \in CallRecords
      BY <1>0
    <3>2. k \in 0 .. RetryComm /\ n \in 0 .. RetryComm
      BY <3>1 DEF MasterRecords, CallRecords
    <3> QED BY <2>3, <3>2 DEF RInv, Retries
  <2>5. call' = [call EXCEPT ![u].attempts = n + 1]
    <3>1. call' = [call EXCEPT ![u].attempts = IF n < RetryComm THEN n + 1 ELSE n]
      BY <2>1, <2>3 DEF Attempt
    <3>2. n < RetryComm
      BY SMTT(30), <2>1, <2>4, GatewayAssumption
    <3> QED BY <3>1, <3>2
  <2>6. /\ Retried(master[c]).retry = k - 1 /\ Retried(master[c]).code = master[c].code
    <3>1. master[c] \in MasterRecords
      BY <1>0
    <3> QED BY <3>1 DEF MasterRecords, Retried
  <2>7. ASSUME NEW v \in Users, v # u PROVE Retries(v)'
    <3>1. MasterOf[v] # c
      BY <2>3, <2>7, OneUserEach
    <3>2. master'[MasterOf[v]] = master[MasterOf[v]] /\ call'[v] = call[v]
      BY <1>0, <2>1, <2>5, <2>7, <3>1
    <3> QED BY <1>0, <3>2, RetriesFrame DEF RInv
  <2>8. Retries(u)'
    <3>1. master'[c] = Retried(master[c])
      BY <1>0, <2>1
    <3>2. call'[u].attempts = n + 1
      <4>1. call[u] \in CallRecords
        BY <1>0
      <4> QED BY <1>0, <2>5, <4>1 DEF CallRecords
    <3>3. master'[c].retry + call'[u].attempts = RetryComm
      BY <2>4, <2>6, <3>1, <3>2
    <3>4. master'[c].code # "SLAVE_NOT_RESPOND"
      BY <2>4, <2>6, <3>1
    <3> QED BY <1>0, <2>3, <3>3, <3>4 DEF Retries
  <2> QED BY <2>7, <2>8
<1>3. CASE WaitingWrong(c)
  <2>1. /\ call' = call
        /\ \/ master' = master
           \/ \E msg : master' = [master EXCEPT ![c].code = Outcome(master[c], msg)]
    BY <1>3 DEF WaitingWrong, tasks
  <2>2. ASSUME NEW msg, master' = [master EXCEPT ![c].code = Outcome(master[c], msg)],
               NEW d \in 1 .. Clients
        PROVE  /\ master'[d].retry = master[d].retry
               /\ \/ master'[d].code = master[d].code
                  \/ master'[d].code # "SLAVE_NOT_RESPOND"
    <3>1. master[d] \in MasterRecords /\ Outcome(master[c], msg) # "SLAVE_NOT_RESPOND"
      BY <1>0, OutcomeCodes
    <3> QED BY <1>0, <2>2, <3>1 DEF MasterRecords
  <2> QED BY <1>1, <2>1, <2>2
<1>4. CASE Cancelled(c) \/ Answered(c)
  <2>1. call' = call /\ master' = [master EXCEPT ![c].cmd = FALSE]
    BY <1>4 DEF Cancelled, Answered, tasks
  <2>2. ASSUME NEW d \in 1 .. Clients
        PROVE  master'[d].retry = master[d].retry /\ master'[d].code = master[d].code
    <3>1. master[d] \in MasterRecords
      BY <1>0
    <3> QED BY <1>0, <2>1, <3>1 DEF MasterRecords
  <2> QED BY <1>1, <2>1, <2>2
<1>5. CASE call' = call /\ master' = master
  BY <1>1, <1>5
<1> QED
  BY <1>2, <1>3, <1>4, <1>5
  DEF WholeCall, IdleWithout, Routing, SendMsg, SendMsgLater, WaitingLonger, tasks

\* A user is woken with the code for a silent slave only when no retry is left.
LEMMA WakingKeepsRetries ==
  ASSUME TInv, WInv, RInv, NEW c \in 1 .. Clients, IdleCancel(c) \/ WaitingRight(c)
  PROVE  \A v \in Users : Retries(v)'
<1>0. /\ pc \in [Users -> {"idle", "check", "fill", "command", "wait", "asleep", "clear"}]
      /\ event \in [Users -> BOOLEAN] /\ call \in [Users -> CallRecords]
      /\ master \in [1 .. Clients -> MasterRecords]
      /\ \A v \in Users : MasterOf[v] \in 1 .. Clients
  BY GatewayAssumption DEF TInv, TasksOK, MasterOK
<1>1. PICK u \in Users :
        /\ MasterOf[u] = c /\ master[c].task = u
        /\ StillWaits(u) /\ ~event[u] /\ pc[u] \in {"wait", "asleep"}
        /\ SetEvent(u)
  BY CancelWakes
<1>2. \/ pc' = [pc EXCEPT ![u] = "clear"] /\ event' = event
      \/ event' = [event EXCEPT ![u] = TRUE] /\ pc' = pc /\ pc[u] = "wait"
  BY <1>1, SetEventEffect
<1>3. \A v \in Users : call'[v].attempts = call[v].attempts
  <2>1. call' = call \/ \E m : call' = [call EXCEPT ![u].answer = m]
    BY <1>1 DEF IdleCancel, WaitingRight
  <2>2. ASSUME NEW m, call' = [call EXCEPT ![u].answer = m], NEW v \in Users
        PROVE  call'[v].attempts = call[v].attempts
    BY <1>0, <2>2 DEF CallRecords
  <2> QED BY <2>1, <2>2
<1>4. ASSUME NEW v \in Users, v # u PROVE Retries(v)'
  <2>1. pc'[v] = pc[v] /\ event'[v] = event[v]
    BY <1>0, <1>2, <1>4
  <2>2. MasterOf[v] # c
    BY <1>1, <1>4, OneUserEach
  <2>3. PICK code : master' = [master EXCEPT ![c].code = code]
    BY DEF IdleCancel, WaitingRight
  <2>4. master'[MasterOf[v]] = master[MasterOf[v]]
    BY <1>0, <2>2, <2>3
  <2> QED BY <1>3, <1>4, <2>1, <2>4, RetriesFrame DEF RInv
<1>5. call[u].attempts = RetryComm \/ master'[c].code # "SLAVE_NOT_RESPOND"
  <2>0. master[c] \in MasterRecords /\ call[u] \in CallRecords
    BY <1>0
  <2>1. CASE IdleCancel(c)
    <3>1. master[c].retry = 0
      BY <2>1 DEF IdleCancel
    <3>2. master[c].retry + call[u].attempts = RetryComm
      BY <1>1 DEF RInv, Retries
    <3>3. call[u].attempts \in 0 .. RetryComm
      BY <2>0 DEF CallRecords
    <3> QED BY <3>1, <3>2, <3>3
  <2>2. CASE WaitingRight(c)
    <3>1. master' = [master EXCEPT ![c].code = "NO_ERROR"]
      BY <2>2 DEF WaitingRight
    <3>2. master'[c].code = "NO_ERROR"
      BY <1>0, <2>0, <3>1 DEF MasterRecords
    <3> QED BY <3>2
  <2> QED BY <2>1, <2>2
<1>6. Retries(u)'
  <2>1. (pc'[u] = "clear" /\ ~event'[u]) \/ (pc'[u] = "wait" /\ event'[u])
    <3>1. CASE pc' = [pc EXCEPT ![u] = "clear"] /\ event' = event
      <4>1. pc'[u] = "clear"
        BY <1>0, <3>1
      <4>2. ~event'[u]
        BY <1>1, <3>1
      <4> QED BY <4>1, <4>2
    <3>2. CASE event' = [event EXCEPT ![u] = TRUE] /\ pc' = pc /\ pc[u] = "wait"
      <4>1. event'[u]
        BY <1>0, <3>2
      <4> QED BY <3>2, <4>1
    <3> QED BY <1>2, <3>1, <3>2
  <2>2. ~StillWaits(u)'
    BY <2>1 DEF StillWaits
  <2>3. pc'[u] \notin {"check", "fill", "command"}
    BY <2>1
  <2>4. master'[c].code = "SLAVE_NOT_RESPOND" => call'[u].attempts = RetryComm
    BY <1>3, <1>5
  <2> QED BY <1>1, <2>2, <2>3, <2>4 DEF Retries
<1> QED BY <1>4, <1>6

\* The counts are kept in every step.
LEMMA RetriesKept ==
  ASSUME TInv, WInv, RInv, [Next]_vars
  PROVE  RInv'
<1>1. ASSUME UNCHANGED <<master, tasks>>, NEW v \in Users PROVE Retries(v)'
  BY <1>1, RetriesFrame DEF RInv, tasks
<1>2. CASE Tick \/ Remote \/ UNCHANGED vars
  BY <1>1, <1>2 DEF Tick, Remote, vars, RInv
<1>3. CASE \E u \in Users : Start(u) \/ User(u)
  BY <1>3, UserKeepsRetries DEF RInv
<1>4. CASE GatewayStep
  BY <1>4, GatewayKeepsRetries, WakingKeepsRetries DEF RInv, GatewayStep, WholeCall
<1> QED BY <1>2, <1>3, <1>4 DEF Next

-----------------------------------------------------------------------------
(* What the transport makes of the pieces of an answer.                    *)

\* The sequence s is the pieces of the frame of m after the first i, up to the
\* one with number j.
Part(s, m, i, j) ==
  Len(s) = j - i /\ \A x \in 1 .. j - i : s[x].msg = m /\ s[x].place = i + x

\* A frame has two pieces, or as many as the answer to a read.
LEMMA PiecesBounds ==
  ASSUME NEW m
  PROVE  Pieces(m) \in Nat /\ 2 <= Pieces(m) /\ Pieces(m) <= ReadPieces
  BY AsciiAssumption DEF Pieces

\* What is a maximum is the one that Max chooses.
LEMMA MaxIs ==
  ASSUME NEW S, S \subseteq Int, NEW x \in S, \A y \in S : y <= x
  PROVE  Max(S) = x
<1>1. \A z \in S : (\A y \in S : z >= y) <=> z = x
  OBVIOUS
<1> QED BY <1>1 DEF Max

\* The transport waits for the last piece of a frame.
LEMMA NotComplete ==
  ASSUME NEW m \in Messages, NEW b \in Seq(FramePieces), NEW j \in Nat,
         Part(b, m, 0, j), j < Pieces(m)
  PROVE  CheckCompleteMsg(b) = 0
<1>1. Len(b) = j /\ DOMAIN b = 1 .. j
  BY LenProperties DEF Part
<1>2. \A i \in 1 .. j : ~IsEnd(b[i])
  <2>1. ASSUME NEW i \in 1 .. j PROVE b[i].msg = m /\ b[i].place = i
    BY DEF Part
  <2> QED BY <2>1, PiecesBounds DEF IsEnd
<1>3. {i \in DOMAIN b : /\ IsStart(b[1]) /\ IsEnd(b[i])
                        /\ i * PieceLength <= Int8(Len(b) * PieceLength)} = {}
  BY <1>1, <1>2
<1> QED BY <1>3 DEF CheckCompleteMsg

\* It finds the message in a buffer with all of its pieces.
LEMMA Complete ==
  ASSUME LineSuits, NEW m \in Messages, NEW b \in Seq(FramePieces),
         Part(b, m, 0, Pieces(m))
  PROVE  /\ CheckCompleteMsg(b) = Pieces(m) /\ b[1].msg = m
         /\ CheckLRC(b, Pieces(m))
<1> DEFINE p == Pieces(m)
<1>0. p \in Nat /\ 2 <= p /\ p <= ReadPieces
  BY PiecesBounds
<1>1. Len(b) = p /\ DOMAIN b = 1 .. p
  BY <1>0, LenProperties DEF Part
<1>2. \A i \in 1 .. p : b[i].msg = m /\ b[i].place = i
  BY <1>0 DEF Part
<1>3. Int8(Len(b) * PieceLength) = p * PieceLength
  <2>1. p * PieceLength \in Nat
    BY <1>0, AsciiAssumption
  <2>2. p * PieceLength <= 127
    <3>1. (ReadPieces - p) * PieceLength >= 0
      BY <1>0, AsciiAssumption
    <3>2. ReadPieces * PieceLength = p * PieceLength + (ReadPieces - p) * PieceLength
      BY <1>0, AsciiAssumption
    <3> QED BY <2>1, <3>1, <3>2, <1>0, AsciiAssumption DEF LineSuits
  <2> DEFINE x == p * PieceLength
  <2>3. ((x + 128) % 256) - 128 = x
    <3> HIDE DEF x
    <3>1. x \in Nat /\ x <= 127
      BY <2>1, <2>2 DEF x
    <3> QED BY <3>1
  <2> QED BY <1>1, <2>3 DEF Int8
<1>4. IsStart(b[1]) /\ \A i \in 1 .. p : IsEnd(b[i]) <=> i = p
  BY <1>0, <1>2 DEF IsStart, IsEnd
<1> DEFINE ends == {i \in DOMAIN b : /\ IsStart(b[1]) /\ IsEnd(b[i])
                                     /\ i * PieceLength <= Int8(Len(b) * PieceLength)}
<1>5. ends = {p, p}
  <2>1. \A i \in ends : i = p
    BY <1>1, <1>4
  <2>2. p * PieceLength <= Int8(Len(b) * PieceLength)
    <3>1. p * PieceLength \in Nat
      BY <1>0, AsciiAssumption
    <3> QED BY <1>3, <3>1
  <2>3. p \in ends
    BY <1>0, <1>1, <1>4, <2>2
  <2> QED BY <2>1, <2>3
<1>6. CheckCompleteMsg(b) = p
  <2>1. Min({p, p}) = p
    BY <1>0, OfTwo
  <2> HIDE DEF p
  <2>2. ends # {} /\ Min(ends) = p
    BY <1>5, <2>1
  <2>3. CheckCompleteMsg(b) = IF ends = {} THEN 0 ELSE Min(ends)
    BY DEF CheckCompleteMsg
  <2> QED BY <2>2, <2>3
<1>7. SubSeq(b, 1, p) = Frame(m)
  <2>1. SubSeq(b, 1, p) = b
    BY <1>1, SubSeqFull
  <2>2. /\ Frame(m) \in Seq(FramePieces) /\ Len(Frame(m)) = p
        /\ \A i \in 1 .. p : Frame(m)[i] = [msg |-> m, place |-> i]
    BY FrameIsSequence DEF Frame
  <2>3. ASSUME NEW i \in 1 .. p PROVE b[i] = [msg |-> m, place |-> i]
    <3>1. b[i] \in FramePieces
      BY <1>1, ElementOfSeq
    <3> QED BY <1>2, <3>1 DEF FramePieces
  <2> QED BY <1>1, <2>1, <2>2, <2>3, SeqEqual
<1>8. b[1].msg = m
  BY <1>0, <1>2
<1> QED BY <1>6, <1>7, <1>8 DEF CheckLRC

\* The buffer b has the first k pieces of the answer r to m; before the first one
\* comes, a piece of an earlier message, over which the request was made, may be in
\* its place.
Holds(b, m, r, k) ==
  IF k = 0 THEN \E j \in {0, 1} : Part(b, m, 0, j) ELSE Part(b, r, 0, k)

\* What an earlier message has left goes when the first piece of an answer comes;
\* the other pieces join the ones that are there.
LEMMA Assembled ==
  ASSUME NEW m \in Messages, NEW r \in Messages, NEW k \in Nat, NEW d \in Nat \ {0},
         NEW b \in Seq(FramePieces), NEW read \in Seq(FramePieces), Part(read, r, k, k + d),
         Holds(b, m, r, k)
  PROVE  Part(FromStart(b \o read), r, 0, k + d)
<1> DEFINE s == b \o read
           starts == {i \in DOMAIN s : IsStart(s[i])}
<1>1. Len(b) \in Nat /\ Len(read) = d
  BY LenProperties DEF Part
<1>2. /\ s \in Seq(FramePieces) /\ Len(s) = Len(b) + d /\ DOMAIN s = 1 .. Len(b) + d
      /\ \A i \in 1 .. Len(b) : s[i] = b[i]
      /\ \A i \in 1 .. d : s[Len(b) + i] = read[i]
  <2>1. /\ s \in Seq(FramePieces) /\ Len(s) = Len(b) + d
        /\ \A i \in 1 .. Len(b) + d :
             s[i] = IF i <= Len(b) THEN b[i] ELSE read[i - Len(b)]
    BY <1>1, ConcatProperties
  <2>2. DOMAIN s = 1 .. Len(b) + d
    BY <2>1, LenProperties
  <2> HIDE DEF s
  <2>3. ASSUME NEW i \in 1 .. d PROVE s[Len(b) + i] = read[i]
    <3>1. /\ Len(b) + i \in 1 .. Len(b) + d /\ ~ (Len(b) + i <= Len(b))
          /\ Len(b) + i - Len(b) = i
      BY <1>1
    <3> QED BY <2>1, <3>1
  <2>4. ASSUME NEW i \in 1 .. Len(b) PROVE s[i] = b[i]
    BY <1>1, <2>1
  <2> QED BY <2>1, <2>2, <2>3, <2>4
<1>3. \A i \in 1 .. d : read[i].msg = r /\ read[i].place = k + i
  BY DEF Part
<1>4. CASE k = 0
  <2>1. PICK j \in {0, 1} : Part(b, m, 0, j)
    BY <1>4 DEF Holds
  <2>2. Len(b) = j
    BY <2>1 DEF Part
  <2>3. s[j + 1].place = 1 /\ \A i \in 2 .. d : s[j + i].place # 1
    <3> HIDE DEF s
    <3>1. ASSUME NEW i \in 1 .. d PROVE s[j + i].place = i
      <4>1. s[j + i] = read[i]
        BY <1>2, <2>2
      <4>2. k + i = i
        BY <1>4
      <4> QED BY <1>3, <4>1, <4>2
    <3>2. 1 \in 1 .. d
      OBVIOUS
    <3>3. s[j + 1].place = 1
      BY <3>1, <3>2
    <3>4. \A i \in 2 .. d : s[j + i].place # 1
      <4>1. \A i \in 2 .. d : i \in 1 .. d /\ i # 1
        OBVIOUS
      <4> QED BY <3>1, <4>1
    <3> QED BY <3>3, <3>4
  <2>4. j + 1 \in starts
    BY <1>2, <2>2, <2>3 DEF IsStart
  <2>5. ASSUME NEW i \in starts PROVE i <= j + 1
    <3>1. i \in 1 .. j + d /\ s[i].place = 1
      BY <1>2, <2>2 DEF IsStart
    <3>2. CASE i > j + 1
      <4>1. i - j \in 2 .. d /\ j + (i - j) = i
        BY <3>1, <3>2
      <4> QED BY <2>3, <3>1, <4>1
    <3> QED BY <3>1, <3>2
  <2>6. Max(starts) = j + 1
    <3>1. starts \subseteq Int
      BY <1>2, <2>2
    <3> HIDE DEF starts
    <3> QED BY <2>4, <2>5, <3>1, MaxIs
  <2>7. FromStart(s) = SubSeq(s, j + 1, Len(s))
    <3>1. FromStart(s) = IF starts = {} THEN s ELSE SubSeq(s, Max(starts), Len(s))
      BY DEF FromStart
    <3> HIDE DEF starts, s
    <3> QED BY <2>4, <2>6, <3>1
  <2>8. /\ Len(SubSeq(s, j + 1, j + d)) = d
        /\ \A i \in 1 .. d : SubSeq(s, j + 1, j + d)[i] = s[j + i]
    <3> HIDE DEF s
    <3>1. \A i \in j + 1 .. j + d : s[i] \in FramePieces
      BY <1>2, <2>2, ElementOfSeq
    <3>2. Len(SubSeq(s, j + 1, j + d)) = d
      BY <3>1, SubSeqProperties
    <3>3. \A i \in 1 .. d : SubSeq(s, j + 1, j + d)[i] = s[j + 1 + i - 1]
      BY <3>1, SubSeqProperties
    <3> QED BY <3>2, <3>3
  <2> HIDE DEF s
  <2>9. \A i \in 1 .. d : /\ SubSeq(s, j + 1, j + d)[i].msg = r
                          /\ SubSeq(s, j + 1, j + d)[i].place = 0 + i
    BY <1>2, <1>3, <1>4, <2>2, <2>8
  <2> QED BY <1>2, <1>4, <2>2, <2>7, <2>8, <2>9 DEF Part, s
<1>5. CASE k # 0
  <2>1. Len(b) = k /\ \A i \in 1 .. k : b[i].msg = r /\ b[i].place = i
    BY <1>5 DEF Holds, Part
  <2>2. ASSUME NEW i \in 1 .. k + d PROVE s[i].msg = r /\ s[i].place = i
    <3> HIDE DEF s
    <3>1. CASE i <= k
      BY <1>2, <2>1, <3>1
    <3>2. CASE i > k
      <4>1. i - k \in 1 .. d /\ k + (i - k) = i
        BY <3>2
      <4>2. s[i] = read[i - k] /\ read[i - k].msg = r /\ read[i - k].place = i
        BY <1>2, <1>3, <2>1, <4>1
      <4> QED BY <4>2
    <3> QED BY <3>1, <3>2
  <2>3. starts = {1, 1}
    <3> HIDE DEF s
    <3>1. \A i \in 1 .. k + d : s[i].place = i
      BY <2>2
    <3> QED BY <1>2, <1>5, <2>1, <3>1 DEF IsStart
  <2>4. FromStart(s) = s
    <3>1. FromStart(s) = IF starts = {} THEN s ELSE SubSeq(s, Max(starts), Len(s))
      BY DEF FromStart
    <3>2. Max({1, 1}) = 1
      <4> DEFINE one == {1, 1}
      <4>1. one \subseteq Int /\ 1 \in one /\ \A y \in one : y <= 1
        OBVIOUS
      <4> HIDE DEF one
      <4>2. Max(one) = 1
        BY <4>1, MaxIs
      <4> QED BY <4>2 DEF one
    <3> HIDE DEF starts, s
    <3>3. SubSeq(s, 1, Len(s)) = s
      BY <1>2, SubSeqFull
    <3> QED BY <2>3, <3>1, <3>2, <3>3
  <2> HIDE DEF s
  <2>5. \A i \in 1 .. k + d - 0 : s[i].msg = r /\ s[i].place = 0 + i
    BY <2>2
  <2>6. Len(s) = k + d - 0
    BY <1>2, <2>1
  <2>7. Part(s, r, 0, k + d)
    BY <2>5, <2>6 DEF Part
  <2> QED BY <2>4, <2>7 DEF s
<1> QED BY <1>4, <1>5

\* What is taken from the line and what stays there.
LEMMA PartsOfLine ==
  ASSUME NEW r, NEW s \in Seq(FramePieces), NEW k \in Nat, NEW n \in Nat, k <= n,
         Part(s, r, k, n), NEW d \in 0 .. Len(s)
  PROVE  /\ Len(s) = n - k /\ k + d <= n
         /\ SubSeq(s, 1, d) \in Seq(FramePieces)
         /\ Part(SubSeq(s, 1, d), r, k, k + d)
         /\ Part(SubSeq(s, d + 1, Len(s)), r, k + d, n)
<1>1. Len(s) = n - k /\ Len(s) \in Nat /\ \A i \in 1 .. Len(s) : s[i] \in FramePieces
  BY LenProperties, ElementOfSeq DEF Part
<1>2. /\ SubSeq(s, 1, d) \in Seq(FramePieces) /\ Len(SubSeq(s, 1, d)) = d
      /\ \A i \in 1 .. d - 1 + 1 : SubSeq(s, 1, d)[i] = s[1 + i - 1]
  <2>1. \A i \in 1 .. d : s[i] \in FramePieces
    BY <1>1
  <2>2. Len(SubSeq(s, 1, d)) = IF 1 <= d THEN d - 1 + 1 ELSE 0
    BY <2>1, SubSeqProperties
  <2>3. Len(SubSeq(s, 1, d)) = d
    BY <2>2
  <2> QED BY <2>1, <2>3, SubSeqProperties
<1>3. ASSUME NEW i \in 1 .. d
      PROVE  SubSeq(s, 1, d)[i].msg = r /\ SubSeq(s, 1, d)[i].place = k + i
  <2>1. SubSeq(s, 1, d)[i] = s[i]
    <3>1. i \in 1 .. d - 1 + 1 /\ 1 + i - 1 = i
      OBVIOUS
    <3> QED BY <1>2, <3>1
  <2>2. i \in 1 .. n - k
    BY <1>1
  <2> QED BY <2>1, <2>2 DEF Part
<1>4. Part(SubSeq(s, 1, d), r, k, k + d)
  <2>1. k + d - k = d
    OBVIOUS
  <2> QED BY <1>2, <1>3, <2>1 DEF Part
<1> DEFINE l == Len(s)
<1>5. /\ Len(SubSeq(s, d + 1, l)) = l - d
      /\ \A i \in 1 .. l - (d + 1) + 1 : SubSeq(s, d + 1, l)[i] = s[d + 1 + i - 1]
  <2>1. \A i \in d + 1 .. l : s[i] \in FramePieces
    BY <1>1
  <2>2. l \in Int /\ d + 1 \in Int
    BY <1>1
  <2> HIDE DEF l
  <2>3. Len(SubSeq(s, d + 1, l)) = IF d + 1 <= l THEN l - (d + 1) + 1 ELSE 0
    BY <2>1, <2>2, SubSeqProperties
  <2>4. \A i \in 1 .. l - (d + 1) + 1 : SubSeq(s, d + 1, l)[i] = s[d + 1 + i - 1]
    BY <2>1, <2>2, SubSeqProperties
  <2> QED BY <2>2, <2>3, <2>4 DEF l
<1>6. ASSUME NEW i \in 1 .. n - (k + d)
      PROVE  /\ SubSeq(s, d + 1, l)[i].msg = r
             /\ SubSeq(s, d + 1, l)[i].place = k + d + i
  <2>1. i \in 1 .. l - (d + 1) + 1 /\ d + 1 + i - 1 = d + i /\ d + i \in 1 .. n - k
    BY <1>1
  <2>2. SubSeq(s, d + 1, l)[i] = s[d + i]
    BY <1>5, <2>1
  <2>3. s[d + i].msg = r /\ s[d + i].place = k + (d + i)
    BY <2>1 DEF Part
  <2>4. k + (d + i) = k + d + i
    OBVIOUS
  <2> QED BY <2>2, <2>3, <2>4
<1>7. Part(SubSeq(s, d + 1, l), r, k + d, n)
  <2>1. l - d = n - (k + d)
    BY <1>1
  <2> QED BY <1>5, <1>6, <2>1 DEF Part
<1> QED BY <1>1, <1>2, <1>4, <1>7

\* The transport's task while an answer r comes in: without the last piece it gives
\* nothing and keeps what it has, with the last piece it gives r.
LEMMA TaskReads ==
  ASSUME LineSuits, AsciiOK, NEW m \in Messages, NEW r \in Messages,
         NEW k \in Nat, NEW j \in Nat, k <= j, k < Pieces(r), j <= Pieces(r),
         NEW read \in Seq(FramePieces), Part(read, r, k, j),
         Holds(ascii.buffer, m, r, k), k # 0 => ascii.timeOut > 0,
         NEW a, a = AsciiTask(ascii, read)
  PROVE  /\ j < Pieces(r) => /\ AsciiReceived(a) = NoMessage /\ AsciiRecvMsg(a) = a
                             /\ Holds(a.buffer, m, r, j)
                             /\ j # 0 => \/ a.timeOut = TIMOUT_RCV
                                         \/ k # 0 /\ a.timeOut = ascii.timeOut - 1
         /\ j = Pieces(r) => AsciiReceived(a) = r /\ AsciiRecvMsg(a) = AsciiOpen
<1> DEFINE d == j - k
<1>0. /\ ascii.buffer \in Seq(FramePieces) /\ ascii.timeOut \in 0 .. TIMOUT_RCV
      /\ Pieces(r) \in Nat /\ 2 <= Pieces(r) /\ Pieces(r) <= ReadPieces
      /\ Pieces(m) \in Nat /\ 2 <= Pieces(m)
      /\ ReadPieces \in Nat /\ MAXLENGHT \in Nat /\ ReadPieces <= MAXLENGHT
      /\ TIMOUT_RCV \in Nat /\ d \in Nat
  BY PiecesBounds, AsciiAssumption DEF AsciiOK
<1>1. Len(read) = d
  BY DEF Part
<1>2. Kept(ascii) \in Seq(FramePieces) /\ Holds(Kept(ascii), m, r, k)
  <2>1. <<>> \in Seq(FramePieces) /\ Part(<<>>, m, 0, 0)
    BY EmptySeq DEF Part
  <2>2. CASE k = 0
    <3>1. Holds(<<>>, m, r, k)
      BY <2>1, <2>2 DEF Holds
    <3> QED BY <1>0, <2>1, <3>1 DEF Kept
  <2>3. CASE k # 0
    <3>1. Len(ascii.buffer) = k
      BY <2>3 DEF Holds, Part
    <3>2. Kept(ascii) = ascii.buffer
      BY <1>0, <2>3, <3>1 DEF Kept
    <3> QED BY <1>0, <3>2
  <2> QED BY <2>2, <2>3
<1>3. CASE d = 0
  <2>1. read = <<>> /\ j = k
    BY <1>1, <1>3, EmptySeq
  <2>2. a.buffer = Kept(ascii) /\ a.timeOut = Max({ascii.timeOut - 1, 0})
    BY <2>1 DEF AsciiTask
  <2>3. CheckCompleteMsg(a.buffer) = 0
    <3>1. CASE k = 0
      <4>1. PICK i \in {0, 1} : Part(a.buffer, m, 0, i)
        BY <1>2, <2>2, <3>1 DEF Holds
      <4>2. i \in Nat /\ i < Pieces(m)
        BY <1>0
      <4> QED BY <1>2, <2>2, <4>1, <4>2, NotComplete
    <3>2. CASE k # 0
      BY <1>2, <2>2, <3>2, NotComplete DEF Holds
    <3> QED BY <3>1, <3>2
  <2>4. AsciiReceived(a) = NoMessage /\ AsciiRecvMsg(a) = a
    BY <2>3 DEF AsciiReceived, AsciiRecvMsg
  <2>5. k # 0 => a.timeOut = ascii.timeOut - 1
    <3> SUFFICES ASSUME k # 0 PROVE a.timeOut = ascii.timeOut - 1
      OBVIOUS
    <3> DEFINE x == ascii.timeOut - 1
    <3>1. x \in Int /\ 0 \in Int /\ x >= 0
      BY <1>0
    <3> HIDE DEF x
    <3>2. Max({x, 0}) = x
      BY <3>1, OfTwo
    <3> QED BY <2>2, <3>2 DEF x
  <2>6. Holds(a.buffer, m, r, j)
    BY <1>2, <2>1, <2>2
  <2> QED BY <1>0, <2>1, <2>4, <2>5, <2>6
<1>4. CASE d # 0
  <2>1. read # <<>> /\ j = k + d /\ d \in Nat \ {0} /\ j # 0
    BY <1>0, <1>1, <1>4, EmptySeq
  <2>2. a.buffer = FromStart(Kept(ascii) \o read) /\ a.timeOut = TIMOUT_RCV
    BY <2>1 DEF AsciiTask
  <2>3. Part(a.buffer, r, 0, j)
    <3> HIDE DEF d
    <3>1. Part(read, r, k, k + d)
      BY <2>1
    <3>2. Part(FromStart(Kept(ascii) \o read), r, 0, k + d)
      BY <1>2, <2>1, <3>1, Assembled
    <3> QED BY <2>1, <2>2, <3>2
  <2>4. a.buffer \in Seq(FramePieces)
    <3>1. Kept(ascii) \o read \in Seq(FramePieces)
      BY <1>2, ConcatProperties
    <3> QED BY <2>2, <3>1, FromStartType
  <2>5. ASSUME j < Pieces(r) PROVE AsciiReceived(a) = NoMessage /\ AsciiRecvMsg(a) = a
    <3>1. CheckCompleteMsg(a.buffer) = 0
      BY <2>3, <2>4, <2>5, NotComplete
    <3> QED BY <3>1 DEF AsciiReceived, AsciiRecvMsg
  <2>6. ASSUME j = Pieces(r) PROVE AsciiReceived(a) = r /\ AsciiRecvMsg(a) = AsciiOpen
    <3>1. /\ CheckCompleteMsg(a.buffer) = Pieces(r) /\ a.buffer[1].msg = r
          /\ CheckLRC(a.buffer, Pieces(r))
      BY <2>3, <2>4, <2>6, Complete
    <3> QED BY <1>0, <3>1 DEF AsciiReceived, AsciiRecvMsg
  <2>7. Holds(a.buffer, m, r, j)
    BY <2>1, <2>3 DEF Holds
  <2> QED BY <2>2, <2>5, <2>6, <2>7
<1> QED BY <1>0, <1>3, <1>4

-----------------------------------------------------------------------------
(* What is on the line.                                                    *)

\* The client c awaits an answer from the line.
Awaits(c) ==
  /\ Waits(c) /\ Servers[client[c].server] = 0
  /\ ~ (turn.client = c /\ turn.at = "answered")

\* Nothing comes, and of what has come no more than a piece is left.
Quiet == remote = <<>> /\ line = <<>> /\ Len(ascii.buffer) <= 1

\* The slaves have not served the message m yet.
Asked(m) == remote = <<m>> /\ line = <<>> /\ \A r : Holds(ascii.buffer, m, r, 0)

\* The first n pieces of an answer to m come: k are in the buffer, the others in
\* that of the device, and the transport keeps the ones it has for longer than
\* left.
Arriving(m, left) ==
  /\ remote = <<>>
  /\ \E r \in Replies(m), n \in Nat, k \in Nat :
       /\ n \in {0, 1, Pieces(r)} /\ k <= n /\ k < Pieces(r)
       /\ Part(line, r, k, n) /\ Holds(ascii.buffer, m, r, k)
       /\ k # 0 => ascii.timeOut > left
OnWire(m, left) == Asked(m) \/ Arriving(m, left)

\* All clients of the line have the same server, so one of them awaits an answer at
\* a time; what is under way is the answer to the message it has sent.
LineIsOne ==
  \A c \in 1 .. Clients :
    client[c].server \in DOMAIN Servers /\ Servers[client[c].server] = 0
      => client[c].server = ServerFor(0)
WireRight ==
  /\ (\A c \in 1 .. Clients : ~Awaits(c)) => Quiet
  /\ \A c \in 1 .. Clients : Awaits(c) => OnWire(client[c].msg, client[c].timeout)
LInv == LineIsOne /\ (punctual => WireRight)

\* No two clients await an answer from the line.
LEMMA OneAwaits ==
  ASSUME SInv, LineIsOne, NEW c \in 1 .. Clients, NEW d \in 1 .. Clients, Awaits(c), Awaits(d)
  PROVE  c = d
<1>1. /\ Waits(c) /\ client[c].server \in DOMAIN Servers /\ client[c].server = ServerFor(0)
      /\ Waits(d) /\ client[d].server \in DOMAIN Servers /\ client[d].server = ServerFor(0)
  BY DEF SInv, LineIsOne, Awaits, Waits
<1> QED BY <1>1 DEF SInv

\* The server that a client has next.
LEMMA LineStaysOne ==
  ASSUME TInv, LineIsOne, [Next]_vars
  PROVE  LineIsOne'
<1> USE GatewayAssumption
<1>0. client \in [1 .. Clients -> ClientRecords]
  BY DEF TInv, ClientOK
<1>1. 0 \notin DOMAIN Servers
  BY LenProperties
<1>2. CASE client' = client
  BY <1>2 DEF LineIsOne
<1>3. ASSUME NEW c \in 1 .. Clients, NEW r, client' = [client EXCEPT ![c] = r],
             r.server \in DOMAIN Servers /\ Servers[r.server] = 0
               => r.server = client[c].server \/ r.server = ServerFor(0)
      PROVE  LineIsOne'
  <2> SUFFICES ASSUME NEW d \in 1 .. Clients, client'[d].server \in DOMAIN Servers,
                      Servers[client'[d].server] = 0
               PROVE  client'[d].server = ServerFor(0)
    BY DEF LineIsOne
  <2> QED BY <1>0, <1>3 DEF LineIsOne
<1>4. ASSUME NEW c \in 1 .. Clients,
             IdleWithout(c) \/ IdleRequest(c) \/ Cancelled(c)
      PROVE  LineIsOne'
  <2>1. PICK msg : Received(c, msg)
    BY <1>4 DEF IdleWithout, IdleRequest, Cancelled
  <2> DEFINE r == [client[c] EXCEPT !.msg = msg,
                                    !.state = IF msg = NoMessage THEN "IDLE" ELSE "ROUTING"]
  <2>2. client' = [client EXCEPT ![c] = r]
    BY <2>1 DEF Received
  <2>3. r.server = client[c].server
    BY <1>0 DEF ClientRecords
  <2> HIDE DEF r
  <2> QED BY <1>3, <2>2, <2>3
<1>5. ASSUME NEW c \in 1 .. Clients, Routing(c) PROVE LineIsOne'
  <2> DEFINE t == ServerFor(client[c].msg.cmd.id)
             r == IF t = 0 THEN [client[c] EXCEPT !.state = "IDLE"]
                  ELSE [client[c] EXCEPT !.state = "SEND_MSG_TO_SERVER", !.server = t]
  <2>1. client' = [client EXCEPT ![c] = r]
    BY <1>5 DEF Routing
  <2>2. r.server = client[c].server \/ r.server = t
    BY <1>0 DEF ClientRecords
  <2>3. t \in DOMAIN Servers /\ Servers[t] = 0 => t = ServerFor(0)
    BY TransportIsOne
  <2> HIDE DEF r, t
  <2> QED BY <1>3, <2>1, <2>2, <2>3
<1>6. ASSUME NEW c \in 1 .. Clients, SendMsg(c) PROVE LineIsOne'
  <2> DEFINE r == [client[c] EXCEPT !.state = "WAITING_SERVER_RESPONSE",
                                    !.timeout = RespTimeout]
  <2>1. client' = [client EXCEPT ![c] = r]
    BY <1>6 DEF SendMsg
  <2>2. r.server = client[c].server
    BY <1>0 DEF ClientRecords
  <2> HIDE DEF r
  <2> QED BY <1>3, <2>1, <2>2
<1>7. ASSUME NEW c \in 1 .. Clients, WaitingRight(c) \/ WaitingLonger(c)
      PROVE  LineIsOne'
  <2>1. \/ \E m : client' = [client EXCEPT ![c].msg = m]
        \/ client' = [client EXCEPT ![c].timeout = @ - 1]
        \/ client' = [client EXCEPT ![c] = BackToIdle(@, NoMessage)]
    BY <1>7 DEF WaitingRight, WaitingLonger
  <2>2. ASSUME NEW m, client' = [client EXCEPT ![c].msg = m] PROVE LineIsOne'
    <3> DEFINE r == [client[c] EXCEPT !.msg = m]
    <3>1. client' = [client EXCEPT ![c] = r] /\ r.server = client[c].server
      BY <1>0, <2>2 DEF ClientRecords
    <3> HIDE DEF r
    <3> QED BY <1>3, <3>1
  <2>3. CASE client' = [client EXCEPT ![c].timeout = @ - 1]
    <3> DEFINE r == [client[c] EXCEPT !.timeout = @ - 1]
    <3>1. client' = [client EXCEPT ![c] = r] /\ r.server = client[c].server
      BY <1>0, <2>3 DEF ClientRecords
    <3> HIDE DEF r
    <3> QED BY <1>3, <3>1
  <2>4. CASE client' = [client EXCEPT ![c] = BackToIdle(@, NoMessage)]
    <3> DEFINE r == BackToIdle(client[c], NoMessage)
    <3>1. client' = [client EXCEPT ![c] = r] /\ r.server = 0
      BY <1>0, <2>4 DEF ClientRecords, BackToIdle
    <3> HIDE DEF r
    <3> QED BY <1>1, <1>3, <3>1
  <2> QED BY <2>1, <2>2, <2>3, <2>4
<1>8. ASSUME NEW c \in 1 .. Clients, Answered(c) \/ WaitingWrong(c) PROVE LineIsOne'
  <2>1. PICK m : client' = [client EXCEPT ![c] = BackToIdle(@, m)]
    BY <1>8 DEF Answered, WaitingWrong
  <2> DEFINE r == BackToIdle(client[c], m)
  <2>2. client' = [client EXCEPT ![c] = r] /\ r.server = 0
    BY <1>0, <2>1 DEF ClientRecords, BackToIdle
  <2> HIDE DEF r
  <2> QED BY <1>1, <1>3, <2>2
<1>9. CASE ~GatewayStep
  <2>1. client' = client
    BY <1>9 DEF Next, Tick, Remote, Start, User, Check, Fill, Command, WaitEvent, Return, vars
  <2> QED BY <1>2, <2>1
<1>10. ASSUME NEW c \in 1 .. Clients, IdleCancel(c) \/ SendMsgLater(c) PROVE LineIsOne'
  BY <1>2, <1>10 DEF IdleCancel, SendMsgLater
<1> QED BY <1>4, <1>5, <1>6, <1>7, <1>8, <1>9, <1>10 DEF GatewayStep

\* All pieces l that came are read: no message is complete, and in the buffer b one
\* piece is left at most.
LEMMA AllTaken ==
  ASSUME NEW m, NEW r, NEW n \in Nat, NEW k \in Nat, n \in {0, 1, Pieces(r)}, k <= n,
         k < Pieces(r), NEW l, NEW b, Part(l, r, k, n), Holds(b, m, r, k), Len(l) = 0
  PROVE  Len(b) <= 1
<1>1. n = k /\ k <= 1
  <2>1. n - k = 0
    BY DEF Part
  <2> QED BY <2>1, PiecesBounds
<1>2. CASE k = 0
  <2>1. PICK j \in {0, 1} : Part(b, m, 0, j)
    BY <1>2 DEF Holds
  <2> QED BY <2>1 DEF Part
<1>3. CASE k # 0
  <2>1. k = 1 /\ Part(b, r, 0, 1)
    BY <1>1, <1>3 DEF Holds
  <2> QED BY <2>1 DEF Part
<1> QED BY <1>2, <1>3

\* The transport gives the client nothing while the answer comes, and then that
\* answer.
LEMMA LineTaken ==
  ASSUME LineSuits, TInv, NEW c \in 1 .. Clients, Servers[client[c].server] = 0,
         NEW m \in Messages, NEW left \in 0 .. RespTimeout, OnWire(m, left),
         NEW g, ServerGives(c, g)
  PROVE  \/ g = NoMessage /\ OnWire(m, left - 1)'
         \/ g \in Replies(m) /\ Quiet'
<1> USE GatewayAssumption, AsciiAssumption
<1>0. AsciiOK /\ LineOK /\ Replies(m) \subseteq Messages
  BY MessagesOfCommands DEF TInv
<1>1. PICK d \in 0 .. Min({Len(line), Room(ascii)}) :
        /\ g = AsciiReceived(AsciiTask(ascii, SubSeq(line, 1, d)))
        /\ ascii' = AsciiRecvMsg(AsciiTask(ascii, SubSeq(line, 1, d)))
        /\ line' = SubSeq(line, d + 1, Len(line))
        /\ remote' = remote
  BY DEF ServerGives
<1>2. d \in 0 .. Len(line) /\ d \in Nat
  <2>1. Len(line) \in Nat /\ Room(ascii) \in Int
    <3>1. Len(Kept(ascii)) \in Nat
      BY <1>0, LenProperties, EmptySeq DEF AsciiOK, Kept
    <3> QED BY <1>0, <3>1, LenProperties DEF LineOK, Room
  <2>2. Min({Len(line), Room(ascii)}) = IF Len(line) <= Room(ascii) THEN Len(line) ELSE Room(ascii)
    BY <2>1, OfTwo
  <2> QED BY <2>1, <2>2
<1> DEFINE read == SubSeq(line, 1, d)
           a == AsciiTask(ascii, read)
<1>3. g = AsciiReceived(a) /\ ascii' = AsciiRecvMsg(a)
  BY <1>1
<1>4. a = AsciiTask(ascii, read)
  OBVIOUS
<1>5. ASSUME Asked(m) PROVE g = NoMessage /\ Asked(m)'
  <2>1. d = 0 /\ line = <<>> /\ Len(line) = 0
    BY <1>2, <1>5, EmptySeq DEF Asked
  <2>2. read = <<>> /\ line' = <<>>
    BY <1>1, <2>1, SubSeqEmpty
  <2> HIDE DEF read, a
  <2>3. PICK r \in Messages : TRUE
    OBVIOUS
  <2>4. Part(read, r, 0, 0) /\ read \in Seq(FramePieces)
    BY <2>2, EmptySeq DEF Part
  <2>5. 2 <= Pieces(r) /\ Pieces(r) \in Nat
    BY PiecesBounds
  <2>6. 0 \in Nat /\ 0 <= 0 /\ 0 < Pieces(r) /\ 0 <= Pieces(r)
    BY <2>5
  <2>7. Holds(ascii.buffer, m, r, 0) /\ (0 # 0 => ascii.timeOut > 0)
    BY <1>5 DEF Asked
  <2>8. AsciiReceived(a) = NoMessage /\ AsciiRecvMsg(a) = a /\ Holds(a.buffer, m, r, 0)
    BY <1>0, <1>4, <2>4, <2>6, <2>7, TaskReads
  <2>9. \A q : Holds(a.buffer, m, q, 0)
    BY <2>8 DEF Holds
  <2> QED BY <1>1, <1>3, <1>5, <2>2, <2>8, <2>9 DEF Asked
<1>6. ASSUME Arriving(m, left)
      PROVE  \/ g = NoMessage /\ Arriving(m, left - 1)'
             \/ g \in Replies(m) /\ Quiet'
  <2>1. PICK r \in Replies(m), n \in Nat, k \in Nat :
          /\ n \in {0, 1, Pieces(r)} /\ k <= n /\ k < Pieces(r)
          /\ Part(line, r, k, n) /\ Holds(ascii.buffer, m, r, k)
          /\ k # 0 => ascii.timeOut > left
    BY <1>6 DEF Arriving
  <2>2. /\ r \in Messages /\ Pieces(r) \in Nat /\ 2 <= Pieces(r)
        /\ n <= Pieces(r)
    BY <1>0, <2>1, PiecesBounds
  <2> DEFINE j == k + d
  <2>3. /\ Len(line) = n - k /\ j <= n
        /\ read \in Seq(FramePieces)
        /\ Part(read, r, k, j)
        /\ Part(line', r, j, n)
    BY <1>0, <1>1, <1>2, <2>1, <2>2, PartsOfLine DEF LineOK
  <2>4. ascii.timeOut \in Nat
    BY <1>0 DEF AsciiOK
  <2>5. k # 0 => ascii.timeOut > 0
    BY <2>1, <2>4
  <2>6. j \in Nat /\ k <= j /\ j <= Pieces(r)
    <3>1. j \in Nat /\ k <= j
      BY <1>2
    <3> HIDE DEF j
    <3> QED BY <2>2, <2>3, <3>1
  <2> HIDE DEF j, a, read
  <2>7. /\ j < Pieces(r) => /\ AsciiReceived(a) = NoMessage /\ AsciiRecvMsg(a) = a
                            /\ Holds(a.buffer, m, r, j)
                            /\ j # 0 => \/ a.timeOut = TIMOUT_RCV
                                        \/ k # 0 /\ a.timeOut = ascii.timeOut - 1
        /\ j = Pieces(r) => AsciiReceived(a) = r /\ AsciiRecvMsg(a) = AsciiOpen
    <3>1. /\ k < Pieces(r) /\ Holds(ascii.buffer, m, r, k)
          /\ Part(read, r, k, j) /\ read \in Seq(FramePieces)
      BY <2>1, <2>3
    <3>2. AsciiOK /\ r \in Messages
      BY <1>0, <2>2
    <3> QED BY <1>4, <2>5, <2>6, <3>1, <3>2, TaskReads
  <2>8. remote' = <<>>
    BY <1>1, <1>6 DEF Arriving
  <2>9. CASE j < Pieces(r)
    <3>1. ascii' = a /\ Holds(ascii'.buffer, m, r, j)
      BY <1>3, <2>7, <2>9
    <3>2. j # 0 => ascii'.timeOut > left - 1
      <4>1. j # 0 => ascii'.timeOut = TIMOUT_RCV \/ (k # 0 /\ ascii'.timeOut = ascii.timeOut - 1)
        BY <2>7, <2>9, <3>1
      <4>2. left \in Nat /\ left <= TIMOUT_RCV /\ TIMOUT_RCV \in Nat
        BY DEF LineSuits
      <4> QED BY <2>1, <2>4, <4>1, <4>2
    <3>3. Arriving(m, left - 1)'
      BY <2>1, <2>3, <2>6, <2>8, <2>9, <3>1, <3>2 DEF Arriving
    <3> QED BY <1>3, <2>7, <2>9, <3>3
  <2>10. CASE j = Pieces(r)
    <3>1. Len(line') = 0
      <4>1. n = j
        BY <2>2, <2>3, <2>10
      <4> QED BY <2>3, <2>6, <4>1 DEF Part
    <3>2. line' = <<>>
      <4>1. line' \in Seq(FramePieces)
        BY <1>0, <1>1, <1>2, PartOfSequence, LenProperties DEF LineOK
      <4> QED BY <3>1, <4>1, EmptySeq
    <3>3. Len(ascii'.buffer) = 0
      BY <1>3, <2>7, <2>10, EmptySeq DEF AsciiOpen
    <3> QED BY <1>3, <2>7, <2>8, <2>10, <3>2, <3>3 DEF Quiet
  <2> QED BY <2>2, <2>6, <2>9, <2>10
<1> QED BY <1>5, <1>6 DEF OnWire

\* No slave sends the message that stands for none.
LEMMA NoMessageApart == NoMessage \notin Messages
<1>1. ASSUME NEW c PROVE Request(c) # NoMessage /\ Answer(c) # NoMessage /\ Exception(c) # NoMessage
  <2>1. /\ Request(c).kind = "request" /\ Exception(c).kind = "exception"
        /\ Answer(c).kind \in {"request", "answer"} /\ NoMessage.kind = "none"
    BY DEF Request, Exception, Answer, NoMessage
  <2> QED BY <2>1
<1> QED BY <1>1 DEF Messages

\* A call for the client c leaves the others alone.
LEMMA OthersLeft ==
  ASSUME TInv, WInv, NEW c \in 1 .. Clients,
         WholeCall(c) \/ IdleCancel(c) \/ WaitingRight(c)
  PROVE  /\ turn.client = c
         /\ \A d \in 1 .. Clients : d # c => /\ client'[d] = client[d]
                                             /\ Awaits(d)' <=> Awaits(d)
<1>1. turn.client = c /\ (turn'.at = "process" \/ turn'.client = c)
  BY WholeCallEffect, CancelWakes
<1>2. client' = client \/ \E r : client' = [client EXCEPT ![c] = r]
  BY DEF WholeCall, IdleWithout, IdleRequest, IdleCancel, Cancelled, Received, Routing, SendMsg,
         SendMsgLater, WaitingRight, Answered, WaitingWrong, WaitingLonger
<1>3. client \in [1 .. Clients -> ClientRecords]
  BY DEF TInv, ClientOK
<1>4. ASSUME NEW d \in 1 .. Clients, d # c
      PROVE  client'[d] = client[d] /\ (Awaits(d)' <=> Awaits(d))
  <2>1. client'[d] = client[d]
    BY <1>2, <1>3, <1>4
  <2> QED BY <1>1, <1>4, <2>1 DEF Awaits, Waits
<1> QED BY <1>1, <1>4

\* A call that does not look at the line, for a client that does not begin or end
\* awaiting an answer from there.
LEMMA LineLeft ==
  ASSUME TInv, WInv, WireRight, NEW c \in 1 .. Clients,
         WholeCall(c) \/ IdleCancel(c) \/ WaitingRight(c),
         wire' = wire, ~Awaits(c), ~Awaits(c)'
  PROVE  WireRight'
<1>1. \A d \in 1 .. Clients : /\ Awaits(d)' <=> Awaits(d)
                              /\ Awaits(d) => client'[d] = client[d]
  BY OthersLeft
<1>2. (\A d \in 1 .. Clients : ~Awaits(d)') => Quiet'
  BY <1>1 DEF WireRight, Quiet, wire
<1>3. ASSUME NEW d \in 1 .. Clients, Awaits(d)'
      PROVE  OnWire(client[d].msg, client[d].timeout)'
  <2>1. client'[d] = client[d] /\ OnWire(client[d].msg, client[d].timeout)
    BY <1>1, <1>3 DEF WireRight
  <2> QED BY <2>1 DEF OnWire, Asked, Arriving, wire
<1> QED BY <1>2, <1>3 DEF WireRight

\* The calls that do not look at the line.
LEMMA LineNotUsed ==
  ASSUME TInv, SInv, WInv, WireRight, NEW c \in 1 .. Clients,
         \/ IdleWithout(c) \/ IdleRequest(c) \/ IdleCancel(c) \/ Cancelled(c) \/ Routing(c)
         \/ SendMsgLater(c) \/ Answered(c)
  PROVE  WireRight'
<1>0. client[c] \in ClientRecords /\ client \in [1 .. Clients -> ClientRecords]
  BY DEF TInv, ClientOK
<1>1. wire' = wire /\ (WholeCall(c) \/ IdleCancel(c) \/ WaitingRight(c))
  BY DEF IdleWithout, IdleRequest, IdleCancel, Cancelled, Routing, SendMsgLater, Answered,
         WholeCall
<1>2. ~Awaits(c)
  BY DEF IdleWithout, IdleRequest, IdleCancel, Cancelled, Routing, SendMsgLater, Answered,
         Processes, Awaits, Waits, SInv
<1>3. ~Awaits(c)'
  <2>1. CASE IdleCancel(c) \/ SendMsgLater(c)
    BY <2>1 DEF IdleCancel, SendMsgLater, Processes, Awaits, Waits
  <2>2. CASE IdleWithout(c) \/ IdleRequest(c) \/ Cancelled(c)
    <3>1. PICK m : Received(c, m)
      BY <2>2 DEF IdleWithout, IdleRequest, Cancelled
    <3> DEFINE next == IF m = NoMessage THEN "IDLE" ELSE "ROUTING"
    <3>2. client' = [client EXCEPT ![c] = [client[c] EXCEPT !.msg = m, !.state = next]]
      BY <3>1 DEF Received
    <3>3. next # "WAITING_SERVER_RESPONSE"
      OBVIOUS
    <3> HIDE DEF next
    <3> QED BY <1>0, <3>2, <3>3 DEF ClientRecords, Awaits, Waits
  <2>3. CASE Routing(c)
    <3> DEFINE t == ServerFor(client[c].msg.cmd.id)
               r == IF t = 0 THEN [client[c] EXCEPT !.state = "IDLE"]
                    ELSE [client[c] EXCEPT !.state = "SEND_MSG_TO_SERVER", !.server = t]
    <3>1. client' = [client EXCEPT ![c] = r]
      BY <2>3 DEF Routing
    <3> HIDE DEF t
    <3>2. r.state # "WAITING_SERVER_RESPONSE"
      BY <1>0 DEF ClientRecords
    <3> HIDE DEF r
    <3> QED BY <1>0, <3>1, <3>2 DEF Awaits, Waits
  <2>4. CASE Answered(c)
    BY <1>0, <2>4 DEF Answered, BackToIdle, ClientRecords, Awaits, Waits
  <2> QED BY <2>1, <2>2, <2>3, <2>4
<1> QED BY <1>1, <1>2, <1>3, LineLeft

\* The client of the line sends only when nothing is under way.
LEMMA LineSent ==
  ASSUME TInv, SInv, WInv, LineIsOne, WireRight, NEW c \in 1 .. Clients, SendMsg(c)
  PROVE  WireRight'
<1> USE GatewayAssumption
<1> DEFINE s == client[c].server
           m == client[c].msg
           r == [client[c] EXCEPT !.state = "WAITING_SERVER_RESPONSE", !.timeout = RespTimeout]
<1>0. client \in [1 .. Clients -> ClientRecords] /\ client[c] \in ClientRecords
  BY DEF TInv, ClientOK
<1>1. /\ s \in DOMAIN Servers /\ ~busy[s] /\ m \in Messages /\ ~Awaits(c)
      /\ client' = [client EXCEPT ![c] = r] /\ line' = line
  BY DEF SendMsg, Processes, ServerFree, SInv, Awaits, Waits, TInv, ClientOK
<1>2. /\ client'[c].server = s /\ client'[c].msg = m /\ client'[c].state = "WAITING_SERVER_RESPONSE"
  BY <1>0, <1>1 DEF ClientRecords
<1>3. turn'.at = "process" /\ WholeCall(c)
  BY WholeCallEffect DEF WholeCall
<1>4. CASE Servers[s] # 0
  <2>1. wire' = wire
    BY <1>1, <1>4 DEF SendMsg, wire
  <2>2. ~Awaits(c)'
    BY <1>2, <1>4 DEF Awaits
  <2> QED BY <1>1, <1>3, <2>1, <2>2, LineLeft
<1>5. CASE Servers[s] = 0
  <2>1. s = ServerFor(0)
    BY <1>1, <1>5 DEF LineIsOne
  <2>2. \A d \in 1 .. Clients : ~Awaits(d)
    <3> SUFFICES ASSUME NEW d \in 1 .. Clients, Awaits(d) PROVE FALSE
      OBVIOUS
    <3>1. Waits(d) /\ client[d].server \in DOMAIN Servers /\ Servers[client[d].server] = 0
      BY DEF Awaits, Waits, SInv
    <3>2. client[d].server = s /\ busy[client[d].server]
      BY <2>1, <3>1 DEF LineIsOne, SInv
    <3> QED BY <1>1, <3>2
  <2>3. Quiet
    BY <2>2 DEF WireRight
  <2>4. ascii' = AsciiSendMsg(ascii, m) /\ remote' = <<m>> /\ line' = <<>>
    <3>1. remote = <<>> /\ line = <<>> /\ Len(remote) = 0
      BY <2>3, EmptySeq DEF Quiet
    <3>2. /\ ascii' = AsciiSendMsg(ascii, m)
          /\ remote' = IF Len(remote) < RemoteQueue THEN Append(remote, m) ELSE remote
      BY <1>5 DEF SendMsg
    <3>3. remote' = Append(<<>>, m)
      BY <3>1, <3>2
    <3> QED BY <1>1, <3>1, <3>2, <3>3
  <2>5. ASSUME NEW q PROVE Holds(ascii'.buffer, m, q, 0)
    <3> DEFINE b == ascii.buffer
               l == Len(b)
    <3>0. b \in Seq(FramePieces) /\ l <= 1
          /\ ascii \in [buffer : Seq(FramePieces), timeOut : 0 .. TIMOUT_RCV]
      BY <2>3 DEF Quiet, TInv, AsciiOK
    <3>1. l \in Nat /\ DOMAIN b = 1 .. l
      BY <3>0, LenProperties
    <3>2. ascii'.buffer = [i \in 1 .. l |-> IF i <= Pieces(m) THEN Frame(m)[i] ELSE b[i]]
      BY <2>4, <3>0, <3>1 DEF AsciiSendMsg
    <3> HIDE DEF l, b
    <3>3. \A i \in 1 .. l : i = 1 /\ i <= Pieces(m) /\ i \in 1 .. Pieces(m)
      BY <3>0, <3>1, PiecesBounds
    <3>4. \A i \in 1 .. l : ascii'.buffer[i] = Frame(m)[i]
      BY <3>2, <3>3
    <3>5. \A i \in 1 .. l : ascii'.buffer[i].msg = m /\ ascii'.buffer[i].place = i
      <4>1. \A i \in 1 .. Pieces(m) : Frame(m)[i].msg = m /\ Frame(m)[i].place = i
        BY DEF Frame
      <4> QED BY <3>3, <3>4, <4>1
    <3>6. Len(ascii'.buffer) = l
      <4>1. ascii'.buffer \in Seq(FramePieces)
        <5>1. \A i \in 1 .. l : Frame(m)[i] \in FramePieces
          BY <1>1, <3>3, FrameIsSequence
        <5>2. ascii'.buffer \in [1 .. l -> FramePieces]
          BY <3>2, <3>3, <5>1
        <5> DEFINE x == ascii'.buffer
        <5>3. \E n \in Nat : x \in [1 .. n -> FramePieces]
          BY <3>1, <5>2
        <5> HIDE DEF x
        <5>4. x \in Seq(FramePieces)
          BY <5>3, SeqDef
        <5> QED BY <5>4 DEF x
      <4> QED BY <3>1, <3>2, <4>1, LenProperties
    <3>7. Part(ascii'.buffer, m, 0, l)
      BY <3>1, <3>5, <3>6 DEF Part
    <3>8. l \in {0, 1}
      BY <3>0, <3>1
    <3> QED BY <3>7, <3>8 DEF Holds
  <2>6. Asked(m)'
    BY <1>2, <2>4, <2>5 DEF Asked
  <2>7. Awaits(c)'
    BY <1>2, <1>3, <1>5 DEF Awaits, Waits
  <2>8. \A d \in 1 .. Clients : d # c => ~Awaits(d)'
    BY <1>3, <2>2, OthersLeft
  <2> HIDE DEF m
  <2> QED BY <1>2, <2>6, <2>7, <2>8 DEF WireRight, OnWire, m
<1> QED BY <1>4, <1>5

\* The client that is processed while it waits for the line awaits its answer.
LEMMA ProcessedAwaits ==
  ASSUME TInv, SInv, NEW c \in 1 .. Clients, Processes(c, "WAITING_SERVER_RESPONSE")
  PROVE  /\ Awaits(c) <=> Servers[client[c].server] = 0
         /\ client[c].msg \in Messages /\ client[c].timeout \in 0 .. RespTimeout
         /\ client[c].server \in DOMAIN Servers
<1>1. Waits(c) /\ turn.at = "process"
  BY DEF Processes, Waits
<1>2. client[c] \in ClientRecords /\ client[c].msg \in Messages
  BY <1>1 DEF TInv, ClientOK, Waits
<1> QED BY <1>1, <1>2 DEF Awaits, Waits, SInv, ClientRecords

\* What a client has got is in its buffer.
LEMMA GetsMessage ==
  ASSUME TInv, NEW c \in 1 .. Clients, WaitingRight(c) \/ WaitingWrong(c)
  PROVE  \E g \in Messages : /\ Processes(c, "WAITING_SERVER_RESPONSE") /\ ServerGives(c, g)
                             /\ client'[c].msg = g
<1>0. client \in [1 .. Clients -> ClientRecords] /\ client[c] \in ClientRecords
  BY DEF TInv, ClientOK
<1>1. PICK g \in Messages :
        /\ Processes(c, "WAITING_SERVER_RESPONSE") /\ ServerGives(c, g)
        /\ \/ client' = [client EXCEPT ![c] = [client[c] EXCEPT !.msg = g]]
           \/ client' = [client EXCEPT ![c] = BackToIdle(client[c], g)]
  BY DEF WaitingRight, WaitingWrong
<1>2. BackToIdle(client[c], g).msg = g /\ [client[c] EXCEPT !.msg = g].msg = g
  BY <1>0 DEF BackToIdle, ClientRecords
<1>3. PICK r : client' = [client EXCEPT ![c] = r] /\ r.msg = g
  BY <1>1, <1>2
<1>4. client'[c].msg = g
  BY <1>0, <1>3
<1> QED BY <1>1, <1>4

\* A client that gives up has nothing in its buffer.
LEMMA NothingGot ==
  ASSUME TInv, NEW c \in 1 .. Clients, WaitingLonger(c), client[c].timeout = 0
  PROVE  client'[c].msg = NoMessage /\ client'[c].state = "IDLE"
<1>0. client \in [1 .. Clients -> ClientRecords] /\ client[c] \in ClientRecords
  BY DEF TInv, ClientOK
<1>1. client' = [client EXCEPT ![c] = BackToIdle(client[c], NoMessage)]
  BY DEF WaitingLonger
<1>2. /\ BackToIdle(client[c], NoMessage).msg = NoMessage
      /\ BackToIdle(client[c], NoMessage).state = "IDLE"
  BY <1>0 DEF BackToIdle, ClientRecords
<1> DEFINE r == BackToIdle(client[c], NoMessage)
<1> HIDE DEF r
<1>3. client'[c].msg = NoMessage /\ client'[c].state = "IDLE"
  BY <1>0, <1>1, <1>2 DEF r
<1> QED BY <1>3

\* What a client gets is an answer to what it has sent.
LEMMA GivenIsReply ==
  ASSUME LineSuits, TInv, SInv, WireRight, NEW c \in 1 .. Clients,
         Processes(c, "WAITING_SERVER_RESPONSE"), NEW g \in Messages, ServerGives(c, g)
  PROVE  /\ g \in Replies(client[c].msg)
         /\ Servers[client[c].server] = 0 => Quiet'
<1>1. CASE Servers[client[c].server] = 0
  <2>1. Awaits(c) /\ client[c].msg \in Messages /\ client[c].timeout \in 0 .. RespTimeout
    BY <1>1, ProcessedAwaits
  <2>2. OnWire(client[c].msg, client[c].timeout)
    BY <2>1 DEF WireRight
  <2> DEFINE m == client[c].msg
             left == client[c].timeout
  <2>3. \E q \in Messages : q = m
    BY <2>1
  <2>4. PICK q \in Messages : q = m
    BY <2>3
  <2>5. PICK t \in 0 .. RespTimeout : t = left
    BY <2>1
  <2>6. OnWire(q, t)
    BY <2>2, <2>4, <2>5
  <2>7. (g = NoMessage /\ OnWire(q, t - 1)') \/ (g \in Replies(q) /\ Quiet')
    BY <1>1, <2>6, LineTaken
  <2> QED BY <2>4, <2>7, NoMessageApart
<1>2. CASE Servers[client[c].server] # 0
  BY <1>2 DEF ServerGives
<1> QED BY <1>1, <1>2

\* A client that has got its answer does not wait for more.
LEMMA LineAnswered ==
  ASSUME LineSuits, TInv, SInv, WInv, LineIsOne, WireRight, NEW c \in 1 .. Clients,
         WaitingRight(c) \/ WaitingWrong(c)
  PROVE  WireRight'
<1>0. client \in [1 .. Clients -> ClientRecords] /\ client[c] \in ClientRecords
  BY DEF TInv, ClientOK
<1>1. PICK g \in Messages : Processes(c, "WAITING_SERVER_RESPONSE") /\ ServerGives(c, g)
  BY DEF WaitingRight, WaitingWrong
<1>2. WholeCall(c) \/ WaitingRight(c)
  BY DEF WholeCall
<1>3. ~Awaits(c)'
  <2>1. CASE WaitingRight(c)
    <3>1. turn'.client = c /\ turn' = [turn EXCEPT !.at = "answered"]
      BY <2>1, CancelWakes DEF WaitingRight
    <3>2. turn'.at = "answered"
      BY <3>1 DEF TInv, TurnOK
    <3> QED BY <3>1, <3>2 DEF Awaits
  <2>2. CASE WaitingWrong(c)
    <3>1. PICK m : client' = [client EXCEPT ![c] = BackToIdle(client[c], m)]
      BY <2>2 DEF WaitingWrong
    <3> QED BY <1>0, <3>1 DEF BackToIdle, ClientRecords, Awaits, Waits
  <2> QED BY <2>1, <2>2
<1>4. CASE Servers[client[c].server] = 0
  <2>1. Awaits(c) /\ Quiet'
    BY <1>1, <1>4, ProcessedAwaits, GivenIsReply
  <2>2. \A d \in 1 .. Clients : ~Awaits(d)'
    BY <1>2, <1>3, <2>1, OthersLeft, OneAwaits
  <2> QED BY <2>1, <2>2 DEF WireRight
<1>5. CASE Servers[client[c].server] # 0
  <2>1. wire' = wire /\ ~Awaits(c)
    BY <1>1, <1>5 DEF ServerGives, Awaits
  <2> QED BY <1>2, <1>3, <2>1, LineLeft
<1> QED BY <1>4, <1>5

\* A client that has got nothing goes on waiting, until nothing is under way.
LEMMA LineAwaited ==
  ASSUME LineSuits, TInv, SInv, WInv, LineIsOne, WireRight, punctual,
         NEW c \in 1 .. Clients, WaitingLonger(c)
  PROVE  WireRight'
<1> DEFINE left == client[c].timeout
<1>0. client \in [1 .. Clients -> ClientRecords] /\ client[c] \in ClientRecords
  BY DEF TInv, ClientOK
<1>1. /\ Processes(c, "WAITING_SERVER_RESPONSE") /\ ServerGives(c, NoMessage)
      /\ client[c].msg \in Messages /\ left \in 0 .. RespTimeout /\ WholeCall(c)
      /\ left # 0 => client' = [client EXCEPT ![c].timeout = left - 1]
      /\ left = 0 => NothingComes /\ client' = [client EXCEPT ![c] = BackToIdle(@, NoMessage)]
  BY ProcessedAwaits DEF WaitingLonger, WholeCall
<1>2. turn'.at = "process"
  BY <1>1, WholeCallEffect
<1>3. left = 0 => ~Awaits(c)'
  BY NothingGot DEF Awaits, Waits
<1>4. left # 0 => /\ client'[c].msg = client[c].msg /\ client'[c].timeout = left - 1
                  /\ client'[c].server = client[c].server
  BY <1>0, <1>1 DEF ClientRecords
<1>5. CASE Servers[client[c].server] # 0
  <2>1. wire' = wire /\ ~Awaits(c) /\ ~Awaits(c)'
    BY <1>1, <1>3, <1>4, <1>5 DEF ServerGives, Awaits
  <2> QED BY <1>1, <2>1, LineLeft
<1>6. CASE Servers[client[c].server] = 0
  <2>1. Awaits(c) /\ OnWire(client[c].msg, left)
    BY <1>1, <1>6, ProcessedAwaits DEF WireRight
  <2>2. \A d \in 1 .. Clients : d # c => ~Awaits(d)'
    BY <1>1, <2>1, OthersLeft, OneAwaits
  <2>3. PICK m \in Messages : m = client[c].msg
    BY <1>1
  <2>4. PICK t \in 0 .. RespTimeout : t = left
    BY <1>1
  <2>5. OnWire(m, t - 1)'
    <3>1. OnWire(m, t)
      BY <2>1, <2>3, <2>4
    <3>2. (NoMessage = NoMessage /\ OnWire(m, t - 1)') \/ (NoMessage \in Replies(m) /\ Quiet')
      BY <1>1, <1>6, <3>1, LineTaken
    <3>3. NoMessage \notin Replies(m)
      BY MessagesOfCommands, NoMessageApart
    <3> QED BY <3>2, <3>3
  <2>6. CASE left # 0
    <3>1. OnWire(client[c].msg, client[c].timeout)'
      <4>1. client'[c].msg = m /\ client'[c].timeout = t - 1
        BY <1>4, <2>3, <2>4, <2>6
      <4> QED BY <2>5, <4>1
    <3>2. Awaits(c)'
      <4>1. client'[c].state = client[c].state
        BY <1>0, <1>1, <2>6 DEF ClientRecords
      <4> QED BY <1>2, <1>4, <2>1, <2>6, <4>1 DEF Awaits, Waits
    <3> QED BY <2>2, <3>1, <3>2 DEF WireRight
  <2>7. CASE left = 0
    <3>1. remote = <<>> /\ line' = <<>> /\ remote' = remote
      BY <1>1, <1>6, <2>7 DEF NothingComes, ServerGives
    <3>2. ~Asked(m)'
      <4>1. <<m>> # <<>>
        BY EmptySeq
      <4> QED BY <3>1, <4>1 DEF Asked
    <3>3. Arriving(m, t - 1)' /\ line' = <<>>
      BY <2>5, <3>1, <3>2 DEF OnWire
    <3>4. PICK r \in Replies(m), n \in Nat, k \in Nat :
            /\ n \in {0, 1, Pieces(r)} /\ k <= n /\ k < Pieces(r)
            /\ Part(line', r, k, n) /\ Holds(ascii'.buffer, m, r, k)
      BY <3>3 DEF Arriving
    <3>5. Len(line') = 0
      BY <3>3, EmptySeq
    <3>6. Len(ascii'.buffer) <= 1
      BY <3>4, <3>5, AllTaken
    <3>7. Quiet'
      BY <3>1, <3>3, <3>6 DEF Quiet
    <3> QED BY <1>3, <2>2, <2>7, <3>7 DEF WireRight
  <2> QED BY <2>6, <2>7
<1> QED BY <1>5, <1>6

\* A slave answers the request that the client awaits an answer to.
LEMMA LineServed ==
  ASSUME LineSuits, TInv, SInv, LineIsOne, WireRight, Remote
  PROVE  WireRight'
<1> USE GatewayAssumption, AsciiAssumption
<1>1. PICK c \in 1 .. Clients : Awaits(c) /\ Asked(client[c].msg)
  <2>1. ~Quiet /\ \A m, left : ~Arriving(m, left)
    BY DEF Remote, Quiet, Arriving
  <2> QED BY <2>1 DEF WireRight, OnWire
<1>2. PICK m \in Messages : m = client[c].msg
  BY <1>1 DEF TInv, ClientOK, Awaits, Waits
<1>3. /\ remote = <<m>> /\ line = <<>> /\ \A q : Holds(ascii.buffer, m, q, 0)
  BY <1>1, <1>2 DEF Asked
<1>4. Head(remote) = m /\ remote' = <<>> /\ Len(line) = 0
  BY <1>3, EmptySeq DEF Remote
<1>5. PICK r \in Replies(m) :
        \E n \in {k \in Cuts : k < Pieces(r)} \cup {Pieces(r)} :
           line' = line \o SubSeq(Frame(r), 1, Min({n, LineRoom - Len(line)}))
  BY <1>4 DEF Remote
<1>6. PICK n \in {k \in Cuts : k < Pieces(r)} \cup {Pieces(r)} :
        line' = line \o SubSeq(Frame(r), 1, Min({n, LineRoom - Len(line)}))
  BY <1>5
<1>7. /\ r \in Messages /\ Pieces(r) \in Nat /\ 2 <= Pieces(r)
      /\ n \in Nat /\ n \in {0, 1, Pieces(r)} /\ n <= Pieces(r) /\ n <= LineRoom
  <2>1. r \in Messages
    BY MessagesOfCommands
  <2>2. /\ Pieces(r) \in Nat /\ 2 <= Pieces(r) /\ Pieces(r) <= ReadPieces
    BY PiecesBounds
  <2>3. n \in {0, 1, Pieces(r)}
    BY <1>6 DEF LineSuits
  <2> QED BY <2>1, <2>2, <2>3 DEF LineSuits
<1>8. Part(line', r, 0, n)
  <2>1. Min({n, LineRoom - 0}) = n
    BY <1>7, OfTwo
  <2>2. line' = SubSeq(Frame(r), 1, n)
    <3>1. SubSeq(Frame(r), 1, n) \in Seq(FramePieces)
      BY <1>7, FrameIsSequence, PartOfSequence
    <3>2. line' = <<>> \o SubSeq(Frame(r), 1, n)
      BY <1>3, <1>4, <1>6, <2>1
    <3> QED BY <3>1, <3>2, ConcatEmptySeq
  <2>3. Frame(r) \in Seq(FramePieces) /\ Len(Frame(r)) = Pieces(r) - 0
    BY <1>7, FrameIsSequence
  <2>4. Part(Frame(r), r, 0, Pieces(r))
    <3>1. \A i \in 1 .. Pieces(r) - 0 : Frame(r)[i].msg = r /\ Frame(r)[i].place = 0 + i
      BY <1>7 DEF Frame
    <3> QED BY <2>3, <3>1 DEF Part
  <2>5. Part(SubSeq(Frame(r), 1, n), r, 0, 0 + n)
    <3>1. n \in 0 .. Len(Frame(r)) /\ 0 \in Nat /\ 0 <= Pieces(r)
      BY <1>7, <2>3
    <3> QED BY <1>7, <2>3, <2>4, <3>1, PartsOfLine
  <2>6. 0 + n = n
    BY <1>7
  <2> QED BY <2>2, <2>5, <2>6
<1>9. UNCHANGED <<client, turn, ascii>>
  BY DEF Remote
<1>10. Arriving(client[c].msg, client[c].timeout)'
  <2>1. 0 \in Nat /\ 0 <= n /\ 0 < Pieces(r)
    BY <1>7
  <2>2. Holds(ascii'.buffer, m, r, 0)
    BY <1>3, <1>9
  <2> QED BY <1>2, <1>4, <1>7, <1>8, <1>9, <2>1, <2>2 DEF Arriving
<1>11. ASSUME NEW d \in 1 .. Clients, Awaits(d)' PROVE OnWire(client[d].msg, client[d].timeout)'
  <2>1. Awaits(d)
    BY <1>9, <1>11 DEF Awaits, Waits
  <2>2. d = c
    BY <1>1, <2>1, OneAwaits
  <2> QED BY <1>10, <2>2 DEF OnWire
<1>12. Awaits(c)'
  BY <1>1, <1>9 DEF Awaits, Waits
<1> QED BY <1>11, <1>12 DEF WireRight

\* The slaves are as punctual as they were.
LEMMA PunctualLeft ==
  ASSUME [Next]_vars
  PROVE  punctual' = punctual
  BY DEF Next, Tick, GatewayStep, IdleWithout, IdleRequest, IdleCancel, Cancelled, Routing,
         SendMsg, SendMsgLater, WaitingRight, Answered, WaitingWrong, WaitingLonger, Remote,
         Start, User, Check, Fill, Command, WaitEvent, Return, vars

\* What is on the line stays right in every step.
LEMMA WireKept ==
  ASSUME LineSuits, TInv, SInv, WInv, LInv, [Next]_vars
  PROVE  LInv'
<1>1. punctual' = punctual
  BY PunctualLeft
<1>2. LineIsOne' /\ LineIsOne
  BY LineStaysOne DEF LInv
<1> SUFFICES ASSUME punctual PROVE WireRight'
  BY <1>1, <1>2 DEF LInv
<1>3. WireRight
  BY DEF LInv
<1>4. ASSUME UNCHANGED <<client, wire>>, turn'.at = "process", turn.at = "process"
      PROVE  WireRight'
  BY <1>3, <1>4 DEF WireRight, OnWire, Asked, Arriving, Quiet, Awaits, Waits, wire
<1>5. ASSUME UNCHANGED <<client, wire, turn>> PROVE WireRight'
  BY <1>3, <1>5 DEF WireRight, OnWire, Asked, Arriving, Quiet, Awaits, Waits, wire
<1>6. CASE Tick
  <2>1. ~IsReady(Gateway)
    BY <1>6, LenProperties DEF Tick, IsReady, TInv, ReadyOK
  <2>2. turn.at = "process"
    BY <2>1 DEF WInv
  <2> QED BY <1>4, <1>6, <2>2 DEF Tick
<1>7. CASE UNCHANGED vars \/ \E u \in Users : Start(u) \/ User(u)
  BY <1>5, <1>7 DEF vars, Start, User, Check, Fill, Command, WaitEvent, Return
<1>8. CASE Remote
  BY <1>2, <1>3, <1>8, LineServed
<1>9. CASE GatewayStep
  BY <1>2, <1>3, <1>9, LineNotUsed, LineSent, LineAnswered, LineAwaited DEF GatewayStep
<1> QED BY <1>6, <1>7, <1>8, <1>9 DEF Next

-----------------------------------------------------------------------------
(* The read that a client sends is the one its master has to do.           *)

ReadRequest(m) == m.kind = "request" /\ m.cmd.fct = "read"

\* A read that a client has received is under way for the command of its master, or
\* no server is there for it and none ever gets it.
ReadIsOrder(c) ==
  LET m == client[c].msg
  IN ReadRequest(m)
       => \/ ServerFor(m.cmd.id) = 0 /\ client[c].state \in {"IDLE", "ROUTING"}
          \/ client[c].state # "IDLE" /\ master[c].cmd /\ master[c].order = m.cmd
ReadsAreOrders ==
  /\ \A c \in 1 .. Clients : ReadIsOrder(c)
  /\ turn.at = "answered" => ~ReadRequest(client[turn.client].msg)
QInv == punctual => ReadsAreOrders

\* What a slave answers is no request to read.
LEMMA NoReadReplied ==
  ASSUME NEW m, NEW g \in Replies(m)
  PROVE  ~ReadRequest(g)
<1>1. g = Answer(m.cmd) \/ g = Exception(m.cmd)
  BY DEF Replies
<1>2. CASE g = Exception(m.cmd)
  BY <1>2 DEF Exception, ReadRequest
<1>3. CASE g = Answer(m.cmd)
  <2>1. CASE m.cmd.fct = "write"
    <3>1. g.cmd = m.cmd
      BY <1>3, <2>1 DEF Answer, Request
    <3> QED BY <2>1, <3>1 DEF ReadRequest
  <2>2. CASE m.cmd.fct # "write"
    BY <1>3, <2>2 DEF Answer, ReadRequest
  <2> QED BY <2>1, <2>2
<1> QED BY <1>1, <1>2, <1>3

\* Neither is the message that stands for none.
LEMMA NoReadWithout == ~ReadRequest(NoMessage)
  BY DEF NoMessage, ReadRequest

\* It stays so for a client whose master goes on with the command that it has.
LEMMA ReadsFrame ==
  ASSUME NEW c \in 1 .. Clients, ReadIsOrder(c), client'[c] = client[c],
         master[c].cmd => master'[c].cmd /\ master'[c].order = master[c].order
  PROVE  ReadIsOrder(c)'
  BY DEF ReadIsOrder

\* Users leave the commands that their masters have.
LEMMA UserKeepsReads ==
  ASSUME TInv, WInv, ReadsAreOrders, NEW u \in Users, Start(u) \/ User(u)
  PROVE  ReadsAreOrders'
<1> DEFINE c == MasterOf[u]
<1>0. /\ master \in [1 .. Clients -> MasterRecords] /\ c \in 1 .. Clients
      /\ client' = client /\ turn' = turn
  BY GatewayAssumption
  DEF TInv, MasterOK, Start, User, Check, Fill, Command, WaitEvent, Return
<1>1. ASSUME NEW d \in 1 .. Clients, master[d].cmd
      PROVE  master'[d].cmd /\ master'[d].order = master[d].order
  <2>1. CASE master' = master
    BY <1>1, <2>1
  <2>2. CASE Fill(u)
    <3>1. ~master[c].cmd /\ \E r : master' = [master EXCEPT ![c] = r]
      BY <2>2 DEF Fill, WInv, Handshake, NotGiven
    <3> QED BY <1>0, <1>1, <3>1
  <2>3. CASE Command(u)
    <3>1. master' = [master EXCEPT ![c].cmd = TRUE]
      BY <2>3 DEF Command
    <3>2. master[d] \in MasterRecords /\ master[c] \in MasterRecords
      BY <1>0
    <3> HIDE DEF c
    <3> QED BY <1>0, <1>1, <3>1, <3>2 DEF MasterRecords
  <2> QED BY <2>1, <2>2, <2>3 DEF Start, User, Check, WaitEvent, Return
<1>2. \A d \in 1 .. Clients : ReadIsOrder(d)'
  BY <1>0, <1>1, ReadsFrame DEF ReadsAreOrders
<1> QED BY <1>0, <1>2 DEF ReadsAreOrders

\* A call for a client takes the command only from its master, and only when the user
\* has been woken.
LEMMA OrdersLeft ==
  ASSUME TInv, NEW c \in 1 .. Clients, WholeCall(c) \/ IdleCancel(c) \/ WaitingRight(c),
         NEW d \in 1 .. Clients
  PROVE  /\ master'[d].order = master[d].order
         /\ d # c \/ turn.at = "process" => master'[d].cmd = master[d].cmd
<1>0. master \in [1 .. Clients -> MasterRecords] /\ master[c] \in MasterRecords
  BY DEF TInv, MasterOK
<1>1. CASE WholeCall(c) /\ turn.at = "process"
  BY <1>1, CommandsLeft
<1>2. CASE WholeCall(c) /\ turn.at # "process"
  <2>1. master' = [master EXCEPT ![c].cmd = FALSE]
    BY <1>2, WholeCallEffect DEF Cancelled, Answered
  <2> QED BY <1>0, <1>2, <2>1 DEF MasterRecords
<1>3. CASE IdleCancel(c) \/ WaitingRight(c)
  <2>1. PICK code : master' = [master EXCEPT ![c].code = code]
    BY <1>3 DEF IdleCancel, WaitingRight
  <2> QED BY <1>0, <2>1 DEF MasterRecords
<1> QED BY <1>1, <1>2, <1>3

\* A call of gatewayClientProcess keeps the reads.
LEMMA GatewayKeepsReads ==
  ASSUME LineSuits, TInv, SInv, WInv, WireRight, ReadsAreOrders, NEW c \in 1 .. Clients,
         WholeCall(c) \/ IdleCancel(c) \/ WaitingRight(c)
  PROVE  ReadsAreOrders'
<1>0. /\ client \in [1 .. Clients -> ClientRecords] /\ client[c] \in ClientRecords
      /\ turn.client = c /\ ReadIsOrder(c)
  BY OthersLeft DEF TInv, ClientOK, ReadsAreOrders
<1>1. ASSUME NEW d \in 1 .. Clients, d # c PROVE ReadIsOrder(d)'
  BY <1>1, OthersLeft, OrdersLeft, ReadsFrame DEF ReadsAreOrders
<1>2. ASSUME ~ReadRequest(client'[c].msg) PROVE ReadsAreOrders'
  <2>1. ReadIsOrder(c)'
    BY <1>2 DEF ReadIsOrder
  <2>2. turn'.at = "answered" => turn'.client = c
    BY WholeCallEffect, CancelWakes
  <2> QED BY <1>1, <1>2, <2>1, <2>2 DEF ReadsAreOrders
<1>3. ASSUME ReadIsOrder(c)', turn'.at # "answered" PROVE ReadsAreOrders'
  BY <1>1, <1>3 DEF ReadsAreOrders
<1>4. CASE IdleWithout(c) \/ Cancelled(c)
  <2>1. client[c].state = "IDLE" /\ Received(c, client[c].msg) /\ WholeCall(c)
    BY <1>0, <1>4 DEF IdleWithout, Cancelled, Processes, SInv, WholeCall
  <2> DEFINE next == IF client[c].msg = NoMessage THEN "IDLE" ELSE "ROUTING"
  <2>2. client'[c].msg = client[c].msg /\ client'[c].state = next
    <3>1. client' = [client EXCEPT ![c] = [client[c] EXCEPT !.msg = client[c].msg,
                                                            !.state = next]]
      BY <2>1 DEF Received
    <3> HIDE DEF next
    <3> QED BY <1>0, <3>1 DEF ClientRecords
  <2>3. next \in {"IDLE", "ROUTING"}
    OBVIOUS
  <2> HIDE DEF next
  <2>4. ReadIsOrder(c)'
    BY <1>0, <2>1, <2>2, <2>3 DEF ReadIsOrder
  <2> QED BY <1>3, <2>1, <2>4, WholeCallEffect
<1>5. CASE IdleRequest(c)
  <2> DEFINE m == Request(master[c].order)
  <2>1. /\ master[c].cmd /\ turn.at = "process" /\ WholeCall(c)
        /\ client' = [client EXCEPT ![c] = [client[c] EXCEPT !.msg = m,
                        !.state = IF m = NoMessage THEN "IDLE" ELSE "ROUTING"]]
    BY <1>5 DEF IdleRequest, Processes, Received, WholeCall
  <2>2. m # NoMessage /\ m.cmd = master[c].order
    <3>1. m.kind = "request" /\ NoMessage.kind = "none"
      BY DEF Request, NoMessage
    <3> QED BY <3>1 DEF Request
  <2> HIDE DEF m
  <2>3. client'[c].msg = m /\ client'[c].state = "ROUTING"
    BY <1>0, <2>1, <2>2 DEF ClientRecords
  <2>4. master'[c].cmd /\ master'[c].order = master[c].order
    BY <2>1, OrdersLeft
  <2>5. ReadIsOrder(c)'
    BY <2>2, <2>3, <2>4 DEF ReadIsOrder
  <2> QED BY <1>3, <2>1, <2>5, WholeCallEffect
<1>6. CASE IdleCancel(c)
  <2>1. client' = client /\ turn.at = "process" /\ turn' = [turn EXCEPT !.at = "cancel"]
    BY <1>6 DEF IdleCancel, Processes
  <2>2. turn'.at # "answered"
    BY <2>1 DEF TInv, TurnOK
  <2>3. ReadIsOrder(c)'
    BY <1>0, <2>1, OrdersLeft, ReadsFrame
  <2> QED BY <1>3, <2>2, <2>3
<1>7. CASE Routing(c)
  <2> DEFINE s == ServerFor(client[c].msg.cmd.id)
             r == IF s = 0 THEN [client[c] EXCEPT !.state = "IDLE"]
                  ELSE [client[c] EXCEPT !.state = "SEND_MSG_TO_SERVER", !.server = s]
  <2>1. /\ client' = [client EXCEPT ![c] = r] /\ turn.at = "process" /\ WholeCall(c)
        /\ client[c].state = "ROUTING"
    BY <1>7 DEF Routing, Processes, WholeCall
  <2>2. /\ r.msg = client[c].msg
        /\ r.state = IF s = 0 THEN "IDLE" ELSE "SEND_MSG_TO_SERVER"
    <3> HIDE DEF s
    <3> QED BY <1>0 DEF ClientRecords
  <2> HIDE DEF r
  <2>3. /\ client'[c].msg = client[c].msg
        /\ client'[c].state = IF s = 0 THEN "IDLE" ELSE "SEND_MSG_TO_SERVER"
    BY <1>0, <2>1, <2>2
  <2>4. master'[c].cmd = master[c].cmd /\ master'[c].order = master[c].order
    BY <2>1, OrdersLeft
  <2>5. ReadIsOrder(c)'
    BY <1>0, <2>3, <2>4 DEF ReadIsOrder
  <2> QED BY <1>3, <2>1, <2>5, WholeCallEffect
<1>8. CASE SendMsg(c) \/ SendMsgLater(c)
  <2>1. turn.at = "process" /\ WholeCall(c) /\ client[c].state = "SEND_MSG_TO_SERVER"
    BY <1>8 DEF SendMsg, SendMsgLater, Processes, WholeCall
  <2>2. client'[c].msg = client[c].msg /\ client'[c].state # "IDLE"
    <3>1. CASE SendMsg(c)
      <4> DEFINE r == [client[c] EXCEPT !.state = "WAITING_SERVER_RESPONSE",
                                        !.timeout = RespTimeout]
      <4>1. client' = [client EXCEPT ![c] = r]
        BY <3>1 DEF SendMsg
      <4>2. r.msg = client[c].msg /\ r.state # "IDLE"
        BY <1>0 DEF ClientRecords
      <4> HIDE DEF r
      <4> QED BY <1>0, <4>1, <4>2
    <3>2. CASE SendMsgLater(c)
      BY <2>1, <3>2 DEF SendMsgLater
    <3> QED BY <1>8, <3>1, <3>2
  <2>3. master'[c].cmd = master[c].cmd /\ master'[c].order = master[c].order
    BY <2>1, OrdersLeft
  <2>4. ReadIsOrder(c)'
    BY <1>0, <2>1, <2>2, <2>3 DEF ReadIsOrder
  <2> QED BY <1>3, <2>1, <2>4, WholeCallEffect
<1>9. CASE WaitingRight(c) \/ WaitingWrong(c)
  <2>1. PICK g \in Messages :
          /\ Processes(c, "WAITING_SERVER_RESPONSE") /\ ServerGives(c, g)
          /\ client'[c].msg = g
    BY <1>9, GetsMessage
  <2>2. ~ReadRequest(g)
    BY <2>1, GivenIsReply, NoReadReplied
  <2> QED BY <1>2, <2>1, <2>2
<1>10. CASE Answered(c)
  <2>1. ~ReadRequest(client[c].msg)
    BY <1>0, <1>10 DEF Answered, ReadsAreOrders
  <2>2. client'[c].msg = client[c].msg
    BY <1>0, <1>10 DEF Answered, BackToIdle, ClientRecords
  <2> QED BY <1>2, <2>1, <2>2
<1>11. CASE WaitingLonger(c)
  <2>1. turn.at = "process" /\ WholeCall(c) /\ client[c].state = "WAITING_SERVER_RESPONSE"
    BY <1>11 DEF WaitingLonger, Processes, WholeCall
  <2>2. CASE client[c].timeout # 0
    <3>1. client'[c].msg = client[c].msg /\ client'[c].state = client[c].state
      <4> DEFINE r == [client[c] EXCEPT !.timeout = @ - 1]
      <4>1. client' = [client EXCEPT ![c] = r]
        BY <1>11, <2>2 DEF WaitingLonger
      <4>2. r.msg = client[c].msg /\ r.state = client[c].state
        BY <1>0 DEF ClientRecords
      <4> HIDE DEF r
      <4> QED BY <1>0, <4>1, <4>2
    <3>2. master'[c].cmd = master[c].cmd /\ master'[c].order = master[c].order
      BY <2>1, OrdersLeft
    <3>3. ReadIsOrder(c)'
      BY <1>0, <3>1, <3>2 DEF ReadIsOrder
    <3> QED BY <1>3, <2>1, <3>3, WholeCallEffect
  <2>3. CASE client[c].timeout = 0
    BY <1>2, <1>11, <2>3, NothingGot, NoReadWithout
  <2> QED BY <2>2, <2>3
<1> QED BY <1>4, <1>5, <1>6, <1>7, <1>8, <1>9, <1>10, <1>11 DEF WholeCall

\* And so does every step.
LEMMA ReadsKept ==
  ASSUME LineSuits, TInv, SInv, WInv, LInv, QInv, [Next]_vars
  PROVE  QInv'
<1>1. punctual' = punctual
  BY PunctualLeft
<1> SUFFICES ASSUME punctual, WireRight, ReadsAreOrders PROVE ReadsAreOrders'
  BY <1>1 DEF QInv, LInv
<1>2. CASE Tick \/ Remote \/ UNCHANGED vars
  <2>1. UNCHANGED <<client, master>> /\ (turn' = turn \/ turn'.at = "process")
    <3>1. CASE Tick
      BY <3>1 DEF Tick
    <3>2. CASE Remote \/ UNCHANGED vars
      BY <3>2 DEF Remote, vars
    <3> QED BY <1>2, <3>1, <3>2
  <2> QED BY <2>1 DEF ReadsAreOrders, ReadIsOrder
<1>3. CASE \E u \in Users : Start(u) \/ User(u)
  BY <1>3, UserKeepsReads
<1>4. CASE GatewayStep
  BY <1>4, GatewayKeepsReads DEF GatewayStep, WholeCall
<1> QED BY <1>2, <1>3, <1>4 DEF Next

-----------------------------------------------------------------------------
(* What a call returns.                                                    *)

\* The user whose event is set, or who has been woken, has the right answer if it
\* finds that no error occurred.
ZeroRight(u) ==
  (pc[u] = "clear" \/ event[u]) /\ master[MasterOf[u]].code = "NO_ERROR"
    => call[u].answer = Answer(call[u].order)
ZInv == punctual => \A u \in Users : ZeroRight(u)

\* What a master takes for the answer to its command is that answer.
LEMMA RightAnswer ==
  ASSUME LineSuits, TInv, SInv, WireRight, ReadsAreOrders, NEW c \in 1 .. Clients,
         Processes(c, "WAITING_SERVER_RESPONSE"), NEW g \in Messages, ServerGives(c, g),
         Outcome(master[c], g) = "NO_ERROR"
  PROVE  g = Answer(master[c].order)
<1> DEFINE m == client[c].msg
           o == master[c].order
<1>1. \/ g.kind = "answer"
      \/ o.fct = "write" /\ g = Request(o)
  BY DEF Outcome
<1>2. CASE o.fct = "write" /\ g = Request(o)
  BY <1>2 DEF Answer
<1>3. CASE g.kind = "answer"
  <2>1. g \in Replies(m) /\ m \in Messages
    BY GivenIsReply, ProcessedAwaits
  <2>2. g = Answer(m.cmd) /\ m.kind = "request" /\ m.cmd.fct # "write"
    <3>1. Exception(m.cmd).kind = "exception" /\ Request(m.cmd).kind = "request"
      BY DEF Exception, Request
    <3>2. g = Answer(m.cmd) /\ m.kind = "request"
      BY <1>3, <2>1, <3>1 DEF Replies
    <3> QED BY <1>3, <3>1, <3>2 DEF Answer
  <2>3. m.cmd.fct = "read"
    <3>1. m.cmd \in Commands
      <4>1. PICK x \in Commands : m \in {Request(x), Answer(x), Exception(x)}
        BY <2>1 DEF Messages
      <4>2. Request(x).cmd = x /\ Answer(x).cmd = x /\ Exception(x).cmd = x
        BY DEF Request, Answer, Exception
      <4> QED BY <4>1, <4>2
    <3>2. m.cmd.fct \in {"read", "write"}
      <4>1. PICK u \in Users : m.cmd \in Wants[u]
        BY <3>1 DEF Commands
      <4> QED BY <4>1, GatewayAssumption
    <3> QED BY <2>2, <3>2
  <2>4. ReadRequest(m) /\ ReadIsOrder(c) /\ client[c].state = "WAITING_SERVER_RESPONSE"
    BY <2>2, <2>3 DEF ReadRequest, ReadsAreOrders, Processes
  <2>5. o = m.cmd
    BY <2>4 DEF ReadIsOrder
  <2> QED BY <2>2, <2>5
<1> QED BY <1>1, <1>2, <1>3

\* What a step leaves alone stays right; a code may become that of an error.
LEMMA ZeroFrame ==
  ASSUME NEW u \in Users, ZeroRight(u), NEW c, c = MasterOf[u],
         pc'[u] = pc[u], event'[u] = event[u], call'[u].order = call[u].order,
         call'[u].answer = call[u].answer,
         \/ master'[c].code = master[c].code
         \/ master'[c].code # "NO_ERROR"
  PROVE  ZeroRight(u)'
  BY DEF ZeroRight

\* A step of a user leaves its answer, and those of the others.
LEMMA UserKeepsZero ==
  ASSUME TInv, WInv, \A v \in Users : ZeroRight(v), NEW u \in Users, Start(u) \/ User(u)
  PROVE  \A v \in Users : ZeroRight(v)'
<1> DEFINE c == MasterOf[u]
<1>0. /\ pc \in [Users -> {"idle", "check", "fill", "command", "wait", "asleep", "clear"}]
      /\ event \in [Users -> BOOLEAN] /\ call \in [Users -> CallRecords]
      /\ c \in 1 .. Clients
  BY GatewayAssumption DEF TInv, TasksOK
<1>1. ASSUME NEW v \in Users, v # u PROVE ZeroRight(v)'
  <2>1. master' = master \/ \E r : master' = [master EXCEPT ![c] = r]
    BY DEF Start, User, Check, Fill, Command, WaitEvent, Return
  <2>2. master'[MasterOf[v]] = master[MasterOf[v]]
    BY <1>1, <2>1, MasterOfOther
  <2>3. pc' = pc \/ \E p : pc' = [pc EXCEPT ![u] = p]
    BY DEF Start, User, Check, Fill, Command, WaitEvent, Return, Leave
  <2>4. event' = event \/ \E e : event' = [event EXCEPT ![u] = e]
    BY DEF Start, User, Check, Fill, Command, WaitEvent, Return
  <2>5. call' = call \/ \E a : call' = [call EXCEPT ![u] = a]
    BY DEF Start, User, Check, Fill, Command, WaitEvent, Return, Leave
  <2>6. pc'[v] = pc[v] /\ event'[v] = event[v] /\ call'[v] = call[v]
    BY <1>0, <1>1, <2>3, <2>4, <2>5
  <2> QED BY <2>2, <2>6, ZeroFrame
<1>2. event[u] => pc[u] \in {"wait", "clear"}
  BY DEF WInv, Handshake, EventInTime
<1>3. ASSUME pc'[u] # "clear", ~event'[u] PROVE \A v \in Users : ZeroRight(v)'
  BY <1>1, <1>3 DEF ZeroRight
<1>4. CASE Start(u) \/ Fill(u) \/ Command(u)
  <2>1. /\ pc[u] \in {"idle", "fill", "command"} /\ event' = event
        /\ \E p \in {"check", "command", "wait"} : pc' = [pc EXCEPT ![u] = p]
    BY <1>4 DEF Start, Fill, Command
  <2> QED BY <1>0, <1>2, <1>3, <2>1
<1>5. CASE Check(u)
  <2>1. /\ pc[u] = "check" /\ event' = event
        /\ \E p \in {"idle", "fill"} : pc' = [pc EXCEPT ![u] = p]
    BY <1>5 DEF Check, Leave
  <2> QED BY <1>0, <1>2, <1>3, <2>1
<1>6. CASE Return(u)
  <2>1. event' = [event EXCEPT ![u] = FALSE] /\ pc' = [pc EXCEPT ![u] = "idle"]
    BY <1>6 DEF Return, Leave
  <2>2. pc'[u] = "idle" /\ ~event'[u]
    BY <1>0, <2>1
  <2> QED BY <1>3, <2>2
<1>7. CASE WaitEvent(u)
  <2>1. /\ master' = master /\ event' = event /\ call' = call
        /\ ~event[u] => pc' = [pc EXCEPT ![u] = "asleep"]
    BY <1>7 DEF WaitEvent
  <2>2. CASE event[u]
    BY <1>1, <2>1, <2>2 DEF ZeroRight
  <2>3. CASE ~event[u]
    <3>1. pc'[u] = "asleep" /\ ~event'[u]
      BY <1>0, <2>1, <2>3
    <3> QED BY <1>3, <3>1
  <2> QED BY <2>2, <2>3
<1> QED BY <1>1, <1>4, <1>5, <1>6, <1>7 DEF User

\* No call of gatewayClientProcess that does not wake a user makes its answer a
\* right one.
LEMMA GatewayKeepsZero ==
  ASSUME TInv, WInv, \A v \in Users : ZeroRight(v), NEW c \in 1 .. Clients, WholeCall(c)
  PROVE  \A v \in Users : ZeroRight(v)'
<1>0. /\ call \in [Users -> CallRecords] /\ master \in [1 .. Clients -> MasterRecords]
      /\ pc' = pc /\ event' = event /\ \A v \in Users : MasterOf[v] \in 1 .. Clients
  BY GatewayAssumption, WholeCallEffect DEF TInv, TasksOK, MasterOK
<1>1. \A v \in Users : call'[v].order = call[v].order /\ call'[v].answer = call[v].answer
  <2>1. CASE IdleRequest(c)
    <3> DEFINE t == master[c].task
    <3>1. \E n : call' = [call EXCEPT ![t].attempts = n]
      BY <2>1 DEF IdleRequest, Attempt
    <3> HIDE DEF t
    <3> QED BY <1>0, <3>1 DEF CallRecords
  <2>2. CASE call' = call
    BY <2>2
  <2> QED
    BY <2>1, <2>2
    DEF WholeCall, IdleWithout, Cancelled, Routing, SendMsg, SendMsgLater, Answered,
        WaitingWrong, WaitingLonger, tasks
<1>2. ASSUME NEW d \in 1 .. Clients
      PROVE  master'[d].code = master[d].code \/ master'[d].code # "NO_ERROR"
  <2>0. master[d] \in MasterRecords /\ master[c] \in MasterRecords
    BY <1>0
  <2>1. CASE IdleRequest(c)
    <3>1. master' = [master EXCEPT ![c] = Retried(master[c])]
      BY <2>1 DEF IdleRequest
    <3>2. Retried(master[c]).code = master[c].code
      BY <2>0 DEF Retried, MasterRecords
    <3> QED BY <1>0, <3>1, <3>2
  <2>2. CASE Cancelled(c) \/ Answered(c)
    <3>1. master' = [master EXCEPT ![c].cmd = FALSE]
      BY <2>2 DEF Cancelled, Answered
    <3> QED BY <1>0, <2>0, <3>1 DEF MasterRecords
  <2>3. CASE WaitingWrong(c)
    <3>1. PICK g \in Messages :
            /\ ToMe(master[c], g) => Outcome(master[c], g) # "NO_ERROR"
            /\ master' = IF ToMe(master[c], g)
                         THEN [master EXCEPT ![c].code = Outcome(master[c], g)] ELSE master
      BY <2>3 DEF WaitingWrong
    <3>2. CASE ToMe(master[c], g)
      <4> DEFINE x == Outcome(master[c], g)
      <4>1. x # "NO_ERROR" /\ master' = [master EXCEPT ![c].code = x]
        BY <3>1, <3>2
      <4> HIDE DEF x
      <4> QED BY <1>0, <2>0, <4>1 DEF MasterRecords
    <3> QED BY <3>1, <3>2
  <2>4. CASE master' = master
    BY <2>4
  <2> QED
    BY <2>1, <2>2, <2>3, <2>4
    DEF WholeCall, IdleWithout, Routing, SendMsg, SendMsgLater, WaitingLonger
<1> QED BY <1>0, <1>1, <1>2, ZeroFrame

\* A user is woken with no error only by the answer to its own command.
LEMMA WakingKeepsZero ==
  ASSUME LineSuits, TInv, SInv, WInv, WireRight, ReadsAreOrders,
         \A v \in Users : ZeroRight(v),
         NEW c \in 1 .. Clients, IdleCancel(c) \/ WaitingRight(c)
  PROVE  \A v \in Users : ZeroRight(v)'
<1>0. /\ pc \in [Users -> {"idle", "check", "fill", "command", "wait", "asleep", "clear"}]
      /\ event \in [Users -> BOOLEAN] /\ call \in [Users -> CallRecords]
      /\ master \in [1 .. Clients -> MasterRecords] /\ master[c] \in MasterRecords
      /\ \A v \in Users : MasterOf[v] \in 1 .. Clients
  BY GatewayAssumption DEF TInv, TasksOK, MasterOK
<1>1. PICK u \in Users :
        /\ MasterOf[u] = c /\ master[c].task = u /\ master[c].order = call[u].order
        /\ StillWaits(u) /\ SetEvent(u)
  BY CancelWakes
<1>2. \/ pc' = [pc EXCEPT ![u] = "clear"] /\ event' = event
      \/ event' = [event EXCEPT ![u] = TRUE] /\ pc' = pc
  BY <1>1, SetEventEffect
<1>3. ASSUME NEW v \in Users, v # u PROVE ZeroRight(v)'
  <2>1. pc'[v] = pc[v] /\ event'[v] = event[v]
    BY <1>0, <1>2, <1>3
  <2>2. MasterOf[v] # c
    BY <1>1, <1>3, OneUserEach
  <2>3. PICK code : master' = [master EXCEPT ![c].code = code]
    BY DEF IdleCancel, WaitingRight
  <2>4. master'[MasterOf[v]] = master[MasterOf[v]]
    BY <1>0, <2>2, <2>3
  <2>5. call' = call \/ \E m : call' = [call EXCEPT ![u].answer = m]
    BY <1>1 DEF IdleCancel, WaitingRight
  <2>6. call'[v] = call[v]
    BY <1>0, <1>3, <2>5
  <2> QED BY <1>3, <2>1, <2>4, <2>6, ZeroFrame
<1>4. CASE IdleCancel(c)
  <2> DEFINE x == IF master[c].code = "NO_ERROR" THEN "SLAVE_NOT_RESPOND" ELSE master[c].code
  <2>1. master' = [master EXCEPT ![c].code = x] /\ x # "NO_ERROR"
    BY <1>4 DEF IdleCancel
  <2> HIDE DEF x
  <2>2. master'[c].code # "NO_ERROR"
    BY <1>0, <2>1 DEF MasterRecords
  <2>3. ZeroRight(u)'
    BY <1>1, <2>2 DEF ZeroRight
  <2> QED BY <1>3, <2>3
<1>5. CASE WaitingRight(c)
  <2>1. PICK g \in Messages :
          /\ Processes(c, "WAITING_SERVER_RESPONSE") /\ ServerGives(c, g)
          /\ Outcome(master[c], g) = "NO_ERROR"
          /\ call' = [call EXCEPT ![u].answer = g]
    BY <1>1, <1>5 DEF WaitingRight
  <2>2. g = Answer(call[u].order)
    BY <1>1, <2>1, RightAnswer
  <2>3. call'[u].answer = g /\ call'[u].order = call[u].order
    <3>1. call[u] \in CallRecords
      BY <1>0
    <3> QED BY <1>0, <2>1, <3>1 DEF CallRecords
  <2>4. ZeroRight(u)'
    BY <2>2, <2>3 DEF ZeroRight
  <2> QED BY <1>3, <2>4
<1> QED BY <1>4, <1>5

\* Nothing that happens makes a wrong answer of it.
LEMMA ZeroKept ==
  ASSUME LineSuits, TInv, SInv, WInv, LInv, QInv, ZInv, [Next]_vars
  PROVE  ZInv'
<1> SUFFICES ASSUME punctual, WireRight, ReadsAreOrders, \A u \in Users : ZeroRight(u)
             PROVE  \A u \in Users : ZeroRight(u)'
  BY PunctualLeft DEF ZInv, QInv, LInv
<1>1. CASE Tick \/ Remote \/ UNCHANGED vars
  <2>1. UNCHANGED <<master, pc, event, call>>
    BY <1>1 DEF Tick, Remote, vars, tasks
  <2> QED BY <2>1 DEF ZeroRight
<1>2. CASE \E u \in Users : Start(u) \/ User(u)
  BY <1>2, UserKeepsZero
<1>3. CASE GatewayStep
  BY <1>3, GatewayKeepsZero, WakingKeepsZero DEF GatewayStep, WholeCall
<1> QED BY <1>1, <1>2, <1>3 DEF Next

-----------------------------------------------------------------------------
(* The theorems.                                                           *)

\* The invariant holds at the beginning.
LEMMA GInvInit == Init => GInv
<1> USE GatewayAssumption, AsciiAssumption
<1> SUFFICES ASSUME Init PROVE GInv
  OBVIOUS
<1>1. ClientOK
  <2>1. [state |-> "IDLE", msg |-> NoMessage, timeout |-> 0, server |-> 0] \in ClientRecords
    BY DEF ClientRecords, States
  <2> QED BY <2>1 DEF Init, ClientOK
<1>2. TurnOK
  BY DEF Init, TurnOK
<1>3. MasterOK
  <2>1. [cmd |-> FALSE, order |-> NoCommand, code |-> "NO_ERROR", retry |-> 0,
         task |-> Gateway] \in MasterRecords
    BY DEF MasterRecords, Codes, Tasks
  <2> QED BY <2>1 DEF Init, MasterOK
<1>4. TasksOK
  <2>1. NoCall \in CallRecords
    BY DEF NoCall, Call, CallRecords
  <2> QED BY <2>1 DEF Init, TasksOK
<1>5. AsciiOK /\ RemoteOK /\ LineOK
  BY EmptySeq DEF Init, AsciiOpen, AsciiOK, RemoteOK, LineOK
<1>6. ReadyOK /\ ReadyMeans /\ ~IsReady(Gateway)
  BY EmptySeq DEF Init, ReadyOK, ReadyMeans, IsReady, IsInjective
<1>7. SInv
  BY DEF Init, SInv, Waits
<1>8. WInv
  BY DEF Init, WInv, Woken, Handshake, NotGiven, FilledIn, WaitsJustWhenPending, StillWaits,
         Pending, EventInTime
<1>9. RInv
  BY DEF Init, RInv, Retries, StillWaits
<1>10. busy \in [DOMAIN Servers -> BOOLEAN]
  BY DEF Init
<1> QED BY <1>1, <1>2, <1>3, <1>4, <1>5, <1>6, <1>7, <1>8, <1>9, <1>10 DEF GInv, TInv

\* One step keeps all of it.
LEMMA GInvNext == GInv /\ [Next]_vars => GInv'
  BY TypesKept, ServersKept, WakingKept, RetriesKept DEF GInv

\* Every state of every behaviour satisfies it.
LEMMA GInvAlways == Spec => []GInv
  BY GInvInit, GInvNext, PTL DEF Spec

\* The gateway's tables, the buffers of the line and the list of ready tasks keep
\* their types and sizes, for any number of masters, users and servers.
THEOREM GatewayTypes == Spec => []GatewayTypeOK
<1>1. GInv => GatewayTypeOK
  <2> SUFFICES ASSUME GInv PROVE GatewayTypeOK
    OBVIOUS
  <2>1. /\ ToSet(remote) \subseteq Messages
        /\ ToSet(ready) \subseteq Users \cup {Gateway}
    BY LenProperties, ElementOfSeq DEF GInv, TInv, RemoteOK, ReadyOK, ToSet, Tasks
  <2> QED BY <2>1
          DEF GatewayTypeOK, GInv, TInv, ClientOK, ClientRecords, States, TurnOK, MasterOK,
              MasterRecords, Codes, Tasks, TasksOK, CallRecords, AsciiOK, RemoteOK, LineOK,
              ReadyOK
<1> QED BY <1>1, GInvAlways, PTL

\* A server is busy just while one client waits for it, however many clients share
\* it, and whatever gatewayMainTask times out or gets late.
THEOREM ServerHeldByOne == Spec => []BusyHeld
<1>1. GInv => BusyHeld
  <2> SUFFICES ASSUME GInv, NEW s \in DOMAIN Servers
               PROVE  Cardinality({c \in 1 .. Clients :
                                     /\ client[c].state = "WAITING_SERVER_RESPONSE"
                                     /\ client[c].server = s}) = (IF busy[s] THEN 1 ELSE 0)
    BY DEF BusyHeld
  <2> DEFINE W == {c \in 1 .. Clients : /\ client[c].state = "WAITING_SERVER_RESPONSE"
                                        /\ client[c].server = s}
  <2>1. SInv
    BY DEF GInv
  <2>2. CASE busy[s]
    <3>1. PICK c \in 1 .. Clients : Waits(c) /\ client[c].server = s
      BY <2>1, <2>2 DEF SInv
    <3>2. W = {c}
      BY <2>1, <3>1 DEF SInv, Waits
    <3> HIDE DEF W
    <3> QED BY <2>2, <3>2, FS_Singleton DEF W
  <2>3. CASE ~busy[s]
    <3>1. W = {}
      BY <2>1, <2>3 DEF SInv, Waits
    <3> HIDE DEF W
    <3> QED BY <2>3, <3>1, FS_EmptySet DEF W
  <2> QED BY <2>2, <2>3
<1> QED BY <1>1, GInvAlways, PTL

\* A user that sleeps in a function of a master has its command pending there, and
\* the master knows whom to wake, however the tasks preempt one another.
THEOREM SleepersKnown == Spec => []SleeperRemembered
<1>1. GInv => SleeperRemembered
  BY DEF GInv, WInv, Handshake, WaitsJustWhenPending, StillWaits, Pending, FilledIn,
         SleeperRemembered
<1> QED BY <1>1, GInvAlways, PTL

\* The code for a silent slave is returned only after retryComm attempts.
THEOREM AllRetriesMade == Spec => []GivesUpLast
<1>1. GInv => GivesUpLast
  BY DEF GInv, RInv, Retries, GivesUpLast
<1> QED BY <1>1, GInvAlways, PTL

\* All of the invariant about what is sent.
HInv == GInv /\ LInv /\ QInv /\ ZInv

\* It holds at the beginning.
LEMMA HInvInit == Init => HInv
<1> USE GatewayAssumption, AsciiAssumption
<1> SUFFICES ASSUME Init PROVE HInv
  OBVIOUS
<1>1. LInv
  <2>1. \A c \in 1 .. Clients : client[c].server = 0 /\ client[c].state = "IDLE"
    BY DEF Init
  <2>2. 0 \notin DOMAIN Servers
    BY LenProperties
  <2>3. Quiet
    BY EmptySeq DEF Init, AsciiOpen, Quiet
  <2> QED BY <2>1, <2>2, <2>3 DEF LInv, LineIsOne, WireRight, Awaits, Waits
<1>2. QInv
  <2>1. turn.at = "process" /\ \A c \in 1 .. Clients : client[c].msg = NoMessage
    BY DEF Init
  <2> QED BY <2>1, NoReadWithout DEF QInv, ReadsAreOrders, ReadIsOrder
<1>3. ZInv
  BY DEF Init, ZInv, ZeroRight
<1> QED BY <1>1, <1>2, <1>3, GInvInit DEF HInv

\* One step keeps it.
LEMMA HInvNext ==
  ASSUME LineSuits, HInv, [Next]_vars
  PROVE  HInv'
  BY GInvNext, WireKept, ReadsKept, ZeroKept DEF HInv, GInv

\* Every state of every behaviour satisfies it.
LEMMA HInvAlways ==
  ASSUME LineSuits
  PROVE  Spec => []HInv
<1>1. HInv /\ [Next]_vars => HInv'
  BY HInvNext
<1> QED BY <1>1, HInvInit, PTL DEF Spec

\* A call of a function of a master that returns 0 has had the answer to its own
\* command, though the master compares no address and the transport sends out of the
\* buffer that it receives in, if the slaves answer in time and the transport is
\* configured as LineSuits says.
THEOREM ZeroIsTrue ==
  ASSUME LineSuits
  PROVE  Spec => []ZeroMeansAnswered
<1>1. HInv => ZeroMeansAnswered
  BY DEF HInv, ZInv, ZeroRight, ZeroMeansAnswered
<1> QED BY <1>1, HInvAlways, PTL

\* What a client gets from a server answers what it has sent, under the same
\* conditions: no piece of an answer that came late, and not its own request.
THEOREM AnswersFit ==
  ASSUME LineSuits
  PROVE  Spec => AnswerIsForRequest
<1> DEFINE Fits ==
      \A c \in 1 .. Clients :
        LET waits == /\ client[c].state = "WAITING_SERVER_RESPONSE"
                     /\ turn.client = c /\ turn.at = "process"
            gets == client'[c].state = "IDLE" \/ turn'.at = "answered"
        IN punctual /\ waits /\ gets /\ client'[c].msg # NoMessage
             => client'[c].msg \in Replies(client[c].msg)
<1>1. HInv /\ [Next]_vars => [Fits]_vars
  <2> SUFFICES ASSUME HInv, Next, punctual, NEW c \in 1 .. Clients, Waits(c),
                      turn.client = c, turn.at = "process",
                      client'[c].state = "IDLE" \/ turn'.at = "answered",
                      client'[c].msg # NoMessage
               PROVE  client'[c].msg \in Replies(client[c].msg)
    BY DEF Waits
  <2>0. /\ TInv /\ SInv /\ WInv /\ WireRight /\ client[c] \in ClientRecords
        /\ client \in [1 .. Clients -> ClientRecords]
    BY DEF HInv, GInv, LInv, TInv, ClientOK
  <2>1. GatewayStep
    <3>1. client[c].state # "IDLE"
      BY DEF Waits
    <3>2. ASSUME client' = client, turn' = turn \/ turn'.at = "process" PROVE FALSE
      BY <3>1, <3>2
    <3>3. ~Tick
      <4> SUFFICES ASSUME Tick PROVE FALSE
        OBVIOUS
      <4>1. client' = client /\ turn'.at = "process"
        BY DEF Tick
      <4> QED BY <3>2, <4>1
    <3>4. ~Remote
      BY <3>2 DEF Remote
    <3>5. ASSUME NEW u \in Users, Start(u) \/ User(u) PROVE FALSE
      BY <3>2, <3>5 DEF Start, User, Check, Fill, Command, WaitEvent, Return
    <3> QED BY <3>3, <3>4, <3>5 DEF Next
  <2>2. WaitingRight(c) \/ WaitingWrong(c) \/ WaitingLonger(c)
    <3>1. PICK d \in 1 .. Clients : WholeCall(d) \/ IdleCancel(d) \/ WaitingRight(d)
      BY <2>1 DEF GatewayStep, WholeCall
    <3>2. d = c
      BY <2>0, <3>1, OthersLeft
    <3> QED BY <3>1, <3>2 DEF WholeCall, IdleWithout, IdleRequest, IdleCancel, Cancelled,
                Routing, SendMsg, SendMsgLater, Answered, Processes, Waits
  <2>3. CASE WaitingRight(c) \/ WaitingWrong(c)
    <3>1. PICK g \in Messages :
            /\ Processes(c, "WAITING_SERVER_RESPONSE") /\ ServerGives(c, g)
            /\ client'[c].msg = g
      BY <2>0, <2>3, GetsMessage
    <3> QED BY <2>0, <3>1, GivenIsReply
  <2>4. CASE WaitingLonger(c)
    <3>1. CASE client[c].timeout # 0
      <4>1. client'[c].state = client[c].state
        <5> DEFINE r == [client[c] EXCEPT !.timeout = @ - 1]
        <5>1. client' = [client EXCEPT ![c] = r] /\ r.state = client[c].state
          BY <2>0, <2>4, <3>1 DEF WaitingLonger, ClientRecords
        <5> HIDE DEF r
        <5> QED BY <2>0, <5>1
      <4>2. turn'.at = "process"
        BY <2>0, <2>4, WholeCallEffect DEF WholeCall
      <4> QED BY <4>1, <4>2 DEF Waits
    <3>2. CASE client[c].timeout = 0
      BY <2>0, <2>4, <3>2, NothingGot
    <3> QED BY <3>1, <3>2
  <2> QED BY <2>2, <2>3, <2>4
<1>2. AnswerIsForRequest <=> [][Fits]_vars
  BY DEF AnswerIsForRequest
<1> QED BY <1>1, <1>2, HInvAlways, PTL DEF Spec
=============================================================================
