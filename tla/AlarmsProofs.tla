---------------------------- MODULE AlarmsProofs ----------------------------
(***************************************************************************)
(* Proofs about counters and alarms, for every configuration: types, what  *)
(* GetAlarm tells, that no alarm is overdue after a tick or expires early, *)
(* and that every expiry has its effect once.                              *)
(***************************************************************************)
EXTENDS Alarms, TLAPS, SequenceTheorems

-----------------------------------------------------------------------------
(* The inductive invariant.                                                *)

\* The alarm is still to be looked at in the call f.
Awaits(f, a) ==
  /\ f.counter = Counter[a]
  /\ \E k \in DOMAIN AlarmRef[Counter[a]] :
       AlarmRef[Counter[a]][k] = a /\ k >= f.loopi

AwaitedIn(s, a) == \E i \in DOMAIN s : Awaits(s[i], a)
Awaited(a) == AwaitedIn(calls, a)

\* Calls go to ever greater counters, by at most one more than the one before;
\* only the latest can be in the middle of an alarm.
NestedIn(s) ==
  /\ \A i \in DOMAIN s :
       /\ s[i].loopi >= 1
       /\ s[i].increment <= s[i].counter + 1
       /\ i # Len(s) => s[i].count = 0
       /\ \A j \in DOMAIN s : i < j => s[i].counter < s[j].counter
Nested == NestedIn(calls)

\* An alarm that is catching up is cyclic, and has gained at least a tick with
\* each expiry.
CatchingUp ==
  calls # <<>> /\ Now.count # 0 =>
    /\ InLoop
    /\ Running(Alarm) /\ alarmCycle[Alarm] # 0
    /\ Now.count <= alarmTime[Alarm]
    /\ Now.count <= Now.increment + 1

\* The time t of an alarm is what is left to its expiry, d, before or after the
\* increment under way has been taken from it.
Right(s, a, t, d) ==
  /\ \A i \in DOMAIN s : Awaits(s[i], a) => t = d + s[i].increment
  /\ ~AwaitedIn(s, a) => t = d

TimesRight ==
  \A a \in Alarms \ absolute :
    Running(a) => Right(calls, a, alarmTime[a], due[a])

\* An alarm that has been looked at is not due.
Positive ==
  \A a \in Alarms :
    Running(a) /\ ~Awaited(a) => alarmTime[a] > 0 \/ a \in fresh

\* Expiries wait for their effect only while the alarm catches up.
Accounts ==
  \A a \in Alarms :
    owed[a] = IF InLoop /\ a = Alarm THEN Now.count ELSE 0

\* Cycles are small enough for the sums of IncrementAlarm.
CyclesFit ==
  /\ \A a \in Alarms : alarmCycle[a] # 0 => CycleFits(a, alarmCycle[a])
  /\ \A t \in Tasks :
       service[t].call \in {"rel", "abs"} =>
         /\ CycleFits(service[t].alarm, service[t].cycle)
         /\ service[t].ticks < TickRange

AInv ==
  /\ TypeOK
  /\ Nested
  /\ CatchingUp
  /\ TimesRight
  /\ Positive
  /\ Accounts
  /\ CyclesFit

-----------------------------------------------------------------------------
(* The calls of IncrementCounter.                                          *)

\* The list of a counter holds its alarms.
LEMMA AlarmLists ==
  ASSUME NEW c \in Counters
  PROVE  /\ c \in Nat
         /\ AlarmRef[c] \in Seq(Alarms)
         /\ DOMAIN AlarmRef[c] = 1 .. Len(AlarmRef[c])
         /\ Len(AlarmRef[c]) \in Nat
         /\ \A i \in DOMAIN AlarmRef[c] :
              AlarmRef[c][i] \in Alarms /\ Counter[AlarmRef[c][i]] = c
<1>1. c \in Nat /\ AlarmRef[c] \in Seq(Alarms)
  BY CounterAssumption
<1>2. \A i \in DOMAIN AlarmRef[c] : AlarmRef[c][i] \in Alarms
  BY <1>1
<1> QED BY <1>1, <1>2, CounterAssumption

\* The alarm at hand belongs to the counter of the latest call and is awaited
\* by it.
LEMMA AtHand ==
  ASSUME TypeOK, Nested, InLoop
  PROVE  /\ Now \in Frames
         /\ Now.loopi \in DOMAIN AlarmRef[Now.counter]
         /\ Alarm \in Alarms
         /\ Counter[Alarm] = Now.counter
         /\ Awaits(Now, Alarm)
<1>1. Len(calls) \in DOMAIN calls /\ Now \in Frames
  BY DEF TypeOK, InLoop, Now
<1>2. Now.counter \in Counters /\ Now.loopi \in Nat /\ Now.loopi >= 1
  BY <1>1 DEF Nested, NestedIn, Now, Frames
<1>a. Now.loopi \in DOMAIN AlarmRef[Now.counter]
  BY <1>2, AlarmLists DEF InLoop
<1>3. Alarm \in Alarms /\ Counter[Alarm] = Now.counter
  BY <1>2, <1>a, AlarmLists DEF Alarm
<1>4. Awaits(Now, Alarm)
  BY <1>2, <1>a, <1>3 DEF Awaits, Alarm
<1> QED BY <1>1, <1>a, <1>3, <1>4

\* The latest call after the alarm at hand.
LEMMA RestProperties ==
  ASSUME TypeOK, Nested, InLoop
  PROVE  /\ NextAlarm \in Frames
         /\ NextAlarm.counter = Now.counter
         /\ NextAlarm.increment = Now.increment
         /\ NextAlarm.loopi = Now.loopi + 1
         /\ NextAlarm.count = 0
         /\ Rest \in Seq(Frames) /\ Len(Rest) = Len(calls)
         /\ Len(calls) \in DOMAIN calls /\ DOMAIN Rest = DOMAIN calls
         /\ \A i \in DOMAIN calls :
              Rest[i] = IF i = Len(calls) THEN NextAlarm ELSE calls[i]
<1>1. Len(calls) \in DOMAIN calls /\ Now \in Frames
  BY DEF TypeOK, InLoop, Now
<1>a. /\ Now.counter \in Counters /\ Now.increment \in Nat
      /\ Now.loopi \in Nat /\ Now.count \in Nat
  BY <1>1 DEF Frames
<1>b. NextAlarm.loopi = Now.loopi + 1 /\ NextAlarm.count = 0
  BY <1>1 DEF NextAlarm, Frames
<1>c. /\ NextAlarm.counter = Now.counter
      /\ NextAlarm.increment = Now.increment
  BY <1>1 DEF NextAlarm, Frames
<1>d. NextAlarm \in Frames
  <2> DEFINE f == [Now EXCEPT !.loopi = Now.loopi + 1]
  <2>1. f \in Frames
    BY <1>1, <1>a DEF Frames
  <2>2. [f EXCEPT !.count = 0] \in Frames
    BY <2>1 DEF Frames
  <2>3. NextAlarm = [f EXCEPT !.count = 0]
    BY Zenon DEF NextAlarm
  <2> QED BY <2>2, <2>3
<1>2. /\ NextAlarm \in Frames
      /\ NextAlarm.counter = Now.counter
      /\ NextAlarm.increment = Now.increment
      /\ NextAlarm.loopi = Now.loopi + 1
      /\ NextAlarm.count = 0
  BY <1>b, <1>c, <1>d
<1> QED BY <1>1, <1>2 DEF Rest, TypeOK

\* It awaits the same alarms but for the one at hand.
LEMMA NextAwaits ==
  ASSUME TypeOK, Nested, InLoop, NEW a \in Alarms
  PROVE  Awaits(NextAlarm, a) <=> Awaits(Now, a) /\ a # Alarm
<1>1. Now \in Frames /\ Now.loopi \in Nat /\ NextAlarm.loopi = Now.loopi + 1
      /\ NextAlarm.counter = Now.counter
  BY AtHand, RestProperties DEF Frames
<1>2. ASSUME Awaits(NextAlarm, a) PROVE Awaits(Now, a) /\ a # Alarm
  <2>1. PICK k \in DOMAIN AlarmRef[Counter[a]] :
          AlarmRef[Counter[a]][k] = a /\ k >= Now.loopi + 1
    BY <1>1, <1>2 DEF Awaits
  <2>a. Counter[a] = Now.counter /\ Counter[a] \in Counters
    BY <1>1, <1>2, CounterAssumption DEF Awaits
  <2>b. DOMAIN AlarmRef[Counter[a]] = 1 .. Len(AlarmRef[Counter[a]])
    BY <2>a, AlarmLists
  <2>2. Counter[a] = Now.counter /\ Counter[a] \in Counters /\ k \in Nat
    BY <2>1, <2>a, <2>b
  <2>3. k >= Now.loopi /\ k # Now.loopi
    BY <1>1, <2>1, <2>2
  <2>4. Awaits(Now, a)
    BY <2>1, <2>2, <2>3 DEF Awaits
  <2>5. ASSUME a = Alarm PROVE FALSE
    <3>1. Now.loopi \in DOMAIN AlarmRef[Now.counter]
      BY AtHand
    <3>2. AlarmRef[Now.counter][Now.loopi] = AlarmRef[Now.counter][k]
      BY <2>1, <2>2, <2>5 DEF Alarm
    <3> QED BY <2>1, <2>2, <2>3, <3>1, <3>2, CounterAssumption
  <2> QED BY <2>4, <2>5
<1>3. ASSUME Awaits(Now, a), a # Alarm PROVE Awaits(NextAlarm, a)
  <2>1. PICK k \in DOMAIN AlarmRef[Counter[a]] :
          AlarmRef[Counter[a]][k] = a /\ k >= Now.loopi
    BY <1>3 DEF Awaits
  <2>a. Counter[a] = Now.counter /\ Counter[a] \in Counters
    BY <1>3, CounterAssumption DEF Awaits
  <2>b. DOMAIN AlarmRef[Counter[a]] = 1 .. Len(AlarmRef[Counter[a]])
    BY <2>a, AlarmLists
  <2>2. Counter[a] = Now.counter /\ Counter[a] \in Counters /\ k \in Nat
    BY <2>1, <2>a, <2>b
  <2>3. k # Now.loopi
    BY <1>3, <2>1, <2>2 DEF Alarm
  <2>4. k >= Now.loopi + 1
    BY <1>1, <2>1, <2>2, <2>3
  <2> QED BY <1>1, <2>1, <2>2, <2>4 DEF Awaits
<1> QED BY <1>2, <1>3

\* No call but the latest awaits the alarm at hand.
LEMMA OnlyLatest ==
  ASSUME TypeOK, Nested, InLoop, NEW i \in DOMAIN calls, Awaits(calls[i], Alarm)
  PROVE  i = Len(calls)
<1>1. Len(calls) \in DOMAIN calls
  BY RestProperties
<1>2. calls[i].counter = calls[Len(calls)].counter
  BY AtHand DEF Awaits, Now
<1>a. calls[i] \in Frames /\ i \in 1 .. Len(calls)
  BY DEF TypeOK
<1>3. calls[i].counter \in Nat
  BY <1>a, CounterAssumption DEF Frames
<1> QED BY <1>1, <1>2, <1>3, <1>a DEF Nested, NestedIn

\* What the latest call does next, as a whole.
LEMMA RestAwaits ==
  ASSUME TypeOK, Nested, InLoop
  PROVE  /\ NestedIn(Rest)
         /\ \A i \in DOMAIN Rest :
              /\ Rest[i].count = 0
              /\ Rest[i].counter <= Now.counter
              /\ Rest[i].increment = calls[i].increment
         /\ \A a \in Alarms :
              /\ \A i \in DOMAIN Rest :
                   Awaits(Rest[i], a) <=> Awaits(calls[i], a) /\ a # Alarm
              /\ AwaitedIn(Rest, a) <=> Awaited(a) /\ a # Alarm
<1>1. /\ Len(calls) \in DOMAIN calls /\ DOMAIN Rest = DOMAIN calls
      /\ DOMAIN calls = 1 .. Len(calls) /\ Len(Rest) = Len(calls)
  BY RestProperties DEF TypeOK
<1>2. \A i \in DOMAIN calls :
        /\ calls[i].counter \in Nat /\ calls[i].loopi \in Nat
        /\ Rest[i].counter = calls[i].counter
        /\ Rest[i].increment = calls[i].increment
        /\ Rest[i].loopi >= calls[i].loopi
        /\ Rest[i].count = 0
  <2> TAKE i \in DOMAIN calls
  <2>1. calls[i] \in Frames
    BY DEF TypeOK
  <2>2. calls[i].counter \in Nat /\ calls[i].loopi \in Nat
    BY <2>1, CounterAssumption DEF Frames
  <2>3. CASE i = Len(calls)
    BY <2>2, <2>3, RestProperties DEF Now
  <2>4. CASE i # Len(calls)
    BY <2>2, <2>4, RestProperties DEF Nested, NestedIn
  <2> QED BY <2>2, <2>3, <2>4
<1>3. NestedIn(Rest)
  <2> SUFFICES ASSUME NEW i \in DOMAIN Rest
               PROVE  /\ Rest[i].loopi >= 1
                      /\ Rest[i].increment <= Rest[i].counter + 1
                      /\ Rest[i].count = 0
                      /\ \A j \in DOMAIN Rest :
                           i < j => Rest[i].counter < Rest[j].counter
    BY DEF NestedIn
  <2>1. /\ calls[i].loopi >= 1
        /\ calls[i].increment <= calls[i].counter + 1
        /\ \A j \in DOMAIN calls : i < j => calls[i].counter < calls[j].counter
    BY <1>1 DEF Nested, NestedIn
  <2>2. calls[i] \in Frames /\ Rest[i] \in Frames
    BY <1>1, RestProperties DEF TypeOK
  <2>3. calls[i].loopi \in Nat /\ Rest[i].loopi \in Nat
    BY <2>2 DEF Frames
  <2> QED BY <1>1, <1>2, <2>1, <2>3
<1>4. \A i \in DOMAIN Rest : Rest[i].counter <= Now.counter
  <2> TAKE i \in DOMAIN Rest
  <2>1. CASE i = Len(calls)
    BY <1>1, <1>2, <2>1 DEF Now
  <2>2. CASE i < Len(calls)
    BY <1>1, <1>2, <2>2 DEF Now, Nested, NestedIn
  <2> QED BY <1>1, <2>1, <2>2
<1>5. ASSUME NEW a \in Alarms, NEW i \in DOMAIN Rest
      PROVE  Awaits(Rest[i], a) <=> Awaits(calls[i], a) /\ a # Alarm
  <2>1. CASE i = Len(calls)
    BY <2>1, RestProperties, NextAwaits DEF Now
  <2>2. CASE i # Len(calls)
    BY <1>1, <2>2, RestProperties, OnlyLatest
  <2> QED BY <2>1, <2>2
<1>6. ASSUME NEW a \in Alarms
      PROVE  AwaitedIn(Rest, a) <=> Awaited(a) /\ a # Alarm
  BY <1>1, <1>5 DEF Awaited, AwaitedIn
<1> QED BY <1>1, <1>2, <1>3, <1>4, <1>5, <1>6

\* The call of IncrementCounter for a counter above those of rest: it awaits
\* all the alarms of the counter, and none of them was awaited before.
MayEnter(c, n, rest) ==
  /\ rest \in Seq(Frames) /\ NestedIn(rest)
  /\ c \in Counters /\ n \in Nat /\ n <= c + 1
  /\ \A i \in DOMAIN rest : rest[i].count = 0 /\ rest[i].counter < c
Entered(c, n, rest) == Append(rest, Call(c, n))

LEMMA EnteringAwaits ==
  ASSUME NEW c, NEW n, NEW rest, MayEnter(c, n, rest)
  PROVE  LET s == Entered(c, n, rest) IN
         /\ s \in Seq(Frames) /\ s # <<>> /\ NestedIn(s)
         /\ s[Len(s)] = Call(c, n)
         /\ \A a \in Alarms :
              /\ Counter[a] = c => AwaitedIn(s, a) /\ ~AwaitedIn(rest, a)
              /\ Counter[a] # c => (AwaitedIn(s, a) <=> AwaitedIn(rest, a))
              /\ \A i \in DOMAIN s : Awaits(s[i], a) =>
                   \/ Counter[a] = c /\ s[i].increment = n
                   \/ /\ Counter[a] # c
                      /\ i \in DOMAIN rest /\ s[i] = rest[i]
<1> USE DEF MayEnter
<1> DEFINE s == Entered(c, n, rest)
<1>1. c \in Nat /\ Call(c, n) \in Frames
  BY CounterAssumption DEF Call, Frames
<1>2. /\ s \in Seq(Frames) /\ s # <<>> /\ Len(s) = Len(rest) + 1
      /\ Len(rest) \in Nat
      /\ DOMAIN s = 1 .. (Len(rest) + 1) /\ DOMAIN rest = 1 .. Len(rest)
      /\ s[Len(s)] = Call(c, n)
      /\ \A i \in DOMAIN rest : s[i] = rest[i]
  BY <1>1 DEF Entered
<1> HIDE DEF s
<1>3. /\ Call(c, n).counter = c /\ Call(c, n).increment = n
      /\ Call(c, n).loopi = 1 /\ Call(c, n).count = 0
  BY DEF Call
<1>4. NestedIn(s)
  <2> SUFFICES ASSUME NEW i \in DOMAIN s
               PROVE  /\ s[i].loopi >= 1
                      /\ s[i].increment <= s[i].counter + 1
                      /\ s[i].count = 0
                      /\ \A j \in DOMAIN s : i < j => s[i].counter < s[j].counter
    BY DEF NestedIn
  <2>1. CASE i = Len(s)
    BY <1>1, <1>2, <1>3, <2>1
  <2>2. CASE i \in DOMAIN rest
    <3>1. /\ rest[i].loopi >= 1
          /\ rest[i].increment <= rest[i].counter + 1
          /\ rest[i].count = 0
          /\ \A j \in DOMAIN rest : i < j => rest[i].counter < rest[j].counter
      BY <2>2 DEF NestedIn
    <3>2. ASSUME NEW j \in DOMAIN s, i < j
          PROVE  s[i].counter < s[j].counter
      <4>1. CASE j = Len(s)
        BY <1>2, <1>3, <2>2, <4>1
      <4>2. CASE j \in DOMAIN rest
        BY <1>2, <2>2, <3>1, <3>2, <4>2
      <4> QED BY <1>2, <4>1, <4>2
    <3> QED BY <1>2, <2>2, <3>1, <3>2
  <2> QED BY <1>2, <2>1, <2>2
<1>5. ASSUME NEW a \in Alarms
      PROVE  /\ Counter[a] = c => AwaitedIn(s, a) /\ ~AwaitedIn(rest, a)
             /\ Counter[a] # c => (AwaitedIn(s, a) <=> AwaitedIn(rest, a))
             /\ \A i \in DOMAIN s : Awaits(s[i], a) =>
                  \/ Counter[a] = c /\ s[i].increment = n
                  \/ /\ Counter[a] # c
                     /\ i \in DOMAIN rest /\ s[i] = rest[i]
  <2>1. Counter[a] = c <=> Awaits(Call(c, n), a)
    <3>1. ASSUME Counter[a] = c PROVE Awaits(Call(c, n), a)
      <4>1. PICK k \in DOMAIN AlarmRef[Counter[a]] : AlarmRef[Counter[a]][k] = a
        BY CounterAssumption
      <4>2. k >= 1
        BY <3>1, <4>1, AlarmLists
      <4> QED BY <1>3, <3>1, <4>1, <4>2 DEF Awaits
    <3> QED BY <1>3, <3>1 DEF Awaits
  <2>2. \A i \in DOMAIN rest : Awaits(rest[i], a) => Counter[a] # c
    <3> TAKE i \in DOMAIN rest
    <3>1. rest[i].counter < c /\ rest[i] \in Frames
      OBVIOUS
    <3>2. rest[i].counter \in Nat
      BY <3>1, CounterAssumption DEF Frames
    <3> QED BY <1>1, <3>1, <3>2 DEF Awaits
  <2> QED BY <1>2, <1>3, <2>1, <2>2 DEF AwaitedIn
<1> QED BY <1>2, <1>4, <1>5 DEF s

\* Times stay right when the latest call goes on: the alarm at hand is as
\* before or after the increment, the others are not touched.
LEMMA RightRest ==
  ASSUME TypeOK, Nested, InLoop, NEW a \in Alarms, NEW t \in Int, NEW d \in Int
  PROVE  /\ a # Alarm /\ Right(calls, a, t, d) => Right(Rest, a, t, d)
         /\ Right(Rest, Alarm, t, t)
         /\ Right(calls, Alarm, t, d) => t = d + Now.increment
<1>1. a # Alarm /\ Right(calls, a, t, d) => Right(Rest, a, t, d)
  BY RestAwaits, RestProperties DEF Right, Awaited
<1>2. Right(Rest, Alarm, t, t)
  BY RestAwaits, AtHand DEF Right, AwaitedIn
<1>3. Right(calls, Alarm, t, d) => t = d + Now.increment
  BY RestProperties, AtHand DEF Right, Now
<1> QED BY <1>1, <1>2, <1>3

\* Times stay right when another counter is incremented.
LEMMA RightEntering ==
  ASSUME NEW c, NEW n, NEW rest, MayEnter(c, n, rest),
         NEW a \in Alarms, NEW t \in Int, NEW d \in Int, Right(rest, a, t, d)
  PROVE  Right(Entered(c, n, rest), a, t, IF Counter[a] = c THEN d - n ELSE d)
<1> DEFINE s == Entered(c, n, rest)
<1>1. /\ Counter[a] = c => AwaitedIn(s, a) /\ ~AwaitedIn(rest, a)
      /\ Counter[a] # c => (AwaitedIn(s, a) <=> AwaitedIn(rest, a))
      /\ \A i \in DOMAIN s : Awaits(s[i], a) =>
           \/ Counter[a] = c /\ s[i].increment = n
           \/ /\ Counter[a] # c
              /\ i \in DOMAIN rest /\ s[i] = rest[i]
  BY EnteringAwaits
<1>2. CASE Counter[a] = c
  <2>1. t = d
    BY <1>1, <1>2 DEF Right
  <2>2. n \in Nat
    BY DEF MayEnter
  <2>3. t = (d - n) + n
    BY <2>1, <2>2
  <2> QED BY <1>1, <1>2, <2>3 DEF Right
<1>3. CASE Counter[a] # c
  BY <1>1, <1>3 DEF Right
<1> QED BY <1>2, <1>3

-----------------------------------------------------------------------------
(* One step of the tick.                                                   *)

\* The head of IncrementCounter keeps the counter in its range.
LEMMA WrapInRange ==
  ASSUME NEW c \in Counters, NEW t \in Nat
  PROVE  Wrap(c, t) \in Nat /\ Wrap(c, t) < MaxAllowedValue[c]
<1>1. MaxAllowedValue[c] \in Nat /\ MaxAllowedValue[c] >= 1
  BY CounterAssumption
<1> QED BY <1>1 DEF Wrap

LEMMA EnterTime ==
  ASSUME TypeOK, NEW c \in Counters, NEW n \in Nat, NEW rest, Enter(c, n, rest)
  PROVE  /\ time' \in [Counters -> Nat]
         /\ \A x \in Counters : time'[x] < MaxAllowedValue[x]
         /\ fresh' \subseteq fresh
         /\ \A a \in fresh : Counter[a] # c => a \in fresh'
<1>1. (time[c] + n) % TickRange \in Nat
  <2>1. time[c] + n \in Nat /\ TickRange \in Nat /\ TickRange >= 1
    <3>1. MaxAllowedValue[c] \in 1 .. (TickRange - 1)
      BY CounterAssumption
    <3>2. TickRange \in Nat
      BY CounterAssumption
    <3>3. time[c] \in Nat
      BY DEF TypeOK
    <3> QED BY <3>1, <3>2, <3>3
  <2> QED BY <2>1
<1>2. /\ Wrap(c, (time[c] + n) % TickRange) \in Nat
      /\ Wrap(c, (time[c] + n) % TickRange) < MaxAllowedValue[c]
  BY <1>1, WrapInRange
<1>3. time' = [time EXCEPT ![c] = Wrap(c, (time[c] + n) % TickRange)]
  BY DEF Enter
<1>4. fresh' = {a \in fresh : Counter[a] # c}
  BY DEF Enter
<1> QED BY <1>2, <1>3, <1>4 DEF TypeOK

\* What every step but an expiry of a cyclic alarm brings about, when the alarm
\* at hand has been seen to and due has been reckoned to be remaining.
Moved(remaining) ==
  /\ time' \in [Counters -> Nat]
  /\ \A c \in Counters : time'[c] < MaxAllowedValue[c]
  /\ calls' \in Seq(Frames) /\ calls' # <<>>
  /\ Nested' /\ Now'.count = 0
  /\ owed' = [a \in Alarms |-> 0]
  /\ due' \in [Alarms -> Int]
  /\ fresh' \subseteq fresh
  /\ \A a \in Alarms :
       /\ Running(a) =>
            \A t \in Int : Right(Rest, a, t, remaining[a])
                              => Right(calls', a, t, due'[a])
       /\ ~AwaitedIn(calls', a) =>
            ~AwaitedIn(Rest, a) /\ (a \in fresh => a \in fresh')

\* Only the loop goes on.
LEMMA RestMoves ==
  ASSUME TypeOK, Nested, InLoop, calls' = Rest,
         UNCHANGED <<time, fresh>>, owed' = [a \in Alarms |-> 0],
         NEW remaining \in [Alarms -> Int], due' = remaining
  PROVE  Moved(remaining)
<1>1. /\ Rest \in Seq(Frames) /\ Len(Rest) = Len(calls)
      /\ Len(calls) \in DOMAIN calls
      /\ Rest[Len(Rest)].count = 0 /\ NestedIn(Rest)
  BY RestProperties, RestAwaits
<1>2. Now' = Rest[Len(Rest)]
  BY DEF Now
<1>3. calls' # <<>>
  BY <1>1 DEF TypeOK
<1>4. Nested'
  BY <1>1 DEF Nested
<1> QED BY <1>1, <1>2, <1>3, <1>4 DEF Moved, TypeOK

\* The action of the alarm is carried out, another counter is incremented if
\* that is the action.
LEMMA ActMoves ==
  ASSUME TypeOK, Nested, InLoop,
         NEW remaining \in [Alarms -> Int], NEW before \in [Alarms -> Int],
         NEW n \in Nat, n <= Now.increment + 1,
         \A a \in Alarms : before[a] = IF a = Alarm THEN n ELSE 0,
         Act(remaining, before, n)
  PROVE  Moved(remaining)
<1>1. owed' = [a \in Alarms |-> 0]
  <2>1. owed' = [before EXCEPT ![Alarm] = before[Alarm] - n]
    BY DEF Act
  <2>2. Alarm \in Alarms /\ before[Alarm] - n = 0
    BY AtHand
  <2>3. owed' = [before EXCEPT ![Alarm] = 0]
    BY <2>1, <2>2
  <2> QED BY <2>2, <2>3
<1>2. CASE Incremented[Alarm] = NoCounter
  BY <1>1, <1>2, RestMoves DEF Act
<1>3. CASE Incremented[Alarm] # NoCounter
  <2> DEFINE c == Incremented[Alarm]
  <2>1. c \in Counters /\ c \in Nat /\ c > Now.counter
    <3>1. Alarm \in Alarms /\ Counter[Alarm] = Now.counter
      BY AtHand
    <3>2. c \in Counters
      BY <1>3, <3>1, CounterAssumption
    <3>3. c > Counter[Alarm]
      BY <1>3, <3>1, CounterAssumption
    <3> QED BY <3>1, <3>2, <3>3, CounterAssumption
  <2>2. n <= c + 1
    <3>1. Now.increment \in Nat /\ Now.counter \in Nat
      BY AtHand, CounterAssumption DEF Frames
    <3>2. Now.increment <= Now.counter + 1
      BY RestProperties DEF Nested, NestedIn, Now
    <3> QED BY <2>1, <3>1, <3>2
  <2>3. /\ Enter(c, n, Rest)
        /\ due' = Elapsed(remaining, c, n)
        /\ calls' = Entered(c, n, Rest)
    BY <1>3 DEF Act, Enter, Entered
  <2>4. \A i \in DOMAIN Rest : Rest[i].count = 0 /\ Rest[i].counter < c
    <3> TAKE i \in DOMAIN Rest
    <3>1. Rest[i].count = 0 /\ Rest[i].counter <= Now.counter
      BY RestAwaits
    <3>2. Rest[i].counter \in Nat /\ Now.counter \in Nat
      <4>1. Rest[i] \in Frames /\ Now \in Frames
        BY RestProperties, AtHand
      <4> QED BY <4>1, CounterAssumption DEF Frames
    <3> QED BY <2>1, <3>1, <3>2
  <2>5. MayEnter(c, n, Rest)
    BY <2>1, <2>2, <2>4, RestProperties, RestAwaits DEF MayEnter
  <2>6. /\ calls' \in Seq(Frames) /\ calls' # <<>> /\ NestedIn(calls')
        /\ calls'[Len(calls')] = Call(c, n)
        /\ \A a \in Alarms :
             /\ Counter[a] = c => AwaitedIn(calls', a)
             /\ Counter[a] # c => (AwaitedIn(calls', a) <=> AwaitedIn(Rest, a))
    BY <2>3, <2>5, EnteringAwaits
  <2>7. Nested' /\ Now'.count = 0
    BY <2>6 DEF Nested, Now, Call
  <2>8. /\ time' \in [Counters -> Nat]
        /\ \A x \in Counters : time'[x] < MaxAllowedValue[x]
        /\ fresh' \subseteq fresh
        /\ \A a \in fresh : Counter[a] # c => a \in fresh'
    BY <2>1, <2>3, EnterTime
  <2>9. /\ due' \in [Alarms -> Int]
        /\ \A a \in Alarms : Running(a) =>
             due'[a] = IF Counter[a] = c THEN remaining[a] - n ELSE remaining[a]
    BY <2>3 DEF Elapsed, Running
  <2>10. ASSUME NEW a \in Alarms, Running(a), NEW t \in Int,
                Right(Rest, a, t, remaining[a])
         PROVE  Right(calls', a, t, due'[a])
    <3>1. Right(calls', a, t, IF Counter[a] = c THEN remaining[a] - n
                                                ELSE remaining[a])
      BY <2>3, <2>5, <2>10, RightEntering
    <3> QED BY <2>9, <2>10, <3>1
  <2>11. \A a \in Alarms : ~AwaitedIn(calls', a) =>
           ~AwaitedIn(Rest, a) /\ (a \in fresh => a \in fresh')
    BY <2>6, <2>8
  <2> QED BY <1>1, <2>6, <2>7, <2>8, <2>9, <2>10, <2>11 DEF Moved
<1> QED BY <1>2, <1>3

\* The invariant after such a step: the alarm at hand is off, or its time is
\* what remains and more than nothing.
LEMMA MovedKeeps ==
  ASSUME AInv, InLoop, NEW remaining \in [Alarms -> Int], Moved(remaining),
         alarmTime' \in [Alarms -> 0 .. (TickRange - 1)],
         alarmState' \in [Alarms -> {0, 1}],
         UNCHANGED <<alarmCycle, absolute, service>>,
         fires' \in Alarms \cup {NoAlarm},
         \A a \in Alarms : a # Alarm => /\ alarmTime'[a] = alarmTime[a]
                                       /\ alarmState'[a] = alarmState[a]
                                       /\ remaining[a] = due[a],
         alarmState'[Alarm] = 1 =>
           /\ alarmState[Alarm] = 1 /\ alarmTime'[Alarm] > 0
           /\ Alarm \notin absolute => alarmTime'[Alarm] = remaining[Alarm]
  PROVE  AInv'
<1> USE DEF AInv
<1>1. TypeOK'
  <2>1. /\ alarmCycle' \in [Alarms -> Nat] /\ service' \in [Tasks -> Services]
        /\ absolute' \subseteq Alarms
    BY DEF TypeOK
  <2>a. due' \in [Alarms -> Int] /\ owed' = [a \in Alarms |-> 0]
    BY DEF Moved
  <2>b. fresh' \subseteq Alarms
    BY DEF TypeOK, Moved
  <2>2. /\ due' \in [Alarms -> Int] /\ owed' \in [Alarms -> Int]
        /\ fresh' \subseteq Alarms
    BY <2>a, <2>b
  <2>3. /\ time' \in [Counters -> Nat]
        /\ \A c \in Counters : time'[c] < MaxAllowedValue[c]
        /\ calls' \in Seq(Frames)
    BY DEF Moved
  <2> QED BY <2>1, <2>2, <2>3 DEF TypeOK
<1>2. Nested' /\ CatchingUp'
  BY DEF Moved, CatchingUp
<1>3. TimesRight'
  <2> SUFFICES ASSUME NEW a \in Alarms \ absolute, alarmState'[a] = 1
               PROVE  Right(calls', a, alarmTime'[a], due'[a])
    BY DEF TimesRight, Running, Right, AwaitedIn, Awaits
  <2>1. alarmTime'[a] \in Int /\ alarmTime[a] \in Int /\ due[a] \in Int
    BY DEF TypeOK
  <2>2. Running(a)
    BY DEF Running
  <2>3. Right(Rest, a, alarmTime'[a], remaining[a])
    <3>1. CASE a = Alarm
      BY <2>1, <3>1, RightRest
    <3>2. CASE a # Alarm
      BY <2>1, <2>2, <3>2, RightRest DEF TimesRight
    <3> QED BY <3>1, <3>2
  <2> QED BY <2>1, <2>2, <2>3 DEF Moved
<1>4. Positive'
  <2> SUFFICES ASSUME NEW a \in Alarms, alarmState'[a] = 1,
                      ~AwaitedIn(calls', a)
               PROVE  alarmTime'[a] > 0 \/ a \in fresh'
    BY DEF Positive, Running, Awaited
  <2>1. ~AwaitedIn(Rest, a) /\ (a \in fresh => a \in fresh')
    BY DEF Moved
  <2>2. CASE a = Alarm
    BY <2>2
  <2>3. CASE a # Alarm
    <3>1. Running(a) /\ ~Awaited(a)
      BY <2>1, <2>3, RestAwaits DEF Running
    <3> QED BY <2>1, <2>3, <3>1 DEF Positive
  <2> QED BY <2>2, <2>3
<1>5. Accounts'
  BY DEF Accounts, Moved
<1>6. CyclesFit'
  BY DEF CyclesFit
<1> QED BY <1>1, <1>2, <1>3, <1>4, <1>5, <1>6

\* Expiries are counted only while an alarm catches up.
LEMMA NoCount ==
  ASSUME AInv, calls = <<>> \/ Now.count = 0
  PROVE  owed = [a \in Alarms |-> 0]
<1>1. \A a \in Alarms : owed[a] = 0
  BY DEF AInv, Accounts, InLoop
<1> QED BY <1>1 DEF AInv, TypeOK

LEMMA SkipKeeps ==
  ASSUME AInv, SkipDisabled
  PROVE  AInv'
<1> USE DEF AInv
<1>1. /\ InLoop /\ alarmState[Alarm] = 0 /\ calls' = Rest /\ fires' = NoAlarm
      /\ UNCHANGED <<time, alarmState, alarmTime, alarmCycle, due, fresh,
                     absolute, service, owed>>
  BY DEF SkipDisabled, alarmVars
<1>2. Now.count = 0
  BY <1>1 DEF CatchingUp, Running, InLoop
<1>3. owed' = [a \in Alarms |-> 0]
  BY <1>1, <1>2, NoCount
<1>4. Moved(due)
  BY <1>1, <1>3, RestMoves DEF TypeOK
<1>5. /\ alarmTime' \in [Alarms -> 0 .. (TickRange - 1)]
      /\ alarmState' \in [Alarms -> {0, 1}] /\ due \in [Alarms -> Int]
      /\ alarmState'[Alarm] # 1
  BY <1>1 DEF TypeOK
<1> QED BY <1>1, <1>4, <1>5, MovedKeeps

LEMMA DecrementKeeps ==
  ASSUME AInv, Decrement
  PROVE  AInv'
<1> USE DEF AInv
<1>1. /\ InLoop /\ alarmState[Alarm] = 1
      /\ alarmTime[Alarm] > Now.increment
      /\ alarmTime' = [alarmTime EXCEPT ![Alarm] = alarmTime[Alarm] - Now.increment]
      /\ UNCHANGED <<alarmState, alarmCycle, service, absolute>>
      /\ fires' = NoAlarm
  BY DEF Decrement, Later
<1>2. Alarm \in Alarms /\ Now.increment \in Nat /\ Now.count \in Nat
  BY <1>1, AtHand DEF Frames
<1>3. Moved(due)
  <2>1. CASE Now.count = 0
    <3>1. owed' = [a \in Alarms |-> 0]
      BY <1>1, <2>1, NoCount DEF Decrement
    <3> QED BY <1>1, <2>1, <3>1, RestMoves DEF Decrement, TypeOK
  <2>2. CASE Now.count # 0
    <3>1. Now.count <= Now.increment + 1
      BY <1>1, <2>2 DEF CatchingUp, InLoop
    <3>2. \A a \in Alarms : owed[a] = IF a = Alarm THEN Now.count ELSE 0
      BY <1>1 DEF Accounts
    <3>3. Act(due, owed, Now.count)
      BY <2>2 DEF Decrement
    <3> QED BY <1>1, <1>2, <3>1, <3>2, <3>3, ActMoves DEF TypeOK
  <2> QED BY <2>1, <2>2
<1>4. alarmTime[Alarm] \in 0 .. (TickRange - 1) /\ due[Alarm] \in Int
  BY <1>2 DEF TypeOK
<1>5. alarmTime[Alarm] - Now.increment \in 0 .. (TickRange - 1)
      /\ alarmTime[Alarm] - Now.increment > 0
  BY <1>1, <1>2, <1>4, CounterAssumption
<1>6. /\ alarmTime' \in [Alarms -> 0 .. (TickRange - 1)]
      /\ alarmTime'[Alarm] = alarmTime[Alarm] - Now.increment
      /\ \A a \in Alarms : a # Alarm => alarmTime'[a] = alarmTime[a]
  BY <1>1, <1>2, <1>5 DEF TypeOK
<1>7. Alarm \notin absolute => alarmTime'[Alarm] = due[Alarm]
  <2> SUFFICES ASSUME Alarm \notin absolute PROVE alarmTime'[Alarm] = due[Alarm]
    OBVIOUS
  <2>1. Right(calls, Alarm, alarmTime[Alarm], due[Alarm])
    BY <1>1, <1>2 DEF TimesRight, Running
  <2>2. alarmTime[Alarm] = due[Alarm] + Now.increment
    BY <1>1, <1>2, <1>4, <2>1, RightRest
  <2> QED BY <1>2, <1>4, <1>6, <2>2
<1> QED BY <1>1, <1>2, <1>3, <1>5, <1>6, <1>7, MovedKeeps DEF TypeOK

\* An alarm that has expired and is not cyclic is off.
LEMMA ExpireOnceKeeps ==
  ASSUME AInv, ExpireOnce
  PROVE  AInv'
<1> USE DEF AInv
<1> DEFINE remaining == [due EXCEPT ![Alarm] = 0]
           before == [owed EXCEPT ![Alarm] = owed[Alarm] + 1]
<1>1. /\ InLoop /\ alarmCycle[Alarm] = 0
      /\ alarmTime' = [alarmTime EXCEPT ![Alarm] = 0]
      /\ alarmState' = [alarmState EXCEPT ![Alarm] = 0]
      /\ Act(remaining, before, 1)
      /\ UNCHANGED <<alarmCycle, service, absolute>>
      /\ fires' = Alarm
  BY DEF ExpireOnce
<1>2. Alarm \in Alarms /\ Now.increment \in Nat
  BY <1>1, AtHand DEF Frames
<1>3. \A a \in Alarms : owed[a] = 0
  <2>1. Now.count = 0
    BY <1>1 DEF CatchingUp, InLoop
  <2> QED BY <2>1 DEF Accounts
<1>4. /\ before \in [Alarms -> Int]
      /\ \A a \in Alarms : before[a] = IF a = Alarm THEN 1 ELSE 0
  BY <1>2, <1>3 DEF TypeOK
<1>5. /\ remaining \in [Alarms -> Int]
      /\ \A a \in Alarms : a # Alarm => remaining[a] = due[a]
  BY <1>2 DEF TypeOK
<1>6. Moved(remaining)
  <2> HIDE DEF remaining, before
  <2> QED BY <1>1, <1>2, <1>4, <1>5, ActMoves
<1>7. 0 \in 0 .. (TickRange - 1)
  <2>1. MaxAllowedValue[0] \in 1 .. (TickRange - 1)
    BY CounterAssumption
  <2> QED BY <2>1, CounterAssumption
<1>8. /\ alarmTime' \in [Alarms -> 0 .. (TickRange - 1)]
      /\ alarmState' \in [Alarms -> {0, 1}] /\ alarmState'[Alarm] # 1
      /\ \A a \in Alarms : a # Alarm => /\ alarmTime'[a] = alarmTime[a]
                                      /\ alarmState'[a] = alarmState[a]
  BY <1>1, <1>2, <1>7 DEF TypeOK
<1> HIDE DEF remaining
<1> QED BY <1>1, <1>2, <1>5, <1>6, <1>8, MovedKeeps

\* A cyclic alarm that has expired is still at hand, one expiry on.
LEMMA ExpireCyclicKeeps ==
  ASSUME AInv, ExpireCyclic
  PROVE  AInv'
<1> USE DEF AInv
<1> DEFINE last == [Now EXCEPT !.count = Now.count + 1]
<1>1. /\ InLoop /\ alarmState[Alarm] = 1 /\ alarmCycle[Alarm] # 0
      /\ ~(alarmTime[Alarm] > Now.increment)
      /\ alarmTime' = [alarmTime EXCEPT ![Alarm] = CycleOn]
      /\ calls' = [calls EXCEPT ![Len(calls)] = last]
      /\ due' = [due EXCEPT ![Alarm] = due[Alarm] + alarmCycle[Alarm]]
      /\ owed' = [owed EXCEPT ![Alarm] = owed[Alarm] + 1]
      /\ fires' = Alarm
      /\ UNCHANGED <<time, alarmState, alarmCycle, service, fresh, absolute>>
  BY DEF ExpireCyclic, Later, Now
<1>2. /\ Alarm \in Alarms /\ Now \in Frames /\ Counter[Alarm] = Now.counter
      /\ Now.counter \in Nat /\ Now.increment \in Nat /\ Now.count \in Nat
      /\ Len(calls) \in DOMAIN calls
  BY <1>1, AtHand, RestProperties, CounterAssumption DEF Frames
<1>3. /\ last \in Frames /\ last.counter = Now.counter
      /\ last.increment = Now.increment /\ last.loopi = Now.loopi
      /\ last.count = Now.count + 1
  BY <1>2 DEF Frames
<1> HIDE DEF last
<1>n. Now.counter \in Nat /\ Now.increment \in Nat /\ Now.count \in Nat
  BY <1>2
<1>4. /\ calls' \in Seq(Frames) /\ Len(calls') = Len(calls)
      /\ DOMAIN calls' = DOMAIN calls /\ calls' # <<>>
      /\ \A i \in DOMAIN calls :
           calls'[i] = IF i = Len(calls) THEN last ELSE calls[i]
  <2>1. /\ calls \in Seq(Frames) /\ calls # <<>> /\ last \in Frames
        /\ Len(calls) \in DOMAIN calls
    BY <1>1, <1>2, <1>3 DEF TypeOK, InLoop
  <2>2. calls' = [calls EXCEPT ![Len(calls)] = last]
    BY <1>1
  <2> QED BY <2>1, <2>2
<1>5. \A i \in DOMAIN calls :
        /\ calls'[i].counter = calls[i].counter
        /\ calls'[i].increment = calls[i].increment
        /\ calls'[i].loopi = calls[i].loopi
        /\ i # Len(calls) => calls'[i].count = calls[i].count
  BY <1>3, <1>4 DEF Now
<1>6. \A a : /\ \A i \in DOMAIN calls : Awaits(calls'[i], a) <=> Awaits(calls[i], a)
             /\ AwaitedIn(calls', a) <=> Awaited(a)
  BY <1>4, <1>5 DEF Awaits, AwaitedIn, Awaited
<1>7. Now' = last /\ Alarm' = Alarm /\ InLoop'
  BY <1>1, <1>2, <1>3, <1>4 DEF Now, Alarm, InLoop
<1>8. /\ alarmTime[Alarm] \in Nat /\ alarmCycle[Alarm] \in Nat \ {0}
      /\ alarmTime[Alarm] <= Now.increment /\ Now.increment <= Now.counter + 1
      /\ alarmCycle[Alarm] + Now.counter + 1 < TickRange
  <2>1. alarmTime[Alarm] \in Nat /\ alarmCycle[Alarm] \in Nat
    BY <1>2 DEF TypeOK
  <2>2. Now.increment <= Now.counter + 1
    BY <1>2 DEF Nested, NestedIn, Now
  <2>3. CycleFits(Alarm, alarmCycle[Alarm])
    BY <1>1, <1>2 DEF CyclesFit
  <2> QED BY <1>1, <1>2, <2>1, <2>2, <2>3 DEF CycleFits
<1>a. TickRange \in Nat
  BY CounterAssumption
<1>b. /\ alarmTime[Alarm] + alarmCycle[Alarm] \in Nat
      /\ alarmTime[Alarm] + alarmCycle[Alarm] < TickRange
  BY <1>n, <1>8, <1>a
<1>9. CycleOn = alarmTime[Alarm] + alarmCycle[Alarm]
  BY <1>a, <1>b DEF CycleOn
<1>10. /\ alarmTime' \in [Alarms -> 0 .. (TickRange - 1)]
       /\ alarmTime'[Alarm] = alarmTime[Alarm] + alarmCycle[Alarm]
       /\ \A a \in Alarms : a # Alarm => alarmTime'[a] = alarmTime[a]
  <2>1. CycleOn \in 0 .. (TickRange - 1)
    BY <1>9, <1>a, <1>b
  <2> QED BY <1>1, <1>2, <1>9, <2>1 DEF TypeOK
<1>11. /\ due' \in [Alarms -> Int] /\ due[Alarm] \in Int
       /\ due'[Alarm] = due[Alarm] + alarmCycle[Alarm]
       /\ \A a \in Alarms : a # Alarm => due'[a] = due[a]
       /\ owed' \in [Alarms -> Int] /\ owed[Alarm] \in Int
       /\ owed'[Alarm] = owed[Alarm] + 1
       /\ \A a \in Alarms : a # Alarm => owed'[a] = owed[a]
  <2>1. /\ due \in [Alarms -> Int] /\ owed \in [Alarms -> Int]
        /\ due[Alarm] \in Int /\ owed[Alarm] \in Int
    BY <1>2 DEF TypeOK
  <2>2. /\ due[Alarm] + alarmCycle[Alarm] \in Int /\ owed[Alarm] + 1 \in Int
    BY <1>8, <2>1
  <2> QED BY <1>1, <1>2, <2>1, <2>2
<1>12. TypeOK'
  <2>1. /\ time' = time /\ alarmState' = alarmState /\ alarmCycle' = alarmCycle
        /\ service' = service /\ fresh' = fresh /\ absolute' = absolute
        /\ fires' \in Alarms \cup {NoAlarm}
    BY <1>1, <1>2
  <2> QED BY <1>4, <1>10, <1>11, <2>1 DEF TypeOK
<1>13. Nested'
  BY <1>4, <1>5 DEF Nested, NestedIn
<1>14. CatchingUp'
  <2>1. Running(Alarm)' /\ alarmCycle'[Alarm] # 0
    BY <1>1, <1>7 DEF Running
  <2>2. Now.count = 0 \/ Now.count <= alarmTime[Alarm]
    BY <1>1 DEF CatchingUp, InLoop
  <2>3. Now.count + 1 <= alarmTime'[Alarm] /\ Now.count + 1 <= Now.increment + 1
    BY <1>n, <1>8, <1>10, <2>2
  <2> QED BY <1>3, <1>7, <2>1, <2>3 DEF CatchingUp, Running
<1>15. TimesRight'
  <2> SUFFICES ASSUME NEW a \in Alarms \ absolute, Running(a)
               PROVE  Right(calls', a, alarmTime'[a], due'[a])
    BY <1>1 DEF TimesRight, Running, Right, AwaitedIn, Awaits
  <2>1. Right(calls, a, alarmTime[a], due[a])
    BY DEF TimesRight
  <2>2. Right(calls', a, alarmTime[a], due[a])
    BY <1>4, <1>5, <1>6, <2>1 DEF Right, Awaited
  <2>3. CASE a = Alarm
    <3>a. alarmTime[Alarm] \in Int /\ due[Alarm] \in Int /\ Alarm \in Alarms
      BY <1>2, <1>8, <1>11
    <3>1. alarmTime[Alarm] = due[Alarm] + Now.increment
      BY <1>1, <2>1, <2>3, <3>a, RightRest
    <3>b. /\ alarmTime'[Alarm] = alarmTime[Alarm] + alarmCycle[Alarm]
          /\ due'[Alarm] = due[Alarm] + alarmCycle[Alarm]
          /\ alarmCycle[Alarm] \in Int
      BY <1>8, <1>10, <1>11
    <3>2. alarmTime'[a] = due'[a] + Now.increment
      BY <1>n, <2>3, <3>a, <3>b, <3>1
    <3>3. Awaited(Alarm)
      BY <1>1, <1>2, AtHand DEF Awaited, AwaitedIn, Now
    <3>4. \A i \in DOMAIN calls : Awaits(calls[i], a) => i = Len(calls)
      BY <1>1, <2>3, OnlyLatest
    <3> QED BY <1>4, <1>5, <1>6, <2>3, <3>2, <3>3, <3>4 DEF Right, Now
  <2>4. CASE a # Alarm
    BY <1>10, <1>11, <2>2, <2>4
  <2> QED BY <2>3, <2>4
<1>16. Positive'
  <2> SUFFICES ASSUME NEW a \in Alarms, Running(a), ~Awaited(a)
               PROVE  alarmTime'[a] > 0 \/ a \in fresh
    BY <1>1, <1>6 DEF Positive, Running, Awaited
  <2>1. Awaited(Alarm)
    BY <1>1, <1>2, AtHand DEF Awaited, AwaitedIn, Now
  <2> QED BY <1>10, <2>1 DEF Positive
<1>17. Accounts'
  BY <1>3, <1>7, <1>11, <1>1 DEF Accounts
<1>18. CyclesFit'
  BY <1>1 DEF CyclesFit
<1> QED BY <1>12, <1>13, <1>14, <1>15, <1>16, <1>17, <1>18

\* IncrementCounter returns: the alarms it had to look at have been seen to.
LEMMA LeaveKeeps ==
  ASSUME AInv, Leave
  PROVE  AInv'
<1> USE DEF AInv
<1> DEFINE n == Len(calls)
<1>1. /\ calls # <<>> /\ ~InLoop /\ calls' = SubSeq(calls, 1, n - 1)
      /\ fires' = NoAlarm
      /\ UNCHANGED <<time, alarmState, alarmTime, alarmCycle, due, fresh,
                     absolute, service, owed>>
  BY DEF Leave, alarmVars
<1>2. /\ calls \in Seq(Frames) /\ n \in Nat \ {0} /\ DOMAIN calls = 1 .. n
      /\ n \in DOMAIN calls
  BY <1>1 DEF TypeOK
<1>3. /\ calls' \in Seq(Frames) /\ Len(calls') = n - 1
      /\ DOMAIN calls' = 1 .. (n - 1)
      /\ \A i \in 1 .. (n - 1) : calls'[i] = calls[i]
  <2>1. 1 \in 1 .. (Len(calls) + 1) /\ n - 1 \in 0 .. Len(calls)
    BY <1>2
  <2>2. \A i \in 1 .. (n - 1) : i \in 1 .. Len(calls)
    BY <1>2
  <2>3. n - 1 \in Int /\ \A i \in 1 .. (n - 1) : calls[i] \in Frames
    BY <1>2, <2>2
  <2>4. /\ SubSeq(calls, 1, n - 1) \in Seq(Frames)
        /\ Len(SubSeq(calls, 1, n - 1)) = IF 1 <= n - 1 THEN n - 1 - 1 + 1 ELSE 0
        /\ \A i \in 1 .. (n - 1) - 1 + 1 : SubSeq(calls, 1, n - 1)[i] = calls[1 + i - 1]
    BY <2>3, SubSeqProperties
  <2>5. \A i \in 1 .. (n - 1) : i \in 1 .. (n - 1) - 1 + 1 /\ 1 + i - 1 = i
    BY <1>2
  <2>6. Len(calls') = n - 1
    <3>1. n \in Nat /\ n # 0
      BY <1>2
    <3>2. Len(calls') = IF 1 <= n - 1 THEN n - 1 - 1 + 1 ELSE 0
      BY <1>1, <2>4
    <3> HIDE DEF n
    <3> QED BY <3>1, <3>2
  <2> QED BY <1>1, <2>4, <2>5, <2>6
<1>4. \A a \in Alarms : ~Awaits(Now, a)
  <2> SUFFICES ASSUME NEW a \in Alarms, Awaits(Now, a) PROVE FALSE
    OBVIOUS
  <2>1. PICK k \in DOMAIN AlarmRef[Counter[a]] : k >= Now.loopi
    BY DEF Awaits
  <2>2. Now.counter = Counter[a] /\ Counter[a] \in Counters
    BY CounterAssumption DEF Awaits
  <2>3. Now \in Frames
    BY <1>2 DEF Now
  <2>4. Now.loopi \in Nat
    BY <2>3 DEF Frames
  <2>5. /\ DOMAIN AlarmRef[Counter[a]] = 1 .. Len(AlarmRef[Counter[a]])
        /\ Len(AlarmRef[Counter[a]]) \in Nat
    BY <2>2, AlarmLists
  <2> QED BY <1>1, <2>1, <2>2, <2>4, <2>5 DEF InLoop
<1>5. \A a \in Alarms : AwaitedIn(calls', a) <=> Awaited(a)
  BY <1>2, <1>3, <1>4 DEF AwaitedIn, Awaited, Now
<1>6. \A a \in Alarms : owed[a] = 0
  BY <1>1 DEF Accounts
<1>7. TypeOK'
  BY <1>1, <1>3 DEF TypeOK
<1>8. Nested'
  <2> SUFFICES ASSUME NEW i \in DOMAIN calls'
               PROVE  /\ calls'[i].loopi >= 1
                      /\ calls'[i].increment <= calls'[i].counter + 1
                      /\ calls'[i].count = 0
                      /\ \A j \in DOMAIN calls' :
                           i < j => calls'[i].counter < calls'[j].counter
    BY DEF Nested, NestedIn
  <2>1. i \in DOMAIN calls /\ i # n /\ calls'[i] = calls[i]
    BY <1>2, <1>3
  <2>2. \A j \in DOMAIN calls' : j \in DOMAIN calls /\ calls'[j] = calls[j]
    BY <1>2, <1>3
  <2> QED BY <2>1, <2>2 DEF Nested, NestedIn
<1>9. calls' # <<>> => Now'.count = 0
  <2> SUFFICES ASSUME calls' # <<>> PROVE Now'.count = 0
    OBVIOUS
  <2>a. n - 1 # 0
    BY <1>3
  <2>b. n - 1 \in 1 .. (n - 1) /\ n - 1 \in 1 .. n /\ n - 1 # n
    <3>1. n \in Nat /\ n # 0
      BY <1>2
    <3> HIDE DEF n
    <3> QED BY <2>a, <3>1
  <2>1. n - 1 \in DOMAIN calls /\ n - 1 # n /\ Now' = calls[n - 1]
    BY <1>2, <1>3, <2>b DEF Now
  <2> QED BY <2>1 DEF Nested, NestedIn
<1>10. CatchingUp'
  BY <1>9 DEF CatchingUp
<1>11. TimesRight'
  <2> SUFFICES ASSUME NEW a \in Alarms \ absolute, Running(a)
               PROVE  Right(calls', a, alarmTime[a], due[a])
    BY <1>1 DEF TimesRight, Running, Right, AwaitedIn, Awaits
  <2>1. Right(calls, a, alarmTime[a], due[a])
    BY DEF TimesRight
  <2> QED BY <1>2, <1>3, <1>5, <2>1 DEF Right, Awaited
<1>12. Positive'
  BY <1>1, <1>5 DEF Positive, Running, Awaited
<1>13. Accounts'
  <2>1. InLoop' => Now'.count = 0
    BY <1>9 DEF InLoop
  <2> QED BY <1>1, <1>6, <2>1 DEF Accounts
<1>14. CyclesFit'
  BY <1>1 DEF CyclesFit
<1> QED BY <1>7, <1>8, <1>10, <1>11, <1>12, <1>13, <1>14

\* The tick starts: the alarms of the system counter are to be looked at.
LEMMA TickKeeps ==
  ASSUME AInv, SysTick
  PROVE  AInv'
<1> USE DEF AInv
<1>1. /\ calls = <<>> /\ Enter(0, 1, <<>>) /\ due' = Elapsed(due, 0, 1)
      /\ fires' = NoAlarm
      /\ UNCHANGED <<alarmState, alarmTime, alarmCycle, service, absolute, owed>>
      /\ calls' = Entered(0, 1, <<>>)
  BY DEF SysTick, Enter, Entered
<1>2. MayEnter(0, 1, <<>>)
  <2>1. <<>> \in Seq(Frames) /\ DOMAIN <<>> = {}
    OBVIOUS
  <2> QED BY <2>1, CounterAssumption DEF MayEnter, NestedIn
<1>3. \A a : ~AwaitedIn(<<>>, a)
  BY DEF AwaitedIn
<1>4. /\ calls' \in Seq(Frames) /\ calls' # <<>> /\ NestedIn(calls')
      /\ calls'[Len(calls')] = Call(0, 1)
      /\ \A a \in Alarms : Counter[a] = 0 => AwaitedIn(calls', a)
  BY <1>1, <1>2, EnteringAwaits
<1>5. Nested' /\ Now'.count = 0
  BY <1>4 DEF Nested, Now, Call
<1>6. /\ time' \in [Counters -> Nat]
      /\ \A x \in Counters : time'[x] < MaxAllowedValue[x]
      /\ fresh' \subseteq fresh
      /\ \A a \in fresh : Counter[a] # 0 => a \in fresh'
  BY <1>1, EnterTime, CounterAssumption
<1>7. /\ due' \in [Alarms -> Int]
      /\ \A a \in Alarms : Running(a) =>
           due'[a] = IF Counter[a] = 0 THEN due[a] - 1 ELSE due[a]
  BY <1>1 DEF Elapsed, Running, TypeOK
<1>8. TypeOK'
  BY <1>1, <1>4, <1>6, <1>7 DEF TypeOK
<1>9. CatchingUp'
  BY <1>5 DEF CatchingUp
<1>10. TimesRight'
  <2> SUFFICES ASSUME NEW a \in Alarms \ absolute, Running(a)
               PROVE  Right(calls', a, alarmTime[a], due'[a])
    BY <1>1 DEF TimesRight, Running, Right, AwaitedIn, Awaits
  <2>1. Right(<<>>, a, alarmTime[a], due[a])
    BY <1>1 DEF TimesRight
  <2>2. alarmTime[a] \in Int /\ due[a] \in Int
    BY DEF TypeOK
  <2>3. Right(calls', a, alarmTime[a], IF Counter[a] = 0 THEN due[a] - 1 ELSE due[a])
    BY <1>1, <1>2, <2>1, <2>2, RightEntering
  <2> QED BY <1>7, <2>3
<1>11. Positive'
  <2> SUFFICES ASSUME NEW a \in Alarms, Running(a), ~AwaitedIn(calls', a)
               PROVE  alarmTime[a] > 0 \/ a \in fresh'
    BY <1>1 DEF Positive, Running, Awaited
  <2>1. ~Awaited(a)
    BY <1>1, <1>3 DEF Awaited
  <2> QED BY <1>4, <1>6, <2>1 DEF Positive
<1>12. Accounts'
  BY <1>1, <1>5 DEF Accounts, InLoop
<1>13. CyclesFit'
  BY <1>1 DEF CyclesFit
<1> QED BY <1>5, <1>8, <1>9, <1>10, <1>11, <1>12, <1>13

-----------------------------------------------------------------------------
(* Services.                                                               *)

\* A call whose checks pass changes what the task is about to do, no alarm.
LEMMA CheckKeeps ==
  ASSUME AInv, NEW t \in Tasks, NEW s \in Services, NEW passes, Check(t, s, passes),
         s.call \in {"rel", "abs"} =>
           CycleFits(s.alarm, s.cycle) /\ s.ticks < TickRange
  PROVE  AInv'
<1> USE DEF AInv
<1>1. /\ service' = [service EXCEPT ![t] = s] /\ fires' = NoAlarm
      /\ UNCHANGED <<time, alarmState, alarmTime, alarmCycle, due, fresh,
                     absolute, calls, owed>>
  BY DEF Check, alarmVars
<1>2. TypeOK'
  <2>1. service' \in [Tasks -> Services]
    BY <1>1 DEF TypeOK
  <2> QED BY <1>1, <2>1 DEF TypeOK
<1>3. Nested' /\ CatchingUp' /\ Positive' /\ Accounts'
  BY <1>1 DEF Nested, CatchingUp, Positive, Accounts, Now, InLoop, Alarm, Running,
              Awaited, AwaitedIn
<1>4. TimesRight'
  BY <1>1 DEF TimesRight, Running
<1>5. CyclesFit'
  <2>1. \A a \in Alarms : alarmCycle'[a] # 0 => CycleFits(a, alarmCycle'[a])
    BY <1>1 DEF CyclesFit
  <2>2. \A u \in Tasks : service'[u].call \in {"rel", "abs"} =>
          /\ CycleFits(service'[u].alarm, service'[u].cycle)
          /\ service'[u].ticks < TickRange
    BY <1>1 DEF CyclesFit, TypeOK
  <2> QED BY <2>1, <2>2 DEF CyclesFit
<1> QED BY <1>2, <1>3, <1>4, <1>5

\* What an alarm is started for is below the range of TickType.
LEMMA ValidTicks ==
  ASSUME NEW a \in Alarms, NEW n \in Nat, NEW c, ValidAlarm(a, n, c)
  PROVE  n < TickRange
<1>1. Counter[a] \in Counters /\ TickRange \in Nat
  BY CounterAssumption
<1>2. MaxAllowedValue[Counter[a]] \in 1 .. (TickRange - 1)
  BY <1>1, CounterAssumption
<1>3. n <= MaxAllowedValue[Counter[a]]
  BY DEF ValidAlarm
<1> QED BY <1>1, <1>2, <1>3

\* What tasks start are alarms, for ticks and cycles that fit.
LEMMA StartKeeps ==
  ASSUME AInv, NEW t \in Tasks, NEW x \in Relative[t] \cup Absolute[t],
         NEW name \in {"rel", "abs"},
         Check(t, Start(name, x[1], x[2], x[3]),
               ValidAlarm(x[1], x[2], x[3]) /\ alarmState[x[1]] = 0)
  PROVE  AInv'
<1> DEFINE s == Start(name, x[1], x[2], x[3])
<1>1. x \in Arguments
  BY CallAssumption
<1>2. x[1] \in Alarms /\ x[2] \in Nat /\ x[3] \in Nat
  BY <1>1 DEF Arguments
<1>3. s \in Services
  BY <1>2 DEF Services, Start
<1>4. ValidAlarm(x[1], x[2], x[3])
  BY DEF Check
<1>5. x[2] < TickRange
  BY <1>2, <1>4, ValidTicks
<1>6. CycleFits(x[1], x[3])
  BY CallAssumption
<1>7. s.alarm = x[1] /\ s.ticks = x[2] /\ s.cycle = x[3]
  BY DEF Start
<1> HIDE DEF s
<1> QED BY <1>3, <1>5, <1>6, <1>7, CheckKeeps DEF s

LEMMA CancelKeeps ==
  ASSUME AInv, NEW t \in Tasks, NEW a \in Cancels[t], CancelAlarm(t, a)
  PROVE  AInv'
<1>1. a \in Alarms
  BY CallAssumption
<1>2. Cancel(a) \in Services /\ Cancel(a).call = "cancel"
  BY <1>1 DEF Services, Cancel
<1> QED BY <1>2, CheckKeeps DEF CancelAlarm

\* A start that has been checked is one of an alarm of the configuration.
LEMMA StartedService ==
  ASSUME TypeOK, NEW t \in Tasks, service[t].call \in {"rel", "abs"}
  PROVE  /\ service[t].alarm \in Alarms
         /\ service[t].ticks \in Nat /\ service[t].cycle \in Nat
<1>1. service[t] \in Services
  BY DEF TypeOK
<1>2. service[t] # Idle /\ \A a \in Alarms : service[t] # Cancel(a)
  BY DEF Idle, Cancel
<1>3. service[t] \in [call : {"rel", "abs"}, alarm : Alarms, ticks : Nat, cycle : Nat]
  BY <1>1, <1>2 DEF Services
<1> QED BY <1>3

\* The start of an alarm: it is fresh, and its time is what was asked for or
\* else it was started with SetAbsAlarm.
LEMMA EnableKeeps ==
  ASSUME AInv, NEW t \in Tasks, service[t].call \in {"rel", "abs"},
         calls = <<>>, NEW first \in 0 .. (TickRange - 1), NEW promise \in Int,
         Enable(t, first, promise),
         \/ absolute' = absolute \ {service[t].alarm} /\ first = promise
         \/ absolute' = absolute \cup {service[t].alarm}
  PROVE  AInv'
<1> USE DEF AInv
<1> DEFINE b == service[t].alarm
<1>1. b \in Alarms /\ service[t].cycle \in Nat
  BY StartedService
<1>2. /\ alarmState' = [alarmState EXCEPT ![b] = 1]
      /\ alarmTime' = [alarmTime EXCEPT ![b] = first]
      /\ alarmCycle' = [alarmCycle EXCEPT ![b] = service[t].cycle]
      /\ service' = [service EXCEPT ![t] = Idle]
      /\ due' = [due EXCEPT ![b] = promise]
      /\ fresh' = fresh \cup {b} /\ fires' = NoAlarm
      /\ time' = time /\ calls' = calls /\ owed' = owed
  BY DEF Enable
<1>3. /\ alarmState' \in [Alarms -> {0, 1}]
      /\ alarmTime' \in [Alarms -> 0 .. (TickRange - 1)]
      /\ alarmCycle' \in [Alarms -> Nat] /\ due' \in [Alarms -> Int]
  BY <1>1, <1>2 DEF TypeOK
<1>4. service' \in [Tasks -> Services]
  BY <1>2 DEF TypeOK, Services
<1>5. TypeOK'
  <2>1. fresh' \subseteq Alarms /\ absolute' \subseteq Alarms
    BY <1>1, <1>2 DEF TypeOK
  <2> QED BY <1>2, <1>3, <1>4, <2>1 DEF TypeOK
<1>6. Nested' /\ CatchingUp' /\ Accounts'
  BY <1>2 DEF Nested, CatchingUp, Accounts, Now, InLoop
<1>7. \A a : ~AwaitedIn(calls, a)
  BY DEF AwaitedIn
<1>8. TimesRight'
  <2> SUFFICES ASSUME NEW a \in Alarms \ absolute', alarmState'[a] = 1
               PROVE  Right(calls', a, alarmTime'[a], due'[a])
    BY DEF TimesRight, Running, Right, AwaitedIn, Awaits
  <2>1. CASE a = b
    BY <1>1, <1>2, <1>3, <2>1 DEF Right, TypeOK
  <2>2. CASE a # b
    <3>1. Right(calls, a, alarmTime[a], due[a])
      BY <1>1, <1>2, <2>2 DEF TimesRight, Running, TypeOK
    <3> QED BY <1>2, <2>2, <3>1 DEF TypeOK
  <2> QED BY <2>1, <2>2
<1>9. Positive'
  <2> SUFFICES ASSUME NEW a \in Alarms, alarmState'[a] = 1
               PROVE  alarmTime'[a] > 0 \/ a \in fresh'
    BY DEF Positive, Running
  <2>1. CASE a = b
    BY <1>2, <2>1
  <2>2. CASE a # b
    BY <1>2, <1>7, <2>2 DEF Positive, Running, Awaited, TypeOK
  <2> QED BY <2>1, <2>2
<1>10. CyclesFit'
  <2>1. \A a \in Alarms : alarmCycle'[a] # 0 => CycleFits(a, alarmCycle'[a])
    BY <1>1, <1>2 DEF CyclesFit, TypeOK
  <2>2. \A u \in Tasks : service'[u].call \in {"rel", "abs"} =>
          /\ CycleFits(service'[u].alarm, service'[u].cycle)
          /\ service'[u].ticks < TickRange
    BY <1>2 DEF CyclesFit, TypeOK, Idle
  <2> QED BY <2>1, <2>2 DEF CyclesFit
<1> QED BY <1>5, <1>6, <1>8, <1>9, <1>10

LEMMA EnableRelKeeps ==
  ASSUME AInv, NEW t \in Tasks, EnableRel(t)
  PROVE  AInv'
<1>1. /\ calls = <<>> /\ service[t].call = "rel"
      /\ Enable(t, service[t].ticks, service[t].ticks)
      /\ absolute' = absolute \ {service[t].alarm}
  BY DEF EnableRel, Runs
<1>2. service[t].ticks \in Nat
  BY <1>1, StartedService DEF AInv
<1>3. service[t].ticks < TickRange
  BY <1>1 DEF AInv, CyclesFit
<1>4. TickRange \in Nat
  BY CounterAssumption
<1>5. service[t].ticks \in 0 .. (TickRange - 1) /\ service[t].ticks \in Int
  BY <1>2, <1>3, <1>4
<1> QED BY <1>1, <1>5, EnableKeeps

LEMMA EnableAbsKeeps ==
  ASSUME AInv, NEW t \in Tasks, EnableAbs(t)
  PROVE  AInv'
<1> DEFINE s == service[t]
           first == (time[Counter[s.alarm]] + s.ticks) % TickRange
<1>1. /\ calls = <<>> /\ s.call = "abs"
      /\ Enable(t, first, Until(s.alarm, s.ticks))
      /\ absolute' = absolute \cup {s.alarm}
  BY DEF EnableAbs, Runs
<1>2. s.alarm \in Alarms /\ s.ticks \in Nat
  BY <1>1, StartedService DEF AInv
<1>3. /\ Counter[s.alarm] \in Counters
      /\ MaxAllowedValue[Counter[s.alarm]] \in 1 .. (TickRange - 1)
      /\ TickRange \in Nat /\ time[Counter[s.alarm]] \in Nat
  <2>1. Counter[s.alarm] \in Counters
    BY <1>2, CounterAssumption
  <2>2. MaxAllowedValue[Counter[s.alarm]] \in 1 .. (TickRange - 1)
    BY <2>1, CounterAssumption
  <2>3. time[Counter[s.alarm]] \in Nat
    BY <2>1 DEF AInv, TypeOK
  <2> QED BY <2>1, <2>2, <2>3, CounterAssumption
<1>4. first \in 0 .. (TickRange - 1)
  BY <1>2, <1>3
<1>5. Until(s.alarm, s.ticks) \in Int
  BY <1>2, <1>3 DEF Until
<1> HIDE DEF first
<1> QED BY <1>1, <1>4, <1>5, EnableKeeps

\* An alarm that has been cancelled has no time to keep.
LEMMA DisableKeeps ==
  ASSUME AInv, NEW t \in Tasks, Disable(t)
  PROVE  AInv'
<1> USE DEF AInv
<1> DEFINE b == service[t].alarm
<1>1. /\ alarmState' = [alarmState EXCEPT ![b] = 0]
      /\ service' = [service EXCEPT ![t] = Idle] /\ fires' = NoAlarm
      /\ calls = <<>>
      /\ UNCHANGED <<time, alarmTime, alarmCycle, calls, due, fresh, absolute, owed>>
  BY DEF Disable, Runs
<1>2. TypeOK'
  <2>1. service' \in [Tasks -> Services]
    BY <1>1 DEF TypeOK, Services
  <2>2. alarmState' \in [Alarms -> {0, 1}]
    BY <1>1 DEF TypeOK
  <2> QED BY <1>1, <2>1, <2>2 DEF TypeOK
<1>3. \A a \in Alarms : alarmState'[a] = 1 => Running(a)
  BY <1>1 DEF Running, TypeOK
<1>4. Nested' /\ CatchingUp' /\ Accounts'
  BY <1>1 DEF Nested, CatchingUp, Accounts, Now, InLoop
<1>5. TimesRight'
  <2> SUFFICES ASSUME NEW a \in Alarms \ absolute, alarmState'[a] = 1
               PROVE  Right(calls, a, alarmTime[a], due[a])
    BY <1>1 DEF TimesRight, Running
  <2> QED BY <1>3 DEF TimesRight
<1>6. Positive'
  <2> SUFFICES ASSUME NEW a \in Alarms, alarmState'[a] = 1, ~Awaited(a)
               PROVE  alarmTime[a] > 0 \/ a \in fresh
    BY <1>1 DEF Positive, Running, Awaited
  <2> QED BY <1>3 DEF Positive
<1>7. CyclesFit'
  BY <1>1 DEF CyclesFit, TypeOK, Idle
<1> QED BY <1>2, <1>4, <1>5, <1>6, <1>7

-----------------------------------------------------------------------------
(* The theorems.                                                           *)

LEMMA AInvInit == Init => AInv
<1> SUFFICES ASSUME Init PROVE AInv
  OBVIOUS
<1> USE DEF Init
<1>1. \A c \in Counters : /\ MaxAllowedValue[c] \in 1 .. (TickRange - 1)
                          /\ time[c] = 0
  BY CounterAssumption
<1>2. TickRange \in Nat /\ TickRange - 1 >= 0
  BY <1>1, CounterAssumption
<1>3. \A a \in AutoStarted :
        /\ AutoStartAlarm[a].time \in 0 .. (TickRange - 1)
        /\ AutoStartAlarm[a].cycle \in Nat
        /\ CycleFits(a, AutoStartAlarm[a].cycle)
  <2> TAKE a \in AutoStarted
  <2>1. /\ a \in Alarms /\ AutoStartAlarm[a] \in [time : Nat, cycle : Nat]
        /\ ValidAlarm(a, AutoStartAlarm[a].time, AutoStartAlarm[a].cycle)
        /\ CycleFits(a, AutoStartAlarm[a].cycle)
    BY AutoStartAssumption
  <2>2. AutoStartAlarm[a].time \in Nat /\ AutoStartAlarm[a].cycle \in Nat
    BY <2>1
  <2>3. AutoStartAlarm[a].time < TickRange
    BY <2>1, <2>2, ValidTicks
  <2> QED BY <1>2, <2>1, <2>2, <2>3
<1>4. /\ alarmTime \in [Alarms -> 0 .. (TickRange - 1)]
      /\ alarmCycle \in [Alarms -> Nat]
      /\ alarmState \in [Alarms -> {0, 1}]
  BY <1>2, <1>3
<1>5. /\ due \in [Alarms -> Int] /\ owed \in [Alarms -> Int]
      /\ fresh \subseteq Alarms /\ absolute \subseteq Alarms
  BY <1>4, AutoStartAssumption
<1>6. service \in [Tasks -> Services] /\ calls \in Seq(Frames)
  BY DEF Services
<1>7. /\ time \in [Counters -> Nat]
      /\ \A c \in Counters : time[c] < MaxAllowedValue[c]
  BY <1>1
<1>8. TypeOK
  BY <1>4, <1>5, <1>6, <1>7 DEF TypeOK
<1>9. Nested /\ CatchingUp /\ Accounts
  BY DEF Nested, NestedIn, CatchingUp, Accounts, InLoop
<1>10. TimesRight
  BY DEF TimesRight, Right, Awaited, AwaitedIn
<1>11. Positive
  BY DEF Positive, Running
<1>12. CyclesFit
  BY <1>3 DEF CyclesFit, Idle
<1> QED BY <1>8, <1>9, <1>10, <1>11, <1>12 DEF AInv

LEMMA AInvStep == AInv /\ [Next]_vars => AInv'
<1> SUFFICES ASSUME AInv, [Next]_vars PROVE AInv'
  OBVIOUS
<1>1. CASE SysTick
  BY <1>1, TickKeeps
<1>2. CASE Handler
  BY <1>2, SkipKeeps, DecrementKeeps, ExpireCyclicKeeps, ExpireOnceKeeps, LeaveKeeps
  DEF Handler
<1>3. ASSUME NEW t \in Tasks, Application(t) PROVE AInv'
  <2>1. ASSUME NEW x \in Relative[t], SetRelAlarm(t, x[1], x[2], x[3]) PROVE AInv'
    BY <2>1, StartKeeps DEF SetRelAlarm
  <2>2. ASSUME NEW x \in Absolute[t], SetAbsAlarm(t, x[1], x[2], x[3]) PROVE AInv'
    BY <2>2, StartKeeps DEF SetAbsAlarm
  <2>3. ASSUME NEW a \in Cancels[t], CancelAlarm(t, a) PROVE AInv'
    BY <2>3, CancelKeeps
  <2>4. CASE EnableRel(t)
    BY <2>4, EnableRelKeeps
  <2>5. CASE EnableAbs(t)
    BY <2>5, EnableAbsKeeps
  <2>6. CASE Disable(t)
    BY <2>6, DisableKeeps
  <2> QED BY <1>3, <2>1, <2>2, <2>3, <2>4, <2>5, <2>6 DEF Application
<1>4. CASE UNCHANGED vars
  BY <1>4 DEF vars, AInv, TypeOK, Nested, CatchingUp, TimesRight, Positive, Accounts,
              CyclesFit, Now, InLoop, Alarm, Running, Awaited, AwaitedIn
<1> QED BY <1>1, <1>2, <1>3, <1>4 DEF Next

LEMMA AInvAlways == Spec => []AInv
<1> QED BY AInvInit, AInvStep, PTL DEF Spec

\* The variables stay in their ranges: a counter below MaxAllowedValue, whatever
\* is added to it, and an alarm's time below the range of TickType
\* (IncrementCounter and IncrementAlarm, SetRelAlarm and SetAbsAlarm).
THEOREM AlarmTypes == Spec => []TypeOK
<1>1. AInv => TypeOK
  BY DEF AInv
<1> QED BY <1>1, AInvAlways, PTL

\* Between ticks, the time kept for an alarm, which GetAlarm returns, is the
\* number of ticks its starter asked for less those that have passed since.
THEOREM AlarmTimesTrue == Spec => []GetAlarmTrue
<1>1. AInv => GetAlarmTrue
  BY DEF AInv, GetAlarmTrue, TimesRight, TimeLeft, Right, AwaitedIn, Awaits
<1> QED BY <1>1, AInvAlways, PTL

\* IncrementCounter leaves no alarm behind that was due, however many counters
\* are incremented by alarms.
THEOREM NoAlarmOverdue == Spec => []NothingOverdue
<1>1. ASSUME AInv, calls = <<>>, NEW a \in Alarms \ absolute, Running(a)
      PROVE  due[a] > 0 \/ (due[a] = 0 /\ a \in fresh)
  <2>1. ~Awaited(a)
    BY <1>1 DEF Awaited, AwaitedIn
  <2>2. alarmTime[a] = due[a]
    BY <1>1, <2>1 DEF AInv, TimesRight, Right, Awaited
  <2>3. alarmTime[a] > 0 \/ a \in fresh
    BY <1>1, <2>1 DEF AInv, Positive
  <2>4. alarmTime[a] \in Nat
    BY <1>1 DEF AInv, TypeOK
  <2> QED BY <2>2, <2>3, <2>4
<1>2. AInv => NothingOverdue
  BY <1>1 DEF NothingOverdue
<1> QED BY <1>2, AInvAlways, PTL

\* IncrementAlarm acts once for every expiry, also when several fall into one
\* increment.
THEOREM ExpiriesAllAct == Spec => []ExpiriesCount
<1>1. AInv => ExpiriesCount
  BY DEF AInv, ExpiriesCount, Accounts, InLoop
<1> QED BY <1>1, AInvAlways, PTL

\* IncrementAlarm lets no alarm expire that does not run or is not due.
THEOREM NoEarlyExpiry == Spec => NeverEarly
<1> DEFINE Early == \A a \in Alarms \ absolute :
                      fires' = a => Running(a) /\ due[a] <= 0
<1>1. ASSUME AInv, ExpireCyclic \/ ExpireOnce PROVE Early
  <2> SUFFICES ASSUME Alarm \notin absolute
               PROVE  Running(Alarm) /\ due[Alarm] <= 0
    BY <1>1 DEF ExpireCyclic, ExpireOnce
  <2>1. /\ InLoop /\ Running(Alarm) /\ ~(alarmTime[Alarm] > Now.increment)
    BY <1>1 DEF ExpireCyclic, ExpireOnce, Later, Running
  <2>2. Alarm \in Alarms /\ Now.increment \in Nat
    BY <1>1, <2>1, AtHand DEF AInv, Frames
  <2>3. alarmTime[Alarm] \in Nat /\ due[Alarm] \in Int
    BY <1>1, <2>2 DEF AInv, TypeOK
  <2>4. alarmTime[Alarm] = due[Alarm] + Now.increment
    <3>1. Right(calls, Alarm, alarmTime[Alarm], due[Alarm])
      BY <1>1, <2>1, <2>2 DEF AInv, TimesRight
    <3> QED BY <1>1, <2>1, <2>2, <2>3, <3>1, RightRest DEF AInv
  <2> QED BY <2>1, <2>2, <2>3, <2>4
<1>2. NoAlarm \notin Alarms
  BY CounterAssumption DEF NoAlarm
<1>3. ASSUME SysTick \/ SkipDisabled \/ Decrement \/ Leave PROVE Early
  BY <1>2, <1>3 DEF SysTick, SkipDisabled, Decrement, Leave
<1>4. ASSUME NEW t \in Tasks, Application(t) PROVE Early
  BY <1>2, <1>4 DEF Application, SetRelAlarm, SetAbsAlarm, CancelAlarm, Check,
                    EnableRel, EnableAbs, Enable, Disable
<1>5. AInv /\ [Next]_vars => [Early]_vars
  BY <1>1, <1>3, <1>4 DEF Next, Handler
<1> QED BY <1>5, AInvAlways, PTL DEF Spec, NeverEarly

=============================================================================
