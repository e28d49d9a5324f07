------------------------------- MODULE Alarms -------------------------------
(***************************************************************************)
(* Counters and alarms of the FreeOSEK kernel: what the system tick does   *)
(* in IncrementCounter and IncrementAlarm, against the services by which   *)
(* tasks start and cancel alarms.  The tick runs with interrupts disabled, *)
(* so tasks do nothing while it is under way; a service makes its checks   *)
(* before its critical section, and ticks and more urgent tasks come       *)
(* between the two.                                                        *)
(*                                                                         *)
(* IncrementAlarm of an alarm whose action is INCREMENT calls              *)
(* IncrementCounter for another counter: calls holds the activations of    *)
(* IncrementCounter, the latest last.  What the other actions do           *)
(* (ActivateTask, SetEvent) is part of Osek.                               *)
(***************************************************************************)
EXTENDS Integers, Sequences

CONSTANTS
  Counters,          \* 0 .. COUNTERS_COUNT - 1, 0 is the tick's
  Alarms,            \* 0 .. ALARMS_COUNT - 1
  Counter,           \* AlarmsConst[a].Counter
  AlarmRef,          \* CountersConst[c].AlarmRef, the alarms of c in order
  MaxAllowedValue,   \* of each counter
  MinCycle,          \* of each counter
  NoCounter,         \* no counter
  Incremented,       \* the counter an alarm increments, or NoCounter
  AutoStartAlarm,    \* [some of Alarms -> [time : Nat, cycle : Nat]]
  TickRange,         \* 2^32, the range of TickType
  \* What the application calls; a greater task is a more urgent one:
  Tasks,
  Relative,          \* [Tasks -> arguments t gives to SetRelAlarm]
  Absolute,          \* [Tasks -> arguments t gives to SetAbsAlarm]
  Cancels            \* [Tasks -> alarms t cancels]

\* The generator builds AlarmRef from Counter.  A counter that increments
\* itself, directly or through others, would be a recursion without end; the
\* counters are numbered so that increments go upwards.
ASSUME CounterAssumption ==
  /\ TickRange \in Nat
  /\ Counters \subseteq Nat /\ 0 \in Counters /\ NoCounter \notin Counters
  /\ Alarms \subseteq Nat
  /\ Counter \in [Alarms -> Counters]
  /\ AlarmRef \in [Counters -> Seq(Alarms)]
  /\ \A c \in Counters : \A i \in DOMAIN AlarmRef[c] :
       /\ Counter[AlarmRef[c][i]] = c
       /\ \A j \in DOMAIN AlarmRef[c] : AlarmRef[c][i] = AlarmRef[c][j] => i = j
  /\ \A a \in Alarms : \E i \in DOMAIN AlarmRef[Counter[a]] :
       AlarmRef[Counter[a]][i] = a
  /\ MaxAllowedValue \in [Counters -> 1 .. (TickRange - 1)]
  /\ MinCycle \in [Counters -> Nat \ {0}]
  /\ Incremented \in [Alarms -> Counters \cup {NoCounter}]
  /\ \A a \in Alarms : Incremented[a] # NoCounter => Incremented[a] > Counter[a]

\* An alarm, an increment or a start, a cycle.
Arguments == Alarms \X Nat \X Nat

\* IncrementAlarm adds the cycle to a time that is not greater than the
\* increment, which is 1 for the tick and at most one more at each counter that
\* is incremented by an alarm.  The sum must not go around.
CycleFits(a, cycle) == cycle + Counter[a] + 1 < TickRange

ASSUME CallAssumption ==
  /\ Tasks \subseteq Nat
  /\ Relative \in [Tasks -> SUBSET Arguments]
  /\ Absolute \in [Tasks -> SUBSET Arguments]
  /\ Cancels \in [Tasks -> SUBSET Alarms]
  /\ \A t \in Tasks : \A x \in Relative[t] \cup Absolute[t] :
       CycleFits(x[1], x[3])

VARIABLES
  time,        \* CountersVar[c].Time
  alarmState,  \* AlarmsVar[a].AlarmState
  alarmTime,   \* AlarmsVar[a].AlarmTime
  alarmCycle,  \* AlarmsVar[a].AlarmCycleTime
  calls,       \* the calls of IncrementCounter, see above
  service,     \* per task: the service it has checked and not yet carried out
  \* What was promised, to compare with (the code has nothing of the kind):
  due,         \* ticks of its counter until the next expiry of an alarm
  fresh,       \* the alarms whose counter has not moved since their start
  absolute,    \* the alarms started with SetAbsAlarm
  owed,        \* expiries of an alarm that have had no effect so far
  fires        \* the alarm that expires in the last step, or NoAlarm

alarmVars == <<alarmState, alarmTime, alarmCycle, due, fresh, absolute>>
vars == <<time, alarmState, alarmTime, alarmCycle, calls, service, due, fresh,
          absolute, owed, fires>>

NoAlarm == -1
Idle == [call |-> "none"]
Start(name, a, n, c) == [call |-> name, alarm |-> a, ticks |-> n, cycle |-> c]
Cancel(a) == [call |-> "cancel", alarm |-> a]

ValidAlarm(a, ticks, cycle) ==
  LET max == MaxAllowedValue[Counter[a]]
  IN ticks <= max /\ (cycle = 0 \/ cycle \in MinCycle[Counter[a]] .. max)

AutoStarted == DOMAIN AutoStartAlarm

ASSUME AutoStartAssumption ==
  /\ AutoStarted \subseteq Alarms
  /\ \A a \in AutoStarted :
       /\ AutoStartAlarm[a] \in [time : Nat, cycle : Nat]
       /\ ValidAlarm(a, AutoStartAlarm[a].time, AutoStartAlarm[a].cycle)
       /\ CycleFits(a, AutoStartAlarm[a].cycle)

\* StartOS starts alarms before it enables interrupts.
Init ==
  /\ time = [c \in Counters |-> 0]
  /\ alarmState = [a \in Alarms |-> IF a \in AutoStarted THEN 1 ELSE 0]
  /\ alarmTime = [a \in Alarms |->
                    IF a \in AutoStarted THEN AutoStartAlarm[a].time ELSE 0]
  /\ alarmCycle = [a \in Alarms |->
                     IF a \in AutoStarted THEN AutoStartAlarm[a].cycle ELSE 0]
  /\ calls = <<>>
  /\ service = [t \in Tasks |-> Idle]
  /\ due = alarmTime
  /\ fresh = AutoStarted
  /\ absolute = {}
  /\ owed = [a \in Alarms |-> 0]
  /\ fires = NoAlarm

-----------------------------------------------------------------------------
(* The tick.                                                               *)

\* loopi is the index of the alarm being looked at, count its expiries so far.
Call(c, n) == [counter |-> c, increment |-> n, loopi |-> 1, count |-> 0]

WrapLate(c, t) ==                      \* mutant: > instead of >=
  IF t > MaxAllowedValue[c] THEN t % MaxAllowedValue[c] ELSE t
\* The counter starts again at MaxAllowedValue: "while (Time >= max) Time -= max".
Wrap(c, t) == t % MaxAllowedValue[c]

\* The head of IncrementCounter(c, n), called by what is left in rest.
Enter(c, n, rest) ==
  /\ time' = [time EXCEPT ![c] = Wrap(c, (@ + n) % TickRange)]
  /\ calls' = Append(rest, Call(c, n))
  /\ fresh' = {a \in fresh : Counter[a] # c}

\* What is still due when counter c has been incremented by n.
Elapsed(remaining, c, n) ==
  [a \in Alarms |-> IF Counter[a] = c /\ alarmState[a] = 1
                    THEN remaining[a] - n ELSE remaining[a]]

SysTick ==
  /\ calls = <<>>
  /\ Enter(0, 1, <<>>)
  /\ due' = Elapsed(due, 0, 1)
  /\ fires' = NoAlarm
  /\ UNCHANGED <<alarmState, alarmTime, alarmCycle, service, absolute, owed>>

Now == calls[Len(calls)]
InLoop == calls # <<>> /\ Now.loopi <= Len(AlarmRef[Now.counter])
Alarm == AlarmRef[Now.counter][Now.loopi]

\* The rest of the loop after the alarm at hand.
NextKeepsCount == [Now EXCEPT !.loopi = @ + 1]               \* mutant
NextStays == [Now EXCEPT !.count = 0]                        \* mutant
NextAlarm == [Now EXCEPT !.loopi = @ + 1, !.count = 0]
Rest == [calls EXCEPT ![Len(calls)] = NextAlarm]

\* The alarm at hand has expired n times: its counter goes on, or its action
\* is carried out n times.
Act(remaining, before, n) ==
  /\ owed' = [before EXCEPT ![Alarm] = @ - n]
  /\ IF Incremented[Alarm] = NoCounter
     THEN /\ calls' = Rest
          /\ due' = remaining
          /\ UNCHANGED <<time, fresh>>
     ELSE /\ Enter(Incremented[Alarm], n, Rest)
          /\ due' = Elapsed(remaining, Incremented[Alarm], n)

SkipDisabled ==
  /\ InLoop /\ alarmState[Alarm] = 0
  /\ calls' = Rest
  /\ fires' = NoAlarm
  /\ UNCHANGED <<time, alarmVars, service, owed>>

\* Not due any more, or not yet: "AlarmTime -= Increment".
LaterOrNow(t, n) == t >= n             \* mutant: one late
LaterThanNext(t, n) == t > n + 1       \* mutant: one early
Later(t, n) == t > n
Decrement ==
  /\ InLoop /\ alarmState[Alarm] = 1
  /\ Later(alarmTime[Alarm], Now.increment)
  /\ alarmTime' = [alarmTime EXCEPT ![Alarm] = @ - Now.increment]
  /\ IF Now.count = 0
     THEN calls' = Rest /\ UNCHANGED <<time, due, fresh, owed>>
     ELSE Act(due, owed, Now.count)
  /\ fires' = NoAlarm
  /\ UNCHANGED <<alarmState, alarmCycle, service, absolute>>

\* An expiry of a cyclic alarm; the loop ends when it is Later again.
CycleAgain == (Now.increment + alarmCycle[Alarm]) % TickRange
                                       \* mutant: counts from now, not from due
CycleOn == (alarmTime[Alarm] + alarmCycle[Alarm]) % TickRange
ExpireCyclic ==
  /\ InLoop /\ alarmState[Alarm] = 1
  /\ ~Later(alarmTime[Alarm], Now.increment)
  /\ alarmCycle[Alarm] # 0
  /\ alarmTime' = [alarmTime EXCEPT ![Alarm] = CycleOn]
  /\ calls' = [calls EXCEPT ![Len(calls)].count = @ + 1]
  /\ due' = [due EXCEPT ![Alarm] = @ + alarmCycle[Alarm]]
  /\ owed' = [owed EXCEPT ![Alarm] = @ + 1]
  /\ fires' = Alarm
  /\ UNCHANGED <<time, alarmState, alarmCycle, service, fresh, absolute>>

ExpireOnce ==
  /\ InLoop /\ alarmState[Alarm] = 1
  /\ ~Later(alarmTime[Alarm], Now.increment)
  /\ alarmCycle[Alarm] = 0
  /\ alarmTime' = [alarmTime EXCEPT ![Alarm] = 0]
  /\ alarmState' = [alarmState EXCEPT ![Alarm] = 0]
  /\ Act([due EXCEPT ![Alarm] = 0], [owed EXCEPT ![Alarm] = @ + 1], 1)
  /\ fires' = Alarm
  /\ UNCHANGED <<alarmCycle, service, absolute>>

\* The end of IncrementCounter.  Its result is computed from the remaining
\* times but never used to any effect.
Leave ==
  /\ calls # <<>> /\ ~InLoop
  /\ calls' = SubSeq(calls, 1, Len(calls) - 1)
  /\ fires' = NoAlarm
  /\ UNCHANGED <<time, alarmVars, service, owed>>

Handler == SkipDisabled \/ Decrement \/ ExpireCyclic \/ ExpireOnce \/ Leave

-----------------------------------------------------------------------------
(* Services.                                                               *)

\* The most urgent of the tasks that are in a service goes on.
Runs(t) == calls = <<>> /\ \A u \in Tasks : u > t => service[u] = Idle

\* The checks.  A call with wrong values, the start of an alarm that runs and
\* the cancellation of one that does not return an error and change nothing.
Check(t, s, passes) ==
  /\ Runs(t) /\ service[t] = Idle
  /\ passes
  /\ service' = [service EXCEPT ![t] = s]
  /\ fires' = NoAlarm
  /\ UNCHANGED <<time, alarmVars, calls, owed>>

SetRelAlarm(t, a, n, c) ==
  Check(t, Start("rel", a, n, c), ValidAlarm(a, n, c) /\ alarmState[a] = 0)

SetAbsAlarm(t, a, n, c) ==
  Check(t, Start("abs", a, n, c), ValidAlarm(a, n, c) /\ alarmState[a] = 0)

CancelAlarm(t, a) ==
  Check(t, Cancel(a), alarmState[a] # 0)

\* The critical section of SetRelAlarm and SetAbsAlarm.  The state is not
\* looked at again.  promise is what the caller asked for.
Enable(t, first, promise) ==
  LET s == service[t] IN
    /\ alarmState' = [alarmState EXCEPT ![s.alarm] = 1]
    /\ alarmTime' = [alarmTime EXCEPT ![s.alarm] = first]
    /\ alarmCycle' = [alarmCycle EXCEPT ![s.alarm] = s.cycle]
    /\ service' = [service EXCEPT ![t] = Idle]
    /\ due' = [due EXCEPT ![s.alarm] = promise]
    /\ fresh' = fresh \cup {s.alarm}
    /\ fires' = NoAlarm
    /\ UNCHANGED <<time, calls, owed>>

EnableRel(t) ==
  /\ Runs(t) /\ service[t].call = "rel"
  /\ Enable(t, service[t].ticks, service[t].ticks)
  /\ absolute' = absolute \ {service[t].alarm}

\* The ticks until the counter of a next reads start, at least one.
Until(a, start) ==
  LET max == MaxAllowedValue[Counter[a]]
  IN 1 + ((start - time[Counter[a]] - 1) % max)

EnableAbs(t) ==
  LET s == service[t] IN
    /\ Runs(t) /\ s.call = "abs"
    /\ Enable(t, (time[Counter[s.alarm]] + s.ticks) % TickRange,
              Until(s.alarm, s.ticks))
    /\ absolute' = absolute \cup {s.alarm}

\* CancelAlarm has no critical section: one byte is written.
Disable(t) ==
  /\ Runs(t) /\ service[t].call = "cancel"
  /\ alarmState' = [alarmState EXCEPT ![service[t].alarm] = 0]
  /\ service' = [service EXCEPT ![t] = Idle]
  /\ fires' = NoAlarm
  /\ UNCHANGED <<time, alarmTime, alarmCycle, calls, due, fresh, absolute,
                 owed>>

Application(t) ==
  \/ \E x \in Relative[t] : SetRelAlarm(t, x[1], x[2], x[3])
  \/ \E x \in Absolute[t] : SetAbsAlarm(t, x[1], x[2], x[3])
  \/ \E a \in Cancels[t] : CancelAlarm(t, a)
  \/ EnableRel(t)
  \/ EnableAbs(t)
  \/ Disable(t)

Next == SysTick \/ Handler \/ \E t \in Tasks : Application(t)

Spec == Init /\ [][Next]_vars

\* The handler of the tick does not stop half way.
FairSpec == Spec /\ WF_vars(Handler)

-----------------------------------------------------------------------------
(* Properties.                                                             *)

Running(a) == alarmState[a] = 1

Frames == [counter : Counters, increment : Nat, loopi : Nat, count : Nat]
Services ==
  {Idle} \cup {Cancel(a) : a \in Alarms}
  \cup [call : {"rel", "abs"}, alarm : Alarms, ticks : Nat, cycle : Nat]

\* Types; a counter never reads MaxAllowedValue or more.
TypeOK ==
  /\ time \in [Counters -> Nat]
  /\ \A c \in Counters : time[c] < MaxAllowedValue[c]
  /\ alarmState \in [Alarms -> {0, 1}]
  /\ alarmTime \in [Alarms -> 0 .. (TickRange - 1)]
  /\ alarmCycle \in [Alarms -> Nat]
  /\ calls \in Seq(Frames)
  /\ service \in [Tasks -> Services]
  /\ due \in [Alarms -> Int] /\ owed \in [Alarms -> Int]
  /\ fresh \subseteq Alarms /\ absolute \subseteq Alarms
  /\ fires \in Alarms \cup {NoAlarm}

\* GetAlarm tells the truth: the time kept for a running alarm is the number
\* of ticks until the expiry that its starter asked for, whatever catching up
\* has been done.
TimeLeft(a) == Running(a) => alarmTime[a] = due[a]
GetAlarmTrue == calls = <<>> => \A a \in Alarms \ absolute : TimeLeft(a)

\* When the tick has been handled no alarm that was due has been left out; an
\* alarm started for 0 ticks waits for the first tick.
NothingOverdue ==
  calls = <<>> =>
    \A a \in Alarms \ absolute :
      Running(a) => due[a] > 0 \/ (due[a] = 0 /\ a \in fresh)

\* An alarm expires only while it runs, and not before it is due.
NeverEarly ==
  [][\A a \in Alarms \ absolute :
       fires' = a => Running(a) /\ due[a] <= 0]_vars

\* Every expiry has its effect once, and nothing else has: the task is
\* activated, the event set or the counter incremented that many times.
ExpiriesCount == calls = <<>> => \A a \in Alarms : owed[a] = 0

\* However many alarms and counters a tick has to go through, and however often
\* they have to catch up, it ends: interrupts are not disabled for ever.
TickEnds == (calls # <<>>) ~> (calls = <<>>)
=============================================================================
