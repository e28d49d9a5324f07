-------------------------------- MODULE Osek --------------------------------
(***************************************************************************)
(* The FreeOSEK kernel of the CIAA firmware (modules/rtos): tasks, ready   *)
(* lists, resources with the priority ceiling protocol, events, and the    *)
(* points at which a category 2 interrupt can come between two critical    *)
(* sections of a system service.  The build modelled is the one            *)
(* proyects/CDRon/etc/CDRon.oil asks for: STATUS = EXTENDED, ERRORHOOK =   *)
(* TRUE, no RES_SCHEDULER, mixed preemption.                               *)
(*                                                                         *)
(* Grain: what the code does between IntSecure_Start and IntSecure_End is  *)
(* one step.  A service with several critical sections goes through the    *)
(* points recorded in pc[t], which is where task t resumes when it is      *)
(* dispatched again.                                                       *)
(***************************************************************************)
EXTENDS Integers, Sequences, FiniteSets

CONSTANTS
  Tasks,             \* 0 .. TASKS_COUNT - 1
  INVALID_TASK,      \* 255 in the code: no task
  READYLISTS_COUNT,  \* number of distinct priorities of the configuration
  Resources,         \* 0 .. RESOURCES_COUNT - 1
  Events,            \* the event bits
  StaticPriority,    \* [Tasks -> 0 .. READYLISTS_COUNT - 1]
  MaxActivations,    \* [Tasks -> Nat \ {0}], ACTIVATION of the OIL file
  Extended,          \* tasks of TYPE = EXTENDED
  Preemtive,         \* tasks of SCHEDULE = FULL (the code's spelling)
  EventsMask,        \* [Tasks -> SUBSET Events]
  ResourcesMask,     \* [Tasks -> SUBSET Resources]
  AutoStart,         \* the tasks StartOS activates, in order
  \* What the application calls (it is not part of the kernel):
  Activates,         \* [Tasks -> arguments t gives to ActivateTask]
  Chains,            \* [Tasks -> arguments t gives to ChainTask]
  Signals,           \* [Tasks -> first arguments t gives to SetEvent]
  Masks,             \* the event masks used in calls
  IsrActivates,      \* tasks activated by interrupts and alarms
  IsrSignals         \* tasks interrupts and alarms set events of

Priorities == 0 .. (READYLISTS_COUNT - 1)

ASSUME TasksAssumption ==
  /\ Tasks \subseteq Nat
  /\ IsFiniteSet(Tasks)
  /\ INVALID_TASK \notin Tasks
  /\ READYLISTS_COUNT \in Nat

ASSUME ConfigAssumption ==
  /\ StaticPriority \in [Tasks -> Priorities]
  /\ MaxActivations \in [Tasks -> Nat \ {0}]
  /\ Extended \subseteq Tasks
  /\ \A t \in Extended : MaxActivations[t] = 1
  /\ Preemtive \subseteq Tasks
  /\ EventsMask \in [Tasks -> SUBSET Events]
  /\ ResourcesMask \in [Tasks -> SUBSET Resources]
  /\ AutoStart \in Seq(Tasks)

ASSUME ApplicationAssumption ==
  /\ Activates \in [Tasks -> SUBSET (Tasks \cup {INVALID_TASK})]
  /\ Chains \in [Tasks -> SUBSET (Tasks \cup {INVALID_TASK})]
  /\ Signals \in [Tasks -> SUBSET (Tasks \cup {INVALID_TASK})]
  /\ Masks \subseteq SUBSET Events
  /\ IsrActivates \subseteq Tasks
  /\ IsrSignals \subseteq Tasks

\* Conditions on the application that some of the properties need (theorems
\* that use them name them).  A task that is chained is activated by nothing
\* else, and no two other tasks chain the same one: ChainTask leaves the state
\* of a suspended task as it is, and tests its activations too early.
IsChained(u) == \E t \in Tasks : u \in Chains[t]
ChainedApart ==
  \A u \in Tasks : IsChained(u) =>
    /\ u \notin IsrActivates
    /\ \A t \in Tasks : u \notin Activates[t]
    /\ \A t, v \in Tasks \ {u} : u \in Chains[t] /\ u \in Chains[v] => t = v

\* No activation of a task that uses resources is queued: AddReady would
\* lower its priority while it holds one.
UsersOnce == \A t \in Tasks : ResourcesMask[t] # {} => MaxActivations[t] = 1

VARIABLES
  state,        \* TasksVar[t].Flags.State
  activations,  \* TasksVar[t].Activations
  actPriority,  \* TasksVar[t].ActualPriority
  events,       \* TasksVar[t].Events
  eventsWait,   \* TasksVar[t].EventsWait
  resources,    \* TasksVar[t].Resources, the set of resources t holds
  ready,        \* the ready list of each priority, oldest first
  running,      \* RunningTask
  context,      \* ActualContext
  pc,           \* where the code of each task is, see above
  target,       \* the argument of the ChainTask that each task has checked
  isr,          \* context saved by the interrupt being served, or "none"
  boot,         \* how many of AutoStart StartOS has activated
  error         \* what the last step passed to ErrorHook, or "E_OK"

taskVars == <<state, activations, actPriority, events, eventsWait, resources>>
vars == <<state, activations, actPriority, events, eventsWait, resources,
          ready, running, context, pc, target, isr, boot, error>>

-----------------------------------------------------------------------------
(* Ready lists.                                                            *)

\* Os_Internal.c keeps each list in a circular array of ListLength entries
\* (module ReadyList); here it is the sequence of the entries from ListStart.
AddReadyAtHead(lists, t) ==            \* mutant: last in, first out
  [lists EXCEPT ![StaticPriority[t]] = <<t>> \o @]
AddReady(lists, t) ==
  [lists EXCEPT ![StaticPriority[t]] = Append(@, t)]

\* RemoveTask drops the head of the list of t's priority, whoever that is.
RemoveTask(lists, t) ==
  [lists EXCEPT ![StaticPriority[t]] = Tail(@)]

\* ReadyConst[p].ListLength: the activations of the tasks of priority p.
Slots(t) == {t} \X (1 .. MaxActivations[t])
ListLength(p) ==
  Cardinality(UNION {Slots(t) : t \in {u \in Tasks : StaticPriority[u] = p}})

NonEmpty == {p \in Priorities : ready[p] # <<>>}

\* The head of the first list that is not empty, the highest priority first.
LowestReady ==                         \* mutant: the lists in reverse order
  IF NonEmpty = {} THEN INVALID_TASK
  ELSE Head(ready[CHOOSE p \in NonEmpty : \A q \in NonEmpty : q >= p])
FirstReady ==
  IF NonEmpty = {} THEN INVALID_TASK
  ELSE Head(ready[CHOOSE p \in NonEmpty : \A q \in NonEmpty : q <= p])

Occupying == {t \in Tasks : resources[t] # {} /\ actPriority[t] > 0}

\* Of the tasks that hold a resource the one of greatest actual priority, the
\* smallest task id among equals.
IsResTask(t) ==
  /\ t \in Occupying
  /\ \A u \in Occupying :
       \/ actPriority[u] < actPriority[t]
       \/ actPriority[u] = actPriority[t] /\ t <= u

ResTask == CHOOSE t \in Tasks : IsResTask(t)

GetNextWithoutHolders == FirstReady    \* mutant: resources are not looked at
GetNextTask ==
  IF Occupying # {} /\ actPriority[ResTask] >= actPriority[FirstReady]
  THEN ResTask
  ELSE FirstReady

\* ResourcesPriority as the configuration generator computes it: the highest
\* static priority among the tasks that declare the resource, 0 if none does.
ResourceUsers(r) == {t \in Tasks : r \in ResourcesMask[t]}
ResourcesPriority(r) ==
  IF ResourceUsers(r) = {} THEN 0
  ELSE CHOOSE p \in {StaticPriority[t] : t \in ResourceUsers(r)} :
         \A t \in ResourceUsers(r) : StaticPriority[t] <= p

-----------------------------------------------------------------------------
(* Start.                                                                  *)

\* The zero initialised data of the configuration, after StartOS has set the
\* context and the running task.
Init ==
  /\ state = [t \in Tasks |-> "SUSPENDED"]
  /\ activations = [t \in Tasks |-> 0]
  /\ actPriority = [t \in Tasks |-> 0]
  /\ events = [t \in Tasks |-> {}]
  /\ eventsWait = [t \in Tasks |-> {}]
  /\ resources = [t \in Tasks |-> {}]
  /\ ready = [p \in Priorities |-> <<>>]
  /\ running = INVALID_TASK
  /\ context = "SYS"
  /\ pc = [t \in Tasks |-> "run"]
  /\ target = [t \in Tasks |-> INVALID_TASK]
  /\ isr = "none"
  /\ boot = 0
  /\ error = "E_OK"

Booted == boot = Len(AutoStart)

\* Task t has the processor, between two critical sections, at a point of its
\* code.
At(t, point) == Booted /\ isr = "none" /\ running = t /\ pc[t] = point

\* A service that returns without having changed anything.  A status other
\* than E_OK goes to ErrorHook.
Return(status) ==
  /\ error' = status
  /\ UNCHANGED <<state, activations, actPriority, events, eventsWait,
                 resources, ready, running, context, pc, target, isr, boot>>

-----------------------------------------------------------------------------
(* The critical section of ActivateTask.                                   *)

ActivationAllowed(t) ==
  \/ state[t] = "SUSPENDED"
  \/ t \notin Extended /\ activations[t] < MaxActivations[t]

Activate(t) ==
  /\ activations' = [activations EXCEPT ![t] = @ + 1]
  /\ state' = [state EXCEPT ![t] = IF @ = "SUSPENDED" THEN "READY" ELSE @]
  /\ events' = [events EXCEPT ![t] = IF state[t] = "SUSPENDED" THEN {} ELSE @]
  /\ actPriority' = [actPriority EXCEPT ![t] = StaticPriority[t]]
  /\ ready' = AddReady(ready, t)
  /\ UNCHANGED <<eventsWait, resources>>

ActivateError(t) == IF t \in Tasks THEN "E_OS_LIMIT" ELSE "E_OS_ID"

\* StartOS activates the autostart tasks in order, interrupts disabled.
StartOS ==
  /\ ~Booted
  /\ boot' = boot + 1
  /\ LET t == AutoStart[boot + 1] IN
       IF ActivationAllowed(t)
       THEN Activate(t) /\ error' = "E_OK"
       ELSE error' = ActivateError(t) /\ UNCHANGED <<taskVars, ready>>
  /\ UNCHANGED <<running, context, pc, target, isr>>

\* ActivateTask from task t.  A preemptable caller goes on to reschedule, in
\* SYS context so that Schedule makes no checks (steps EnterSys to LeaveSys).
ActivateTask(t, u) ==
  /\ At(t, "run")
  /\ IF u \in Tasks /\ ActivationAllowed(u)
     THEN /\ Activate(u)
          /\ pc' = IF t \in Preemtive THEN [pc EXCEPT ![t] = "enterSys"] ELSE pc
          /\ error' = "E_OK"
          /\ UNCHANGED <<running, context, target, isr, boot>>
     ELSE Return(ActivateError(u))

-----------------------------------------------------------------------------
(* Schedule.                                                               *)

\* Schedule_Int with a running task, checks passed or skipped: the next task
\* takes the processor only if its static priority exceeds the actual
\* priority of the running one.  Otherwise the context is left as it was.
Reschedule(saved) ==
  LET next == GetNextTask IN
    IF StaticPriority[next] > actPriority[running]
    THEN /\ state' = [state EXCEPT ![running] = "READY", ![next] = "RUNNING"]
         /\ running' = next
         /\ context' = "TASK"
    ELSE context' = saved /\ UNCHANGED <<state, running>>

EnterSys(t) ==
  /\ At(t, "enterSys")
  /\ context' = "SYS"
  /\ pc' = [pc EXCEPT ![t] = "sysSchedule"]
  /\ error' = "E_OK"
  /\ UNCHANGED <<taskVars, ready, running, target, isr, boot>>

SysSchedule(t) ==
  /\ At(t, "sysSchedule")
  /\ Reschedule(context)
  /\ pc' = [pc EXCEPT ![t] = "leaveSys"]
  /\ error' = "E_OK"
  /\ UNCHANGED <<activations, actPriority, events, eventsWait, resources,
                 ready, target, isr, boot>>

LeaveSys(t) ==
  /\ At(t, "leaveSys")
  /\ context' = "TASK"
  /\ pc' = [pc EXCEPT ![t] = "run"]
  /\ error' = "E_OK"
  /\ UNCHANGED <<taskVars, ready, running, target, isr, boot>>

\* Schedule with the checks of EXTENDED status: called by the application
\* (from "run") or by SetEvent and ReleaseResource (from "schedule").  Without
\* resources of its own the caller may lose the processor; with one, the call
\* fails and reports to ErrorHook, also when the kernel made it.
Schedule(t, point) ==
  /\ At(t, point)
  /\ pc' = [pc EXCEPT ![t] = "run"]
  /\ IF resources[t] # {}
     THEN error' = "E_OS_RESOURCE" /\ UNCHANGED <<state, running, context>>
     ELSE error' = "E_OK" /\ Reschedule(context)
  /\ UNCHANGED <<activations, actPriority, events, eventsWait, resources,
                 ready, target, isr, boot>>

\* Schedule with no running task: after StartOS, TerminateTask, ChainTask or
\* WaitEvent.  While no task is ready it idles and the step is disabled.
Dispatch ==
  /\ Booted /\ isr = "none" /\ running = INVALID_TASK
  /\ LET next == GetNextTask IN
       /\ next # INVALID_TASK
       /\ state' = [state EXCEPT ![next] = "RUNNING"]
       /\ running' = next
  /\ context' = "TASK"
  /\ error' = "E_OK"
  /\ UNCHANGED <<activations, actPriority, events, eventsWait, resources,
                 ready, pc, target, isr, boot>>

-----------------------------------------------------------------------------
(* TerminateTask and ChainTask.                                            *)

\* The state of a task whose oldest activation ends.
StateBeforeDecrement(t) ==             \* mutant: tested before the decrement
  IF activations[t] = 0 THEN "SUSPENDED" ELSE "READY"
StateAfterEnd(t) ==
  IF activations[t] - 1 = 0 THEN "SUSPENDED" ELSE "READY"

\* The part they share: back to the entry point, no running task.
Finish(t) ==
  /\ state' = [state EXCEPT ![t] = StateAfterEnd(t)]
  /\ pc' = [pc EXCEPT ![t] = "run"]
  /\ running' = INVALID_TASK
  /\ context' = "SYS"

TerminateTask(t) ==
  /\ At(t, "run")
  /\ IF resources[t] # {}
     THEN Return("E_OS_RESOURCE")
     ELSE /\ Finish(t)
          /\ activations' = [activations EXCEPT ![t] = @ - 1]
          /\ ready' = RemoveTask(ready, t)
          /\ error' = "E_OK"
          /\ UNCHANGED <<actPriority, events, eventsWait, resources, target,
                         isr, boot>>

ChainsAlways(t, u) == TRUE             \* mutant: no limit
ChainAllowed(t, u) == activations[u] + 1 <= MaxActivations[u] \/ u = t

\* The checks of ChainTask are made before its critical section.
ChainTask(t, u) ==
  /\ At(t, "run")
  /\ IF u \notin Tasks THEN Return("E_OS_ID")
     ELSE IF resources[t] # {} THEN Return("E_OS_RESOURCE")
     ELSE IF ~ChainAllowed(t, u) THEN Return("E_OS_LIMIT")
     ELSE /\ pc' = [pc EXCEPT ![t] = "chain"]
          /\ target' = [target EXCEPT ![t] = u]
          /\ error' = "E_OK"
          /\ UNCHANGED <<taskVars, ready, running, context, isr, boot>>

\* The succeeding task u is put on its ready list; its state is not written.
Chain(t) ==
  /\ At(t, "chain")
  /\ Finish(t)
  /\ LET u == target[t] IN
       /\ activations' = [[activations EXCEPT ![t] = @ - 1] EXCEPT ![u] = @ + 1]
       /\ ready' = AddReady(RemoveTask(ready, t), u)
       /\ actPriority' = [actPriority EXCEPT ![u] = StaticPriority[u]]
       /\ events' = [events EXCEPT ![u] = IF state'[u] = "SUSPENDED" THEN {} ELSE @]
  /\ target' = [target EXCEPT ![t] = INVALID_TASK]
  /\ error' = "E_OK"
  /\ UNCHANGED <<eventsWait, resources, isr, boot>>

-----------------------------------------------------------------------------
(* Events.                                                                 *)

SetEventError(u) ==
  IF u \notin Tasks THEN "E_OS_ID"
  ELSE IF u \notin Extended THEN "E_OS_ACCESS"
  ELSE IF state[u] = "SUSPENDED" THEN "E_OS_STATE" ELSE "E_OK"

WakesOnOldEvents(u, mask) ==           \* mutant: tested before the set
  /\ state[u] = "WAITING"
  /\ eventsWait[u] \cap events[u] # {}
WakesAnyState(u, mask) ==              \* mutant: the state is not tested
  eventsWait[u] \cap (events[u] \cup (mask \cap EventsMask[u])) # {}
Wakes(u, mask) ==
  /\ state[u] = "WAITING"
  /\ eventsWait[u] \cap (events[u] \cup (mask \cap EventsMask[u])) # {}

\* The critical section of SetEvent.
Signal(u, mask) ==
  /\ events' = [events EXCEPT ![u] = @ \cup (mask \cap EventsMask[u])]
  /\ IF Wakes(u, mask)
     THEN /\ state' = [state EXCEPT ![u] = "READY"]
          /\ ready' = AddReady(ready, u)
          /\ actPriority' = [actPriority EXCEPT ![u] = StaticPriority[u]]
     ELSE UNCHANGED <<state, ready, actPriority>>
  /\ UNCHANGED <<activations, eventsWait, resources>>

\* The checks are made before the critical section.  If u has ended in between
\* the section finds it SUSPENDED and does nothing.
SetEvent(t, u, mask) ==
  /\ At(t, "run")
  /\ IF SetEventError(u) = "E_OK"
     THEN /\ Signal(u, mask)
          /\ pc' = IF t \in Preemtive /\ Wakes(u, mask)
                   THEN [pc EXCEPT ![t] = "schedule"] ELSE pc
          /\ error' = "E_OK"
          /\ UNCHANGED <<running, context, target, isr, boot>>
     ELSE \/ Return(SetEventError(u))
          \/ SetEventError(u) = "E_OS_STATE" /\ Return("E_OK")

\* The check of the events and the move to WAITING are one critical section.
WaitEvent(t, mask) ==
  /\ At(t, "run")
  /\ IF t \notin Extended THEN Return("E_OS_ACCESS")
     ELSE IF resources[t] # {} THEN Return("E_OS_RESOURCE")
     ELSE IF mask \cap events[t] # {} THEN Return("E_OK")
     ELSE /\ state' = [state EXCEPT ![t] = "WAITING"]
          /\ eventsWait' = [eventsWait EXCEPT ![t] = mask]
          /\ ready' = RemoveTask(ready, t)
          /\ running' = INVALID_TASK
          /\ context' = "SYS"
          /\ error' = "E_OK"
          /\ UNCHANGED <<activations, actPriority, events, resources, pc,
                         target, isr, boot>>

ClearEvent(t, mask) ==
  /\ At(t, "run")
  /\ IF t \notin Extended THEN Return("E_OS_ACCESS")
     ELSE /\ events' = [events EXCEPT ![t] = @ \ (mask \cap EventsMask[t])]
          /\ error' = "E_OK"
          /\ UNCHANGED <<state, activations, actPriority, eventsWait,
                         resources, ready, running, context, pc, target, isr, boot>>

-----------------------------------------------------------------------------
(* Resources.                                                              *)

NotRaised(t, r) == actPriority[t]      \* mutant: no ceiling
Raised(t, r) ==
  IF actPriority[t] < ResourcesPriority(r)
  THEN ResourcesPriority(r) ELSE actPriority[t]

GetResource(t, r) ==
  /\ At(t, "run")
  /\ IF r \in resources[t] \/ r \notin ResourcesMask[t]
     THEN Return("E_OS_ACCESS")
     ELSE /\ actPriority' = [actPriority EXCEPT ![t] = Raised(t, r)]
          /\ resources' = [resources EXCEPT ![t] = @ \cup {r}]
          /\ error' = "E_OK"
          /\ UNCHANGED <<state, activations, events, eventsWait, ready,
                         running, context, pc, target, isr, boot>>

\* The static priority of t or the highest ceiling among the resources left.
PriorityReset(t, left) == StaticPriority[t]   \* mutant: forgets the others
PriorityWith(t, left) ==
  LET levels == {StaticPriority[t]} \cup {ResourcesPriority(r) : r \in left}
  IN CHOOSE p \in levels : \A q \in levels : q <= p

ReleaseResource(t, r) ==
  /\ At(t, "run")
  /\ IF r \notin resources[t]
     THEN Return("E_OS_NOFUNC")
     ELSE /\ resources' = [resources EXCEPT ![t] = @ \ {r}]
          /\ actPriority' = [actPriority EXCEPT ![t] =
                               PriorityWith(t, resources[t] \ {r})]
          /\ pc' = IF t \in Preemtive THEN [pc EXCEPT ![t] = "schedule"] ELSE pc
          /\ error' = "E_OK"
          /\ UNCHANGED <<state, activations, events, eventsWait, ready,
                         running, context, target, isr, boot>>

-----------------------------------------------------------------------------
(* Category 2 interrupts and the system tick.                              *)

\* An interrupt can come whenever no critical section is being executed.  One
\* level is modelled: the handler of an interrupt that comes while another is
\* served finds the context ISR2, leaves it so and does not reschedule, which
\* makes its calls further calls of the outer handler.
IsrEnterNested ==                      \* mutant: while another is served
  /\ Booted
  /\ isr' = context
  /\ context' = "ISR2"
  /\ error' = "E_OK"
  /\ UNCHANGED <<taskVars, ready, running, pc, target, boot>>
IsrEnter ==
  /\ Booted /\ isr = "none"
  /\ isr' = context
  /\ context' = "ISR2"
  /\ error' = "E_OK"
  /\ UNCHANGED <<taskVars, ready, running, pc, target, boot>>

IsrActivateTask(u) ==
  /\ isr # "none"
  /\ IF ActivationAllowed(u)
     THEN /\ Activate(u)
          /\ error' = "E_OK"
          /\ UNCHANGED <<running, context, pc, target, isr, boot>>
     ELSE Return(ActivateError(u))

IsrSetEvent(u, mask) ==
  /\ isr # "none"
  /\ IF SetEventError(u) = "E_OK"
     THEN /\ Signal(u, mask)
          /\ error' = "E_OK"
          /\ UNCHANGED <<running, context, pc, target, isr, boot>>
     ELSE Return(SetEventError(u))

\* What the wrapper asks before it calls the scheduler.
IsrReschedulesAny == isr = "TASK"      \* mutant: whatever task it is
IsrReschedulesLate ==                  \* mutant: the context not yet back
  context = "TASK" /\ running \in Preemtive
IsrReschedules == isr = "TASK" /\ running \in Preemtive

\* The end of the interrupt wrapper: the saved context comes back, and the
\* scheduler runs (without checks) if a preemptable task was interrupted in
\* TASK context.
IsrExit ==
  /\ isr # "none"
  /\ IF IsrReschedules
     THEN Reschedule(isr)
     ELSE context' = isr /\ UNCHANGED <<state, running>>
  /\ isr' = "none"
  /\ error' = "E_OK"
  /\ UNCHANGED <<activations, actPriority, events, eventsWait, resources,
                 ready, pc, target, boot>>

-----------------------------------------------------------------------------
\* What the running task may do next.
Application(t) ==
  \/ \E u \in Activates[t] : ActivateTask(t, u)
  \/ TerminateTask(t)
  \/ \E u \in Chains[t] : ChainTask(t, u)
  \/ Schedule(t, "run")
  \/ \E u \in Signals[t], mask \in Masks : SetEvent(t, u, mask)
  \/ \E mask \in Masks : WaitEvent(t, mask)
  \/ \E mask \in Masks : ClearEvent(t, mask)
  \/ \E r \in Resources : GetResource(t, r)
  \/ \E r \in Resources : ReleaseResource(t, r)

\* The rest of a service the running task has called.
Kernel(t) ==
  \/ EnterSys(t)
  \/ SysSchedule(t)
  \/ LeaveSys(t)
  \/ Chain(t)
  \/ Schedule(t, "schedule")

Interrupt ==
  \/ IsrEnter
  \/ \E u \in IsrActivates : IsrActivateTask(u)
  \/ \E u \in IsrSignals, mask \in Masks : IsrSetEvent(u, mask)
  \/ IsrExit

Next ==
  \/ StartOS
  \/ Dispatch
  \/ \E t \in Tasks : Application(t) \/ Kernel(t)
  \/ Interrupt

Spec == Init /\ [][Next]_vars

\* Scheduling assumptions.  Interrupts leave thread level the time to run
\* (strong fairness of the steps they pre-empt), the kernel does not stop
\* inside a service, and task bodies give back what they took, all of it in
\* the end, and end or wait, as those of proyects/CDRon/src do.
Releases(t) ==
  \E r \in Resources : r \in resources[t] /\ ReleaseResource(t, r)
EndsOrWaits(t) ==
  /\ TerminateTask(t) \/ \E mask \in Masks : WaitEvent(t, mask)
  /\ running' = INVALID_TASK

Fairness ==
  /\ WF_vars(StartOS)
  /\ SF_vars(Dispatch)
  /\ WF_vars(IsrExit)
  /\ SF_vars(\E t \in Tasks : Kernel(t))
  /\ SF_vars(\E t \in Tasks : Releases(t))
  /\ SF_vars(\E t \in Tasks : Releases(t) /\ resources'[t] = {})
  /\ SF_vars(\E t \in Tasks : EndsOrWaits(t))

FairSpec == Spec /\ Fairness

-----------------------------------------------------------------------------
(* Properties.                                                             *)

\* Task t has an entry in the ready list of its priority, is its first entry,
\* has so many entries.
InReadyList(t) == \E i \in DOMAIN ready[StaticPriority[t]] :
                    ready[StaticPriority[t]][i] = t

IsHead(t) == /\ ready[StaticPriority[t]] # <<>>
             /\ Head(ready[StaticPriority[t]]) = t

Entries(t) ==
  Cardinality({i \in DOMAIN ready[StaticPriority[t]] :
                 ready[StaticPriority[t]][i] = t})

\* Types of the variables.
TypeOK ==
  /\ state \in [Tasks -> {"SUSPENDED", "READY", "RUNNING", "WAITING"}]
  /\ activations \in [Tasks -> Int]
  /\ actPriority \in [Tasks -> Priorities]
  /\ events \in [Tasks -> SUBSET Events]
  /\ eventsWait \in [Tasks -> SUBSET Events]
  /\ resources \in [Tasks -> SUBSET Resources]
  /\ ready \in [Priorities -> Seq(Tasks)]
  /\ running \in Tasks \cup {INVALID_TASK}
  /\ context \in {"SYS", "TASK", "ISR2"}
  /\ pc \in [Tasks -> {"run", "enterSys", "sysSchedule", "leaveSys",
                     "schedule", "chain"}]
  /\ target \in [Tasks -> Tasks \cup {INVALID_TASK}]
  /\ \A t \in Tasks : pc[t] = "chain" => target[t] \in Tasks
  /\ isr \in {"none", "SYS", "TASK"}
  /\ boot \in 0 .. Len(AutoStart)
  /\ error \in {"E_OK", "E_OS_LIMIT", "E_OS_ID", "E_OS_ACCESS", "E_OS_STATE",
                "E_OS_RESOURCE", "E_OS_NOFUNC"}

\* RemoveTask drops the first entry of a list without looking at it, and
\* GetNextTask chooses a resource holder without looking at its list.  Both
\* are right only because the running task and every task that holds a
\* resource are at the head of the list of their priority.
HeadOfList ==
  \A t \in Tasks : running = t \/ resources[t] # {} => IsHead(t)

\* No two tasks hold the same resource at the same time.
MutualExclusion ==
  \A t, u \in Tasks : t # u => resources[t] \cap resources[u] = {}

\* A task that holds a resource runs at the ceiling priority at least, until
\* it releases it.
CeilingHeld ==
  \A t \in Tasks : \A r \in resources[t] :
    actPriority[t] >= ResourcesPriority(r)

\* The priority ceiling protocol's bound: a task can be held up by at most one
\* task of lower priority that holds a resource.
SingleBlocking ==
  \A u \in Tasks : \A t1, t2 \in Tasks :
    (\A t \in {t1, t2} : /\ resources[t] # {}
                         /\ StaticPriority[t] < StaticPriority[u]
                         /\ actPriority[t] >= StaticPriority[u])
    => t1 = t2

\* No task waits for an event that has already been set.
NoLostWakeup ==
  \A t \in Tasks :
    state[t] = "WAITING" => eventsWait[t] \cap events[t] = {}

\* The kernel uses each ready list as a bounded queue: it takes from a list
\* that is not empty and adds to one that has room.
Queue(p) ==
  INSTANCE ReadyQueue WITH queue <- ready[p], Capacity <- ListLength(p)
ListsAreQueues ==
  /\ \A p \in Priorities : Queue(p)!Init
  /\ [][\A p \in Priorities : Queue(p)!Next \/ UNCHANGED ready[p]]_ready

\* Every activation of a task that has not ended is in the ready list once,
\* or is the instance that waits.
ActivationsMatch ==
  \A t \in Tasks :
    activations[t] = Entries(t) + (IF state[t] = "WAITING" THEN 1 ELSE 0)

\* ActivateTask and ChainTask refuse what exceeds ACTIVATION.
ActivationLimit == \A t \in Tasks : activations[t] <= MaxActivations[t]

\* The state of each task says where it is: RUNNING for the running task
\* alone, READY for the others in the ready lists.
StatesAgree ==
  \A t \in Tasks :
    /\ state[t] = "RUNNING" <=> running = t
    /\ state[t] = "READY" <=> running # t /\ InReadyList(t)

\* While a preemptable task executes its own code, no other ready task has a
\* higher priority than the one it runs at.
NoInversion ==
  \A t \in Preemtive :
    At(t, "run") =>
      \A u \in Tasks \ {t} :
        InReadyList(u) => StaticPriority[u] <= actPriority[t]

\* The two points from which the kernel goes back to the code of task t without
\* having called the scheduler: the end of an interrupt in the SYS context at
\* the end of ActivateTask, and the Schedule that SetEvent or ReleaseResource
\* calls for a task that holds a resource.
Unasked(t) ==
  /\ running = t
  /\ \/ isr = "SYS" /\ pc[t] = "leaveSys"
     \/ isr = "none" /\ pc[t] = "schedule" /\ resources[t] # {}

\* Nobody is passed over at these points.
NoScheduleMissed ==
  \A t \in Preemtive :
    Unasked(t) =>
      \A u \in Tasks \ {t} :
        InReadyList(u) => StaticPriority[u] <= actPriority[t]

\* Task t executes its own code, or returns to it, although a ready task has a
\* higher priority than the one it runs at.
PassesOver(t) ==
  /\ running = t /\ isr = "none" /\ pc[t] \in {"run", "leaveSys"}
  /\ \E u \in Tasks \ {t} : InReadyList(u) /\ StaticPriority[u] > actPriority[t]

\* Whatever interrupts, services and nested resources do, a preemptable task
\* comes to pass over another one nowhere else than at these two points.
PassesOverUnasked ==
  [][\A t \in Preemtive : ~PassesOver(t) /\ PassesOver(t)' => Unasked(t)]_vars

\* A task that is not preemptable leaves the processor only by a call of its
\* own.
NonPreemptableKeepsCpu ==
  [][\A t \in Tasks \ Preemtive :
       running = t /\ running' # t =>
         isr = "none" /\ pc[t] \in {"run", "chain"}]_vars

\* A ready task that no other task outranks or equals in priority runs.
Topmost(t) == \A u \in Tasks \ {t} : StaticPriority[u] < StaticPriority[t]
TopmostRuns ==
  \A t \in Tasks : Topmost(t) => (InReadyList(t) ~> running = t)
=============================================================================
