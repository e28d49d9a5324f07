---------------------------- MODULE CortexSwitch ----------------------------
(***************************************************************************)
(* The kernel on the Cortex-M4.  In Osek the running task changes and its  *)
(* code runs at once; here the kernel only decides, and the contexts are   *)
(* exchanged later by the PendSV exception: Schedule makes the next task   *)
(* RunningTask and ends its critical section, then CallTask or JmpTask     *)
(* writes the two context pointers and makes PendSV pending, then PendSV   *)
(* saves what the core executes through the one and loads the other.       *)
(* Interrupts come at every point of this, after the decision of a wrapper *)
(* too: the context is TASK again by then, so that one that nests decides  *)
(* as well, and one that is tail-chained before PendSV also.               *)
(***************************************************************************)
EXTENDS Osek

CONSTANT
  IsrLevels     \* how many category 2 handlers can be nested

ASSUME SwitchAssumption == IsrLevels \in Nat \ {0}

VARIABLES
  loaded,           \* the task whose code the core executes; INVALID_TASK is
                    \* the start-up code
  slot,             \* *TasksConst[t].TaskContext: whose code a load of t
                    \* resumes, and whether at its entry point
  call,             \* per code: the CallTask or JmpTask it still has to do
  wrapper,          \* the CallTasks that interrupt wrappers still have to do,
                    \* the innermost first
  oldPtr,           \* Osek_OldTaskPtr_Arch, INVALID_TASK for 0
  newPtr,           \* Osek_NewTaskPtr_Arch
  pendSV,           \* PENDSVSET
  TerminatingTask,
  WaitingTask,
  \* History, no variables of the code:
  started,          \* the tasks whose present activation has been loaded
  overtaken         \* has an interrupt decided while an exchange was under way?

switchVars ==
  <<loaded, slot, call, wrapper, oldPtr, newPtr, pendSV, TerminatingTask,
    WaitingTask, started, overtaken>>

Code == Tasks \cup {INVALID_TASK}

\* Nothing left to do.  Otherwise the tasks from and to which to switch; the
\* first is INVALID_TASK for JmpTask.
NoCall == <<>>

Entry(t) == [of |-> t, fresh |-> TRUE]
Saved(c) == [of |-> c, fresh |-> FALSE]

SwitchInit ==
  /\ Init
  /\ loaded = INVALID_TASK
  /\ slot = [t \in Tasks |-> Entry(t)]
  /\ call = [c \in Code |-> NoCall]
  /\ wrapper = <<>>
  /\ oldPtr = INVALID_TASK
  /\ newPtr = INVALID_TASK
  /\ pendSV = FALSE
  /\ TerminatingTask = INVALID_TASK
  /\ WaitingTask = INVALID_TASK
  /\ started = {}
  /\ overtaken = FALSE

\* No exchange is under way.
Quiet == ~pendSV /\ call[loaded] = NoCall /\ wrapper = <<>>

-----------------------------------------------------------------------------
(* Thread level.                                                           *)

Ends == running # INVALID_TASK /\ running' = INVALID_TASK
        /\ state'[running] # "WAITING"
Waits == running # INVALID_TASK /\ running' = INVALID_TASK
         /\ state'[running] = "WAITING"

\* TerminateTask and ChainTask leave the task whose stack PendSV has to reset.
NoEntryPoint == TerminatingTask        \* mutant: it is not recorded
SetEntryPoint == IF Ends THEN running ELSE TerminatingTask

Decision ==
  IF running' \in {running, INVALID_TASK} THEN NoCall
  ELSE <<running, running'>>

\* The code of a task makes a step of the kernel or of the application.  What
\* the scheduler decides in it is carried out in a step of its own.
Thread ==
  /\ Quiet
  /\ running \in {loaded, INVALID_TASK}
  /\ StartOS \/ Dispatch \/ \E t \in Tasks : Application(t) \/ Kernel(t)
  /\ call' = [call EXCEPT ![loaded] = Decision]
  /\ TerminatingTask' = SetEntryPoint
  /\ WaitingTask' = IF Waits THEN running ELSE WaitingTask
  /\ started' = IF Ends THEN started \ {running} ELSE started
  /\ UNCHANGED <<loaded, slot, wrapper, oldPtr, newPtr, pendSV, overtaken>>

CallTaskSwapped(old, next) ==          \* mutant: the pointers exchanged
  /\ oldPtr' = next
  /\ newPtr' = old
  /\ pendSV' = TRUE
  /\ UNCHANGED WaitingTask
CallTask(old, next) ==
  /\ oldPtr' = old
  /\ newPtr' = next
  /\ pendSV' = TRUE
  /\ UNCHANGED WaitingTask

\* The code that jumps belongs to a task that has ended, and is not saved,
\* unless that task waits.
JmpTask(next) ==
  /\ oldPtr' = WaitingTask
  /\ newPtr' = next
  /\ pendSV' = TRUE
  /\ WaitingTask' = INVALID_TASK

Exchange ==
  /\ ~pendSV /\ isr = "none" /\ wrapper = <<>>
  /\ call[loaded] # NoCall
  /\ LET old == call[loaded][1]
         next == call[loaded][2]
     IN IF old = INVALID_TASK THEN JmpTask(next) ELSE CallTask(old, next)
  /\ call' = [call EXCEPT ![loaded] = NoCall]
  /\ UNCHANGED <<vars, loaded, slot, wrapper, TerminatingTask, started, overtaken>>

-----------------------------------------------------------------------------
(* Handler level.                                                          *)

\* An interrupt handler up to what its wrapper decides at the end.  It can
\* come while the thread is between a decision and its exchange, nested in a
\* wrapper that has decided, or tail-chained when PendSV is pending.  A
\* decision that is made then starts from a task that has not been loaded.
Handler ==
  /\ \/ Len(wrapper) < IsrLevels /\ IsrEnter
     \/ \E u \in IsrActivates : IsrActivateTask(u)
     \/ \E u \in IsrSignals, mask \in Masks : IsrSetEvent(u, mask)
     \/ IsrExit
  /\ IF running' = running
     THEN UNCHANGED <<wrapper, overtaken>>
     ELSE /\ wrapper' = <<Decision>> \o wrapper
          /\ overtaken' = (overtaken \/ ~Quiet)
  /\ UNCHANGED <<loaded, slot, call, oldPtr, newPtr, pendSV, TerminatingTask,
                 WaitingTask, started>>

\* The switch the wrapper asks for.  The one that nests is done first.
WrapperExchange ==
  /\ wrapper # <<>> /\ isr = "none"
  /\ CallTask(Head(wrapper)[1], Head(wrapper)[2])
  /\ wrapper' = Tail(wrapper)
  /\ UNCHANGED <<vars, loaded, slot, call, TerminatingTask, started, overtaken>>

\* PendSV first resets the stack of the task that has ended, then saves.
SlotAfter(t) ==
  CASE t = oldPtr -> Saved(loaded)
    [] t # oldPtr /\ t = TerminatingTask -> Entry(t)
    [] OTHER -> slot[t]

\* PendSV has the lowest priority: it comes when no interrupt is served, and
\* before any code of thread level.
PendSV ==
  /\ pendSV /\ isr = "none" /\ wrapper = <<>>
  /\ slot' = [t \in Tasks |-> SlotAfter(t)]
  /\ loaded' = slot'[newPtr].of
  /\ call' = IF TerminatingTask = INVALID_TASK THEN call
             ELSE [call EXCEPT ![TerminatingTask] = NoCall]
  /\ started' = started \cup {newPtr}
  /\ TerminatingTask' = INVALID_TASK
  /\ pendSV' = FALSE
  /\ UNCHANGED <<vars, wrapper, oldPtr, newPtr, WaitingTask, overtaken>>

\* Once a decision has been overtaken the core executes code for another task,
\* and what that does at thread level is not followed further.
SwitchNext ==
  \/ ~overtaken /\ (Thread \/ Exchange)
  \/ Handler
  \/ WrapperExchange
  \/ PendSV

SwitchSpec == SwitchInit /\ [][SwitchNext]_<<vars, switchVars>>

-----------------------------------------------------------------------------
(* Properties.                                                             *)

\* The core executes the code of the task that the kernel takes for the
\* running one.
Executed == running # INVALID_TASK => loaded = running

\* The context of every task that is not loaded is its own: where it lost the
\* processor, not half way through an exchange, if its activation has begun;
\* its entry point if not.
Kept ==
  \A t \in Tasks \ {loaded} :
    /\ slot[t] = IF t \in started THEN Saved(t) ELSE Entry(t)
    /\ call[t] = NoCall

\* What Schedule.c says of preemption ("its context is saved" and "the
\* higher-priority task is executed"): when an exchange is done the core
\* executes the running task, and every other task has its own context.
ContextsKept == Quiet => Executed /\ Kept

\* Interrupts may come at every point of an exchange.  As long as none of them
\* decides for another task before it is done, the core then executes the
\* running task.
RightCode == Quiet /\ ~overtaken => Executed

\* Nor is a context lost or mixed up as long as none does.
NothingLost == Quiet /\ ~overtaken => Kept
=============================================================================
