---------------------------- MODULE SwitchProofs ----------------------------
(***************************************************************************)
(* Proofs about the exchange of contexts on the Cortex-M4, for every       *)
(* configuration and application and interrupts at every point: until a    *)
(* wrapper decides while an exchange is under way, the core executes the   *)
(* task the kernel means and no context is lost.                           *)
(***************************************************************************)
EXTENDS CortexSwitch, OsekProofs

-----------------------------------------------------------------------------
(* What the steps of the kernel do to the running task.                    *)

\* An interrupt changes the running task from a task to a task.
LEMMA HandlerRunning ==
  ASSUME IInv, Handler
  PROVE  running' = running \/ (running \in Tasks /\ running' \in Tasks)
<1> USE ConfigAssumption
<1>1. CASE IsrEnter
  BY <1>1 DEF IsrEnter
<1>2. CASE \E u \in IsrActivates : IsrActivateTask(u)
  BY <1>2 DEF IsrActivateTask, Return
<1>3. CASE \E u \in IsrSignals, mask \in Masks : IsrSetEvent(u, mask)
  BY <1>3 DEF IsrSetEvent, Return
<1>4. CASE IsrExit
  <2>1. CASE IsrReschedules
    <3>1. running \in Tasks /\ Reschedule(isr)
      BY <1>4, <2>1 DEF IsrExit, IsrReschedules
    <3> QED BY <3>1, RescheduleKeeps
  <2>2. CASE ~IsrReschedules
    BY <1>4, <2>2 DEF IsrExit
  <2> QED BY <2>1, <2>2
<1> QED BY <1>1, <1>2, <1>3, <1>4 DEF Handler

\* Every step is one of the kernel or leaves the kernel alone.
LEMMA SwitchStepsKernel == [SwitchNext]_<<vars, switchVars>> => [Next]_vars
<1> SUFFICES ASSUME [SwitchNext]_<<vars, switchVars>> PROVE [Next]_vars
  OBVIOUS
<1>1. CASE Thread
  BY <1>1 DEF Thread, Next
<1>2. CASE Exchange \/ WrapperExchange
  BY <1>2 DEF Exchange, WrapperExchange
<1>3. CASE PendSV
  BY <1>3 DEF PendSV
<1>4. CASE Handler
  BY <1>4 DEF Handler, Next, Interrupt
<1>5. CASE UNCHANGED <<vars, switchVars>>
  BY <1>5
<1> QED BY <1>1, <1>2, <1>3, <1>4, <1>5 DEF SwitchNext

LEMMA SwitchKernel == SwitchSpec => []IInv
<1>1. SwitchInit => Init
  BY DEF SwitchInit
<1> QED BY <1>1, SwitchStepsKernel, InvariantIInv, PTL DEF SwitchSpec, Spec

-----------------------------------------------------------------------------
(* Where an exchange stands.                                               *)

\* The core executes the running task.
Executes ==
  /\ loaded \in Tasks /\ loaded = running /\ loaded \in started
  /\ TerminatingTask = INVALID_TASK /\ WaitingTask = INVALID_TASK

\* The code that is loaded has given the processor up: the start-up code, a
\* task that has ended, or one that waits.
Abandoned ==
  \/ /\ loaded = INVALID_TASK
     /\ TerminatingTask = INVALID_TASK /\ WaitingTask = INVALID_TASK
  \/ /\ loaded \in Tasks \ started
     /\ TerminatingTask = loaded /\ WaitingTask = INVALID_TASK
  \/ /\ loaded \in Tasks \cap started
     /\ TerminatingTask = INVALID_TASK /\ WaitingTask = loaded

\* The kernel has decided, and CallTask or JmpTask comes next.
Decided ==
  /\ running \in Tasks /\ wrapper = <<>>
  /\ \/ /\ loaded \in Tasks \cap started
        /\ TerminatingTask = INVALID_TASK /\ WaitingTask = INVALID_TASK
        /\ call[loaded] = <<loaded, running>>
     \/ Abandoned /\ call[loaded] = <<INVALID_TASK, running>>

\* A wrapper has decided, and its CallTask comes next.
Promised ==
  /\ running \in Tasks /\ wrapper = <<<<loaded, running>>>>
  /\ call[loaded] = NoCall
  /\ loaded \in Tasks \cap started
  /\ TerminatingTask = INVALID_TASK /\ WaitingTask = INVALID_TASK

\* PendSV comes next: what it saves is the context of the task that is loaded,
\* or the stack of that task is to be reset.
Requested ==
  /\ running \in Tasks /\ newPtr = running /\ wrapper = <<>>
  /\ call[loaded] = NoCall /\ WaitingTask = INVALID_TASK
  /\ \/ /\ loaded \in Tasks \cap started
        /\ oldPtr = loaded /\ TerminatingTask = INVALID_TASK
     \/ /\ loaded \in Tasks \ started
        /\ oldPtr = INVALID_TASK /\ TerminatingTask = loaded
     \/ /\ loaded = INVALID_TASK
        /\ oldPtr = INVALID_TASK /\ TerminatingTask = INVALID_TASK

\* A context outside of the core is its task's own.
OwnContexts ==
  \A t \in Tasks \ {loaded} :
    slot[t] = IF t \in started THEN Saved(t) ELSE Entry(t)

OneCall == \A c \in Code \ {loaded} : call[c] = NoCall

Phases ==
  \/ Quiet /\ running = INVALID_TASK /\ Abandoned
  \/ Quiet /\ Executes
  \/ ~pendSV /\ Decided
  \/ ~pendSV /\ Promised
  \/ pendSV /\ Requested

SwitchInv ==
  /\ loaded \in Code /\ DOMAIN call = Code /\ pendSV \in BOOLEAN
  /\ OneCall /\ OwnContexts /\ Phases

LEMMA InitSwitchInv == SwitchInit => SwitchInv
  BY DEF SwitchInit, Init, SwitchInv, Code, OneCall, OwnContexts, Phases, Quiet,
         Abandoned, NoCall

\* A step of the code that is loaded.
LEMMA ThreadSwitches ==
  ASSUME IInv, IInv', SwitchInv, Thread
  PROVE  SwitchInv'
<1> USE TasksAssumption
<1>1. /\ running \in Tasks \cup {INVALID_TASK}
      /\ running' \in Tasks \cup {INVALID_TASK}
  BY DEF IInv, TypeOK
<1>2. /\ call' = [call EXCEPT ![loaded] = Decision]
      /\ UNCHANGED <<loaded, slot, wrapper, oldPtr, newPtr, pendSV>>
      /\ TerminatingTask' = SetEntryPoint
      /\ WaitingTask' = IF Waits THEN running ELSE WaitingTask
      /\ started' = IF Ends THEN started \ {running} ELSE started
      /\ Quiet
  BY DEF Thread
<1>3. /\ loaded' \in Code /\ DOMAIN call' = Code /\ pendSV' \in BOOLEAN
      /\ call'[loaded] = Decision /\ OneCall'
  BY <1>2 DEF SwitchInv, OneCall, Code
<1>4. Executes \/ (running = INVALID_TASK /\ Abandoned)
  BY <1>2 DEF SwitchInv, Phases, Decided, Promised, Quiet, NoCall
<1>5. OwnContexts'
  BY <1>2, <1>4 DEF SwitchInv, OwnContexts, Executes, Ends
<1>6. CASE running' = running
  <2>1. Decision = NoCall /\ ~Ends /\ ~Waits
    BY <1>6 DEF Decision, Ends, Waits
  <2>2. Quiet' /\ (Executes' \/ (running' = INVALID_TASK /\ Abandoned'))
    BY <1>2, <1>3, <1>4, <1>6, <2>1
       DEF Quiet, SetEntryPoint, Executes, Abandoned
  <2> QED BY <1>3, <1>5, <2>2 DEF SwitchInv, Phases
<1>7. CASE running' # running /\ running' = INVALID_TASK
  <2>1. Decision = NoCall /\ Executes /\ (Ends <=> ~Waits)
    BY <1>1, <1>4, <1>7 DEF Decision, Ends, Waits
  <2>2. Quiet' /\ Abandoned'
    BY <1>2, <1>3, <2>1 DEF Quiet, SetEntryPoint, Executes, Abandoned
  <2> QED BY <1>3, <1>5, <1>7, <2>2 DEF SwitchInv, Phases
<1>8. CASE running' # running /\ running' \in Tasks
  <2>1. Decision = <<running, running'>> /\ ~Ends /\ ~Waits
    BY <1>8 DEF Decision, Ends, Waits
  <2>2. ~pendSV' /\ wrapper' = <<>>
    BY <1>2 DEF Quiet
  <2>3. Decided'
    BY <1>2, <1>3, <1>4, <1>8, <2>1, <2>2
       DEF SetEntryPoint, Executes, Abandoned, Decided
  <2> QED BY <1>3, <1>5, <2>2, <2>3 DEF SwitchInv, Phases
<1> QED BY <1>1, <1>6, <1>7, <1>8

\* CallTask or JmpTask.
LEMMA ExchangeSwitches ==
  ASSUME SwitchInv, Exchange
  PROVE  SwitchInv'
<1> USE TasksAssumption
<1>1. Decided /\ ~pendSV
  BY DEF Exchange, SwitchInv, Phases, Promised, Quiet
<1>2. /\ call' = [call EXCEPT ![loaded] = NoCall]
      /\ UNCHANGED <<vars, loaded, slot, wrapper, TerminatingTask, started>>
  BY DEF Exchange
<1>3. /\ loaded' \in Code /\ DOMAIN call' = Code
      /\ call'[loaded'] = NoCall /\ OneCall' /\ OwnContexts'
  BY <1>2 DEF SwitchInv, OneCall, Code, OwnContexts
<1>4. running' = running
  BY <1>2 DEF vars
<1>5. pendSV' = TRUE /\ Requested'
  <2>1. CASE loaded \in Tasks \cap started /\ TerminatingTask = INVALID_TASK
             /\ WaitingTask = INVALID_TASK /\ call[loaded] = <<loaded, running>>
    <3>1. CallTask(loaded, running)
      BY <2>1 DEF Exchange
    <3> QED BY <1>1, <1>2, <1>3, <1>4, <2>1, <3>1 DEF CallTask, Decided, Requested
  <2>2. CASE Abandoned /\ call[loaded] = <<INVALID_TASK, running>>
    <3>1. JmpTask(running)
      BY <2>2 DEF Exchange
    <3> QED BY <1>1, <1>2, <1>3, <1>4, <2>2, <3>1
            DEF JmpTask, Decided, Requested, Abandoned
  <2> QED BY <1>1, <2>1, <2>2 DEF Decided
<1> QED BY <1>3, <1>5 DEF SwitchInv, Phases

\* CallTask from a wrapper.
LEMMA WrapperSwitches ==
  ASSUME SwitchInv, WrapperExchange
  PROVE  SwitchInv'
<1>1. Promised /\ ~pendSV
  BY DEF WrapperExchange, SwitchInv, Phases, Decided, Requested, Quiet
<1>2. /\ UNCHANGED <<vars, loaded, slot, call, TerminatingTask, started>>
      /\ CallTask(loaded, running) /\ wrapper' = <<>>
  BY <1>1 DEF WrapperExchange, Promised
<1>3. running' = running
  BY <1>2 DEF vars
<1>4. pendSV' = TRUE /\ Requested'
  BY <1>1, <1>2, <1>3 DEF CallTask, Promised, Requested
<1>5. OneCall' /\ OwnContexts' /\ loaded' \in Code /\ DOMAIN call' = Code
  BY <1>2 DEF SwitchInv, OneCall, OwnContexts
<1> QED BY <1>4, <1>5 DEF SwitchInv, Phases

\* The exception that exchanges the contexts.
LEMMA PendSVSwitches ==
  ASSUME SwitchInv, PendSV
  PROVE  SwitchInv'
<1> USE TasksAssumption
<1>1. Requested
  BY DEF PendSV, SwitchInv, Phases, Decided, Promised, Quiet
<1>2. /\ slot' = [t \in Tasks |-> SlotAfter(t)]
      /\ loaded' = slot'[newPtr].of
      /\ started' = started \cup {newPtr}
      /\ TerminatingTask' = INVALID_TASK /\ pendSV' = FALSE
      /\ UNCHANGED <<vars, wrapper, oldPtr, newPtr, WaitingTask>>
  BY DEF PendSV
<1>3. \A t \in Tasks : slot'[t] = IF t \in started THEN Saved(t) ELSE Entry(t)
  <2> SUFFICES ASSUME NEW t \in Tasks
               PROVE  SlotAfter(t) = IF t \in started THEN Saved(t) ELSE Entry(t)
    BY <1>2
  <2> QED BY <1>1 DEF Requested, SlotAfter, SwitchInv, OwnContexts
<1>4. loaded' = newPtr /\ newPtr = running /\ running \in Tasks
  BY <1>1, <1>2, <1>3 DEF Requested, Saved, Entry
<1>5. \A c \in Code : call[c] = NoCall
  BY <1>1 DEF SwitchInv, OneCall, Requested
<1>6. DOMAIN call' = Code /\ \A c \in Code : call'[c] = NoCall
  BY <1>5 DEF PendSV, SwitchInv
<1>7. running' = running
  BY <1>2 DEF vars
<1>8. Quiet' /\ Executes'
  BY <1>1, <1>2, <1>4, <1>6, <1>7 DEF Quiet, Executes, Requested, Code
<1>9. OwnContexts'
  BY <1>2, <1>3, <1>4 DEF OwnContexts
<1> QED BY <1>2, <1>4, <1>6, <1>8, <1>9 DEF SwitchInv, OneCall, Phases, Code

\* A step of an interrupt handler, at any point: if it decides, then while the
\* core executes the running task.
LEMMA HandlerSwitches ==
  ASSUME IInv, SwitchInv, Handler, ~overtaken'
  PROVE  SwitchInv'
<1> USE TasksAssumption
<1>1. UNCHANGED <<loaded, slot, call, oldPtr, newPtr, pendSV, TerminatingTask,
                  WaitingTask, started>>
  BY DEF Handler
<1>2. loaded' \in Code /\ DOMAIN call' = Code /\ OneCall' /\ OwnContexts'
  BY <1>1 DEF SwitchInv, OneCall, OwnContexts
<1>3. CASE running' = running
  <2>1. wrapper' = wrapper
    BY <1>3 DEF Handler
  <2> QED BY <1>1, <1>2, <1>3, <2>1
          DEF SwitchInv, Phases, Quiet, Executes, Abandoned, Decided, Promised, Requested
<1>4. CASE running' # running
  <2>1. running \in Tasks /\ running' \in Tasks
    BY <1>4, HandlerRunning
  <2>2. Quiet /\ wrapper' = <<Decision>> \o wrapper
    BY <1>4 DEF Handler
  <2>3. Executes
    BY <2>1, <2>2 DEF SwitchInv, Phases, Decided, Promised, Quiet, NoCall
  <2>4. wrapper' = <<<<loaded, running'>>>>
    BY <1>4, <2>1, <2>2, <2>3 DEF Decision, Quiet, Executes
  <2>5. ~pendSV' /\ Promised'
    BY <1>1, <2>1, <2>2, <2>3, <2>4 DEF Quiet, Executes, Promised
  <2> QED BY <1>1, <1>2, <2>5 DEF SwitchInv, Phases
<1> QED BY <1>3, <1>4

\* Until a decision is overtaken.
Undisturbed == ~overtaken => SwitchInv

LEMMA StepUndisturbed ==
  IInv /\ IInv' /\ Undisturbed /\ [SwitchNext]_<<vars, switchVars>> => Undisturbed'
<1> SUFFICES ASSUME IInv, IInv', Undisturbed, [SwitchNext]_<<vars, switchVars>>,
                    ~overtaken'
             PROVE  SwitchInv'
  BY DEF Undisturbed
<1>1. ~overtaken
  BY DEF SwitchNext, Thread, Exchange, Handler, WrapperExchange, PendSV, switchVars
<1>2. SwitchInv
  BY <1>1 DEF Undisturbed
<1>3. CASE UNCHANGED <<vars, switchVars>>
  BY <1>2, <1>3
     DEF vars, switchVars, SwitchInv, OneCall, OwnContexts, Phases, Quiet, Executes,
         Abandoned, Decided, Promised, Requested
<1> QED BY <1>2, <1>3, ThreadSwitches, ExchangeSwitches, WrapperSwitches,
           PendSVSwitches, HandlerSwitches
        DEF SwitchNext

LEMMA InvariantSwitch == SwitchSpec => []Undisturbed
<1>1. SwitchInit => Undisturbed
  BY InitSwitchInv DEF Undisturbed
<1> QED BY <1>1, StepUndisturbed, SwitchKernel, PTL DEF SwitchSpec

\* Whenever no exchange is under way the core executes the code of the task
\* that the kernel takes for the running one: after every sequence of
\* preemptions, ends, chains and waits, PendSV has loaded the right context,
\* wherever interrupts have come, up to the first that decides for another
\* task between a decision and the end of its exchange.
THEOREM RightCodeRuns == SwitchSpec => []RightCode
<1>1. Undisturbed => RightCode
  BY TasksAssumption
     DEF Undisturbed, SwitchInv, Phases, Decided, Promised, Quiet, Executes, Executed,
         RightCode, NoCall
<1> QED BY <1>1, InvariantSwitch, PTL

\* No context is lost or mixed up as long as no interrupt does that: a task
\* that is not loaded has the one with which it lost the processor, and its
\* entry point if its activation has not begun, also when the task that ends
\* or waits is dispatched again at once.
THEOREM ContextsSafe == SwitchSpec => []NothingLost
<1>1. Undisturbed => NothingLost
  BY DEF Undisturbed, SwitchInv, OneCall, OwnContexts, Code, Kept, NothingLost
<1> QED BY <1>1, InvariantSwitch, PTL
=============================================================================
