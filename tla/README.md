# A verification model of the CIAA firmware and its flight controller

The repository holds CDRon, a quadcopter flight controller, and the firmware it
runs on: the CIAA firmware for the EDU-CIAA-NXP board (LPC4337, Cortex-M4),
which is an OSEK kernel written in C ("FreeOSEK"), a POSIX-like device layer,
drivers, a Modbus stack and a PLC runtime. This directory models it in TLA+.
The code below `Firmware/externals` and the vendor's driver libraries are third-party
and are not modelled.

Paths in this file are relative to `src/Firmware`.

## Inventory

| component | state | operations | what is hard | what makes it correct |
|---|---|---|---|---|
| Kernel: tasks, resources, events (`modules/rtos/src`) | task table, `RunningTask`, `ActualContext` | `StartOS`, `ActivateTask`, `TerminateTask`, `ChainTask`, `Schedule`, `SetEvent`, `WaitEvent`, `ClearEvent`, `GetResource`, `ReleaseResource`, the interrupt wrapper | services have several critical sections, interrupts come between them; checks are made outside | the ready lists, states and activation counts agree; mutual exclusion and bounded blocking; no lost wake-up; no activation beyond `ACTIVATION`; the highest ready task runs |
| Ready lists (`Os_Internal.c`) | one circular array per priority | `AddReady`, `RemoveTask`, `GetNextTask` | no test for a free entry, removal does not look at what it removes | first in, first out; never more entries than the array has |
| Alarms and counters (`Os_Internal.c`, `SetRelAlarm.c`, ...) | counter times; state, time and cycle of alarms | `IncrementCounter`, `IncrementAlarm`, `SetRelAlarm`, `SetAbsAlarm`, `CancelAlarm`, `GetAlarm` | the tick interrupt runs against the calls; counters wrap; an alarm may expire several times in one increment | one expiry per period, none after a cancel |
| Cortex-M4 port (`rtos/inc/cortexM4`, `rtos/src/cortexM4`) | `Osek_OldTaskPtr_Arch`, `Osek_NewTaskPtr_Arch`, `TerminatingTask`, `WaitingTask`, the stacks | `CallTask`, `JmpTask`, `SaveContext`, `SetEntryPoint`, the PendSV handler | the exchange is asynchronous: the kernel decides, PendSV switches later | each task's context is what it had when it lost the processor |
| Configuration generator (`rtos/gen`) | none at run time | computes priorities, list lengths, ceilings | | |
| Circular buffer (`modules/libs`) | `head`, `tail`, the bytes | `circBufPut`, `circBufGet` and macros | producer and consumer share it without a lock | a byte is read once, in order |
| Serial devices (`modules/posix`) | two circular buffers and one slot for a blocked task, per device | `read`, `write`, `ioctl`, `txConfirmation`, `rxIndication` | interrupts against tasks; blocking by an event | no byte lost or doubled; a blocked task is woken |
| POSIX device layer (`modules/posix`) | descriptor table, device table | `open`, `close`, `read`, `write`, `addDevice` | tables under a resource | a descriptor belongs to one opener |
| I2C, block and digital devices | offsets, addresses | `read`, `write`, `lseek`, `ioctl` | | |
| Allocator and string functions (`modules/posix`) | heap top | `malloc` | | blocks do not overlap |
| Drivers (`modules/drivers`) | registers | | interrupt handlers | |
| Modbus (`modules/modbus`) | state of the gateway's clients, busy flags of its servers, the command of each master, the buffer of a transport | `gatewayMainTask`, the `masterCmd` functions, `masterTask`, `masterRecvMsg`, `masterSendMsg`, `asciiTask`, `asciiRecvMsg`, `asciiSendMsg` | user tasks against the gateway's task; timeouts against late answers; a server shared by clients; one buffer for both directions | an answer goes to the request it is for; a call ends, and what it returns is true |
| PLC runtime (`modules/plc`) | the current result `CR`, variables and I/O registers | the IL functions `PLC_IL_LD`, `PLC_IL_ST`, ... | one union holds values of all types and lengths; every instruction is a case per type | an instruction gives the value and the type that IL defines, whatever was in the register |
| Flight application (`proyects/CDRon`) | `IMU.DRDY`, `WIFI.busy`, `WIFI.clientID`, its alarms; motor and sensor data | 12 tasks, 3 alarms, the pin interrupt, `ErrorHook` | every error status ends in `ErrorHook` and `ShutdownOS`; basic tasks make blocking calls; tasks activate and chain one another | the calls that may fail are known; the sensor's interrupt stays armed |

How they interact: the application calls the kernel and the POSIX layer; the POSIX
layer calls a device's layer functions through a table of pointers, and these call the driver;
the driver's interrupt calls back `rxIndication` and `txConfirmation`, which wake
a blocked task with `SetEvent`; the tick interrupt increments the counter, whose
alarms call `ActivateTask` or `SetEvent`; the kernel decides who runs and PendSV
exchanges the contexts. `PROJECT.json` lists every component with its files, and
every place where the code is hard to test, with the properties that cover it.

## Modules

| module | models |
|---|---|
| `Osek` | the kernel: every service that changes tasks, events or resources, and category 2 interrupts |
| `ReadyQueue` | what the kernel needs of a ready list: a bounded first in, first out queue |
| `ReadyList` | the circular array of `Os_Internal.c`, which implements `ReadyQueue` |
| `CortexSwitch` | extends `Osek`: the exchange of the contexts by PendSV on the Cortex-M4 |
| `Alarms` | counters and alarms: the tick against the services that start and cancel |
| `CircBuf` | the circular buffer of `modules/libs`, as operators |
| `ByteFifo` | what one direction of a serial device promises: bytes in order, each once |
| `SerialDevice` | extends `CircBuf`: a serial device over the UART driver, both directions of which implement `ByteFifo` |
| `ModbusAscii` | the ASCII transport of Modbus, as operators on its buffer |
| `ModbusGateway` | extends `ModbusAscii`: user tasks, masters, the gateway's task, servers and the line |
| `CDRonApp` | extends `Osek`: the tasks, alarms and interrupts of the flight application, and its `ErrorHook` |
| `PLCTypes` | the data types of PLC variables |
| `ILReference` | what the IL instructions mean, on values |
| `PLCInstructions` | extends `ILReference`: the IL functions on the bytes of the register and of variables |
| `MCOsek`, `MCReadyList`, `MCCortexSwitch`, `MCAlarms`, `MCModbus`, `MCCDRon`, `MCPLC` | configurations for TLC |
| `OsekProofs` | theorems about `Osek`: types, heads of lists, wake-ups; then counts, states and resources |
| `ReadyListProofs`, `SwitchProofs`, `AlarmsProofs`, `SerialProofs`, `ModbusProofs`, `PLCProofs` | theorems about `ReadyList`, `CortexSwitch`, `Alarms`, `SerialDevice`, `ModbusGateway` and `PLCInstructions` |
| `CDRonProofs` | extends `OsekProofs`: theorems about `CDRonApp` |

### Osek

The build is the one `proyects/CDRon/etc/CDRon.oil` asks for: `STATUS = EXTENDED`,
an error hook, no `RES_SCHEDULER`, preemptable and non-preemptable tasks mixed.
The configuration (tasks, priorities, `ACTIVATION`, event and resource masks) is in
CONSTANTS; so is what the application may call. A configuration of the OIL file is an
instance of the constants.

Variables are the fields of `TasksVar` (`state`, `activations`, `actPriority`, `events`,
`eventsWait`, `resources`), the ready lists as sequences, `RunningTask`,
`ActualContext`, and four that have no counterpart in the data of the program: `pc` and
`target` (where each task is in a service with several critical sections, and the
argument it has checked), `isr` (the context the interrupt wrapper has saved in its local
variable) and `boot` (how far `StartOS` is). `error` is what the step gave to `ErrorHook`.

The grain is the critical section. What lies between `IntSecure_Start` and
`IntSecure_End` is one step, and an interrupt may come before and after each. So
`ActivateTask` by a preemptable task is four steps: the activation, the change to
`CONTEXT_SYS`, the scheduler, and the change back. `ChainTask` is two: its checks
are made before its critical section. `SetEvent` and `ReleaseResource` are two: the
section and the call of `Schedule`. A preempted task keeps its `pc` and goes on from
there when it is dispatched. `SetEvent` checks the state of its task outside of its
section too; the only outcome this adds, an `E_OK` for a task that has meanwhile
ended, is a disjunct of the action.

`Schedule` without a running task (after `TerminateTask`, `ChainTask`, `WaitEvent` and
`StartOS`) is the action `Dispatch`; while no task is ready it is disabled, which is the
idle loop. Deadlock is not checked for the kernel (`CHECK_DEADLOCK FALSE`) in those
configurations in which nothing may happen any more once all tasks have ended.

A handler of a category 2 interrupt, and the system tick, are `IsrEnter`, any number
of `IsrActivateTask` and `IsrSetEvent`, and `IsrExit`. A nested handler returns to the
context ISR2 and reschedules nothing, so its calls are calls of the outer one.

Left out: calls from a wrong context, `RES_SCHEDULER`, internal resources (empty
macros), hooks other than the error hook, and resources taken by interrupts (the code
would charge them to the interrupted task). What the error hook does is the application's
business and part of `CDRonApp`.

### ReadyQueue and ReadyList

`ReadyList` keeps the array, the start and the count as the code does, with the same
one-subtraction "modulo". `IsQueue` says that the entries, read in order, behave as
`ReadyQueue`. `Osek` uses sequences; `ListsAreQueues` says it uses them as
`ReadyQueue` allows: it never adds to a full list nor removes from an empty one,
which are the two conditions `AddReady` and `RemoveTask` do not test.


### CortexSwitch

In `Osek` the running task and the code that is executed are the same thing. On the
Cortex-M4 they are not: the kernel decides, and PendSV exchanges the contexts later.
`CortexSwitch` extends `Osek` with what the port keeps: the two context pointers
(`oldPtr`, `newPtr`), the pending bit, `TerminatingTask` and `WaitingTask`, the saved
contexts (`slot`) and the task whose code the core really executes (`loaded`).

- `Thread` is a step of `Osek` at thread level. If it changes the running task, it leaves
  in `call` what the code still has to do: the end of the critical section of `Schedule`
  lies between the decision and the switch.
- `Exchange` is that call, `CallTask` or `JmpTask`: it writes the pointers and makes
  PendSV pending. `SaveContext` and `SetEntryPoint`, which only record a task, are part of
  the decision.
- `PendSV` resets the stack of a task that has ended, saves what is loaded through the one
  pointer and loads the other.
- `Handler` is an interrupt of `Osek`. If its wrapper decides for another task, the `CallTask` that it still has to do is
  put into `wrapper`; `WrapperExchange` does it.

The code masks no interrupt between a decision and the end of its exchange, and the model has them at every point of it: between
`IntSecure_End` and `CallTask` or `JmpTask` at thread level; nested in a wrapper that has decided, whose saved context is
back already, so that the nested wrapper reschedules too, and its `CallTask` comes before the outer one's; and tail-chained when PendSV is
pending, as that has the lowest priority. In CDRon the UART has priority 0, the pin interrupt 1 and the tick 7 like PendSV, which
is taken first of the two, being the exception of smaller number. `IsrLevels` bounds how many wrappers can be
inside one another.

Two variables are history and not in the code. `started`, the tasks whose present activation has begun to run, says what a
context should be. `overtaken` becomes true when an interrupt decides for another task while an exchange is under way: it has then named as the old
task one that has never been loaded, and has overwritten the pointers if PendSV was pending. The code is wrong then
(`switch_overtaken`, see below); as long as it has not happened, it is right
(`switch_preemptive`, and the theorems). After it the model follows the exchange to its end; what the code that
runs as the wrong task does at thread level is not followed further. One window is left out: an interrupt between the test in the outer wrapper
and the scheduler's critical section behind it, in which a task that is not preemptable may have got the processor.

### Alarms

`IncrementCounter` calls `IncrementAlarm`, and that may call `IncrementCounter` for another
counter. `calls` holds these calls, the latest last, and one step is one turn of a loop:
an alarm that is disabled, that is not due yet, that expires once or expires and goes on.
Interrupts are disabled all this time, so that tasks do nothing while `calls` is not
empty. A service is two steps, its checks and what it writes: between them ticks come
and more urgent tasks call services. (`GetAlarm`, which only reads, is the property
`GetAlarmTrue`.)

`TickRange` is the range of `TickType`; sums wrap there. The assumption `CycleFits` keeps
`AlarmTime + AlarmCycleTime` below it. The code does not check this: CDRon's counter has
`MAXALLOWEDVALUE = 0xffffffff`, so that a cycle of the greatest value could break it, and none of
CDRon's comes near. Counters start again at `MaxAllowedValue`, which they never read.

`due`, `fresh`, `absolute`, `owed` and `fires` have no counterpart in the code: they keep what was
promised, independently of the code's arithmetic, so that the properties can compare. The
properties leave alarms in `absolute` out, because the code does not keep what `SetAbsAlarm` promises (see below).

### CircBuf, ByteFifo and SerialDevice

`CircBuf` has the macros of `ciaaLibs_CircBuf.h` and the two halves of `circBufPut` and
`circBufGet`: the copy of the bytes and the move of the index. The operators take the other
side's index as an argument, since each side reads it once.

`SerialDevice` is one device with its driver. The interrupt handler (the driver's
`UART0_IRQHandler` and its like, with `rxIndication` and `txConfirmation`) is one step, since tasks do not run meanwhile.
A call of a task is split wherever it touches what the handler shares with it: the test for an
empty buffer, the read of the other index, the copy, the move of the own index, the
interrupt enable bits, and the two fields of the slot in which a blocked task is
registered. There is one slot for both directions. A task gives way to more urgent tasks at any
of these points. In the nonblocking mode a `read` of an empty buffer changes nothing.

The hardware is modelled from how the driver uses it (external in the map): a byte arrives
in the FIFO, a character leaves the transmit register, and the request is a level. While the
driver fills the transmit register it may become free at any time (`DeviceWrite` is a
choice). The handler empties the FIFO
in one go, because the driver's own buffer (64 bytes) is larger than the FIFO (16) and what may stay
behind in it. `HandlerInTime` excludes that it becomes free between the last such write and the
handler's test of THRE.

`ByteFifo` is what each direction promises. `Received` maps the receive buffer, the driver's
own buffer and the FIFO of the UART together to its queue; `Transmitted` the transmit
buffer. `arrived`, `written` and `moved` name the bytes and what the last step did with
them. Bytes are numbers that tell apart what is inside at the same time: two received bytes
are enough to see a byte lost or doubled, because the maps compare whole sequences.

The partner is assumed not to send more than the receive buffer holds (`Arrive`): the
driver has no flow control, and an overrun is not modelled. The driver's error code -1 for
a read of no bytes is, and `CLEAR_RX_BUFFER` reaches it: between the two writes that reset
the buffer it can look full, `rxIndication` then adds -1 to the tail, and the write of the
tail repairs that. What stays behind in the driver's buffer is delivered with the next byte.

### ModbusAscii and ModbusGateway

`ModbusGateway` is the gateway's task with masters for clients and two kinds of server: a slave
of this program, and an ASCII transport with slaves at the other end of the line. A user task
calls a `masterCmd` function without a call back: it finds the master free (`Check`), fills in the
command (`Fill`), gives it (`Command`), sleeps (`WaitEvent`), and when it is woken reads the
exception code and returns (`Return`). These steps are apart because the gateway's task, which an
alarm activates (`Tick`), may have a higher or a lower priority and preempts at any of them, or is
preempted. The kernel is external: `ready` holds the tasks that can run, the one that does first.

A step of the gateway is one call of `gatewayClientProcess`, by the state of the client: task and
`recvMsg` of the master (`IdleWithout`, `IdleRequest`, `IdleCancel`), the search of a server
(`Routing`), the request to the server (`SendMsg`), task and `recvMsg` of the server with `sendMsg` of the
master (`WaitingRight`, `WaitingWrong`, `WaitingLonger`). `NextCall` is the two loops of
`gatewayMainTask` with their limit. Where a call of a master sets the event of a user, who may run before
the call goes on, it is split: `Cancelled` and `Answered` take the command back only then.

A message is its kind and the command it stems from. What a master compares of an answer is in
`Outcome`: the function, of an answer to a read the quantity only, of the answer to a write also the
address and the value. A frame is a sequence of pieces; `FromStart` searches for the last
colon, `CheckCompleteMsg` for the end and takes the length as the `int8_t` it is passed as, and
`CheckLRC` refuses a mixture of frames. `AsciiSendMsg` writes over the pieces that are in the buffer.
Slaves on the line (`Remote`, external) answer, refuse, or say nothing; the end of an answer may be lost. With
`punctual` TRUE nothing is under way any more when time is up. `call` and `punctual` have no counterpart
in the code: they keep what a call asked for, how often it was sent and what came, for the properties.

Left out: opening, transports in the slave role, call backs, the functions for several
coils or registers (which a master treats like the modelled ones) and the checks a slave makes
of a request. RTU and TCP are empty in the source. Each master has one user (`OneUserEach`).

### CDRonApp

`CDRonApp` puts the bodies of the application's tasks on the kernel of `Osek`, with the tasks
and priorities of `CDRon.oil`. `at` is the place in the body of each task. A step is the call of a kernel
service, with what the task does up to the next call. `Continue` is the error hook: whatever error the
kernel reports makes the task loop in `ShutdownOS` for ever (`spin`), and the hook runs only once, since
`ErrorHookRunning` stays 1. On this port `ShutdownOS` disables no interrupt, so that interrupts and more urgent tasks
go on: the model does not stop there. If it is a handler whose call fails, nothing goes on (`stuck`).

Files enter as far as control depends on them: a write to the USB line may have to wait for room
(`WaitsForRoom`), a read may find no data (`WaitsForData`). Which answer comes, and what the wireless module
says, is a choice. An alarm expires at any time, but what is done within its period is done: an alarm comes
while its task is still active only if something takes too long (`TooLong`): a loop that its
task cannot interrupt, the EEPROM (more than 300 ms), a conversion that does not end. The pin interrupt of the
sensor comes at any time.

Left out: `I2Cerror` (its alarm is never set), the arithmetic, and the body of `Brushless_tst`, which is
never reached: its priority is below that of `ConfigMode`, which never ends nor sleeps. Answers to
the wireless module are written with pauses and fit into the transmit buffer, so that they do not wait for room.

### PLCTypes, ILReference and PLCInstructions

A PLC program in IL is translated to C functions that call `PLC_IL_LD`, `PLC_IL_ADD` and so on. They work on
one register `CR`, which is a tag `TYPE` and a union `VALUE` of all types, and on variables by address.
`PLCInstructions` has one operator per function, of the register before to the register after. Data are
bytes, lowest first: an assignment to a member of the union changes its bytes and leaves those beyond it (`Written`),
structures have their padding (`Offsets`), sums go around at the width of their type (`Encoded`), and `!` and `~` are
what they are in C (`Negated`, `Inverted`). `And`, `Or` and `Xor` are C's operators on a byte, as operations on the sets of its
bits (`BitsOf`, `ByteOf`), and powers of two are a recursive function (`Power`): both in a form that can be proved about. An action is a call with any variable of the program; `memory` is the
variables. Functions that compare their type with the register's and return are called with any type;
`PLC_IL_ST`, which has no type, and `PLC_IL_NOT`, which does not compare it, are called with the register's.
Division by zero leaves any value.

`ILReference` says what the instructions mean without bytes: a value is the sequence of its parts (a date has
three, a number one), dates are ordered by the first part that differs, bit strings are the sets of the places of their ones,
a BOOL is true or false. `InstructionsRight` compares every instruction, on every variable, in every
register that any sequence of instructions can leave, with that meaning.

`ByteBits` is the width of a byte, and all widths follow from it. `Pitfalls` names the instructions that
do not do what IL says (below); the passing run leaves these out, and everything else is called.

Left out: REAL, LREAL and strings (for which comparisons only set the type, as they do for `OTHER`), the modifiers `C` and `NC` (which the
functions treat as no modifier), the jumps, I/O registers, timers and hardware.

## Runs

| run | asks | bounds |
|---|---|---|
| `osek_mix` | types, heads of lists, wake-ups, fit, counts, limits, bounded queues, non-preemptable tasks | 4 tasks on 3 priorities: one with two activations, one extended, one not preemptable, one chained; a shared resource, an event; interrupts activate and signal |
| `osek_nested` | mutual exclusion, ceiling, single blocking; states; where a task is put under a ready one that outranks it; the topmost ready task runs | 4 preemptable tasks on 4 priorities, one with two activations, one extended; 3 resources of two ceilings, taken together; interrupts activate the upper three and signal; fair scheduling |
| `ready_list` | the circular array is a bounded queue | 3 tasks, 4 entries |
| `switch_preemptive` | the right code runs, contexts are kept, until a decision is overtaken | 4 tasks on 4 priorities that activate, signal, wait and chain; interrupts at every point, up to 2 wrappers inside one another |
| `alarms` | times, expiries, the end of a tick | 2 tasks, 3 alarms on 2 counters of 3 and 2 values, one of them incremented by an alarm; a tick range of 8 |
| `serial` | bytes in order, each once; sleepers can be woken | buffers of 4 with 3 usable places, writes of 3 bytes, reads of 2, a FIFO of 2, so that every kind of transfer goes around the end of the array at some time, and a write that finds less room than it needs sleeps |
| `modbus_line` | the server is held by one client, what a client gets answers what it has sent, sleepers will be woken, a 0 is true | 2 masters that share a line, users below and above the gateway, 2 attempts, a timeout of 1, reads whose answers have 3 pieces and may be cut to 0 or 1 |
| `modbus_ends` | a call ends; it gives up only after all its attempts | 1 master with a slave here and others on the line, answers that may come late, 2 attempts, a timeout of 0 |
| `cdron` | which services may fail, the sensor's interrupt is armed, a wireless test is not checked under way | the configuration of CDRon: 11 tasks, 5 priorities, 2 alarms |
| `plc` | every instruction gives what IL says; a BOOL is 0 or 1 | bytes of 2 bits, 12 variables of 9 types of 1 to 12 bytes, two of them stored into |
| `serial_asleep` | a violation, see below | those of `serial`, with fewer calls |
| `switch_overtaken` | a violation | those of `switch_preemptive` |

The kernel treats tasks alike: a property that fails does so with a caller, a callee and
one bystander per role (same priority, higher, lower, holding a resource), and each
configuration has every role its question needs. Four levels of priority let a third task be decided for
while the exchange of the second for the first is under way, at thread level and in a wrapper. Two counters and an alarm between them are the whole
recursion of the tick, and a maximum of 3 with cycles of 1 and 2 lets alarms expire at every
phase of the wrap. No bound is put on the length of an execution: activations, times and buffers are
finite. What the application may call is a constant: every interleaving of those
calls is explored.

Configurations are chosen so that a disagreement listed below stays out of a
passing run: `modbus_line` cuts no answer to the length of a request, leaves room in the device's buffer and lets the slaves be
in time; `osek_mix` activates no task that is also chained (as CDRon does), and `osek_nested` queues no
activation of a resource user. Without these restrictions the properties fail; the next section says why.
`PassesOverUnasked` and the properties of `switch_preemptive` need no restriction: they say in what case the kernel and
the port are right, and `switch_overtaken` shows that the port is not in the other.

Two masters on one line are what a timeout of one client can do to another; more
clients than the gateway has slots for do not exist. An answer of 3 pieces can be cut, completed by another or begin
behind the rest of one, which is all that `FromStart` and the LRC are there for; two attempts and a timeout of
one tick have a first, a last and a late one. Late answers are checked with one master only: with
two the states are too many, and what fails with them is listed below.

The instructions are cases that differ by type alone and share one definition here, so that one or
two variables of each form (one byte, two and four, signed, unsigned, bit strings, dates of three and of seven parts, a
structure) take all ways through them; with bytes of 2 bits, a sum goes around and a word has every combination of two
bytes. What is stored into are a BOOL and a SINT: more only adds states.

`CHECK_DEADLOCK FALSE` stands in the configurations in which the system may really stop: a
kernel whose tasks have all ended and whose interrupts do nothing more, and a serial
device whose reader sleeps while its partner waits for an answer; and the flight application, which
stops when a handler loops in `ErrorHook`.

Fairness. `osek_nested` uses `FairSpec`: the kernel does not stop inside a service, interrupts
end and leave time to the tasks, and tasks that have the processor again and again release
what they took, are at some time without a resource, and end or wait. The last is a property of applications, and every task body of
`proyects/CDRon/src` has it. That a body is without a resource at some time is needed: one that always takes a second
before it releases the first is never rescheduled, and the topmost task starves. Strong fairness is needed where an interrupt disables a step for the
time it is served. `alarms` uses weak fairness of the tick's handler: it runs with interrupts
disabled and does not stop half way. `modbus_ends` assumes that the alarm goes on, that slaves serve or drop what they get, and that a
task that has the processor again and again takes a step at last; it does not assume that any answer comes. The other runs need none. That a sleeping reader or
writer is woken in time is not checked as liveness; `Remembered` and `TransmitOn` say
that whoever would wake it knows about it and that its interrupt is enabled.

## What the code does and its documents do not say

With a run that expects the violation, and an entry in `findings`:

1. **A reader falls asleep on its data** (`serial_asleep`). `read` tests the buffer before it disables the
   interrupt and registers itself. A byte in between wakes nobody. The flight application
   asks for the number of bytes before most of its reads, which avoids it.

2. **A task's context is lost** (`switch_overtaken`). `Schedule` makes the next task the running one and ends its critical section
   (`Schedule.c:220`) before `CallTask` or `JmpTask`, and PendSV comes only after that. An interrupt before the end of this whose wrapper reschedules
   too takes the task that was decided for, but never loaded, for the old one: PendSV saves the code of another task as its
   context. `Schedule.c` says "its context is saved" and "the higher-priority task is executed" (`:226`).

Without a run of their own; each can be seen by changing the configuration named.

In the kernel:

- `SetAbsAlarm` is relative to zero: the time left is set to the counter plus the start (`SetAbsAlarm.c:135`), not to the
  ticks until the counter reads the start ("When Start ticks are reached", `rtos/inc/os.h:651`). `GetAlarmTrue` fails in `alarms` when
  it does not leave out the alarms in `absolute` and a task sets alarm 0 with `<<0, 2, 0>>`. The call that `alarms` makes, on a
  counter of 2 values, comes out right.
- A chained task is not READY: `ChainTask` puts it on the ready list in state SUSPENDED
  (`ChainTask.c:188`), and `ActivateTask` has no limit for a suspended task, so the task is activated beyond `ACTIVATION` ("Extended task
  can only be activated ones", `rtos/inc/os.h:420`). A test of the
  repository says "chained task becomes ready" (`rtos/tst/ctest/src/ctest_tm_09.c:144`). `ActivationLimit` fails in
  `osek_mix` when an interrupt activates task 2.
- An interrupt inside `ActivateTask`: between the scheduler call and the return of the context to TASK, an
  interrupt that readies a higher task is not followed by a reschedule (`ActivateTask.c:181`), although the wrapper
  says "this shall force a call to the scheduler", and the manual "activating a task with a higher priority will preempt any
  lower priority preemptive task" (`rtos/doc/FreeOSEK.doc:169`). `NoInversion` fails in `osek_nested`; `PassesOverUnasked` says that
  this point and the `Schedule` that is refused to a holder of a resource, below, are the only ones.
- A queued activation lowers a raised priority: `AddReady` (`Os_Internal.c:96`) writes the actual
  priority also of a task that runs and holds a resource; another user of the resource gets the processor then and takes it.
  `MutualExclusion` and `CeilingHeld` fail in `osek_nested` with
  two activations of a resource user that an interrupt activates. CDRon's tasks have one activation.
- Two chains of one task: the limit is checked at `ChainTask.c:130`, before the critical section;
  two tasks can both pass.
- `ReleaseResource` of an inner resource calls `Schedule` with its checks, which refuses
  because of the outer resource and gives `E_OS_RESOURCE` to the error hook
  (`ReleaseResource.c:193`), and the reschedule is lost. So is that of `SetEvent` called with a resource held. In CDRon the hook shuts the system down; its one nested
  use is in `InitTask`, which is `SCHEDULE = NON`.
- `SetRelAlarm` checks that the alarm is free outside of its critical section: two tasks can both
  start it, and the later one wins.
- With `HandlerInTime = FALSE`, `TransmitOn` fails in `serial`: a character that ends between the
  handler's last write and its test of THRE makes it disable the interrupt ("There is not
  more bytes to send", `ciaaDriverUart.c:375`) with bytes in the buffer.
- A reader and a writer that sleep on one device share the slot; the later one is woken.
- A writer can fall asleep with nothing left to wake it: `write` starts the transmission (`ciaaSerialDevices.c:367`) before it
  disables the interrupt to register itself (`:376`), without looking at the buffer again. If all that it has put is sent in between,
  the transmit confirmation comes no more, as that wakes only after it has sent something (`:412`). `Remembered` allows for this
  (its `Empty(tx)`) and fails in `serial` without it. At the rates of a UART a task must be held up for the time of the whole buffer.

In Modbus:

- `masterRecvMsg` leaves `*size` alone when there is no command (`ciaaModbus_master.c:873`), and the gateway
  says "If no valid message received size must be less than 5" (`ciaaModbus_gateway.c:106`): the
  answer a client has got is routed again as a request, and slaves get it. It costs time on the
  line and a bogus answer, whose code overwrites the exception code after success.
- A client takes the server again within the five calls in which it has got its answer. With a second
  client at the same server that one may wait for ever: `CommandsEnd` without its first disjunct fails with two masters.
- `asciiSendMsg` makes its request in the buffer in which an answer may have begun, and leaves
  `bufferSize`. If what had come is as long as a request, the request itself is received as an answer. `AnswerIsForRequest`
  fails in `modbus_line` with 2 in `Cuts`.
- A master may be given a response timeout longer than the 1000 ms after which the transport drops what it has of an
  answer (`ciaaModbus_ascii.c:89`; the default is 300, `ciaaModbus_master.c:72`). The pieces that come after that stay in the
  buffer when the client gives up; if they are as long as the next request, it is put together over them and received as an answer:
  `AnswerIsForRequest` fails with `RespTimeout` above `TIMOUT_RCV`.
- A late answer is taken for that to a later read of the same slave, function and quantity:
  `ZeroMeansAnswered` fails with `Punctuality = {FALSE}` and two kinds of read.
- The length is passed to `asciiCheckCompleteMsg` as an `int8_t`: a message that ends beyond 127 characters is never
  found, although the buffer holds 512.
- Two tasks that share a master may both pass the test of `cmd`; one of them then sleeps for ever.
- An exception answer does not end a command: all the attempts are made.

In the PLC runtime:

- `PLC_IL_GE` of dates and times compares `>=` in every part and takes the first one that satisfies
  (`PLC_IL_Instructions.c:999`), which is then the first part alone: 3 January is "Greater than or Equal" to 4 January of the same year. `PLC_IL_LE` does the
  same. `InstructionsRight` fails in `plc` with `"orEqual"` in `Pitfalls`.
- `PLC_IL_ST` with `N` inverts all bits of a BOOL (`:409`), so that TRUE is stored as 0xFE, which is true
  ("0 = false, !0 = true", `PLC_ElementaryDataTypes.h:75`). `RegisterOK` and `InstructionsRight` fail with `"notBool"`.
- The functions for literals do not set the type of the register (`:74`): after one, the register holds the value as one of the type
  it had before. Both properties fail with `"literal"`.
- `PLC_IL_NOT` alone does not compare its type with the register's.
- `PLC_IL_MUL` and `PLC_IL_DIV` also work on TIME, which their comments do not list.

In the flight application:

- `ShutdownOs_Arch` is empty for the Cortex-M4. After command 0 ("shutdown the system",
  `CDRon_cfg.c:111`) or an error, interrupts and tasks above the caller go on: a wireless test still moves the motors. Errors after
  the first are silent, because `ErrorHookRunning` is never reset.
- `Brushless_tst` has priority 0 and `ConfigMode`, which activates it, never ends: the test never runs, and a second
  command 2 ends in `ErrorHook` (`E_OS_LIMIT`). So does a second command 3 while `IMU_tst` waits for
  the USB line or for a reschedule that did not come.
- The pin interrupt between `IMU.DRDY = 1` and `TerminateTask` of `IMUUpdate` ends in `ErrorHook`.
- Saving to the EEPROM takes longer than the period of `wifiPeriodicCheck`, whose next expiry ends in `ErrorHook`.
- `InitTask`, `ConfigMode` and `Wifi_cfg` are basic tasks that may have to wait: `E_OS_ACCESS`.
- `WIFI_serverTCP` returns nothing when it succeeds; its caller tests what it returns.

## Proofs

TLC checks the instances above; TLAPS proves, for every value of the constants that the
named assumptions allow:

| module | theorem | statement |
|---|---|---|
| `OsekProofs` | `TypeCorrect` | `Spec => []TypeOK` |
| | `RunningIsHead` | `Spec => []HeadOfList` |
| | `WakeupsArriveOnce` | `Spec => []NoLostWakeup` |
| | `CooperativeTasks` | `Spec => NonPreemptableKeepsCpu` |
| | `CountsTrue` | `Spec => []ActivationsMatch`, if `ChainedApart` |
| | `LimitKept` | `Spec => []ActivationLimit`, if `ChainedApart` |
| | `QueuesBounded` | `Spec => ListsAreQueues`, if `ChainedApart` |
| | `StatesTrue` | `Spec => []StatesAgree`, if `NoChains` |
| | `CeilingsKept` | `Spec => []CeilingHeld`, if `ChainedApart` and `UsersOnce` |
| | `ResourcesExclude` | `Spec => []MutualExclusion`, if `ChainedApart` and `UsersOnce` |
| | `BlockedOnce` | `Spec => []SingleBlocking`, if `ChainedApart` and `UsersOnce` |
| | `NoneOvertaken` | `Spec /\ []NoScheduleMissed => []NoInversion`, if `ChainedApart` and `UsersOnce` |
| | `PassesOverOnlyUnasked` | `Spec => PassesOverUnasked`, if `ChainedApart` and `UsersOnce` |
| `SwitchProofs` | `RightCodeRuns` | `SwitchSpec => []RightCode` |
| | `ContextsSafe` | `SwitchSpec => []NothingLost` |
| `AlarmsProofs` | `AlarmTypes` | `Spec => []TypeOK` |
| | `AlarmTimesTrue` | `Spec => []GetAlarmTrue` |
| | `NoAlarmOverdue` | `Spec => []NothingOverdue` |
| | `ExpiriesAllAct` | `Spec => []ExpiriesCount` |
| | `NoEarlyExpiry` | `Spec => NeverEarly` |
| `ReadyListProofs` | `ArrayIsQueue` | `Spec => IsQueue` |
| `SerialProofs` | `SerialTypes` | `Spec => []SerialTypeOK` |
| | `TransmissionGoesOn` | `Spec => []TransmitOn`, if `HandlerInTime` |
| | `SleepersRemembered` | `Spec /\ []CallsApart => []Remembered`, if `HandlerInTime` |
| | `WokenForData` | `Spec /\ []CallsApart => []NeverEmptyHanded` |
| | `ReceivingIsQueue` | `Spec /\ []ReadsApart => RxIsFifo` |
| | `TransmittingIsQueue` | `Spec /\ []WritesApart => TxIsFifo` |
| `ModbusProofs` | `GatewayTypes` | `Spec => []GatewayTypeOK` |
| | `ServerHeldByOne` | `Spec => []BusyHeld` |
| | `SleepersKnown` | `Spec => []SleeperRemembered` |
| | `AllRetriesMade` | `Spec => []GivesUpLast` |
| | `ZeroIsTrue` | `Spec => []ZeroMeansAnswered`, if `LineSuits` |
| | `AnswersFit` | `Spec => AnswerIsForRequest`, if `LineSuits` |
| `PLCProofs` | `RegisterTypes` | `Spec => []RegisterOK`, if neither `"literal"` nor `"notBool"` is in `Pitfalls` |
| | `InstructionsGiveIL` | `Spec => []InstructionsRight`, if `"orEqual"` is not there either |
| `CDRonProofs` | `FlightKeepsKernel` | `AppSpec` keeps `TypeOK`, `HeadOfList`, `ActivationsMatch`, `ActivationLimit`, `MutualExclusion`, `CeilingHeld`, `SingleBlocking` and `NoLostWakeup` |
| | `SensorNeverDeaf` | `AppSpec => []Rearmed`, if also `SensorExtended` |
| | `CheckAfterTest` | `AppSpec => []TestEndsFirst`, if also `SensorExtended` and `TestsAlike` |
| | `OnlyKnownFailures` | `AppSpec => KnownFailures`, if also `SensorExtended`, `TestsAlike` and `OilConfigured` |

Those of `CDRonProofs` ask for `CallsDeclared`, `ChainedApart` and `UsersOnce`.

**Kernel.** `TypeOK` alone is not inductive. That `Dispatch` and `Reschedule` give the processor to a
task, and not to whatever `GetNextTask` reads from an empty configuration, needs that a task
with a resource is on a ready list, at the head; that is `HeadOfList`, whose own induction needs
that every list holds tasks of its priority only (`Placed`), that a task between
the two halves of `ChainTask` holds no resource, and that thread level never runs in interrupt
context. `IInv` is their conjunction. The lemmas before it say what
`GetNextTask` returns (from the greatest elements of bounded sets of numbers,
whose existence comes from the well-foundedness of the naturals) and what `AddReady` and `RemoveTask` keep. `NoLostWakeup` is
inductive relative to `IInv`; for the last theorem, `CooperativePoints` says
that a task that is not preemptable never stands before a scheduler call of the kernel's.

**What the hypotheses ask.** Each excludes one of the disagreements above, without which the statement is false; those of
`CDRonProofs` are about its configuration.

- `ChainedApart`: a chained task is activated by nobody else, and chained by one task at most apart from itself. CDRon chains
  `brushlUpdate` from `Wifi_tst` alone and activates the other tasks. Without it, the activation of a task that is ready
  but still SUSPENDED, or two chains that have both passed the test, exceed `ACTIVATION`.
- `UsersOnce`: tasks that use resources have `ACTIVATION = 1`, as all of CDRon's have. Without it `AddReady` lowers the
  priority of a task that holds one.
- `NoChains`: no task chains. A chained task is ready but not READY, so that `StatesAgree` cannot hold of it.
- `NoScheduleMissed`: nobody ready outranks a preemptable task at the two points where the kernel returns to it without
  having rescheduled: when an interrupt has come at the end of `ActivateTask`, in SYS context, and when the `Schedule` called by
  `SetEvent` or `ReleaseResource` is refused because the caller holds a resource. At each the inversion would remain when the
  task goes on. Only `NoneOvertaken` needs this; `PassesOverOnlyUnasked` is the claim without it, that there is no third point.
- `HandlerInTime`: no character ends between the handler's last write and its test of THRE. A character takes ten bits at
  the rate of the line, the test comes a few instructions later.
- `CallsApart`, `ReadsApart`, `WritesApart`: no two tasks are in a call of the device, a read, or a write, at the same
  time; any number may use it in turn. The slot has room for one sleeper, and the circular buffer is made for one
  reader and one writer. A device with one task, as in `serial`, always satisfies them. CDRon's tasks read the USB line
  in turn, but `IMU_tst` may wait for room on it while `ConfigMode` writes to it, and from then on nothing is claimed.
- `LineSuits`: no answer is cut to the length of a request; a whole answer fits into the receive buffer of the
  device and its length into an `int8_t`; the response timeout is no longer than that of the transport. The first, the third and the last
  exclude disagreements above, and the second answers that could never come in whole. The
  properties themselves speak of slaves that answer in time (`punctual`).
- The three names in `Pitfalls`: the program uses no literal of a type the register does not have, does not store a BOOL with `STN`, and does
  not compare dates with `GE` or `LE`. These are the first three disagreements listed above for the PLC runtime. Any other instruction may
  come at any place, and nothing is asked of the variables or of `ByteBits`, which is 8 in the code.
- `CallsDeclared`: the kernel's constants name the calls that the bodies and handlers of `CDRonApp` make; they may name more.
- `SensorExtended`, `TestsAlike`: what CDRon.oil says of three tasks. `IMUUpdate`, `wifiTask` and `Wifi_tst` are extended, so that no second
  activation of them is queued; `wifiTask` and `Wifi_tst` have one priority; `StartOS` does not start `Wifi_tst`. For `SensorNeverDeaf` and
  `CheckAfterTest` everything else about the configuration, all other priorities among them, may be different.
- `OilConfigured`: what `OnlyKnownFailures` needs of it besides. `StartOS` starts `InitTask` alone, which is not preemptable and has its two
  resources in its mask; `ConfigMode` is preemptable and below `Wifi_cfg`; `brushlUpdate` has the priority of `Wifi_tst`; no task of the
  application has a second activation; `IMU_tst` owns `POSIXE`; the bodies know which tasks are extended. Which tasks are, apart from the
  three above, is left open, as are the other priorities. Other tasks may exist, though nobody activates them.

`TheoremsApply` in `MCOsek` has TLC evaluate `ChainedApart` and `UsersOnce` on the configurations of the two `osek`
runs; the one in `MCCDRon` evaluates the hypotheses of `CDRonProofs` on CDRon.oil,
and the one in `MCModbus` evaluates `LineSuits` on both configurations of the gateway.

**Counts, states and resources.** The services of the kernel differ in their tests and errors more than in what they do, so
`Kinds` lists the sixteen or so things a step can do (`Activation`, `Wakeup`, `Termination`, `Waiting`, `Chaining`, `Taking`,
`Giving`, `Switch` and so on) and `StepKinds` shows once that every action is one of them; each invariant is then proved over these.
`Places` counts the occurrences of a task in its list, by lemmas on finite sets for `Append` and for removing the head.
`Roles` ties `pc`, `boot` and the running task together. `Books` is the invariant of the counts: `ActivationsMatch` and
`ActivationLimit` alone are not inductive, because `ChainTask` adds an activation it has tested for a step earlier. The reservation
is `ChainsReserved`: while a task stands between the halves of `ChainTask`, the chained one has an activation to spare, which
by `ChainedApart` nobody else can take. That the lists are never overfull (`QueuesBounded`) follows from the counts, as the length of the list of a
priority is the sum of the activations of its tasks, bounded by the sum of their limits.
`Ceilings` is the invariant of the resources. `CeilingHeld` needs that priorities are raised for a reason (`Levels`), that resources held are
declared, and `Preempts` and `Stacked`: whoever holds a resource and does not run has been preempted by a task
of higher static priority than his actual one, so that the holders are stacked. Mutual exclusion and single blocking
follow from these two: two holders of one resource would each have to outrank the other.
`PassesOverUnasked` and `NoInversion` look at `pc` and at contexts, and so go through the actions themselves. `Modes`: the running task
is in SYS context only between `EnterSys` and `LeaveSys`. `StepSettles`: a step after which a preemptable task is back at its own code leaves nobody above
it, if nobody was (`SettledFor`) or the scheduler has compared. The comparison is with `GetNextTask` alone, which may be a holder of low static priority; `Preempts` says that such a holder
has been outranked before, so that the task keeps the processor rightly (`RescheduleSettles`).

**Context switch.** `SwitchInv`, which holds until a decision is overtaken, says what is true in each of five phases: nothing under way
(`Executes`), a running task that has ended or waits with nobody chosen yet (`Abandoned`), a decision with the exchange still to be called at thread level
(`Decided`) or by a wrapper (`Promised`), and PendSV pending (`Requested`), in which the old pointer must be the task that is loaded.
A handler may come in every phase. If it decides for nobody, the phase stays, whatever it readies; if it decides where nothing is under way, `Promised`
is next; else `overtaken` is true. `OwnContexts` says what every task that is not
loaded has in its slot; `OneCall`, that only the code that is loaded can have a call to make. The kernel's part enters as
lemmas on when the running task changes at all, from `IInv`.

**Serial devices.** The arithmetic of the circular buffer comes first, with no reference to the device: an index that is moved twice may be
masked once (`MaskedTwice`), `Count + Space = Size - 1`, what `Put` in one or two copies adds to the contents, what `Get` takes
off, and that a producer that knows an old head, or a consumer an old tail, sees less room, or fewer bytes, and never
more. Then one invariant per theorem. `Typed` knows for each step of a call what its marks can be (`Suited`). In
`Slots`, whatever a task has written of its slot is there (`Registered`), with the interrupt off as long as it is half written. `Fed`:
a read past its test has a byte to come (`Supplied`). `Reads` and `Writes` are the two
refinements: between the copy and the move of the index, what a call has copied is the front of the buffer still
(`Front`), whatever the handler has added behind it; and, as the handler delivers what the driver holds,
everything that has arrived fits (`Roomy`). For `TxIsFifo` the handler and the writer both take bytes out; the handler
cannot come while the writer does.

**Alarms.** All that is promised holds between ticks, and a tick is any number of steps over any
number of counters, so the invariant `AInv` has to say what holds in the middle. `Nested`: the
calls of `IncrementCounter` go to ever greater counters, so that no counter is in two of
them. `TimesRight`: the time of an alarm is what is due plus the increment if a call has
still to come to it (`Awaits`), and what is due if not. `CatchingUp` and `Positive`: an alarm
whose loop is under way is a cyclic one, and the others are due later, or now and fresh.
`Accounts`: the expiries that have had no effect are those counted in the calls.
`CyclesFit` carries the assumption on cycles to the variables. `RestAwaits` and
`EnteringAwaits` say how the alarms that are still to come change when a loop goes on and when a
counter is entered; then there is one lemma per action.

**Ready list.** The step of the circular array is a step of the queue because `Around` is enough: a
position is less than twice the length of the array, so that one subtraction brings it
back. Start and count stay inside the array (`IndicesOK`); `AddReady` writes a place that holds no
entry, so that the entries of the array grow by `Append`, and `RemoveTask` moves the start
by one, so that they shrink by `Tail`.

**Modbus.** The types alone are not inductive: the gateway uses the command of a master where one is
pending, and a user that is ready is not asleep. The invariant `GInv` has four parts, `TInv` being the
types. `SInv` is about servers: the client that waits for one has made it busy, there is one such client
for each, and a client whose answer is being handed over still waits. `WInv` is about the
handshake: a user waits for its event just when its master has its command and
has not yet woken it. Between the halves of the gateway's call the command is gone
and the event is still to come; `Woken` names that gap. The gateway's task stays ready as long as
a command is not taken. `RInv`: while the user waits, the retries left and the attempts made
add up to `RetryComm`. `WInv` needs the assumption `OneUserEach`, that no two
tasks share a master: two of them may both find it idle, take it in turn, and one of
them waits for ever, as described above with what the documents do not say.

What the messages say takes three more invariants, which `HInv` adds to `GInv`. `LInv` is about the line. All clients that
have a transport for a server have the same one (`LineIsOne`), so at most one of them awaits an answer, and `WireRight` says what is
under way then: its request, not served yet (`Asked`), or an answer to it (`Arriving`), of which some pieces are in the transport's buffer and
the others in that of the device. When nobody awaits an answer all is `Quiet`; still one piece may be left
in the buffer, over which the next request is made. Hence `Holds`: before the first piece of an answer comes, the buffer may
have a piece of the request, which `FromStart` drops (`Assembled`), and it is too short to be the request (`NotComplete`).
The timeouts come in where pieces of an answer have arrived: they are kept for longer than the client waits, since each call
takes one off both. At the end of the wait a punctual slave has sent all it will send, and what is left is `Quiet` again
(`AllTaken`). `TaskReads` and `LineTaken` say what one call of the transport's task makes of any of this.
`QInv`: a read that a client has in its buffer is the command that its master still has to do, unless it has no server. That is what a master
does not test, as it compares neither the address nor the kind of what it gets; answers that are
routed again as requests are no reads, so that they bring in none. `ZInv`: the user whose event is set, or who has been woken, with no
error has the answer to its own command; `RightAnswer` derives it from the other two.

**PLC instructions.** Nearly all is arithmetic. `Induction` is for a given set of numbers, from the well-foundedness of the naturals; with it a recursive
function is shown to be one (`PowerIs`, `SumsIs`), and what is summed byte by byte gets its meaning: the number in some bytes is in
their range and has their bits (`DecodedIs`), a number that is stored and read again is its remainder (`DecodedEncoded`), one
whose bytes are inverted is the complement (`DecodedInverted`), and a set of bits is that of one byte (`ByteOfIs`). `RegisterOK` is inductive as it
stands; its second part, that a BOOL is 0 or 1, is there because the logic by bytes would otherwise make two BOOLs that are true false. `InstructionsRight`
is not shown step by step: it follows from `RegisterOK` in every state (`AllRight`), with one lemma for each kind of instruction. `ComparisonsRight`
compares the conditions of the code with the order of the values; `FittedGives` says that what is stored of a result is the one number of the type's range with the
same remainder, and `QuotientIs` that C's division is the one of IL; `OnesAre` and `OnesCombined` take the bits of a value apart
into those of its bytes.

**Flight application.** `AppIsCaller` says that a step of `CDRonApp` is, for the kernel, a step of `Next`, or a call of no service
(`Return`, which no invariant of the kernel looks at), so that its invariants `IInv`, `Roles`, `Books` and `Ceilings` hold for the application. The bodies
are looked at once, in `BodyMoves`: which calls a task makes (`Calls`), and that it alone moves on. `Rearmed` is not inductive, because the pin
interrupt may come when `IMUUpdate` has set `DRDY` and not ended yet. In `Sensor`, a task at that place has its one activation, so that the
interrupt's is refused and the error stops the program; that a task other than `Wifi_tst` loses an activation only by its own `TerminateTask` is
`ActivationsStay`, which needs that only `Wifi_tst` is ever between the halves of `ChainTask` (`OneChain`). `TestEndsFirst` follows from an
order: as long as the check of the wireless line has not begun, every entry of the test in the list that they share is before it (`TestBefore`).
Nobody but the check puts a test into the list, and it has then left its beginning; an alarm puts the check behind. So when the check runs, at the head, there is no test in
the list, and as the test never waits the count of its activations is 0.

`KnownFailures` says that nothing else is ever refused, and each call that succeeds does so for its own reason, from earlier in the life of
several tasks; `Orderly` collects the reasons. A service is refused to a task that has an activation
(`RefusedHasOne`, from `Idle`), so they say when one has none.
`Booting`: `StartOS` finds everything idle. `Once`: how far the two tasks of the start have come, so that the next is activated once and for all, and
which resources `InitTask` has at each of its places, so that it takes and gives them back rightly and ends with none. `Plain`: nobody else has
any, hence `TerminateTask` and `WaitEvent` never fail for that, and no service reschedules on the way back. `HandsOver`: when `ConfigMode` runs outside the scheduler,
`Wifi_cfg`, being above it, has ended, so that it can be activated again; only the two other tests may still be there, which is what the
list of failures says. That needs what the scheduler leaves behind (`RescheduleSettles`, `DispatchSettles`) and that the first task, the only one
whose priority is ever raised, is not at issue. `Duties`: `brushlUpdate`, once chained, is before the next test in the list
that they share, so it has ended when that test chains it again. `Told`: `IMU_tst` is signalled on the line only while it waits, and never
registers twice. `Armed`: between the sensor's set-up and the end of `IMUUpdate`, the interrupt finds `DRDY` set only if the task is
idle or about to end. TLC checked each part on the configuration of `cdron` before it was proved.

Only model-checked: `AwakeForData` and `ContextsKept`, which the code violates, and, as it is out of the prover's reach, liveness (`TopmostRuns`, `TickEnds`,
`CommandsEnd`). Every other invariant and action property that a run checks is also a theorem, under the hypotheses above.

## Not modelled yet, and why

The POSIX device layer above the serial devices, the I2C and block devices
and the allocator are in the plan. Of the PLC runtime the rest (I/O registers, timers, hardware) copies bits between structures and
ports, and numbers with a fraction are out of TLC's reach. The flight application's arithmetic (filters, PID) is
numerical and has no states to explore; liveness of its tasks is not checked, because the states are too
many. The generator runs on the developer's machine; its
results are constants here. Drivers other than the UART's are register accesses. Calls from a wrong
context, hooks other than the error hook and the other architectures' ports are left out of the kernel.
Most of the repository's lines are vendor headers and libraries, third-party code and tests, which are not the
program's own logic.

## Plan

Done: the kernel, its ready lists, the Cortex-M4 switch, alarms, the serial devices, the Modbus gateway, the
flight application and the PLC instructions. Next, in this order:

1. `Devices`: the descriptor and device tables, `open` and `close` by several tasks; then the I2C
   offsets and the allocator as operators against reference definitions.
2. Transports in the slave role as clients of the gateway; call backs of masters.
3. Serial overrun: a partner that sends more than the buffer holds.
