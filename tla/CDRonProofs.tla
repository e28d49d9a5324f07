----------------------------- MODULE CDRonProofs ----------------------------
(***************************************************************************)
(* Proofs about the flight application: what is proved of the kernel holds *)
(* while its tasks and handlers call it, the sensor is never deaf, a check *)
(* of the wireless line never comes before the end of a test, and no       *)
(* service fails but those of KnownFailure.                                *)
(***************************************************************************)
EXTENDS CDRonApp, OsekProofs

-----------------------------------------------------------------------------
(* The application as a caller of the kernel.                              *)

\* The tasks that wait for room on the USB line are told when there is some, and
\* the alarms activate two tasks.
Devices ==
  /\ blocked \in {INVALID_TASK, ConfigMode, Wifi_cfg, IMU_tst}
  /\ alarms \subseteq {wifiTask, batteryUpdate}

\* A step of the application is one that the kernel allows its callers, or calls
\* no service.
KernelStep == [Next]_vars \/ Return("E_OK")

\* The tasks that task t activates.
Activated(t) ==
  CASE t = InitTask -> {StartupConfig}
    [] t = StartupConfig -> {ConfigMode}
    [] t = ConfigMode -> {Wifi_cfg, Brushless_tst, IMU_tst}
    [] t = wifiTask -> {Wifi_tst}
    [] OTHER -> {}

\* The calls that task t makes.
Calls(t) ==
  /\ At(t, "run")
  /\ \/ Return("E_OK")
     \/ \E u \in Activated(t) : ActivateTask(t, u)
     \/ TerminateTask(t)
     \/ t = Wifi_tst /\ ChainTask(t, brushlUpdate)
     \/ t \in {InitTask, ConfigMode, Wifi_cfg, IMU_tst} /\ WaitEvent(t, {"POSIXE"})
     \/ t = IMU_tst /\ ClearEvent(t, {"POSIXE"})
     \/ /\ t = InitTask
        /\ \E r \in {POSIXR, BRUSHLESSR} : GetResource(t, r) \/ ReleaseResource(t, r)

\* It makes them where it has the processor.
LEMMA CallerRuns ==
  ASSUME NEW t, NEW u
  PROVE  /\ ActivateTask(t, u) \/ TerminateTask(t) \/ ChainTask(t, u) => At(t, "run")
         /\ WaitEvent(t, u) \/ ClearEvent(t, u) => At(t, "run")
         /\ GetResource(t, u) \/ ReleaseResource(t, u) => At(t, "run")
BY DEF ActivateTask, TerminateTask, ChainTask, WaitEvent, ClearEvent, GetResource,
       ReleaseResource

\* The places of the bodies.
BodyPlaces ==
  {"begin", "open", "opened", "release", "sensor", "wifi", "command", "activate", "loop",
   "address", "save", "woken", "test", "chain", "end", "spin"}

\* A step of its body: a call, after which the task goes on elsewhere.
Moves(t) ==
  /\ Calls(t)
  /\ \E place \in BodyPlaces : Continue(t, place)
  /\ t # IMUUpdate => UNCHANGED <<drdy, active>> \/ (drdy' = active' /\ active' \in BOOLEAN)

LEMMA BodyMoves ==
  /\ InitTaskStep => Moves(InitTask)
  /\ StartupConfigStep => Moves(StartupConfig)
  /\ ConfigModeStep => Moves(ConfigMode)
  /\ WifiCfgStep => Moves(Wifi_cfg)
  /\ IMUTstStep => Moves(IMU_tst)
  /\ WifiTstStep => Moves(Wifi_tst)
  /\ wifiTaskStep => Moves(wifiTask)
  /\ IMUUpdateStep => Moves(IMUUpdate)
  /\ Ends(batteryUpdate, "begin") => Moves(batteryUpdate)
  /\ Ends(brushlUpdate, "begin") => Moves(brushlUpdate)
<1> USE CallerRuns DEF Moves, Calls, Activated, BodyPlaces, Ends, Passes, Here, WaitsForRoom,
            WaitsForData, data, InitTask, StartupConfig, wifiTask, brushlUpdate, IMUUpdate,
            batteryUpdate, ConfigMode, Wifi_cfg, IMU_tst, Wifi_tst, Brushless_tst
<1>1. ASSUME InitTaskStep PROVE Moves(InitTask)
  BY <1>1 DEF InitTaskStep, SetBatteryAlarm
<1>2. ASSUME StartupConfigStep PROVE Moves(StartupConfig)
  BY <1>2 DEF StartupConfigStep
<1>3. ASSUME ConfigModeStep PROVE Moves(ConfigMode)
  BY <1>3 DEF ConfigModeStep, StartServer
<1>4. ASSUME WifiCfgStep PROVE Moves(Wifi_cfg)
  BY <1>4 DEF WifiCfgStep
<1>5. ASSUME IMUTstStep PROVE Moves(IMU_tst)
  BY <1>5 DEF IMUTstStep
<1>6. ASSUME WifiTstStep PROVE Moves(Wifi_tst)
  BY <1>6 DEF WifiTstStep, SetBusy
<1>7. ASSUME wifiTaskStep PROVE Moves(wifiTask)
  BY <1>7 DEF wifiTaskStep
<1>8. ASSUME IMUUpdateStep PROVE Moves(IMUUpdate)
  BY <1>8 DEF IMUUpdateStep
<1>9. ASSUME Ends(batteryUpdate, "begin") PROVE Moves(batteryUpdate)
  BY <1>9
<1>10. ASSUME Ends(brushlUpdate, "begin") PROVE Moves(brushlUpdate)
  BY <1>10
<1> QED BY <1>1, <1>2, <1>3, <1>4, <1>5, <1>6, <1>7, <1>8, <1>9, <1>10

\* The step is one of the running task.
LEMMA MoverRuns ==
  ASSUME Body
  PROVE  /\ \E t \in OilTasks : running = t /\ Moves(t)
         /\ running = InitTask => InitTaskStep
         /\ running = StartupConfig => StartupConfigStep
         /\ running = ConfigMode => ConfigModeStep
         /\ running = Wifi_cfg => WifiCfgStep
         /\ running = IMU_tst => IMUTstStep
         /\ running = Wifi_tst => WifiTstStep
         /\ running = IMUUpdate => IMUUpdateStep
         /\ running = wifiTask => wifiTaskStep
<1>1. \A t : Moves(t) => running = t
  BY DEF Moves, Calls, At
<1> QED BY <1>1, BodyMoves
        DEF Body, PeriodicStep, OilTasks, InitTask, StartupConfig, wifiTask, brushlUpdate,
            IMUUpdate, batteryUpdate, ConfigMode, Wifi_cfg, IMU_tst, Wifi_tst, Brushless_tst

LEMMA CallSteps ==
  ASSUME CallsDeclared, NEW t \in OilTasks, Calls(t)
  PROVE  KernelStep
<1>1. t \in Tasks
  BY DEF CallsDeclared
<1>2. CASE Return("E_OK")
  BY <1>2 DEF KernelStep
<1>3. CASE ~Return("E_OK")
  <2>1. Activated(t) \subseteq Activates[t]
    BY DEF Activated, CallsDeclared
  <2>2. Application(t)
    BY <1>3, <2>1 DEF Calls, CallsDeclared, Application
  <2> QED BY <1>1, <2>2 DEF KernelStep, Next
<1> QED BY <1>2, <1>3

LEMMA AppIsCaller ==
  ASSUME CallsDeclared, Devices, [AppNext]_allVars
  PROVE  KernelStep
<1>1. CASE StartOS \/ Dispatch \/ IsrEnter \/ IsrExit \/ \E t \in Tasks : Kernel(t)
  BY <1>1 DEF KernelStep, Next, Interrupt
<1>2. CASE Body
  BY <1>2, MoverRuns, CallSteps DEF Moves
<1>3. CASE DataReady
  BY <1>3 DEF DataReady, CallsDeclared, KernelStep, Next, Interrupt
<1>4. CASE Transmitted
  BY <1>4 DEF Transmitted, Devices, CallsDeclared, KernelStep, Next, Interrupt
<1>5. ASSUME NEW u \in alarms, Expires(u)
      PROVE  KernelStep
  BY <1>5 DEF Expires, Devices, CallsDeclared, KernelStep, Next, Interrupt
<1>6. CASE UNCHANGED allVars
  BY <1>6 DEF allVars, KernelStep
<1> QED BY <1>1, <1>2, <1>3, <1>4, <1>5, <1>6 DEF AppNext, Thread

LEMMA StepDevices == Devices /\ [AppNext]_allVars => Devices'
<1> SUFFICES ASSUME Devices, [AppNext]_allVars
             PROVE  Devices'
  OBVIOUS
<1> USE DEF Devices
<1>1. CASE Body
  BY <1>1 DEF Body, InitTaskStep, StartupConfigStep, ConfigModeStep, WifiCfgStep,
              IMUTstStep, WifiTstStep, PeriodicStep, wifiTaskStep, IMUUpdateStep,
              SetBatteryAlarm, StartServer, SetBusy, Ends, WaitsForRoom, WaitsForData, data
<1>2. CASE DataReady \/ Transmitted \/ \E u \in alarms : Expires(u)
  BY <1>2 DEF DataReady, Transmitted, Expires, data
<1>3. CASE UNCHANGED appVars
  BY <1>3 DEF appVars, data
<1>4. CASE UNCHANGED allVars
  BY <1>4 DEF allVars, appVars, data
<1> QED BY <1>1, <1>2, <1>3, <1>4 DEF AppNext, Thread

-----------------------------------------------------------------------------
(* The invariants of the kernel.                                           *)

KernelInv == InvariantRoles /\ Books /\ Ceilings /\ NoLostWakeup

\* They do not look at what has been reported.
LEMMA ReportKeeps ==
  ASSUME KernelInv, Return("E_OK")
  PROVE  KernelInv'
<1> USE DEF Return
<1>1. IInv'
  BY ReturnIInv DEF KernelInv, InvariantRoles
<1>2. Roles'
  BY DEF KernelInv, InvariantRoles, Roles
<1>3. Books'
  BY DEF KernelInv, Books, ActivationsMatch, Entries, ActivationLimit, ChainsReserved,
         SuspendedIdle, NoChainYet, Booted
<1>4. Ceilings'
  BY DEF KernelInv, Ceilings, Declared, CeilingHeld, Levels, Preempts, Stacked, Holds,
         Outranks, CountIn
<1>5. NoLostWakeup'
  BY DEF KernelInv, NoLostWakeup
<1> QED BY <1>1, <1>2, <1>3, <1>4, <1>5 DEF KernelInv, InvariantRoles

LEMMA InvariantKernel ==
  ASSUME CallsDeclared, ChainedApart, UsersOnce
  PROVE  AppSpec => [](KernelInv /\ Devices)
<1>1. AppInit => KernelInv /\ Devices
  <2>1. Init => IInv /\ Roles
    BY InitIInv, TasksAssumption DEF Init, Roles
  <2>2. Init => NoLostWakeup
    BY TasksAssumption DEF Init, NoLostWakeup
  <2> QED BY <2>1, <2>2, InitBooks, InitCeilings
          DEF AppInit, Devices, KernelInv, InvariantRoles
<1>2. KernelInv /\ KernelStep => KernelInv'
  BY StepIInv, StepRoles, StepBooks, StepCeilings, StepWakes, ReportKeeps
     DEF KernelStep, KernelInv, InvariantRoles
<1>3. Devices /\ [AppNext]_allVars => KernelStep
  BY AppIsCaller
<1> QED BY <1>1, <1>2, <1>3, StepDevices, PTL DEF AppSpec
\* The application meets what the kernel asks of its callers: in whatever order
\* its tasks, alarms and interrupts come, every activation is in the lists once
\* and none exceeds its limit, resources exclude each other at their ceilings and
\* hold up a task once, and no signal is lost.
THEOREM FlightKeepsKernel ==
  ASSUME CallsDeclared, ChainedApart, UsersOnce
  PROVE  AppSpec => [](/\ TypeOK /\ HeadOfList
                       /\ ActivationsMatch /\ ActivationLimit
                       /\ MutualExclusion /\ CeilingHeld /\ SingleBlocking
                       /\ NoLostWakeup)
<1>1. KernelInv => /\ TypeOK /\ HeadOfList
                   /\ ActivationsMatch /\ ActivationLimit
                   /\ MutualExclusion /\ CeilingHeld /\ SingleBlocking
                   /\ NoLostWakeup
  BY HoldersApart, HoldersBlockOnce
     DEF KernelInv, InvariantRoles, IInv, Books, Ceilings
<1> QED BY <1>1, InvariantKernel, PTL

-----------------------------------------------------------------------------
(* The sensor.                                                             *)

\* Only the test of the wireless line chains a task.
OneChain == \A t \in Tasks : pc[t] = "chain" => t = Wifi_tst /\ target[t] = brushlUpdate

LEMMA StepOneChain ==
  ASSUME CallsDeclared, KernelInv, Devices, OneChain, [AppNext]_allVars
  PROVE  OneChain'
<1>1. pc \in [Tasks -> {"run", "enterSys", "sysSchedule", "leaveSys", "schedule", "chain"}]
      /\ target \in [Tasks -> Tasks \cup {INVALID_TASK}]
  BY DEF KernelInv, InvariantRoles, IInv, TypeOK
<1>2. ASSUME NEW t \in Tasks, Kernel(t)
      PROVE  OneChain'
  BY <1>1, <1>2 DEF Kernel, EnterSys, SysSchedule, LeaveSys, Chain, Finish, Schedule,
                    OneChain, At
<1>3. ASSUME NEW t \in OilTasks, Calls(t)
      PROVE  OneChain'
  BY <1>1, <1>3 DEF Calls, CallsDeclared, ActivateTask, TerminateTask, Finish, ChainTask,
                    WaitEvent, ClearEvent, GetResource, ReleaseResource, Return, OneChain
<1>4. CASE UNCHANGED <<pc, target>>
  BY <1>4 DEF OneChain
<1>5. CASE StartOS \/ Dispatch \/ IsrEnter \/ IsrExit
  BY <1>4, <1>5 DEF StartOS, Dispatch, IsrEnter, IsrExit
<1>6. CASE DataReady \/ Transmitted \/ \E u \in alarms : Expires(u)
  BY <1>4, <1>6 DEF DataReady, Transmitted, Expires, IsrActivateTask, IsrSetEvent, Return
<1>7. CASE UNCHANGED allVars
  BY <1>4, <1>7 DEF allVars, vars
<1> QED BY <1>2, <1>3, <1>5, <1>6, <1>7, MoverRuns DEF AppNext, Thread, Moves

\* Counts are not negative, a task that runs has an activation, and an extended
\* one has no second.
Counts ==
  \A t \in Tasks :
    /\ activations[t] \in Nat
    /\ running = t => activations[t] >= 1
    /\ t \in Extended => activations[t] <= 1

LEMMA CountFacts == KernelInv => Counts
<1> SUFFICES ASSUME KernelInv, NEW t \in Tasks
             PROVE  /\ activations[t] \in Nat
                    /\ running = t => activations[t] >= 1
                    /\ t \in Extended => activations[t] <= 1
  BY DEF Counts
<1>1. CountIn(ready, t) \in Nat /\ (running = t => CountIn(ready, t) > 0)
  BY KernelFacts DEF KernelInv, InvariantRoles
<1>2. activations[t] = CountIn(ready, t) + (IF state[t] = "WAITING" THEN 1 ELSE 0)
  BY EntriesCount DEF KernelInv, Books, ActivationsMatch
<1>3. activations[t] <= MaxActivations[t] /\ (t \in Extended => MaxActivations[t] = 1)
  BY ConfigAssumption DEF KernelInv, Books, ActivationLimit
<1> QED BY <1>1, <1>2, <1>3

\* A task other than the test of the wireless line loses an activation only by a
\* step of its own.
LEMMA ActivationsStay ==
  ASSUME CallsDeclared, KernelInv, Devices, OneChain, [AppNext]_allVars,
         NEW u \in Tasks \ {Wifi_tst}, ~(Body /\ running = u)
  PROVE  activations'[u] >= activations[u]
<1>1. activations \in [Tasks -> Int] /\ activations[u] \in Nat
  BY CountFacts DEF KernelInv, InvariantRoles, IInv, TypeOK, Counts
<1>2. ASSUME NEW v, Activate(v)
      PROVE  activations'[u] >= activations[u]
  BY <1>1, <1>2 DEF Activate
<1>3. CASE UNCHANGED activations
  BY <1>1, <1>3
<1>4. ASSUME NEW t \in Tasks, Kernel(t)
      PROVE  activations'[u] >= activations[u]
  <2>1. CASE Chain(t)
    BY <1>1, <2>1 DEF Chain, At, OneChain
  <2>2. CASE ~Chain(t)
    BY <1>3, <1>4, <2>2 DEF Kernel, EnterSys, SysSchedule, LeaveSys, Schedule, taskVars
  <2> QED BY <2>1, <2>2
<1>5. CASE Body
  <2>1. PICK t \in OilTasks : running = t /\ Calls(t)
    BY <1>5, MoverRuns DEF Moves
  <2>2. t # u
    BY <1>5, <2>1
  <2>3. CASE \E v \in Tasks : ActivateTask(t, v) /\ ActivationAllowed(v)
    BY <1>2, <2>3 DEF ActivateTask
  <2>4. CASE TerminateTask(t)
    BY <1>1, <1>3, <2>2, <2>4 DEF TerminateTask, Return
  <2>5. CASE ~TerminateTask(t) /\ ~ \E v \in Tasks : ActivateTask(t, v) /\ ActivationAllowed(v)
    BY <1>3, <2>1, <2>5 DEF Calls, ActivateTask, ChainTask, WaitEvent, ClearEvent,
                            GetResource, ReleaseResource, Return, taskVars
  <2> QED BY <2>3, <2>4, <2>5
<1>6. CASE StartOS \/ Dispatch \/ IsrEnter \/ IsrExit
  BY <1>2, <1>3, <1>6 DEF StartOS, Dispatch, IsrEnter, IsrExit, taskVars
<1>7. ASSUME NEW v, IsrActivateTask(v)
      PROVE  activations'[u] >= activations[u]
  BY <1>2, <1>3, <1>7 DEF IsrActivateTask, Return
<1>8. CASE Transmitted
  BY <1>3, <1>8 DEF Transmitted, IsrSetEvent, Signal, Return
<1>9. CASE UNCHANGED allVars
  BY <1>3, <1>9 DEF allVars, vars
<1> QED BY <1>4, <1>5, <1>6, <1>7, <1>8, <1>9 DEF AppNext, Thread, DataReady, Expires

\* When IMUUpdate has set DRDY = 1 and not ended yet, an interrupt that clears it
\* activates nothing, and the error of that stops the program.
Sensor ==
  /\ at \in [Tasks -> BodyPlaces]
  /\ at[IMUUpdate] = "end" => activations[IMUUpdate] = 1
  /\ active /\ ~hook => drdy \/ (activations[IMUUpdate] = 1 /\ at[IMUUpdate] # "end")

\* Steps of the others.
LEMMA SensorElsewhere ==
  ASSUME CallsDeclared, SensorExtended, KernelInv, KernelInv', Devices, OneChain, Sensor,
         [AppNext]_allVars, ~(Body /\ running = IMUUpdate),
         at' \in [Tasks -> BodyPlaces], at'[IMUUpdate] = at[IMUUpdate], hook => hook',
         UNCHANGED <<drdy, active>> \/ (drdy' = active' /\ active' \in BOOLEAN)
  PROVE  Sensor'
<1>1. IMUUpdate \in Tasks \ {Wifi_tst} /\ IMUUpdate \in Extended
  BY DEF CallsDeclared, SensorExtended, OilTasks, IMUUpdate, Wifi_tst, InitTask, Brushless_tst
<1>2. activations[IMUUpdate] = 1 => activations'[IMUUpdate] = 1
  <2>1. activations'[IMUUpdate] >= activations[IMUUpdate]
    BY <1>1, ActivationsStay
  <2>2. KernelInv' => Counts'
    BY CountFacts, PTL
  <2> QED BY <1>1, <2>1, <2>2 DEF Counts
<1> QED BY <1>2 DEF Sensor

\* Its own steps.
LEMMA SensorOwn ==
  ASSUME CallsDeclared, SensorExtended, KernelInv, Sensor, IMUUpdateStep
  PROVE  Sensor'
<1>1. IMUUpdate \in Tasks /\ IMUUpdate \in OilTasks
  BY DEF CallsDeclared, OilTasks, IMUUpdate, InitTask, Brushless_tst
<1>2. CASE Passes(IMUUpdate, "begin", "end") /\ drdy' = TRUE /\ UNCHANGED active
  <2>1. running = IMUUpdate /\ error' = "E_OK" /\ UNCHANGED activations
    BY <1>2 DEF Passes, Here, At, Return
  <2>2. activations[IMUUpdate] = 1
    BY <1>1, <2>1, CountFacts DEF Counts, SensorExtended
  <2>3. at' = [at EXCEPT ![IMUUpdate] = "end"]
    BY <1>2, <2>1 DEF Passes, Continue
  <2> QED BY <1>1, <1>2, <2>1, <2>2, <2>3 DEF Sensor, BodyPlaces
<1>3. CASE Ends(IMUUpdate, "end")
  <2>1. /\ at' = [at EXCEPT ![IMUUpdate] = "begin"] \/ at' = [at EXCEPT ![IMUUpdate] = "spin"]
        /\ at[IMUUpdate] = "end"
        /\ hook => hook'
        /\ UNCHANGED <<drdy, active>>
    BY <1>3 DEF Ends, Continue, data
  <2> QED BY <1>1, <2>1 DEF Sensor, BodyPlaces
<1> QED BY <1>2, <1>3 DEF IMUUpdateStep

\* The interrupt of the sensor.
LEMMA SensorReady ==
  ASSUME CallsDeclared, SensorExtended, KernelInv, KernelInv', Sensor, DataReady
  PROVE  Sensor'
<1>1. IMUUpdate \in Tasks /\ IMUUpdate \in Extended
  BY DEF CallsDeclared, SensorExtended, OilTasks, IMUUpdate, InitTask, Brushless_tst
<1>2. at' = at /\ IsrActivateTask(IMUUpdate)
  BY DEF DataReady
<1>3. Counts /\ Counts'
  BY CountFacts, PTL
<1>4. CASE ActivationAllowed(IMUUpdate)
  <2>1. activations' = [activations EXCEPT ![IMUUpdate] = @ + 1]
    BY <1>2, <1>4 DEF IsrActivateTask, Activate
  <2>2. activations \in [Tasks -> Int]
    BY DEF KernelInv, InvariantRoles, IInv, TypeOK
  <2>3. activations[IMUUpdate] = 0 /\ activations'[IMUUpdate] = 1
    BY <1>1, <1>3, <2>1, <2>2 DEF Counts
  <2> QED BY <1>2, <2>3 DEF Sensor
<1>5. CASE ~ActivationAllowed(IMUUpdate)
  <2>1. error' = "E_OS_LIMIT" /\ UNCHANGED activations
    BY <1>1, <1>2, <1>5 DEF IsrActivateTask, Return, ActivateError
  <2>2. hook'
    BY <2>1 DEF DataReady, InHandler
  <2> QED BY <1>2, <2>1, <2>2 DEF Sensor
<1> QED BY <1>4, <1>5

LEMMA StepSensor ==
  ASSUME CallsDeclared, SensorExtended, KernelInv, KernelInv', Devices, OneChain, Sensor,
         [AppNext]_allVars
  PROVE  Sensor'
<1>1. CASE DataReady
  BY <1>1, SensorReady
<1>2. CASE Body /\ running = IMUUpdate
  BY <1>2, MoverRuns, SensorOwn
<1>3. CASE Body /\ running # IMUUpdate
  <2>1. PICK t \in OilTasks : running = t /\ Moves(t)
    BY <1>3, MoverRuns
  <2>2. PICK place \in BodyPlaces : Continue(t, place)
    BY <2>1 DEF Moves
  <2>3. t # IMUUpdate /\ "spin" \in BodyPlaces
    BY <1>3, <2>1 DEF BodyPlaces
  <2>4. hook => hook'
    BY <2>2 DEF Continue
  <2>5. PICK q \in BodyPlaces : at' = [at EXCEPT ![t] = q]
    BY <2>2, <2>3 DEF Continue
  <2>6. at' \in [Tasks -> BodyPlaces] /\ at'[IMUUpdate] = at[IMUUpdate]
    <3>1. at \in [Tasks -> BodyPlaces] /\ IMUUpdate \in Tasks
      BY DEF Sensor, CallsDeclared, OilTasks, IMUUpdate, InitTask, Brushless_tst
    <3> QED BY <2>3, <2>5, <3>1
  <2>7. UNCHANGED <<drdy, active>> \/ (drdy' = active' /\ active' \in BOOLEAN)
    BY <2>1, <2>3 DEF Moves
  <2> QED BY <1>3, <2>4, <2>6, <2>7, SensorElsewhere
<1>4. CASE ~DataReady /\ ~Body
  <2>1. UNCHANGED appVars \/ Transmitted \/ \E u \in alarms : Expires(u)
    BY <1>4 DEF AppNext, Thread, allVars
  <2>2. UNCHANGED <<at, drdy, active>>
    BY <2>1 DEF Transmitted, Expires, appVars, data
  <2>3. hook => hook'
    BY <2>1 DEF Transmitted, Expires, InHandler, appVars
  <2> QED BY <1>4, <2>2, <2>3, SensorElsewhere DEF Sensor
<1> QED BY <1>1, <1>2, <1>3, <1>4

LEMMA InvariantSensor ==
  ASSUME CallsDeclared, ChainedApart, UsersOnce, SensorExtended
  PROVE  AppSpec => []((KernelInv /\ Devices) /\ OneChain /\ Sensor)
<1>1. AppInit => OneChain /\ Sensor
  <2>1. IMUUpdate \in Tasks
    BY DEF CallsDeclared, OilTasks, IMUUpdate, InitTask, Brushless_tst
  <2> QED BY <2>1 DEF AppInit, Init, OneChain, Sensor, BodyPlaces
<1>2. (KernelInv /\ Devices) /\ KernelInv' /\ OneChain /\ Sensor /\ [AppNext]_allVars
        => OneChain' /\ Sensor'
  BY StepOneChain, StepSensor
<1> QED BY <1>1, <1>2, InvariantKernel, PTL DEF AppSpec

\* The sensor is never deaf: as long as no error has been reported, its next
\* interrupt will be taken or IMUUpdate has an activation that will see to that,
\* although the interrupt may come between its DRDY = 1 and its end.
THEOREM SensorNeverDeaf ==
  ASSUME CallsDeclared, ChainedApart, UsersOnce, SensorExtended
  PROVE  AppSpec => []Rearmed
<1>1. Sensor => Rearmed
  BY DEF Sensor, Rearmed
<1> QED BY <1>1, InvariantSensor, PTL

-----------------------------------------------------------------------------
(* The check of the wireless line and its test.                            *)

\* In list s every entry of task t is before those of task v.
InOrder(s, t, v) == \A i, j \in DOMAIN s : s[i] = t /\ s[j] = v => i < j

\* The list that the two tasks share.
CheckList == StaticPriority[wifiTask]

LEMMA AddOrder ==
  ASSUME NEW lists \in [Priorities -> Seq(Tasks)], NEW u \in Tasks, NEW a, NEW b, u # a,
         CheckList \in Priorities, InOrder(lists[CheckList], a, b)
  PROVE  InOrder(AddReady(lists, u)[CheckList], a, b)
<1> DEFINE s == lists[CheckList]
<1>1. s \in Seq(Tasks)
  OBVIOUS
<1>2. AddReady(lists, u)[CheckList] = s \/ AddReady(lists, u)[CheckList] = Append(s, u)
  BY DEF AddReady
<1>3. InOrder(Append(s, u), a, b)
  BY <1>1 DEF InOrder
<1> QED BY <1>2, <1>3

LEMMA RemoveOrder ==
  ASSUME NEW lists \in [Priorities -> Seq(Tasks)], NEW t \in Tasks, HeadIn(lists, t),
         CheckList \in Priorities, NEW a, NEW b, InOrder(lists[CheckList], a, b)
  PROVE  InOrder(RemoveTask(lists, t)[CheckList], a, b)
<1> DEFINE s == lists[CheckList]
           r == RemoveTask(lists, t)[CheckList]
<1>1. s \in Seq(Tasks)
  OBVIOUS
<1>2. r = s \/ (s # <<>> /\ r = Tail(s))
  BY DEF RemoveTask, HeadIn
<1>3. ASSUME s # <<>>
      PROVE  InOrder(Tail(s), a, b)
  <2>1. /\ DOMAIN Tail(s) = 1 .. Len(s) - 1
        /\ \A i \in 1 .. Len(s) - 1 : Tail(s)[i] = s[i + 1] /\ i + 1 \in DOMAIN s
    BY <1>1, <1>3
  <2> QED BY <1>1, <2>1 DEF InOrder
<1> QED BY <1>2, <1>3

\* A check that has not begun is in the list behind a test, if there is one, so
\* that it comes to run after it.  The check takes no resource, so that its end
\* succeeds, and the test never waits.
TestBefore ==
  /\ resources[wifiTask] = {}
  /\ state[Wifi_tst] # "WAITING"
  /\ at[wifiTask] = "begin" => InOrder(ready[CheckList], Wifi_tst, wifiTask)

LEMMA PairFacts ==
  ASSUME CallsDeclared, TestsAlike
  PROVE  /\ wifiTask \in Tasks /\ Wifi_tst \in Tasks /\ wifiTask # Wifi_tst
         /\ CheckList \in Priorities /\ CheckList = StaticPriority[Wifi_tst]
BY ConfigAssumption
   DEF CallsDeclared, TestsAlike, CheckList, OilTasks, wifiTask, Wifi_tst, InitTask, Brushless_tst

\* Steps of the check itself.
LEMMA CheckOwn ==
  ASSUME CallsDeclared, TestsAlike, KernelInv, KernelInv', Sensor, TestBefore, wifiTaskStep
  PROVE  TestBefore'
<1> USE PairFacts
<1>1. /\ state \in [Tasks -> {"SUSPENDED", "READY", "RUNNING", "WAITING"}]
      /\ activations \in [Tasks -> Int]
      /\ at \in [Tasks -> BodyPlaces]
  BY DEF KernelInv, InvariantRoles, IInv, TypeOK, Sensor
<1>2. CASE /\ at[wifiTask] = "begin" /\ ActivateTask(wifiTask, Wifi_tst)
           /\ Continue(wifiTask, "end")
  <2>1. at'[wifiTask] # "begin"
    BY <1>1, <1>2 DEF Continue
  <2>2. UNCHANGED resources
    BY <1>2 DEF ActivateTask, Activate, Return
  <2>3. state'[Wifi_tst] # "WAITING"
    BY <1>1, <1>2 DEF ActivateTask, Activate, Return, TestBefore
  <2> QED BY <2>1, <2>2, <2>3 DEF TestBefore
<1>3. ASSUME TerminateTask(wifiTask)
      PROVE  TestBefore'
  <2>1. /\ UNCHANGED resources
        /\ state' = [state EXCEPT ![wifiTask] = StateAfterEnd(wifiTask)]
        /\ activations' = [activations EXCEPT ![wifiTask] = @ - 1]
    BY <1>3 DEF TerminateTask, Finish, TestBefore
  <2>2. Counts /\ Counts'
    BY CountFacts, PTL
  <2>3. activations'[wifiTask] = 0
    BY <1>1, <2>1, <2>2 DEF Counts, TestsAlike
  <2>4. Places(ready'[CheckList], wifiTask) = {}
    <3>1. ready'[CheckList] \in Seq(Tasks)
      BY DEF KernelInv, InvariantRoles, IInv, TypeOK
    <3>2. Cardinality(Places(ready'[CheckList], wifiTask)) <= 0
      <4>1. activations'[wifiTask] =
              Entries(wifiTask)' + (IF state'[wifiTask] = "WAITING" THEN 1 ELSE 0)
        BY DEF KernelInv, Books, ActivationsMatch
      <4>2. Entries(wifiTask)' = Cardinality(Places(ready'[CheckList], wifiTask))
        BY DEF Entries, Places, CheckList
      <4> QED BY <2>3, <3>1, <4>1, <4>2, PlacesFinite
    <3>3. ~ \E i \in DOMAIN ready'[CheckList] : ready'[CheckList][i] = wifiTask
      <4>1. Cardinality(Places(ready'[CheckList], wifiTask)) \in Nat
        BY <3>1, PlacesFinite
      <4> QED BY <3>1, <3>2, <4>1, PlacesNonEmpty
    <3> QED BY <3>3 DEF Places
  <2>5. InOrder(ready'[CheckList], Wifi_tst, wifiTask)
    BY <2>4 DEF Places, InOrder
  <2> QED BY <1>1, <2>1, <2>5 DEF TestBefore
<1> QED BY <1>2, <1>3 DEF wifiTaskStep, Ends

\* What the steps of the others leave.
Undisturbed ==
  /\ resources'[wifiTask] = {}
  /\ state'[Wifi_tst] # "WAITING"
  /\ InOrder(ready[CheckList], Wifi_tst, wifiTask)
            => InOrder(ready'[CheckList], Wifi_tst, wifiTask)

LEMMA OtherCalls ==
  ASSUME CallsDeclared, TestsAlike, KernelInv, TestBefore,
         NEW t \in OilTasks, t # wifiTask, Calls(t)
  PROVE  Undisturbed
<1> USE PairFacts
<1>1. /\ state \in [Tasks -> {"SUSPENDED", "READY", "RUNNING", "WAITING"}]
      /\ ready \in [Priorities -> Seq(Tasks)]
      /\ resources \in [Tasks -> SUBSET Resources]
      /\ t \in Tasks /\ running = t /\ HeadIn(ready, t)
  BY HeadInReady DEF KernelInv, InvariantRoles, IInv, TypeOK, HeadOfList, Calls, At, CallsDeclared
<1>2. InOrder(ready[CheckList], Wifi_tst, wifiTask)
            => InOrder(RemoveTask(ready, t)[CheckList], Wifi_tst, wifiTask)
  BY <1>1, RemoveOrder
<1>3. CASE UNCHANGED <<state, resources, ready>>
  BY <1>3 DEF Undisturbed, TestBefore
<1>4. ASSUME NEW u \in Activated(t), ActivateTask(t, u), ActivationAllowed(u)
      PROVE  Undisturbed
  <2>1. u \in Tasks /\ u # Wifi_tst
    BY DEF Activated, CallsDeclared, OilTasks, InitTask, StartupConfig, ConfigMode, wifiTask,
           Wifi_cfg, Brushless_tst, IMU_tst, Wifi_tst
  <2>2. InOrder(ready[CheckList], Wifi_tst, wifiTask)
            => InOrder(AddReady(ready, u)[CheckList], Wifi_tst, wifiTask)
    BY <1>1, <2>1, AddOrder
  <2> QED BY <1>1, <1>4, <2>1, <2>2 DEF ActivateTask, Activate, Undisturbed, TestBefore
<1>5. CASE TerminateTask(t)
  BY <1>1, <1>2, <1>3, <1>5 DEF TerminateTask, Finish, StateAfterEnd, Return,
                                       Undisturbed, TestBefore
<1>6. ASSUME t # Wifi_tst, WaitEvent(t, {"POSIXE"})
      PROVE  Undisturbed
  BY <1>1, <1>2, <1>3, <1>6 DEF WaitEvent, Return, Undisturbed, TestBefore
<1>7. ASSUME NEW r, GetResource(t, r) \/ ReleaseResource(t, r)
      PROVE  Undisturbed
  BY <1>1, <1>3, <1>7 DEF GetResource, ReleaseResource, Return, Undisturbed, TestBefore
<1>8. CASE \/ Return("E_OK") \/ ChainTask(t, brushlUpdate) \/ ClearEvent(t, {"POSIXE"})
           \/ \E u : ActivateTask(t, u) /\ ~(u \in Tasks /\ ActivationAllowed(u))
  BY <1>3, <1>8 DEF Return, ChainTask, ClearEvent, ActivateTask, taskVars
<1>9. \A u \in Activated(t) : ActivateTask(t, u) => Undisturbed
  BY <1>4, <1>8
<1>10. t \in {InitTask, ConfigMode, Wifi_cfg, IMU_tst} => t # Wifi_tst
  BY DEF InitTask, ConfigMode, Wifi_cfg, IMU_tst, Wifi_tst
<1> QED BY <1>5, <1>6, <1>7, <1>8, <1>9, <1>10 DEF Calls

LEMMA OtherSteps ==
  ASSUME CallsDeclared, TestsAlike, KernelInv, Devices, OneChain, TestBefore,
         [AppNext]_allVars, ~Body
  PROVE  Undisturbed
<1> USE PairFacts
<1>1. /\ state \in [Tasks -> {"SUSPENDED", "READY", "RUNNING", "WAITING"}]
      /\ ready \in [Priorities -> Seq(Tasks)]
      /\ resources \in [Tasks -> SUBSET Resources]
  BY DEF KernelInv, InvariantRoles, IInv, TypeOK
<1>2. CASE UNCHANGED <<state, resources, ready>>
  BY <1>2 DEF Undisturbed, TestBefore
<1>3. ASSUME NEW u \in Tasks, u # Wifi_tst, Activate(u)
      PROVE  Undisturbed
  <2>1. InOrder(ready[CheckList], Wifi_tst, wifiTask)
            => InOrder(AddReady(ready, u)[CheckList], Wifi_tst, wifiTask)
    BY <1>1, <1>3, AddOrder
  <2> QED BY <1>1, <1>3, <2>1 DEF Activate, Undisturbed, TestBefore
<1>4. ASSUME NEW u \in Tasks, u # Wifi_tst, NEW mask, Signal(u, mask)
      PROVE  Undisturbed
  <2>1. InOrder(ready[CheckList], Wifi_tst, wifiTask)
            => InOrder(AddReady(ready, u)[CheckList], Wifi_tst, wifiTask)
    BY <1>1, <1>4, AddOrder
  <2> QED BY <1>1, <1>2, <1>4, <2>1 DEF Signal, Undisturbed, TestBefore
<1>5. ASSUME UNCHANGED <<resources, ready>>,
             (\E saved : Reschedule(saved)) \/ UNCHANGED state
      PROVE  Undisturbed
  BY <1>1, <1>2, <1>5 DEF Reschedule, Undisturbed, TestBefore
<1>6. CASE StartOS
  <2> DEFINE t == AutoStart[boot + 1]
  <2>1. t \in Tasks /\ t # Wifi_tst
    <3>1. boot + 1 \in 1 .. Len(AutoStart)
      BY <1>6 DEF StartOS, Booted, KernelInv, InvariantRoles, IInv, TypeOK
    <3> QED BY <3>1, ConfigAssumption DEF TestsAlike
  <2>2. Activate(t) \/ UNCHANGED <<state, resources, ready>>
    BY <1>6 DEF StartOS, taskVars
  <2> HIDE DEF t
  <2> QED BY <1>2, <1>3, <2>1, <2>2
<1>7. CASE Dispatch \/ IsrEnter
  <2>1. CASE IsrEnter
    BY <1>2, <2>1 DEF IsrEnter, taskVars
  <2>2. CASE Dispatch
    BY <1>1, <2>2 DEF Dispatch, Undisturbed, TestBefore
  <2> QED BY <1>7, <2>1, <2>2
<1>8. CASE IsrExit
  BY <1>5, <1>8 DEF IsrExit
<1>9. ASSUME NEW t \in Tasks, Kernel(t)
      PROVE  Undisturbed
  <2>1. CASE Chain(t)
    <3>1. t = Wifi_tst /\ target[t] = brushlUpdate /\ running = t
      BY <2>1 DEF Chain, At, OneChain
    <3>2. brushlUpdate \in Tasks /\ brushlUpdate # Wifi_tst
      BY DEF CallsDeclared, OilTasks, brushlUpdate, Wifi_tst, InitTask, Brushless_tst
    <3>3. HeadIn(ready, t)
      BY <3>1, HeadInReady DEF KernelInv, InvariantRoles, IInv, HeadOfList
    <3>4. InOrder(ready[CheckList], Wifi_tst, wifiTask)
            => InOrder(RemoveTask(ready, t)[CheckList], Wifi_tst, wifiTask)
      BY <1>1, <3>3, RemoveOrder
    <3>5. RemoveTask(ready, t) \in [Priorities -> Seq(Tasks)]
      BY <1>1, <3>3, RemoveTaskLists DEF KernelInv, InvariantRoles, IInv
    <3>6. InOrder(RemoveTask(ready, t)[CheckList], Wifi_tst, wifiTask)
            => InOrder(AddReady(RemoveTask(ready, t), brushlUpdate)[CheckList], Wifi_tst, wifiTask)
      BY <3>2, <3>5, AddOrder
    <3> QED BY <1>1, <2>1, <3>1, <3>4, <3>6
            DEF Chain, Finish, StateAfterEnd, Undisturbed, TestBefore
  <2>2. CASE EnterSys(t) \/ LeaveSys(t)
    BY <1>2, <2>2 DEF EnterSys, LeaveSys, taskVars
  <2>3. CASE SysSchedule(t) \/ Schedule(t, "schedule")
    BY <1>5, <2>3 DEF SysSchedule, Schedule
  <2> QED BY <1>9, <2>1, <2>2, <2>3 DEF Kernel
<1>10. ASSUME NEW u \in alarms, Expires(u)
       PROVE  Undisturbed
  <2>1. u \in Tasks /\ u # Wifi_tst
    BY DEF Devices, CallsDeclared, OilTasks, wifiTask, batteryUpdate, Wifi_tst, InitTask,
           Brushless_tst
  <2> QED BY <1>2, <1>3, <1>10, <2>1 DEF Expires, IsrActivateTask, Return
<1>11. CASE DataReady
  <2>1. IMUUpdate \in Tasks /\ IMUUpdate # Wifi_tst
    BY DEF CallsDeclared, OilTasks, IMUUpdate, Wifi_tst, InitTask, Brushless_tst
  <2> QED BY <1>2, <1>3, <1>11, <2>1 DEF DataReady, IsrActivateTask, Return
<1>12. CASE Transmitted
  <2>1. blocked \in Tasks /\ blocked # Wifi_tst
    BY <1>12 DEF Transmitted, Devices, CallsDeclared, OilTasks, ConfigMode, Wifi_cfg, IMU_tst,
           Wifi_tst, InitTask, Brushless_tst
  <2> QED BY <1>2, <1>4, <1>12, <2>1 DEF Transmitted, IsrSetEvent, Return
<1>13. CASE UNCHANGED allVars
  BY <1>2, <1>13 DEF allVars, vars
<1> QED BY <1>6, <1>7, <1>8, <1>9, <1>10, <1>11, <1>12, <1>13 DEF AppNext, Thread

LEMMA StepTestBefore ==
  ASSUME CallsDeclared, TestsAlike, KernelInv, KernelInv', Devices, OneChain, Sensor,
         TestBefore, [AppNext]_allVars
  PROVE  TestBefore'
<1>1. CASE Body /\ running = wifiTask
  BY <1>1, MoverRuns, CheckOwn
<1>2. CASE Body /\ running # wifiTask
  <2>1. PICK t \in OilTasks : running = t /\ Moves(t)
    BY <1>2, MoverRuns
  <2>2. t # wifiTask /\ Undisturbed
    BY <1>2, <2>1, OtherCalls DEF Moves
  <2>3. PICK q : at' = [at EXCEPT ![t] = q]
    BY <2>1 DEF Moves, Continue
  <2>4. at'[wifiTask] = at[wifiTask]
    <3>1. at \in [Tasks -> BodyPlaces]
      BY DEF Sensor
    <3> QED BY <2>2, <2>3, <3>1, PairFacts
  <2> QED BY <2>2, <2>4 DEF Undisturbed, TestBefore
<1>3. CASE ~Body
  <2>1. UNCHANGED at
    BY <1>3 DEF AppNext, Thread, DataReady, Transmitted, Expires, appVars, allVars
  <2>2. Undisturbed
    BY <1>3, OtherSteps
  <2> QED BY <2>1, <2>2 DEF Undisturbed, TestBefore
<1> QED BY <1>1, <1>2, <1>3

\* What holds of the kernel, the sensor and the tests of the wireless line.
Flight == (KernelInv /\ Devices) /\ OneChain /\ Sensor /\ TestBefore

LEMMA InvariantFlight ==
  ASSUME CallsDeclared, ChainedApart, UsersOnce, SensorExtended, TestsAlike
  PROVE  AppSpec => []Flight
<1>1. AppInit => TestBefore
  BY PairFacts DEF AppInit, Init, TestBefore, InOrder
<1>2. /\ (KernelInv /\ Devices) /\ OneChain /\ Sensor /\ KernelInv'
      /\ TestBefore /\ [AppNext]_allVars
      => TestBefore'
  BY StepTestBefore
<1> QED BY <1>1, <1>2, InvariantSensor, PTL DEF AppSpec, Flight

LEMMA TestEnded ==
  ASSUME CallsDeclared, TestsAlike, Flight
  PROVE  TestEndsFirst
<1> USE PairFacts DEF Flight
<1> SUFFICES ASSUME Here(wifiTask, "begin")
             PROVE  activations[Wifi_tst] = 0
  BY DEF TestEndsFirst
<1>1. /\ IsHead(wifiTask) /\ InOrder(ready[CheckList], Wifi_tst, wifiTask)
      /\ ready[CheckList] \in Seq(Tasks)
  BY DEF Here, At, KernelInv, InvariantRoles, IInv, TypeOK, HeadOfList, TestBefore
<1>2. ready[CheckList] # <<>> /\ ready[CheckList][1] = wifiTask
  BY <1>1 DEF IsHead, CheckList
<1>3. Places(ready[CheckList], Wifi_tst) = {}
  BY <1>1, <1>2 DEF Places, InOrder
<1>4. Entries(Wifi_tst) = 0
  BY <1>3, FS_EmptySet DEF Entries, Places
<1> QED BY <1>4 DEF KernelInv, Books, ActivationsMatch, TestBefore

\* A check of the wireless line never comes while a test is under way: when it
\* looks at WIFI.busy the last test has ended, whatever interrupts, alarms and
\* preemptions came before, because the two tasks share one list.
THEOREM CheckAfterTest ==
  ASSUME CallsDeclared, ChainedApart, UsersOnce, SensorExtended, TestsAlike
  PROVE  AppSpec => []TestEndsFirst
BY TestEnded, InvariantFlight, PTL

-----------------------------------------------------------------------------
(* What fails: who has which activations.                                  *)

\* Types, and what the kernel's invariants say that is used below.
LEMMA FlightFacts ==
  ASSUME Flight
  PROVE  /\ IInv /\ Ceilings /\ Placed(ready)
         /\ state \in [Tasks -> {"SUSPENDED", "READY", "RUNNING", "WAITING"}]
         /\ activations \in [Tasks -> Int]
         /\ events \in [Tasks -> SUBSET Events]
         /\ resources \in [Tasks -> SUBSET Resources]
         /\ ready \in [Priorities -> Seq(Tasks)]
         /\ pc \in [Tasks -> {"run", "enterSys", "sysSchedule", "leaveSys", "schedule", "chain"}]
         /\ boot \in 0 .. Len(AutoStart)
         /\ at \in [Tasks -> BodyPlaces]
         /\ \A t \in Tasks : running = t => IsHead(t)
BY DEF Flight, KernelInv, InvariantRoles, IInv, TypeOK, HeadOfList, Sensor

\* A task without an activation is suspended.
Idle == \A t \in Tasks : activations[t] = 0 => state[t] = "SUSPENDED"

\* Every step is of one of the kernel's kinds, whoever makes it.
LEMMA AppKinds ==
  ASSUME CallsDeclared, Flight, [AppNext]_allVars
  PROVE  Kinds /\ (Booted => Booted')
<1>1. KernelStep /\ IInv
  BY AppIsCaller, FlightFacts DEF Flight
<1>2. CASE [Next]_vars
  BY <1>1, <1>2, StepKinds
<1>3. CASE Return("E_OK")
  BY <1>3, ReturnKinds DEF Kinds, Booted
<1> QED BY <1>1, <1>2, <1>3 DEF KernelStep

\* A task that is in the lists, runs or waits has an activation, and only one if
\* it is an extended one.
LEMMA ActiveFacts ==
  ASSUME Flight
  PROVE  \A t \in Tasks :
           /\ activations[t] \in Nat
           /\ activations[t] <= MaxActivations[t]
           /\ IsHead(t) \/ running = t \/ state[t] = "WAITING" => activations[t] >= 1
           /\ state[t] # "WAITING" => activations[t] = CountIn(ready, t)
           /\ state[t] = "WAITING" => t \in Extended /\ activations[t] = 1 /\ ~IsHead(t)
           /\ state[t] = "RUNNING" <=> running = t
<1> SUFFICES ASSUME NEW t \in Tasks
             PROVE  /\ activations[t] \in Nat
                    /\ activations[t] <= MaxActivations[t]
                    /\ IsHead(t) \/ running = t \/ state[t] = "WAITING" => activations[t] >= 1
                    /\ state[t] # "WAITING" => activations[t] = CountIn(ready, t)
                    /\ state[t] = "WAITING" => t \in Extended /\ activations[t] = 1 /\ ~IsHead(t)
                    /\ state[t] = "RUNNING" <=> running = t
  OBVIOUS
<1>1. /\ CountIn(ready, t) \in Nat
      /\ IsHead(t) => CountIn(ready, t) > 0
      /\ running = t => IsHead(t)
  BY KernelFacts, FlightFacts
<1>2. activations[t] = CountIn(ready, t) + (IF state[t] = "WAITING" THEN 1 ELSE 0)
  BY EntriesCount DEF Flight, KernelInv, Books, ActivationsMatch
<1>3. activations[t] <= MaxActivations[t] /\ (t \in Extended => MaxActivations[t] = 1)
  BY ConfigAssumption DEF Flight, KernelInv, Books, ActivationLimit
<1>4. /\ state[t] = "RUNNING" <=> running = t
      /\ state[t] = "WAITING" => t \in Extended
  BY DEF Flight, KernelInv, InvariantRoles, Roles
<1> QED BY <1>1, <1>2, <1>3, <1>4

LEMMA StepIdleTasks ==
  ASSUME CallsDeclared, Flight, Idle, [AppNext]_allVars
  PROVE  Idle'
<1> USE ActiveFacts DEF Idle
<1>1. /\ state \in [Tasks -> {"SUSPENDED", "READY", "RUNNING", "WAITING"}]
      /\ activations \in [Tasks -> Int]
      /\ Kinds
  BY AppKinds, FlightFacts
<1>2. ASSUME NEW u \in Tasks, Activation(u)
      PROVE  Idle'
  BY <1>1, <1>2 DEF Activation, Activate
<1>3. ASSUME NEW u \in Tasks, Wakeup(u) \/ Waiting(u)
      PROVE  Idle'
  BY <1>1, <1>3 DEF Wakeup, Waiting, Leaves
<1>4. ASSUME NEW t \in Tasks, Termination(t)
      PROVE  Idle'
  BY <1>1, <1>4 DEF Termination, Leaves, StateAfterEnd
<1>5. ASSUME NEW t \in Tasks, NEW u \in Tasks, Chaining(t, u)
      PROVE  Idle'
  BY <1>1, <1>5 DEF Chaining, Leaves, StateAfterEnd
<1>6. ASSUME NEW next \in Tasks, IsHead(next), Switch(next) \/ Start(next)
      PROVE  Idle'
  BY <1>1, <1>6 DEF Switch, Start
<1>7. CASE UNCHANGED <<state, activations>>
  BY <1>7
<1> QED BY <1>1, <1>2, <1>3, <1>4, <1>5, <1>6, <1>7
        DEF Kinds, Unmoved, ChainChecked, Taking, Giving

\* The tasks, by name.
LEMMA TaskIds ==
  ASSUME CallsDeclared
  PROVE  /\ {InitTask, StartupConfig, wifiTask, brushlUpdate, IMUUpdate, batteryUpdate,
             ConfigMode, Wifi_cfg, IMU_tst, Wifi_tst, Brushless_tst} \subseteq OilTasks
         /\ OilTasks \subseteq Tasks /\ INVALID_TASK \notin OilTasks
BY TasksAssumption
   DEF CallsDeclared, OilTasks, InitTask, StartupConfig, wifiTask, brushlUpdate, IMUUpdate,
       batteryUpdate, ConfigMode, Wifi_cfg, IMU_tst, Wifi_tst, Brushless_tst

\* The activations of a task change only when it runs, another task activates it,
\* or an interrupt does.
LEMMA OnlyActivated ==
  ASSUME CallsDeclared, Flight, [AppNext]_allVars, Booted,
         NEW u \in OilTasks \ {Wifi_tst, brushlUpdate},
         ~(Body /\ running = u), ~(Body /\ u \in Activated(running)),
         u = IMUUpdate => ~DataReady, u \notin alarms
  PROVE  activations'[u] = activations[u]
<1> USE TaskIds DEF Flight
<1>1. activations \in [Tasks -> Int] /\ u \in Tasks
  BY FlightFacts
<1>2. ASSUME NEW v, v # u, Activate(v)
      PROVE  activations'[u] = activations[u]
  BY <1>1, <1>2 DEF Activate
<1>3. ASSUME NEW t \in Tasks, Kernel(t)
      PROVE  activations'[u] = activations[u]
  <2>1. CASE Chain(t)
    BY <1>1, <2>1 DEF Chain, At, OneChain
  <2>2. CASE ~Chain(t)
    BY <1>3, <2>2 DEF Kernel, EnterSys, SysSchedule, LeaveSys, Schedule, taskVars
  <2> QED BY <2>1, <2>2
<1>4. CASE Body
  <2>1. PICK t \in OilTasks : running = t /\ Calls(t)
    BY <1>4, MoverRuns DEF Moves
  <2>2. t # u /\ u \notin Activated(t)
    BY <1>4, <2>1
  <2>3. ASSUME NEW v \in Activated(t), ActivateTask(t, v), ActivationAllowed(v), v \in Tasks
        PROVE  activations'[u] = activations[u]
    BY <1>2, <2>2, <2>3 DEF ActivateTask
  <2>4. CASE TerminateTask(t)
    BY <1>1, <2>2, <2>4 DEF TerminateTask, Return
  <2>5. CASE ~TerminateTask(t)
             /\ ~ \E v \in Activated(t) : ActivateTask(t, v) /\ ActivationAllowed(v) /\ v \in Tasks
    BY <2>1, <2>5 DEF Calls, ActivateTask, ChainTask, WaitEvent, ClearEvent,
                      GetResource, ReleaseResource, Return, taskVars
  <2> QED BY <2>3, <2>4, <2>5
<1>5. CASE StartOS \/ Dispatch \/ IsrEnter \/ IsrExit
  BY <1>5 DEF StartOS, Dispatch, IsrEnter, IsrExit, taskVars
<1>6. ASSUME NEW v, v # u, IsrActivateTask(v)
      PROVE  activations'[u] = activations[u]
  BY <1>2, <1>6 DEF IsrActivateTask, Return
<1>7. CASE Transmitted
  BY <1>7 DEF Transmitted, IsrSetEvent, Signal, Return
<1>8. CASE UNCHANGED allVars
  BY <1>8 DEF allVars, vars
<1> QED BY <1>3, <1>4, <1>5, <1>6, <1>7, <1>8 DEF AppNext, Thread, DataReady, Expires

\* Only the start takes resources, and only a preemptable task that gives one back
\* is sent to Schedule by it.
LEMMA OnlyStartTakes ==
  ASSUME CallsDeclared, OilConfigured, Flight, [AppNext]_allVars
  PROVE  /\ ~(Body /\ running = InitTask) => UNCHANGED resources
         /\ \A t \in Tasks : pc'[t] = "schedule" => pc[t] = "schedule"
<1> USE TaskIds DEF Flight
<1>1. pc \in [Tasks -> {"run", "enterSys", "sysSchedule", "leaveSys", "schedule", "chain"}]
  BY FlightFacts
<1>2. CASE UNCHANGED <<resources, pc>>
  BY <1>2
<1>3. ASSUME NEW t \in OilTasks, running = t, Calls(t)
      PROVE  /\ running # InitTask => UNCHANGED resources
             /\ \A v \in Tasks : pc'[v] = "schedule" => pc[v] = "schedule"
  <2>1. CASE \E u \in Activated(t) : ActivateTask(t, u)
    BY <1>1, <2>1 DEF ActivateTask, Activate, Return
  <2>2. CASE TerminateTask(t)
    BY <1>1, <2>2 DEF TerminateTask, Finish, Return
  <2>3. CASE ChainTask(t, brushlUpdate)
    BY <1>1, <2>3 DEF ChainTask, Return, taskVars
  <2>4. CASE Return("E_OK") \/ WaitEvent(t, {"POSIXE"}) \/ ClearEvent(t, {"POSIXE"})
    BY <1>1, <2>4 DEF WaitEvent, ClearEvent, Return
  <2>5. CASE t = InitTask /\ \E r : GetResource(t, r) \/ ReleaseResource(t, r)
    BY <1>1, <1>3, <2>5 DEF GetResource, ReleaseResource, Return, OilConfigured
  <2> QED BY <1>3, <2>1, <2>2, <2>3, <2>4, <2>5 DEF Calls
<1>4. ASSUME NEW t \in Tasks, Kernel(t)
      PROVE  UNCHANGED resources /\ \A v \in Tasks : pc'[v] = "schedule" => pc[v] = "schedule"
  BY <1>1, <1>4 DEF Kernel, EnterSys, SysSchedule, LeaveSys, Schedule, Chain, Finish, taskVars
<1>5. CASE StartOS \/ Dispatch \/ IsrEnter \/ IsrExit
  BY <1>2, <1>5 DEF StartOS, Activate, Dispatch, IsrEnter, IsrExit, taskVars
<1>6. ASSUME NEW u, IsrActivateTask(u)
      PROVE  UNCHANGED <<resources, pc>>
  BY <1>6 DEF IsrActivateTask, Activate, Return
<1>7. CASE Transmitted
  BY <1>2, <1>7 DEF Transmitted, IsrSetEvent, Signal, Return
<1>8. CASE UNCHANGED allVars
  BY <1>2, <1>8 DEF allVars, vars
<1>9. CASE Body
  BY <1>3, <1>9, MoverRuns DEF Moves
<1> QED BY <1>4, <1>5, <1>6, <1>7, <1>8, <1>9 DEF AppNext, Thread, DataReady, Expires

\* A task begins to wait by a call of its own.
LEMMA OnlyCallersWait ==
  ASSUME CallsDeclared, Flight, [AppNext]_allVars,
         NEW u \in OilTasks, state[u] # "WAITING", state'[u] = "WAITING"
  PROVE  Body /\ running = u /\ u \in {InitTask, ConfigMode, Wifi_cfg, IMU_tst}
<1> USE TaskIds DEF Flight
<1>1. state \in [Tasks -> {"SUSPENDED", "READY", "RUNNING", "WAITING"}] /\ u \in Tasks
  BY FlightFacts
<1>2. ASSUME NEW v, Activate(v)
      PROVE  FALSE
  BY <1>1, <1>2 DEF Activate
<1>3. ASSUME NEW saved, Reschedule(saved)
      PROVE  FALSE
  BY <1>1, <1>3 DEF Reschedule
<1>4. ~UNCHANGED state
  OBVIOUS
<1>5. ASSUME NEW t, Finish(t)
      PROVE  FALSE
  BY <1>1, <1>5 DEF Finish, StateAfterEnd
<1>6. CASE Body
  <2>1. PICK t \in OilTasks : running = t /\ Calls(t)
    BY <1>6, MoverRuns DEF Moves
  <2>2. /\ ~Return("E_OK") /\ ~TerminateTask(t) /\ ~ClearEvent(t, {"POSIXE"})
        /\ ~ChainTask(t, brushlUpdate)
        /\ \A v : ~ActivateTask(t, v) /\ ~GetResource(t, v) /\ ~ReleaseResource(t, v)
    BY <1>2, <1>4, <1>5 DEF ActivateTask, TerminateTask, ChainTask, ClearEvent, GetResource,
                            ReleaseResource, Return, taskVars
  <2>3. WaitEvent(t, {"POSIXE"}) /\ t \in {InitTask, ConfigMode, Wifi_cfg, IMU_tst}
    BY <2>1, <2>2 DEF Calls
  <2>4. t = u
    BY <1>1, <2>3 DEF WaitEvent, Return
  <2> QED BY <1>6, <2>1, <2>3, <2>4
<1>7. ASSUME NEW t \in Tasks, Kernel(t)
      PROVE  FALSE
  BY <1>3, <1>4, <1>5, <1>7 DEF Kernel, EnterSys, SysSchedule, LeaveSys, Schedule, Chain, taskVars
<1>8. ASSUME StartOS \/ Dispatch \/ IsrEnter \/ IsrExit
      PROVE  FALSE
  BY <1>1, <1>2, <1>3, <1>4, <1>8 DEF StartOS, Dispatch, IsrEnter, IsrExit, taskVars
<1>9. ASSUME NEW v, IsrActivateTask(v)
      PROVE  FALSE
  BY <1>2, <1>4, <1>9 DEF IsrActivateTask, Return
<1>10. ASSUME Transmitted
       PROVE  FALSE
  BY <1>1, <1>4, <1>10 DEF Transmitted, IsrSetEvent, Signal, Return
<1>11. ASSUME UNCHANGED allVars
       PROVE  FALSE
  BY <1>4, <1>11 DEF allVars, vars
<1> QED BY <1>6, <1>7, <1>8, <1>9, <1>10, <1>11 DEF AppNext, Thread, DataReady, Expires

\* It waits until the USB line has room.
LEMMA OnlyLineWakes ==
  ASSUME CallsDeclared, Flight, [AppNext]_allVars, ~Transmitted,
         NEW u \in OilTasks, state[u] = "WAITING"
  PROVE  state'[u] = "WAITING"
<1> USE TaskIds DEF Flight
<1>1. /\ state \in [Tasks -> {"SUSPENDED", "READY", "RUNNING", "WAITING"}] /\ u \in Tasks
      /\ running # u /\ ~IsHead(u) /\ IInv
  BY ActiveFacts, FlightFacts
<1>2. ASSUME NEW v, Activate(v)
      PROVE  state'[u] = "WAITING"
  BY <1>1, <1>2 DEF Activate
<1>3. GetNextTask # u
  <2>1. u # INVALID_TASK
    BY TasksAssumption
  <2> QED BY <1>1, <2>1, IInvListed, NextTaskIsHead
<1>4. ASSUME NEW saved, Reschedule(saved)
      PROVE  state'[u] = "WAITING"
  BY <1>1, <1>3, <1>4 DEF Reschedule
<1>5. CASE UNCHANGED state
  BY <1>5
<1>6. ASSUME NEW t \in Tasks, running = t, Finish(t)
      PROVE  state'[u] = "WAITING"
  BY <1>1, <1>6 DEF Finish
<1>7. CASE Body
  <2>1. PICK t \in OilTasks : running = t /\ Calls(t)
    BY <1>7, MoverRuns DEF Moves
  <2>2. CASE WaitEvent(t, {"POSIXE"})
    BY <1>1, <2>1, <2>2 DEF WaitEvent, Return
  <2>3. CASE ~WaitEvent(t, {"POSIXE"})
    BY <1>2, <1>5, <1>6, <2>1, <2>3
       DEF Calls, ActivateTask, TerminateTask, ChainTask, ClearEvent, GetResource,
           ReleaseResource, Return, taskVars
  <2> QED BY <2>2, <2>3
<1>8. ASSUME NEW t \in Tasks, Kernel(t)
      PROVE  state'[u] = "WAITING"
  BY <1>4, <1>5, <1>6, <1>8
     DEF Kernel, EnterSys, SysSchedule, LeaveSys, Schedule, Chain, At, taskVars
<1>9. CASE StartOS \/ Dispatch \/ IsrEnter \/ IsrExit
  BY <1>1, <1>2, <1>3, <1>4, <1>5, <1>9 DEF StartOS, Dispatch, IsrEnter, IsrExit, taskVars
<1>10. ASSUME NEW v, IsrActivateTask(v)
       PROVE  state'[u] = "WAITING"
  BY <1>2, <1>5, <1>10 DEF IsrActivateTask, Return
<1>11. CASE UNCHANGED allVars
  BY <1>5, <1>11 DEF allVars, vars
<1> QED BY <1>7, <1>8, <1>9, <1>10, <1>11 DEF AppNext, Thread, DataReady, Expires

-----------------------------------------------------------------------------
(* What fails: the start.                                                   *)

\* A step of a body is one of the running task, which alone moves and has no more
\* than one error reported; the others leave the bodies where they are.
LEMMA BodyMovesOne ==
  ASSUME CallsDeclared, Flight, [AppNext]_allVars
  PROVE  /\ hook => hook'
         /\ ~Body => UNCHANGED at
         /\ Body => /\ Booted /\ isr = "none" /\ running \in OilTasks /\ pc[running] = "run"
                    /\ Calls(running)
                    /\ hook' = (hook \/ error' # "E_OK")
                    /\ \A v \in Tasks \ {running} : at'[v] = at[v]
<1> USE TaskIds
<1>1. CASE Body
  <2>1. PICK t \in OilTasks : running = t /\ Moves(t)
    BY <1>1, MoverRuns
  <2>2. PICK place : Continue(t, place)
    BY <2>1 DEF Moves
  <2>3. Booted /\ isr = "none" /\ pc[t] = "run"
    BY <2>1 DEF Moves, Calls, At
  <2>4. at \in [Tasks -> BodyPlaces]
    BY FlightFacts
  <2>5. \A v \in Tasks \ {t} : at'[v] = at[v]
    BY <2>2, <2>4 DEF Continue
  <2> QED BY <1>1, <2>1, <2>2, <2>3, <2>5 DEF Continue, Moves
<1>2. CASE ~Body
  <2>1. CASE DataReady \/ Transmitted \/ \E u \in alarms : Expires(u)
    BY <1>2, <2>1 DEF DataReady, Transmitted, Expires, InHandler
  <2>2. CASE UNCHANGED appVars
    BY <1>2, <2>2 DEF appVars
  <2> QED BY <1>2, <2>1, <2>2 DEF AppNext, Thread, allVars
<1> QED BY <1>1, <1>2

\* Until StartOS has ended nothing runs, interrupts included.
Booting == ~Booted => isr = "none" /\ \A t \in Tasks : activations[t] = 0

LEMMA NothingBefore ==
  ASSUME CallsDeclared, Flight, Booting, ~Booted, [AppNext]_allVars
  PROVE  (StartOS /\ UNCHANGED appVars) \/ UNCHANGED allVars
<1>1. ~Body
  BY BodyMovesOne
<1>2. isr = "none"
  BY DEF Booting
<1> QED BY <1>1, <1>2
        DEF AppNext, Thread, Dispatch, Kernel, EnterSys, SysSchedule, LeaveSys, Chain, Schedule, At,
            IsrEnter, IsrExit, DataReady, Transmitted, Expires, IsrActivateTask, IsrSetEvent

\* It starts the first task alone.
LEMMA StartsInit ==
  ASSUME OilConfigured, Flight, StartOS
  PROVE  /\ AutoStart[boot + 1] = InitTask /\ ~Booted /\ Booted'
         /\ activations' = [activations EXCEPT ![InitTask] = @ + 1] \/ UNCHANGED activations
         /\ ready' = AddReady(ready, InitTask) \/ UNCHANGED ready
<1>1. boot \in 0 .. 1 /\ Len(AutoStart) = 1 /\ AutoStart[1] = InitTask
  BY FlightFacts DEF OilConfigured
<1>2. boot = 0 /\ boot' = 1 /\ ~Booted
  BY <1>1 DEF StartOS, Booted
<1>3. AutoStart[boot + 1] = InitTask /\ Booted'
  BY <1>1, <1>2 DEF Booted
<1> QED BY <1>2, <1>3 DEF StartOS, Activate, taskVars

LEMMA StepBooting ==
  ASSUME CallsDeclared, OilConfigured, Flight, Booting, [AppNext]_allVars
  PROVE  Booting'
<1>1. CASE Booted
  BY <1>1, AppKinds DEF Booting
<1>2. CASE ~Booted /\ StartOS
  BY <1>2, StartsInit DEF Booting
<1>3. CASE ~Booted /\ UNCHANGED allVars
  BY <1>3 DEF Booting, Booted, allVars, vars
<1> QED BY <1>1, <1>2, <1>3, NothingBefore

\* No task but the first ever holds a resource, and Schedule is never called on
\* the way back from a service.
Plain ==
  /\ \A t \in Tasks \ {InitTask} : resources[t] = {}
  /\ \A t \in Tasks : pc[t] # "schedule"

LEMMA StepPlain ==
  ASSUME CallsDeclared, OilConfigured, Flight, Plain, [AppNext]_allVars
  PROVE  Plain'
<1> USE TaskIds DEF Plain
<1>1. \A t \in Tasks : pc'[t] # "schedule"
  BY OnlyStartTakes
<1>2. CASE UNCHANGED resources
  BY <1>1, <1>2
<1>3. CASE Body /\ running = InitTask
  <2>1. resources \in [Tasks -> SUBSET Resources]
    BY FlightFacts
  <2>2. PICK new : resources' = [resources EXCEPT ![InitTask] = new] \/ UNCHANGED resources
    <3>1. InitTaskStep
      BY <1>3, MoverRuns
    <3> QED BY <3>1 DEF InitTaskStep, SetBatteryAlarm, Passes, Ends, WaitsForData, GetResource,
                        ReleaseResource, ActivateTask, Activate, TerminateTask, WaitEvent, Return
  <2> QED BY <1>1, <2>1, <2>2
<1> QED BY <1>2, <1>3, OnlyStartTakes

\* What the first task holds, by the place of its body.
HeldAt(place) ==
  CASE place = "opened" -> {POSIXR, BRUSHLESSR}
    [] place \in {"open", "release"} -> {BRUSHLESSR}
    [] OTHER -> {}

\* The first task has activated the second, and has ended or will not do more; so
\* has the second the third.
InitOver == Booted /\ (at[InitTask] = "end" \/ activations[InitTask] = 0)
StartOver == InitOver /\ (at[StartupConfig] = "end" \/ activations[StartupConfig] = 0)

\* Each task of the start is activated once.
Once ==
  ~hook =>
    /\ resources[InitTask] = HeldAt(at[InitTask])
    /\ activations[InitTask] = 0 => at[InitTask] = "begin"
    /\ ~InitOver => activations[StartupConfig] = 0
    /\ ~StartOver => activations[ConfigMode] = 0

\* StartOS.
LEMMA OnceBoot ==
  ASSUME CallsDeclared, OilConfigured, Flight, Booting, Once, ~Booted, [AppNext]_allVars
  PROVE  Once'
<1> USE TaskIds DEF Once
<1>1. CASE UNCHANGED allVars
  BY <1>1 DEF InitOver, StartOver, Booted, allVars, vars, appVars
<1>2. CASE StartOS /\ UNCHANGED appVars
  <2>1. UNCHANGED <<resources, at, hook>>
    BY <1>2 DEF StartOS, Activate, taskVars, appVars
  <2>3. activations' = [activations EXCEPT ![InitTask] = @ + 1] \/ UNCHANGED activations
    BY <1>2, StartsInit
  <2>4. activations \in [Tasks -> Int] /\ activations[InitTask] = 0
        /\ activations[StartupConfig] = 0 /\ activations[ConfigMode] = 0
    BY FlightFacts DEF Booting
  <2>5. /\ activations'[StartupConfig] = 0 /\ activations'[ConfigMode] = 0
        /\ activations'[InitTask] = 0 => activations[InitTask] = 0
    BY <2>3, <2>4 DEF InitTask, StartupConfig, ConfigMode
  <2> QED BY <2>1, <2>5
<1> QED BY <1>1, <1>2, NothingBefore

\* A call that has not been reported.
LEMMA NotReported ==
  ASSUME NEW t \in Tasks, NEW place, Flight, Continue(t, place), ~hook'
  PROVE  ~hook /\ error' = "E_OK" /\ at'[t] = place
BY FlightFacts DEF Continue

\* Steps of the first task.
LEMMA OnceInit ==
  ASSUME CallsDeclared, OilConfigured, Flight, Once, [AppNext]_allVars,
         Body, running = InitTask
  PROVE  Once'
<1> SUFFICES ASSUME ~hook'
             PROVE  /\ resources'[InitTask] = HeldAt(at'[InitTask])
                    /\ activations'[InitTask] = 0 => at'[InitTask] = "begin"
                    /\ ~InitOver' => activations'[StartupConfig] = 0
                    /\ ~StartOver' => activations'[ConfigMode] = 0
  BY DEF Once
<1> USE TaskIds
<1>1. InitTaskStep /\ Booted /\ Booted'
  BY MoverRuns, BodyMovesOne, AppKinds
<1>2. /\ resources \in [Tasks -> SUBSET Resources]
      /\ activations \in [Tasks -> Int]
      /\ activations[InitTask] = 1
  <2>1. activations[InitTask] >= 1 /\ activations[InitTask] <= 1
    BY ActiveFacts DEF OilConfigured
  <2> QED BY <2>1, FlightFacts
<1>3. /\ ~hook /\ error' = "E_OK"
      /\ resources[InitTask] = HeldAt(at[InitTask])
      /\ ~InitOver => activations[StartupConfig] = 0
      /\ ~StartOver => activations[ConfigMode] = 0
  <2>1. ~hook /\ error' = "E_OK"
    BY BodyMovesOne
  <2> QED BY <2>1 DEF Once
<1>4. activations'[ConfigMode] = activations[ConfigMode]
      /\ at'[StartupConfig] = at[StartupConfig]
  <2>1. running # ConfigMode /\ ConfigMode \notin Activated(running) /\ ConfigMode \notin alarms
        /\ ConfigMode \notin {Wifi_tst, brushlUpdate, IMUUpdate}
        /\ StartupConfig # InitTask
    BY DEF Activated, InitTask, StartupConfig, ConfigMode, Wifi_tst, brushlUpdate, IMUUpdate,
           wifiTask, batteryUpdate, Flight, Devices
  <2> QED BY <1>1, <2>1, OnlyActivated, BodyMovesOne
<1>5. ASSUME NEW place, NEW next, at[InitTask] = place, at'[InitTask] = next,
             resources'[InitTask] = HeldAt(next), UNCHANGED activations,
             place # "end", next # "end"
      PROVE  /\ resources'[InitTask] = HeldAt(at'[InitTask])
             /\ activations'[InitTask] = 0 => at'[InitTask] = "begin"
             /\ ~InitOver' => activations'[StartupConfig] = 0
             /\ ~StartOver' => activations'[ConfigMode] = 0
  BY <1>1, <1>2, <1>3, <1>5 DEF InitOver, StartOver
<1>6. ASSUME NEW place, NEW next, Continue(InitTask, next)
      PROVE  at'[InitTask] = next
  BY <1>6, NotReported
<1>7. CASE at[InitTask] = "begin" /\ GetResource(InitTask, BRUSHLESSR)
           /\ Continue(InitTask, "open")
  BY <1>2, <1>3, <1>5, <1>6, <1>7 DEF GetResource, Return, HeldAt
<1>8. CASE at[InitTask] = "open" /\ GetResource(InitTask, POSIXR)
           /\ Continue(InitTask, "opened")
  BY <1>2, <1>3, <1>5, <1>6, <1>8 DEF GetResource, Return, HeldAt
<1>9. CASE at[InitTask] = "opened" /\ ReleaseResource(InitTask, POSIXR)
           /\ Continue(InitTask, "release")
  <2>1. resources[InitTask] = {POSIXR, BRUSHLESSR} /\ POSIXR # BRUSHLESSR
    BY <1>3, <1>9 DEF HeldAt, POSIXR, BRUSHLESSR
  <2>2. /\ resources' = [resources EXCEPT ![InitTask] = @ \ {POSIXR}]
        /\ UNCHANGED activations /\ at'[InitTask] = "release"
    BY <1>6, <1>9, <2>1 DEF ReleaseResource
  <2>3. resources'[InitTask] = HeldAt("release")
    BY <1>2, <2>1, <2>2 DEF HeldAt
  <2> QED BY <1>5, <1>9, <2>2, <2>3
<1>10. CASE at[InitTask] = "release" /\ ReleaseResource(InitTask, BRUSHLESSR)
            /\ Continue(InitTask, "sensor")
  BY <1>2, <1>3, <1>5, <1>6, <1>10 DEF ReleaseResource, Return, HeldAt
<1>11. ASSUME NEW place \in {"sensor", "wifi", "command"},
              NEW next \in {"wifi", "command", "activate"}, Passes(InitTask, place, next)
       PROVE  /\ resources'[InitTask] = HeldAt(at'[InitTask])
              /\ activations'[InitTask] = 0 => at'[InitTask] = "begin"
              /\ ~InitOver' => activations'[StartupConfig] = 0
              /\ ~StartOver' => activations'[ConfigMode] = 0
  BY <1>2, <1>3, <1>5, <1>6, <1>11 DEF Passes, Here, Return, HeldAt
<1>12. CASE WaitsForData(InitTask, "command")
  BY <1>2, <1>3, <1>5, <1>6, <1>12 DEF WaitsForData, WaitEvent, Return, HeldAt
<1>13. CASE at[InitTask] = "activate" /\ ActivateTask(InitTask, StartupConfig)
            /\ Continue(InitTask, "end")
  <2>1. /\ at'[InitTask] = "end"
        /\ UNCHANGED resources
        /\ \/ activations' = [activations EXCEPT ![StartupConfig] = @ + 1]
           \/ UNCHANGED activations
    BY <1>6, <1>13 DEF ActivateTask, Activate, Return
  <2>2. activations'[InitTask] = 1
    BY <1>2, <2>1 DEF InitTask, StartupConfig
  <2>3. ~InitOver /\ ~StartOver
    BY <1>2, <1>13 DEF InitOver, StartOver
  <2>4. InitOver'
    BY <1>1, <2>1 DEF InitOver
  <2>5. resources'[InitTask] = HeldAt(at'[InitTask])
    BY <1>3, <1>13, <2>1 DEF HeldAt
  <2> QED BY <1>3, <1>4, <2>2, <2>3, <2>4, <2>5
<1>14. CASE Ends(InitTask, "end")
  <2>1. at[InitTask] = "end" /\ TerminateTask(InitTask) /\ Continue(InitTask, "begin")
    BY <1>14 DEF Ends
  <2>2. /\ at'[InitTask] = "begin" /\ UNCHANGED resources
        /\ activations' = [activations EXCEPT ![InitTask] = @ - 1]
    BY <1>3, <1>6, <2>1 DEF TerminateTask, Return
  <2>3. activations'[InitTask] = 0 /\ activations'[StartupConfig] = activations[StartupConfig]
    BY <1>2, <2>2 DEF InitTask, StartupConfig
  <2> QED BY <1>1, <1>3, <1>4, <2>1, <2>2, <2>3 DEF InitOver, StartOver, HeldAt
<1> QED BY <1>1, <1>7, <1>8, <1>9, <1>10, <1>11, <1>12, <1>13, <1>14
        DEF InitTaskStep, SetBatteryAlarm

\* Steps of the second.
LEMMA OnceStart ==
  ASSUME CallsDeclared, OilConfigured, Flight, Once, [AppNext]_allVars,
         Body, running = StartupConfig, UNCHANGED resources
  PROVE  Once'
<1> SUFFICES ASSUME ~hook'
             PROVE  /\ resources'[InitTask] = HeldAt(at'[InitTask])
                    /\ activations'[InitTask] = 0 => at'[InitTask] = "begin"
                    /\ ~InitOver' => activations'[StartupConfig] = 0
                    /\ ~StartOver' => activations'[ConfigMode] = 0
  BY DEF Once
<1> USE TaskIds
<1>1. StartupConfigStep /\ Booted /\ Booted'
  BY MoverRuns, BodyMovesOne, AppKinds
<1>2. activations \in [Tasks -> Int] /\ activations[StartupConfig] = 1
  <2>1. activations[StartupConfig] >= 1 /\ activations[StartupConfig] <= 1
    BY ActiveFacts DEF OilConfigured
  <2> QED BY <2>1, FlightFacts
<1>3. ~hook /\ error' = "E_OK"
  BY BodyMovesOne
<1>4. activations'[InitTask] = activations[InitTask] /\ at'[InitTask] = at[InitTask]
  <2>1. running # InitTask /\ InitTask \notin Activated(running) /\ InitTask \notin alarms
        /\ InitTask \notin {Wifi_tst, brushlUpdate, IMUUpdate}
    BY DEF Activated, InitTask, StartupConfig, ConfigMode, Wifi_tst, brushlUpdate, IMUUpdate,
           wifiTask, batteryUpdate, Flight, Devices
  <2> QED BY <1>1, <2>1, OnlyActivated, BodyMovesOne
<1>5. InitOver /\ InitOver'
  BY <1>1, <1>2, <1>3, <1>4 DEF Once, InitOver
<1>6. StartOver'
  <2>1. CASE ActivateTask(StartupConfig, ConfigMode) /\ Continue(StartupConfig, "end")
    BY <1>5, <2>1, NotReported DEF StartOver
  <2>2. CASE TerminateTask(StartupConfig)
    <3>1. activations'[StartupConfig] = 0
      BY <1>2, <1>3, <2>2 DEF TerminateTask, Return
    <3> QED BY <1>5, <3>1 DEF StartOver
  <2> QED BY <1>1, <2>1, <2>2 DEF StartupConfigStep, Ends
<1> QED BY <1>3, <1>4, <1>5, <1>6 DEF Once

\* Steps of the others.
LEMMA OnceOther ==
  ASSUME CallsDeclared, OilConfigured, Flight, Once, Booted, [AppNext]_allVars,
         ~(Body /\ running \in {InitTask, StartupConfig}), UNCHANGED resources
  PROVE  Once'
<1> SUFFICES ASSUME ~hook'
             PROVE  /\ resources'[InitTask] = HeldAt(at'[InitTask])
                    /\ activations'[InitTask] = 0 => at'[InitTask] = "begin"
                    /\ ~InitOver' => activations'[StartupConfig] = 0
                    /\ ~StartOver' => activations'[ConfigMode] = 0
  BY DEF Once
<1> USE TaskIds
<1>1. ~hook /\ Booted'
  BY BodyMovesOne, AppKinds
<1>2. ASSUME NEW u \in {InitTask, StartupConfig}
      PROVE  activations'[u] = activations[u] /\ at'[u] = at[u]
  <2>1. u \notin {Wifi_tst, brushlUpdate, IMUUpdate} /\ u \notin alarms
        /\ (Body => u \notin Activated(running))
    BY <1>2 DEF Activated, InitTask, StartupConfig, ConfigMode, Wifi_cfg, Brushless_tst, IMU_tst,
           Wifi_tst, brushlUpdate, IMUUpdate, wifiTask, batteryUpdate, Flight, Devices
  <2> QED BY <1>2, <2>1, OnlyActivated, BodyMovesOne
<1>3. InitOver' <=> InitOver
  BY <1>1, <1>2 DEF InitOver
<1>4. StartOver' <=> StartOver
  BY <1>2, <1>3 DEF StartOver
<1>5. ~StartOver => activations'[ConfigMode] = 0
  <2> SUFFICES ASSUME ~StartOver
               PROVE  activations'[ConfigMode] = 0
    OBVIOUS
  <2>1. activations[ConfigMode] = 0
    BY <1>1 DEF Once
  <2>2. running # ConfigMode
    BY <2>1, ActiveFacts
  <2>3. ConfigMode \notin {Wifi_tst, brushlUpdate, IMUUpdate} /\ ConfigMode \notin alarms
        /\ (Body => ConfigMode \notin Activated(running))
    BY DEF Activated, InitTask, StartupConfig, ConfigMode, Wifi_cfg, Brushless_tst, IMU_tst,
           Wifi_tst, brushlUpdate, IMUUpdate, wifiTask, batteryUpdate, Flight, Devices
  <2> QED BY <2>1, <2>2, <2>3, OnlyActivated
<1> QED BY <1>1, <1>2, <1>3, <1>4, <1>5 DEF Once

LEMMA StepOnce ==
  ASSUME CallsDeclared, OilConfigured, Flight, Booting, Once, [AppNext]_allVars
  PROVE  Once'
BY OnlyStartTakes, OnceBoot, OnceInit, OnceStart, OnceOther
   DEF InitTask, StartupConfig

-----------------------------------------------------------------------------
(* What fails: the other calls.                                            *)

\* The new duties, once chained, are in the list before any later test.
Duties ==
  /\ state[brushlUpdate] # "WAITING"
  /\ InOrder(ready[CheckList], brushlUpdate, Wifi_tst)

LEMMA StepDuties ==
  ASSUME CallsDeclared, ChainedApart, TestsAlike, OilConfigured, Flight, Booting, Duties,
         [AppNext]_allVars
  PROVE  Duties'
<1> USE TaskIds, PairFacts, ActiveFacts
<1> DEFINE a == brushlUpdate
           b == Wifi_tst
<1>1. /\ ready \in [Priorities -> Seq(Tasks)] /\ Placed(ready) /\ IInv
      /\ InOrder(ready[CheckList], a, b) /\ state[a] # "WAITING"
      /\ \A t \in Tasks : running = t => HeadIn(ready, t)
      /\ a # b
  BY HeadInReady, FlightFacts DEF Duties, brushlUpdate, Wifi_tst
<1>2. state'[a] # "WAITING"
  BY <1>1, OnlyCallersWait
     DEF brushlUpdate, InitTask, ConfigMode, Wifi_cfg, IMU_tst
<1>3. CASE UNCHANGED ready
  BY <1>1, <1>2, <1>3 DEF Duties
<1>4. ASSUME NEW u \in Tasks, u # a, ready' = AddReady(ready, u)
      PROVE  Duties'
  <2>1. InOrder(AddReady(ready, u)[CheckList], a, b)
    BY <1>1, <1>4, AddOrder
  <2> QED BY <1>2, <1>4, <2>1 DEF Duties
<1>5. ASSUME NEW t \in Tasks, running = t
      PROVE  /\ InOrder(RemoveTask(ready, t)[CheckList], a, b)
             /\ RemoveTask(ready, t) \in [Priorities -> Seq(Tasks)]
  BY <1>1, <1>5, RemoveOrder, RemoveTaskLists
<1>6. CASE ~Booted
  <2>1. CASE StartOS
    <3>1. InitTask # a
      BY DEF InitTask, brushlUpdate
    <3> QED BY <1>3, <1>4, <2>1, <3>1, StartsInit
  <2>2. CASE UNCHANGED allVars
    BY <1>3, <2>2 DEF allVars, vars
  <2> QED BY <1>6, <2>1, <2>2, NothingBefore
<1>7. ASSUME Booted, NEW u \in Tasks, Activation(u)
      PROVE  Duties'
  <2>1. u # a
    BY <1>7 DEF Activation, ChainedApart, IsChained, CallsDeclared
  <2> QED BY <1>4, <1>7, <2>1 DEF Activation, Activate
<1>8. ASSUME NEW u \in Tasks, Wakeup(u)
      PROVE  Duties'
  BY <1>1, <1>4, <1>8 DEF Wakeup
<1>9. ASSUME NEW t \in Tasks, Termination(t) \/ Waiting(t)
      PROVE  Duties'
  BY <1>2, <1>5, <1>9 DEF Termination, Waiting, Leaves, Duties
<1>10. ASSUME NEW t \in Tasks, NEW u \in Tasks, Chaining(t, u)
       PROVE  Duties'
  <2>1. t = b /\ u = a /\ running = t /\ ready' = AddReady(RemoveTask(ready, t), u)
    BY <1>10 DEF Chaining, Leaves, Flight, OneChain
  <2> DEFINE rest == RemoveTask(ready, b)
  <2>2. rest \in [Priorities -> Seq(Tasks)] /\ HeadIn(ready, b)
    BY <1>1, <1>5, <2>1
  <2>3. CountIn(rest, b) = 0
    <3>1. activations[b] = 1 /\ state[b] # "WAITING"
      <4>1. activations[b] >= 1 /\ activations[b] <= 1 /\ activations[b] \in Nat
        BY <2>1 DEF OilConfigured
      <4> QED BY <2>1, <4>1
    <3>2. CountIn(rest, b) = CountIn(ready, b) - 1
      BY <1>1, <2>2, RemoveTaskCount
    <3> QED BY <3>1, <3>2
  <2>4. rest[CheckList] \in Seq(Tasks)
    BY <2>2
  <2>5. ~ \E i \in DOMAIN rest[CheckList] : rest[CheckList][i] = b
    <3> HIDE DEF rest
    <3>1. Cardinality(Places(rest[CheckList], b)) = 0
      BY <2>3 DEF CountIn
    <3>2. ~(Cardinality(Places(rest[CheckList], b)) > 0)
      BY <3>1
    <3> QED BY <2>4, <3>2, PlacesNonEmpty
  <2>6. ready'[CheckList] = Append(rest[CheckList], a)
    <3>1. StaticPriority[a] = CheckList
      BY DEF OilConfigured
    <3> QED BY <2>1, <2>2, <3>1 DEF AddReady
  <2>7. InOrder(Append(rest[CheckList], a), a, b)
    <3> HIDE DEF rest
    <3> QED BY <1>1, <2>4, <2>5 DEF InOrder
  <2> QED BY <1>2, <2>6, <2>7 DEF Duties
<1> QED BY <1>3, <1>6, <1>7, <1>8, <1>9, <1>10, AppKinds
        DEF Kinds, Unmoved, ChainChecked, Taking, Giving, Switch, Start

\* The test of the wireless configuration has ended when the processor comes back
\* to the task that activates it.
HandsOver ==
  running = ConfigMode /\ pc[ConfigMode] \notin {"enterSys", "sysSchedule"}
    => activations[Wifi_cfg] = 0

\* The scheduler does not leave the processor to it before.
LEMMA TakesOver ==
  ASSUME CallsDeclared, OilConfigured, Flight, Plain,
         NoneAbove(running)', running' = ConfigMode, UNCHANGED <<actPriority, ready, activations>>,
         IsHead(ConfigMode)
  PROVE  activations'[Wifi_cfg] = 0
<1> USE TaskIds, ActiveFacts
<1>1. /\ IInv /\ Levels
      /\ ready \in [Priorities -> Seq(Tasks)]
      /\ ConfigMode # Wifi_cfg /\ ConfigMode # InitTask
      /\ Wifi_cfg \notin Extended
      /\ Wifi_cfg \in Tasks /\ ConfigMode \in Tasks
  BY FlightFacts DEF Ceilings, ConfigMode, Wifi_cfg, InitTask, OilConfigured, OilExtended
<1>2. actPriority[ConfigMode] = StaticPriority[ConfigMode]
  BY <1>1, KernelFacts DEF Levels, Plain, Holds
<1>3. StaticPriority[ConfigMode] \in Nat /\ StaticPriority[Wifi_cfg] \in Nat
  BY <1>1, KernelFacts
<1>4. ~InReadyList(Wifi_cfg)
  <2>1. InReadyList(Wifi_cfg)' <=> InReadyList(Wifi_cfg)
    BY DEF InReadyList
  <2>2. InReadyList(Wifi_cfg)' => StaticPriority[Wifi_cfg] <= actPriority'[ConfigMode]
    BY <1>1 DEF NoneAbove
  <2> QED BY <1>2, <1>3, <2>1, <2>2 DEF OilConfigured
<1>5. CountIn(ready, Wifi_cfg) = 0
  BY <1>1, <1>4, InListCount
<1> QED BY <1>1, <1>5

LEMMA StepHandsOver ==
  ASSUME CallsDeclared, OilConfigured, Flight, Flight', Booting, Plain, HandsOver,
         [AppNext]_allVars
  PROVE  HandsOver'
<1> USE TaskIds
<1> SUFFICES ASSUME running' = ConfigMode,
                    pc'[ConfigMode] \notin {"enterSys", "sysSchedule"}
             PROVE  activations'[Wifi_cfg] = 0
  BY DEF HandsOver
<1>1. /\ pc \in [Tasks -> {"run", "enterSys", "sysSchedule", "leaveSys", "schedule", "chain"}]
      /\ IInv /\ Ceilings /\ ConfigMode # INVALID_TASK /\ ConfigMode \in Tasks
  BY FlightFacts
<1>2. CASE ~Booted
  <2>1. running \notin Tasks
    BY <1>2, ActiveFacts DEF Booting
  <2>2. running' = running
    BY <1>2, NothingBefore DEF StartOS, allVars, vars
  <2> QED BY <1>1, <2>1, <2>2
<1>3. ASSUME running \in Tasks, NEW saved, Reschedule(saved),
             UNCHANGED <<actPriority, ready, activations>>
      PROVE  activations'[Wifi_cfg] = 0
  <2>1. NoneAbove(running)'
    BY <1>1, <1>3, RescheduleSettles
  <2>2. IsHead(ConfigMode)
    <3>1. IsHead(ConfigMode)'
      BY <1>1 DEF Flight, KernelInv, InvariantRoles, IInv, HeadOfList
    <3> QED BY <1>3, <3>1 DEF IsHead
  <2> QED BY <1>3, <2>1, <2>2, TakesOver
<1>4. CASE Dispatch
  <2>1. NoneAbove(running)' /\ UNCHANGED <<actPriority, ready, activations>>
    BY <1>1, <1>4, DispatchSettles DEF Dispatch
  <2>2. IsHead(ConfigMode)
    <3>1. IsHead(ConfigMode)'
      BY <1>1 DEF Flight, KernelInv, InvariantRoles, IInv, HeadOfList
    <3> QED BY <2>1, <3>1 DEF IsHead
  <2> QED BY <2>1, <2>2, TakesOver
<1>5. ASSUME Booted, running = ConfigMode, pc'[ConfigMode] = pc[ConfigMode],
             ~(Body /\ running = ConfigMode)
      PROVE  activations'[Wifi_cfg] = 0
  <2>1. activations[Wifi_cfg] = 0
    BY <1>5 DEF HandsOver
  <2>2. /\ Wifi_cfg \notin {Wifi_tst, brushlUpdate, IMUUpdate} /\ Wifi_cfg \notin alarms
        /\ running # Wifi_cfg
    BY <1>5 DEF InitTask, StartupConfig, ConfigMode, Wifi_cfg, Brushless_tst, IMU_tst,
                Wifi_tst, brushlUpdate, IMUUpdate, wifiTask, batteryUpdate, Flight, Devices
  <2> QED BY <1>5, <2>1, <2>2, OnlyActivated
<1>6. CASE Body
  <2>1. PICK t \in OilTasks : running = t /\ Calls(t)
    BY <1>6, MoverRuns DEF Moves
  <2>2. t = ConfigMode /\ pc[t] = "run"
    BY <1>1, <2>1
       DEF Calls, At, ActivateTask, TerminateTask, Finish, ChainTask, WaitEvent, ClearEvent,
           GetResource, ReleaseResource, Return
  <2>3. activations[Wifi_cfg] = 0
    BY <2>1, <2>2 DEF HandsOver
  <2>4. ~ \E u \in Activated(t) : ActivateTask(t, u) /\ u \in Tasks /\ ActivationAllowed(u)
    BY <1>1, <2>2 DEF ActivateTask, OilConfigured
  <2>5. ~TerminateTask(t) \/ UNCHANGED activations
    BY <1>1, <2>2 DEF TerminateTask, Finish, Return
  <2>6. UNCHANGED activations
    BY <2>1, <2>2, <2>4, <2>5
       DEF Calls, ActivateTask, ChainTask, WaitEvent, ClearEvent, Return,
           taskVars, ConfigMode, InitTask, Wifi_tst
  <2> QED BY <2>3, <2>6
<1>7. ASSUME NEW t \in Tasks, Kernel(t)
      PROVE  activations'[Wifi_cfg] = 0
  <2>1. CASE SysSchedule(t)
    <3>1. running \in Tasks /\ (\E saved : Reschedule(saved))
          /\ UNCHANGED <<actPriority, ready, activations>>
      BY <2>1 DEF SysSchedule, At
    <3> QED BY <1>3, <3>1
  <2>2. CASE LeaveSys(t)
    <3>1. running = ConfigMode /\ t = ConfigMode /\ UNCHANGED activations /\ pc[t] = "leaveSys"
      BY <2>2 DEF LeaveSys, At, taskVars
    <3> QED BY <3>1 DEF HandsOver
  <2>3. CASE EnterSys(t)
    BY <1>1, <2>3 DEF EnterSys, At
  <2>4. ~Chain(t)
    BY <1>1 DEF Chain, Finish
  <2>5. ~Schedule(t, "schedule")
    BY <1>7 DEF Schedule, At, Plain
  <2> QED BY <1>7, <2>1, <2>2, <2>3, <2>4, <2>5 DEF Kernel
<1>8. CASE IsrExit
  <2>1. CASE \E saved : running \in Tasks /\ Reschedule(saved)
    BY <1>3, <1>8, <2>1 DEF IsrExit
  <2>2. CASE running' = running
    <3>1. pc' = pc /\ UNCHANGED activations
      BY <1>8 DEF IsrExit
    <3> QED BY <2>2, <3>1 DEF HandsOver
  <2>3. IsrReschedules => running \in Tasks
    BY ConfigAssumption DEF IsrReschedules
  <2> QED BY <1>8, <2>1, <2>2, <2>3 DEF IsrExit
<1>9. CASE ~Body /\ ~Dispatch /\ ~IsrExit /\ ~ \E t \in Tasks : Kernel(t)
  <2>1. running' = running /\ pc' = pc
    BY <1>9 DEF AppNext, Thread, StartOS, IsrEnter, DataReady, Transmitted, Expires,
                IsrActivateTask, IsrSetEvent, Return, allVars, vars
  <2> QED BY <1>2, <1>5, <1>9, <2>1
<1> QED BY <1>4, <1>6, <1>7, <1>8, <1>9

\* The test of the inertial unit, when it waits for room on the line, has not been
\* told that there is some, and it is the only one that waits.
Told ==
  ~hook =>
    /\ blocked \in {INVALID_TASK, IMU_tst}
    /\ blocked = IMU_tst => state[IMU_tst] = "WAITING" /\ at[IMU_tst] = "woken"
    /\ "POSIXE" \in events[IMU_tst] => at[IMU_tst] = "woken" /\ blocked = INVALID_TASK

\* Nobody else sets events.
LEMMA OnlyLineTells ==
  ASSUME CallsDeclared, Flight, [AppNext]_allVars, ~Transmitted, NEW u \in OilTasks
  PROVE  events'[u] \subseteq events[u]
<1> USE TaskIds
<1>1. events \in [Tasks -> SUBSET Events] /\ u \in Tasks
  BY FlightFacts
<1>2. ASSUME NEW v, Activate(v)
      PROVE  events'[u] \subseteq events[u]
  BY <1>1, <1>2 DEF Activate
<1>3. CASE UNCHANGED events
  BY <1>3
<1>4. CASE Body
  <2>1. PICK t \in OilTasks : running = t /\ Calls(t)
    BY <1>4, MoverRuns DEF Moves
  <2>2. CASE ClearEvent(t, {"POSIXE"})
    BY <1>1, <2>2 DEF ClearEvent, Return
  <2>3. CASE ~ClearEvent(t, {"POSIXE"})
    BY <1>2, <1>3, <2>1, <2>3
       DEF Calls, ActivateTask, TerminateTask, ChainTask, WaitEvent, GetResource,
           ReleaseResource, Return, taskVars
  <2> QED BY <2>2, <2>3
<1>5. ASSUME NEW t \in Tasks, Kernel(t)
      PROVE  events'[u] \subseteq events[u]
  <2>1. CASE Chain(t)
    BY <1>1, <2>1 DEF Chain
  <2>2. CASE ~Chain(t)
    BY <1>3, <1>5, <2>2 DEF Kernel, EnterSys, SysSchedule, LeaveSys, Schedule, taskVars
  <2> QED BY <2>1, <2>2
<1>6. CASE StartOS \/ Dispatch \/ IsrEnter \/ IsrExit
  BY <1>2, <1>3, <1>6 DEF StartOS, Dispatch, IsrEnter, IsrExit, taskVars
<1>7. ASSUME NEW v, IsrActivateTask(v)
      PROVE  events'[u] \subseteq events[u]
  BY <1>2, <1>3, <1>7 DEF IsrActivateTask, Return
<1>8. CASE UNCHANGED allVars
  BY <1>3, <1>8 DEF allVars, vars
<1> QED BY <1>4, <1>5, <1>6, <1>7, <1>8 DEF AppNext, Thread, DataReady, Expires

\* Who registers with the line.
LEMMA OnlyWaitersRegister ==
  ASSUME CallsDeclared, OilConfigured, Flight, Plain, [AppNext]_allVars, ~Transmitted, ~hook',
         ~(Body /\ running = IMU_tst)
  PROVE  blocked' = blocked
<1>1. ASSUME NEW t \in {ConfigMode, Wifi_cfg}, NEW place, WaitsForRoom(t, place)
      PROVE  FALSE
  <2>1. t \notin Extended
    BY TaskIds DEF OilConfigured, OilExtended, ConfigMode, Wifi_cfg
  <2>2. error' = "E_OS_ACCESS"
    BY <1>1, <2>1 DEF WaitsForRoom, WaitEvent, Return
  <2> QED BY <1>1, <2>2 DEF WaitsForRoom, Continue
<1>2. IMUTstStep => Body /\ running = IMU_tst
  BY BodyMoves DEF Body, Moves, Calls, At
<1>3. CASE Body
  BY <1>1, <1>2, <1>3
     DEF Body, InitTaskStep, StartupConfigStep, ConfigModeStep, WifiCfgStep, WifiTstStep,
         PeriodicStep, wifiTaskStep, IMUUpdateStep, SetBatteryAlarm, StartServer, SetBusy,
         Ends, WaitsForData, data
<1>4. CASE ~Body
  BY <1>4 DEF AppNext, Thread, DataReady, Expires, data, appVars, allVars
<1> QED BY <1>3, <1>4

LEMMA StepTold ==
  ASSUME CallsDeclared, OilConfigured, Flight, Plain, Told, [AppNext]_allVars
  PROVE  Told'
<1> USE TaskIds
<1> SUFFICES ASSUME ~hook'
             PROVE  /\ blocked' \in {INVALID_TASK, IMU_tst}
                    /\ blocked' = IMU_tst => state'[IMU_tst] = "WAITING" /\ at'[IMU_tst] = "woken"
                    /\ "POSIXE" \in events'[IMU_tst] =>
                         at'[IMU_tst] = "woken" /\ blocked' = INVALID_TASK
  BY DEF Told
<1>1. /\ ~hook /\ blocked \in {INVALID_TASK, IMU_tst} /\ INVALID_TASK # IMU_tst
      /\ blocked = IMU_tst => state[IMU_tst] = "WAITING" /\ at[IMU_tst] = "woken"
      /\ "POSIXE" \in events[IMU_tst] => at[IMU_tst] = "woken" /\ blocked = INVALID_TASK
      /\ running = IMU_tst => state[IMU_tst] # "WAITING"
  BY BodyMovesOne, ActiveFacts DEF Told
<1>2. CASE Transmitted
  BY <1>1, <1>2 DEF Transmitted
<1>3. CASE Body /\ running = IMU_tst
  <2>1. IMUTstStep /\ error' = "E_OK" /\ blocked = INVALID_TASK
    BY <1>1, <1>3, MoverRuns, BodyMovesOne
  <2>2. /\ state \in [Tasks -> {"SUSPENDED", "READY", "RUNNING", "WAITING"}]
        /\ events \in [Tasks -> SUBSET Events]
    BY FlightFacts
  <2>3. CASE WaitsForRoom(IMU_tst, "begin")
    <3>1. at[IMU_tst] = "begin" /\ WaitEvent(IMU_tst, {"POSIXE"}) /\ at'[IMU_tst] = "woken"
      BY <2>1, <2>3, NotReported DEF WaitsForRoom
    <3>2. state'[IMU_tst] = "WAITING" /\ UNCHANGED events
      BY <1>1, <2>1, <2>2, <3>1 DEF WaitEvent, Return
    <3> QED BY <1>1, <2>3, <3>1, <3>2 DEF WaitsForRoom
  <2>4. CASE at[IMU_tst] = "woken" /\ ClearEvent(IMU_tst, {"POSIXE"})
             /\ Continue(IMU_tst, "begin") /\ UNCHANGED data
    <3>1. "POSIXE" \notin events'[IMU_tst]
      BY <2>1, <2>2, <2>4 DEF ClearEvent, Return, OilConfigured
    <3> QED BY <1>1, <2>1, <2>4, <3>1 DEF data
  <2>5. CASE Ends(IMU_tst, "begin")
    <3>1. at[IMU_tst] = "begin" /\ UNCHANGED <<events, blocked>>
      BY <2>5 DEF Ends, TerminateTask, Return, data
    <3> QED BY <1>1, <2>1, <3>1
  <2> QED BY <2>1, <2>3, <2>4, <2>5 DEF IMUTstStep
<1>4. CASE ~Transmitted /\ ~(Body /\ running = IMU_tst)
  <2>1. blocked' = blocked /\ events'[IMU_tst] \subseteq events[IMU_tst]
    BY <1>4, OnlyWaitersRegister, OnlyLineTells
  <2>2. at'[IMU_tst] = at[IMU_tst]
    BY <1>4, BodyMovesOne
  <2>3. state[IMU_tst] = "WAITING" => state'[IMU_tst] = "WAITING"
    BY <1>4, OnlyLineWakes
  <2> QED BY <1>1, <2>1, <2>2, <2>3
<1> QED BY <1>2, <1>3, <1>4

\* The sensor's interrupt finds its task idle, unless it comes between DRDY = 1
\* and the end of the task; before the sensor is set up it does not come.
Unset ==
  \/ ~Booted
  \/ /\ activations[InitTask] # 0
     /\ at[InitTask] \in {"begin", "open", "opened", "release", "sensor"}
Armed ==
  ~hook =>
    /\ drdy => activations[IMUUpdate] = 0 \/ at[IMUUpdate] = "end"
    /\ Unset => activations[IMUUpdate] = 0 /\ ~drdy

\* Steps of the task that sets the sensor up.
LEMMA ArmedInit ==
  ASSUME CallsDeclared, OilConfigured, Flight, Armed, [AppNext]_allVars,
         Body, running = InitTask
  PROVE  Armed'
<1> USE TaskIds
<1> SUFFICES ASSUME ~hook'
             PROVE  /\ drdy' => activations'[IMUUpdate] = 0 \/ at'[IMUUpdate] = "end"
                    /\ Unset' => activations'[IMUUpdate] = 0 /\ ~drdy'
  BY DEF Armed
<1>1. InitTaskStep /\ Booted /\ Booted' /\ ~hook /\ error' = "E_OK"
  BY MoverRuns, BodyMovesOne, AppKinds
<1>2. activations \in [Tasks -> Int] /\ activations[InitTask] = 1
  <2>1. activations[InitTask] >= 1 /\ activations[InitTask] <= 1
    BY ActiveFacts DEF OilConfigured
  <2> QED BY <2>1, FlightFacts
<1>3. activations'[IMUUpdate] = activations[IMUUpdate] /\ at'[IMUUpdate] = at[IMUUpdate]
  <2>1. running # IMUUpdate /\ IMUUpdate \notin Activated(running) /\ IMUUpdate \notin alarms
        /\ IMUUpdate \notin {Wifi_tst, brushlUpdate} /\ ~DataReady
    BY <1>1, BodyMovesOne
       DEF Activated, InitTask, StartupConfig, ConfigMode, Wifi_tst, brushlUpdate, IMUUpdate,
           wifiTask, batteryUpdate, Flight, Devices, DataReady, IsrActivateTask
  <2> QED BY <1>1, <2>1, OnlyActivated, BodyMovesOne
<1>4. CASE Passes(InitTask, "sensor", "wifi")
  <2>1. at[InitTask] = "sensor" /\ at'[InitTask] = "wifi"
    BY <1>4, NotReported DEF Passes, Here
  <2> QED BY <1>1, <1>2, <1>3, <2>1 DEF Armed, Unset
<1>5. CASE Ends(InitTask, "end")
  <2>1. activations'[InitTask] = 0 /\ drdy' = drdy
    BY <1>1, <1>2, <1>5 DEF Ends, TerminateTask, Return, data
  <2> QED BY <1>1, <1>3, <2>1 DEF Armed, Unset
<1>6. CASE ~Passes(InitTask, "sensor", "wifi") /\ ~Ends(InitTask, "end")
  <2>1. PICK next : Continue(InitTask, next) /\ drdy' = drdy /\ next # "begin"
                    /\ (next \in {"open", "opened", "release", "sensor"} =>
                          at[InitTask] \in {"begin", "open", "opened", "release"})
    BY <1>1, <1>6 DEF InitTaskStep, SetBatteryAlarm, Passes, WaitsForData, data
  <2>2. at'[InitTask] = next
    BY <2>1, NotReported
  <2>3. Unset' => Unset
    BY <1>1, <1>2, <2>1, <2>2 DEF Unset
  <2> QED BY <1>1, <1>3, <2>1, <2>3 DEF Armed
<1> QED BY <1>4, <1>5, <1>6

LEMMA StepArmed ==
  ASSUME CallsDeclared, OilConfigured, SensorExtended, Flight, Booting, Armed, [AppNext]_allVars
  PROVE  Armed'
<1> USE TaskIds
<1> SUFFICES ASSUME ~hook', ~(Body /\ running = InitTask)
             PROVE  /\ drdy' => activations'[IMUUpdate] = 0 \/ at'[IMUUpdate] = "end"
                    /\ Unset' => activations'[IMUUpdate] = 0 /\ ~drdy'
  BY ArmedInit DEF Armed
<1>1. /\ ~hook
      /\ drdy => activations[IMUUpdate] = 0 \/ at[IMUUpdate] = "end"
      /\ Unset => activations[IMUUpdate] = 0 /\ ~drdy
  BY BodyMovesOne DEF Armed
<1>2. CASE ~Booted
  <2>1. CASE UNCHANGED allVars
    BY <1>1, <2>1 DEF Unset, Booted, allVars, vars, appVars, data
  <2>2. CASE StartOS /\ UNCHANGED appVars
    <3>2. activations' = [activations EXCEPT ![InitTask] = @ + 1] \/ UNCHANGED activations
      BY <2>2, StartsInit
    <3>3. activations \in [Tasks -> Int] /\ activations[IMUUpdate] = 0
      BY <1>2, FlightFacts DEF Booting
    <3>4. activations'[IMUUpdate] = 0
      BY <3>2, <3>3 DEF InitTask, IMUUpdate
    <3> QED BY <1>1, <1>2, <2>2, <3>4 DEF Unset, appVars, data
  <2> QED BY <1>2, <2>1, <2>2, NothingBefore
<1>3. Booted => (Unset' <=> Unset)
  <2> SUFFICES ASSUME Booted PROVE Unset' <=> Unset
    OBVIOUS
  <2>1. InitTask \notin {Wifi_tst, brushlUpdate, IMUUpdate} /\ InitTask \notin alarms
        /\ (Body => InitTask \notin Activated(running))
    BY DEF Activated, InitTask, StartupConfig, ConfigMode, Wifi_cfg, Brushless_tst, IMU_tst,
           Wifi_tst, brushlUpdate, IMUUpdate, wifiTask, batteryUpdate, Flight, Devices
  <2>2. activations'[InitTask] = activations[InitTask] /\ at'[InitTask] = at[InitTask]
    BY <2>1, OnlyActivated, BodyMovesOne
  <2> QED BY <2>2, AppKinds DEF Unset
<1>4. CASE Booted /\ DataReady
  BY <1>1, <1>3, <1>4 DEF DataReady
<1>5. CASE Booted /\ Body /\ running = IMUUpdate
  <2>1. IMUUpdateStep /\ error' = "E_OK"
    BY <1>5, MoverRuns, BodyMovesOne
  <2>2. activations \in [Tasks -> Int] /\ activations[IMUUpdate] = 1
    <3>1. IMUUpdate \in Extended /\ MaxActivations[IMUUpdate] = 1
      BY DEF SensorExtended, OilConfigured
    <3>2. activations[IMUUpdate] >= 1 /\ activations[IMUUpdate] <= 1
      BY <1>5, <3>1, ActiveFacts
    <3> QED BY <3>2, FlightFacts
  <2>3. CASE Passes(IMUUpdate, "begin", "end") /\ drdy' = TRUE
    <3>1. at'[IMUUpdate] = "end"
      BY <2>3, NotReported DEF Passes
    <3> QED BY <1>1, <1>3, <1>5, <2>2, <3>1
  <2>4. CASE Ends(IMUUpdate, "end")
    <3>1. activations'[IMUUpdate] = 0 /\ drdy' = drdy
      BY <2>1, <2>2, <2>4 DEF Ends, TerminateTask, Return, data
    <3> QED BY <1>1, <1>3, <1>5, <3>1
  <2> QED BY <2>1, <2>3, <2>4 DEF IMUUpdateStep
<1>6. CASE Booted /\ ~DataReady /\ ~(Body /\ running = IMUUpdate)
  <2>1. /\ IMUUpdate \notin {Wifi_tst, brushlUpdate} /\ IMUUpdate \notin alarms
        /\ (Body => IMUUpdate \notin Activated(running))
    BY DEF Activated, InitTask, StartupConfig, ConfigMode, Wifi_cfg, Brushless_tst, IMU_tst,
           Wifi_tst, brushlUpdate, IMUUpdate, wifiTask, batteryUpdate, Flight, Devices
  <2>2. activations'[IMUUpdate] = activations[IMUUpdate] /\ at'[IMUUpdate] = at[IMUUpdate]
    BY <1>6, <2>1, OnlyActivated, BodyMovesOne
  <2>3. drdy' = drdy
    <3>1. CASE ~Body
      BY <1>6, <3>1 DEF AppNext, Thread, Transmitted, Expires, data, appVars, allVars
    <3>2. CASE Body
      <4>1. /\ InitTaskStep => running = InitTask
            /\ IMUUpdateStep => running = IMUUpdate
        BY BodyMoves DEF Moves, Calls, At
      <4> QED BY <1>6, <3>2, <4>1
              DEF Body, StartupConfigStep, ConfigModeStep, WifiCfgStep, IMUTstStep, WifiTstStep,
                  PeriodicStep, wifiTaskStep, StartServer, SetBusy, Ends, Passes, WaitsForRoom,
                  WaitsForData, data
    <3> QED BY <3>1, <3>2
  <2> QED BY <1>1, <1>3, <1>6, <2>2, <2>3
<1> QED BY <1>2, <1>4, <1>5, <1>6

-----------------------------------------------------------------------------
(* What fails.                                                             *)

Orderly ==
  Idle /\ Booting /\ Plain /\ Once /\ Duties /\ HandsOver /\ Told /\ Armed

LEMMA InvariantOrderly ==
  ASSUME CallsDeclared, ChainedApart, UsersOnce, SensorExtended, TestsAlike, OilConfigured
  PROVE  AppSpec => [](Flight /\ Orderly)
<1>1. AppInit => Orderly
  <2> SUFFICES ASSUME AppInit PROVE Orderly
    OBVIOUS
  <2> USE TaskIds, PairFacts DEF AppInit, Init
  <2>1. Idle /\ Booting /\ Plain
    BY DEF Idle, Booting, Plain
  <2>2. Once
    BY DEF Once, HeldAt
  <2>3. Duties /\ HandsOver /\ Told /\ Armed
    BY DEF Duties, InOrder, HandsOver, Told, Armed
  <2> QED BY <2>1, <2>2, <2>3 DEF Orderly
<1>2. Flight /\ Flight' /\ Orderly /\ [AppNext]_allVars => Orderly'
  <2> SUFFICES ASSUME Flight, Flight', Orderly, [AppNext]_allVars
               PROVE  Orderly'
    OBVIOUS
  <2>1. Idle' /\ Booting' /\ Plain' /\ Once'
    BY StepIdleTasks, StepBooting, StepPlain, StepOnce DEF Orderly
  <2>2. Duties' /\ HandsOver' /\ Told' /\ Armed'
    BY StepDuties, StepHandsOver, StepTold, StepArmed DEF Orderly
  <2> QED BY <2>1, <2>2 DEF Orderly
<1> QED BY <1>1, <1>2, InvariantFlight, PTL DEF AppSpec

\* An activation that fails finds the one that is allowed.
LEMMA RefusedHasOne ==
  ASSUME CallsDeclared, OilConfigured, Flight, Idle, NEW u \in OilTasks, ~ActivationAllowed(u)
  PROVE  activations[u] = 1
<1>1. u \in Tasks /\ activations[u] \in Nat /\ activations[u] <= 1
  BY TaskIds, ActiveFacts DEF OilConfigured
<1>2. activations[u] # 0
  BY <1>1 DEF ActivationAllowed, Idle
<1> QED BY <1>1, <1>2

\* What is not called with a resource does not fail for it.
LEMMA EndNotRefused ==
  ASSUME NEW t, resources[t] = {}, TerminateTask(t)
  PROVE  error' = "E_OK"
BY DEF TerminateTask

\* The calls of the start.
LEMMA StartSucceeds ==
  ASSUME CallsDeclared, OilConfigured, Flight, Orderly, ~hook, error' # "E_OK",
         InitTaskStep \/ StartupConfigStep, [AppNext]_allVars
  PROVE  KnownFailure
<1> USE TaskIds
<1>1. /\ resources[InitTask] = HeldAt(at[InitTask])
      /\ ~InitOver => activations[StartupConfig] = 0
      /\ ~StartOver => activations[ConfigMode] = 0
      /\ resources[StartupConfig] = {}
  BY DEF Orderly, Once, Plain, InitTask, StartupConfig
<1>2. CASE InitTaskStep
  <2>1. running = InitTask
    BY <1>2, BodyMoves DEF Moves, Calls, At
  <2>2. activations[InitTask] # 0
    BY <2>1, ActiveFacts
  <2>3. ~(at[InitTask] = "begin" /\ GetResource(InitTask, BRUSHLESSR))
    BY <1>1 DEF GetResource, HeldAt, OilConfigured
  <2>4. ~(at[InitTask] = "open" /\ GetResource(InitTask, POSIXR))
    BY <1>1 DEF GetResource, HeldAt, OilConfigured, POSIXR, BRUSHLESSR
  <2>5. ~(at[InitTask] = "opened" /\ ReleaseResource(InitTask, POSIXR))
    BY <1>1 DEF ReleaseResource, HeldAt
  <2>6. ~(at[InitTask] = "release" /\ ReleaseResource(InitTask, BRUSHLESSR))
    BY <1>1 DEF ReleaseResource, HeldAt
  <2>7. \A place, next : ~Passes(InitTask, place, next)
    BY DEF Passes, Return
  <2>8. ~(at[InitTask] = "activate" /\ ActivateTask(InitTask, StartupConfig))
    <3> SUFFICES ASSUME at[InitTask] = "activate", ActivateTask(InitTask, StartupConfig)
                 PROVE  FALSE
      OBVIOUS
    <3>1. activations[StartupConfig] = 0
      BY <1>1, <2>2 DEF InitOver
    <3>2. ActivationAllowed(StartupConfig)
      BY <3>1, RefusedHasOne DEF Orderly
    <3> QED BY <3>2 DEF ActivateTask
  <2>9. ~Ends(InitTask, "end")
    BY <1>1, EndNotRefused DEF Ends, HeldAt
  <2>10. WaitsForData(InitTask, "command")
    BY <1>2, <2>3, <2>4, <2>5, <2>6, <2>7, <2>8, <2>9 DEF InitTaskStep, SetBatteryAlarm
  <2>11. resources[InitTask] = {}
    BY <1>1, <2>10 DEF WaitsForData, HeldAt
  <2>12. WaitEvent(InitTask, {"POSIXE"}) /\ InitTask \notin Extended
    BY <2>10, <2>11 DEF WaitsForData, WaitEvent, Return
  <2> QED BY <2>12 DEF KnownFailure
<1>3. CASE StartupConfigStep
  <2>1. running = StartupConfig
    BY <1>3, BodyMoves DEF Moves, Calls, At
  <2>2. activations[StartupConfig] # 0
    BY <2>1, ActiveFacts
  <2>3. \A place : ~Ends(StartupConfig, place)
    BY <1>1, EndNotRefused DEF Ends
  <2>4. at[StartupConfig] = "begin" /\ ActivateTask(StartupConfig, ConfigMode)
    BY <1>3, <2>3 DEF StartupConfigStep
  <2>5. activations[ConfigMode] = 0
    BY <1>1, <2>2, <2>4 DEF StartOver
  <2>6. ActivationAllowed(ConfigMode)
    BY <2>5, RefusedHasOne DEF Orderly
  <2> QED BY <2>4, <2>6 DEF ActivateTask
<1> QED BY <1>2, <1>3

\* Those of the configuration, and of what waits for the USB line.
LEMMA ConfigFails ==
  ASSUME CallsDeclared, OilConfigured, Flight, Orderly, ~hook, error' # "E_OK",
         ConfigModeStep \/ WifiCfgStep \/ IMUTstStep
  PROVE  KnownFailure
<1> USE TaskIds
<1>1. \A t \in {ConfigMode, Wifi_cfg, IMU_tst} : resources[t] = {}
  BY DEF Orderly, Plain, InitTask, ConfigMode, Wifi_cfg, IMU_tst
<1>2. \A t, place, next : ~Passes(t, place, next)
  BY DEF Passes, Return
<1>3. \A t \in {ConfigMode, Wifi_cfg, IMU_tst} : \A place : ~Ends(t, place)
  BY <1>1, EndNotRefused DEF Ends
<1>4. ASSUME NEW t \in {ConfigMode, Wifi_cfg, IMU_tst}, WaitEvent(t, {"POSIXE"})
      PROVE  KnownFailure
  <2>1. t \notin Extended
    BY <1>1, <1>4 DEF WaitEvent, Return
  <2> QED BY <1>4, <2>1 DEF KnownFailure
<1>5. ASSUME NEW test \in {Wifi_cfg, Brushless_tst, IMU_tst}, ActivateTask(ConfigMode, test)
      PROVE  KnownFailure
  <2>1. /\ At(ConfigMode, "run") /\ ~ActivationAllowed(test)
    BY <1>5 DEF ActivateTask
  <2>2. activations[test] = 1
    BY <2>1, RefusedHasOne DEF Orderly
  <2>3. test # Wifi_cfg
    BY <2>1, <2>2 DEF Orderly, HandsOver, At
  <2> QED BY <1>5, <2>2, <2>3 DEF KnownFailure
<1>6. ~ClearEvent(IMU_tst, {"POSIXE"})
  BY DEF ClearEvent, OilConfigured, OilExtended, IMU_tst, InitTask, StartupConfig, ConfigMode,
         Wifi_cfg
<1>7. CASE ConfigModeStep
  <2>1. ~StartServer
    BY DEF StartServer, Return
  <2> QED BY <1>2, <1>4, <1>5, <1>7, <2>1 DEF ConfigModeStep, WaitsForData, WaitsForRoom
<1>8. CASE WifiCfgStep
  BY <1>2, <1>3, <1>4, <1>8 DEF WifiCfgStep, WaitsForRoom
<1>9. CASE IMUTstStep
  BY <1>2, <1>3, <1>4, <1>6, <1>9 DEF IMUTstStep, WaitsForRoom
<1> QED BY <1>7, <1>8, <1>9

\* Those of the periodic tasks and of the test that chains the new duties.
LEMMA PeriodicSucceeds ==
  ASSUME CallsDeclared, TestsAlike, OilConfigured, Flight, Orderly, error' # "E_OK",
         WifiTstStep \/ PeriodicStep
  PROVE  FALSE
<1> USE TaskIds
<1>1. \A t \in {Wifi_tst, wifiTask, IMUUpdate, batteryUpdate, brushlUpdate} : resources[t] = {}
  BY DEF Orderly, Plain, InitTask, Wifi_tst, wifiTask, IMUUpdate, batteryUpdate, brushlUpdate
<1>2. \A t, place, next : ~Passes(t, place, next)
  BY DEF Passes, Return
<1>3. \A t \in {Wifi_tst, wifiTask, IMUUpdate, batteryUpdate, brushlUpdate} :
        \A place : ~Ends(t, place)
  BY <1>1, EndNotRefused DEF Ends
<1>4. ~ChainTask(Wifi_tst, brushlUpdate)
  <2> SUFFICES ASSUME ChainTask(Wifi_tst, brushlUpdate) PROVE FALSE
    OBVIOUS
  <2>1. ~ChainAllowed(Wifi_tst, brushlUpdate) /\ running = Wifi_tst
    BY <1>1 DEF ChainTask, At
  <2>2. IsHead(Wifi_tst) /\ ready[CheckList] \in Seq(Tasks)
    BY <2>1, PairFacts, FlightFacts
  <2>3. ready[CheckList] # <<>> /\ ready[CheckList][1] = Wifi_tst
    BY <2>2, PairFacts DEF IsHead
  <2>4. ~ \E i \in DOMAIN ready[CheckList] : ready[CheckList][i] = brushlUpdate
    BY <2>2, <2>3 DEF Orderly, Duties, InOrder
  <2>5. CountIn(ready, brushlUpdate) = 0
    <3>1. StaticPriority[brushlUpdate] = CheckList
      BY PairFacts DEF OilConfigured
    <3>2. CountIn(ready, brushlUpdate) = Cardinality(Places(ready[CheckList], brushlUpdate))
      BY <3>1 DEF CountIn
    <3> QED BY <2>2, <2>4, <3>2, PlacesFinite, PlacesNonEmpty
  <2>6. activations[brushlUpdate] = 0 /\ MaxActivations[brushlUpdate] = 1
    BY <2>5, ActiveFacts DEF Orderly, Duties, OilConfigured
  <2> QED BY <2>1, <2>6 DEF ChainAllowed
<1>5. ~(at[wifiTask] = "begin" /\ ActivateTask(wifiTask, Wifi_tst))
  <2> SUFFICES ASSUME at[wifiTask] = "begin", ActivateTask(wifiTask, Wifi_tst) PROVE FALSE
    OBVIOUS
  <2>1. Here(wifiTask, "begin")
    BY DEF Here, ActivateTask
  <2>2. activations[Wifi_tst] = 0
    BY <2>1, TestEnded DEF TestEndsFirst
  <2>3. ActivationAllowed(Wifi_tst)
    BY <2>2, RefusedHasOne DEF Orderly
  <2> QED BY <2>3 DEF ActivateTask
<1> QED BY <1>2, <1>3, <1>4, <1>5
        DEF WifiTstStep, SetBusy, PeriodicStep, wifiTaskStep, IMUUpdateStep

\* Those of the interrupts and alarms.
LEMMA HandlerFails ==
  ASSUME CallsDeclared, SensorExtended, OilConfigured, Flight, Orderly, ~hook, error' # "E_OK",
         DataReady \/ Transmitted \/ \E u \in alarms : Expires(u)
  PROVE  KnownFailure
<1> USE TaskIds
<1>1. CASE DataReady
  <2>1. ~ActivationAllowed(IMUUpdate) /\ drdy
    BY <1>1 DEF DataReady, IsrActivateTask
  <2>2. activations[IMUUpdate] = 1
    BY <2>1, RefusedHasOne DEF Orderly
  <2> QED BY <1>1, <2>1, <2>2 DEF Orderly, Armed, KnownFailure
<1>2. CASE Transmitted
  <2>1. blocked = IMU_tst /\ state[IMU_tst] = "WAITING"
    BY <1>2 DEF Transmitted, Orderly, Told
  <2>2. SetEventError(IMU_tst) = "E_OK"
    BY <2>1 DEF SetEventError, OilConfigured, OilExtended, IMU_tst, InitTask, StartupConfig,
                ConfigMode, Wifi_cfg
  <2> QED BY <1>2, <2>1, <2>2 DEF Transmitted, IsrSetEvent
<1>3. ASSUME NEW u \in alarms, Expires(u)
      PROVE  KnownFailure
  <2>1. ~ActivationAllowed(u) /\ u \in OilTasks
    BY <1>3 DEF Expires, IsrActivateTask, Flight, Devices
  <2>2. activations[u] = 1 /\ state[u] # "SUSPENDED"
    BY <2>1, RefusedHasOne DEF Orderly, ActivationAllowed
  <2> QED BY <1>3, <2>1, <2>2 DEF Expires, KnownFailure
<1> QED BY <1>1, <1>2, <1>3

LEMMA StepFails ==
  ASSUME CallsDeclared, SensorExtended, TestsAlike, OilConfigured, Flight, Orderly, AppNext,
         ~hook, error' # "E_OK"
  PROVE  KnownFailure
<1> USE TaskIds
<1>1. CASE StartOS
  <2>1. AutoStart[boot + 1] = InitTask /\ ~Booted
    BY <1>1, StartsInit
  <2>2. activations[InitTask] = 0
    BY <2>1 DEF Orderly, Booting
  <2>3. ActivationAllowed(InitTask)
    BY <2>2, RefusedHasOne DEF Orderly
  <2> QED BY <1>1, <2>1, <2>3 DEF StartOS
<1>2. CASE IsrEnter \/ IsrExit \/ Dispatch
  BY <1>2 DEF IsrEnter, IsrExit, Dispatch
<1>3. ASSUME NEW t \in Tasks, Kernel(t)
      PROVE  KnownFailure
  BY <1>3 DEF Kernel, EnterSys, SysSchedule, LeaveSys, Chain, Schedule, At, Orderly, Plain
<1>4. CASE Body
  BY <1>4, StartSucceeds, ConfigFails, PeriodicSucceeds DEF Body
<1>5. CASE DataReady \/ Transmitted \/ \E u \in alarms : Expires(u)
  BY <1>5, HandlerFails
<1> QED BY <1>1, <1>2, <1>3, <1>4, <1>5 DEF AppNext, Thread

\* ErrorHook stops the program only for the failures that are known: whatever
\* interrupts, alarms and preemptions come, no call of the start, no chain, no
\* activation of the two tests of the wireless line and no signal of the USB line
\* is ever refused.
THEOREM OnlyKnownFailures ==
  ASSUME CallsDeclared, ChainedApart, UsersOnce, SensorExtended, TestsAlike, OilConfigured
  PROVE  AppSpec => KnownFailures
<1>1. Flight /\ Orderly /\ [AppNext]_allVars
        => [error' # "E_OK" /\ ~hook => KnownFailure]_allVars
  BY StepFails
<1> QED BY <1>1, InvariantOrderly, PTL DEF AppSpec, KnownFailures

=============================================================================
