------------------------------ MODULE CDRonApp ------------------------------
(***************************************************************************)
(* The flight application, proyects/CDRon, on the kernel of module Osek:   *)
(* the tasks and priorities of CDRon.oil, the bodies of its tasks, the     *)
(* alarms and interrupts that activate them, and what its ErrorHook does.  *)
(*                                                                         *)
(* The step of a task's body is the call of a service of the kernel and    *)
(* what the task does before the next call.  On this port ShutdownOS only  *)
(* loops where it was called: it leaves interrupts enabled.                *)
(***************************************************************************)
EXTENDS Osek

\* The tasks in the order of the OIL file.  I2Cerror is left out: its alarm is
\* never set.
InitTask == 0
StartupConfig == 1
wifiTask == 2
brushlUpdate == 3
IMUUpdate == 4
batteryUpdate == 5
ConfigMode == 6
Wifi_cfg == 7
IMU_tst == 8
Wifi_tst == 9
Brushless_tst == 10
POSIXR == 0
BRUSHLESSR == 1

OilTasks == InitTask .. Brushless_tst

\* Priorities 0, 1, 2, 3 and 4, lists in this order.
OilPriority ==
  [t \in OilTasks |->
     CASE t = Brushless_tst -> 0 [] t = InitTask -> 1 [] t = ConfigMode -> 2
       [] t = StartupConfig -> 3 [] OTHER -> 4]
OilExtended == OilTasks \ {InitTask, StartupConfig, ConfigMode, Wifi_cfg}
OilPreemtive == OilTasks \ {InitTask}
OilResources == [t \in OilTasks |-> IF t = InitTask THEN {POSIXR, BRUSHLESSR} ELSE {POSIXR}]

VARIABLES
  at,        \* where the body of each task is
  drdy,      \* IMU.DRDY = 1
  active,    \* IMU.active = 1
  busy,      \* WIFI.busy # 0
  stored,    \* the same in the EEPROM
  server,    \* WIFI.clientID # -2
  alarms,    \* the periodic alarms that are set, each with its task
  blocked,   \* the task that the serial device of the USB line will wake
  hook,      \* ErrorHookRunning
  stuck      \* a handler loops in ErrorHook

data == <<drdy, active, busy, stored, server, alarms, blocked>>
appVars == <<at, data, hook, stuck>>
allVars == <<vars, appVars>>

AppInit ==
  /\ Init
  /\ at = [t \in Tasks |-> "begin"]
  /\ drdy = FALSE /\ active = FALSE /\ busy = FALSE
  /\ stored \in BOOLEAN                  \* from an earlier flight
  /\ server = FALSE
  /\ alarms = {}
  /\ blocked = INVALID_TASK
  /\ hook = FALSE /\ stuck = FALSE

-----------------------------------------------------------------------------
\* Task t has called a service and goes on, or loops for ever in ErrorHook; while
\* it does, the errors of others only return.
Continue(t, place) ==
  /\ at' = [at EXCEPT ![t] = IF error' # "E_OK" /\ ~hook THEN "spin" ELSE place]
  /\ hook' = (hook \/ error' # "E_OK")
  /\ UNCHANGED stuck

\* Task t is at a place of its own code, and no service is called there.
Here(t, place) == At(t, "run") /\ at[t] = place
Passes(t, place, next) == Here(t, place) /\ Return("E_OK") /\ Continue(t, next)

Ends(t, place) ==
  /\ at[t] = place /\ TerminateTask(t) /\ Continue(t, "begin")
  /\ UNCHANGED data

\* The USB line has no room for what t writes: it registers and waits, and
\* tries again after that.
WaitsForRoom(t, place) ==
  /\ at[t] = place /\ WaitEvent(t, {"POSIXE"})
  /\ Continue(t, IF error' = "E_OK" THEN "woken" ELSE place)
  /\ blocked' = t
  /\ UNCHANGED <<drdy, active, busy, stored, server, alarms>>

\* A read that has not asked first whether there are data: a basic task may not
\* wait.
WaitsForData(t, place) ==
  /\ at[t] = place /\ WaitEvent(t, {"POSIXE"}) /\ Continue(t, place)
  /\ UNCHANGED data

-----------------------------------------------------------------------------
(* Start.                                                                   *)

SetBatteryAlarm ==
  /\ Passes(InitTask, "command", "activate") /\ alarms' = alarms \cup {batteryUpdate}
  /\ UNCHANGED <<drdy, active, busy, stored, server, blocked>>

InitTaskStep ==
  \/ /\ at[InitTask] = "begin" /\ GetResource(InitTask, BRUSHLESSR)
     /\ Continue(InitTask, "open") /\ UNCHANGED data
  \/ /\ at[InitTask] = "open" /\ GetResource(InitTask, POSIXR)
     /\ Continue(InitTask, "opened") /\ UNCHANGED data
  \/ /\ at[InitTask] = "opened" /\ ReleaseResource(InitTask, POSIXR)
     /\ Continue(InitTask, "release") /\ UNCHANGED data
  \/ /\ at[InitTask] = "release" /\ ReleaseResource(InitTask, BRUSHLESSR)
     /\ Continue(InitTask, "sensor") /\ UNCHANGED data
  \/ /\ Passes(InitTask, "sensor", "wifi")
     /\ active' \in BOOLEAN /\ drdy' = active'
     /\ UNCHANGED <<busy, stored, server, alarms, blocked>>
  \/ /\ Passes(InitTask, "wifi", "command") /\ busy' = stored
     /\ UNCHANGED <<drdy, active, stored, server, alarms, blocked>>
  \/ WaitsForData(InitTask, "command")
  \/ SetBatteryAlarm
  \/ /\ at[InitTask] = "activate" /\ ActivateTask(InitTask, StartupConfig)
     /\ Continue(InitTask, "end") /\ UNCHANGED data
  \/ Ends(InitTask, "end")

StartupConfigStep ==
  \/ /\ at[StartupConfig] = "begin" /\ ActivateTask(StartupConfig, ConfigMode)
     /\ Continue(StartupConfig, "end") /\ UNCHANGED data
  \/ Ends(StartupConfig, "begin")                        \* the answer is another, or none
  \/ Ends(StartupConfig, "end")

-----------------------------------------------------------------------------
(* Configuration and tests.                                                 *)

\* WIFI_serverTCP returns nothing when it succeeds, and its caller then goes on
\* with any value.
StartServer ==
  /\ Here(ConfigMode, "loop") /\ ~server /\ Return("E_OK")
  /\ \/ server' = TRUE /\ alarms' = alarms \cup {wifiTask} /\ Continue(ConfigMode, "address")
     \/ server' \in BOOLEAN /\ UNCHANGED alarms /\ Continue(ConfigMode, "loop")
  /\ UNCHANGED <<drdy, active, busy, stored, blocked>>

ConfigModeStep ==
  \/ /\ Passes(ConfigMode, "begin", "loop") /\ server' = FALSE
     /\ UNCHANGED <<drdy, active, busy, stored, alarms, blocked>>
  \/ \E test \in {Wifi_cfg, Brushless_tst, IMU_tst} :
       /\ at[ConfigMode] = "loop" /\ ActivateTask(ConfigMode, test)
       /\ Continue(ConfigMode, "loop") /\ UNCHANGED data
  \/ StartServer
  \/ ~server /\ WaitsForData(ConfigMode, "loop")
  \/ server /\ Passes(ConfigMode, "loop", "address") /\ UNCHANGED data
  \/ Passes(ConfigMode, "address", "loop") /\ UNCHANGED data
  \/ WaitsForRoom(ConfigMode, "address")
  \/ Passes(ConfigMode, "loop", "spin") /\ UNCHANGED data \* command 0: ShutdownOS

WifiCfgStep ==
  \/ Ends(Wifi_cfg, "begin")                             \* no data
  \/ WaitsForRoom(Wifi_cfg, "begin")
  \/ Passes(Wifi_cfg, "begin", "save") /\ UNCHANGED data
  \/ /\ Passes(Wifi_cfg, "save", "end") /\ stored' = busy
     /\ UNCHANGED <<drdy, active, busy, server, alarms, blocked>>
  \/ Ends(Wifi_cfg, "end")

IMUTstStep ==
  \/ WaitsForRoom(IMU_tst, "begin")
  \/ /\ at[IMU_tst] = "woken" /\ ClearEvent(IMU_tst, {"POSIXE"})
     /\ Continue(IMU_tst, "begin") /\ UNCHANGED data
  \/ Ends(IMU_tst, "begin")

SetBusy(value, place, next) ==
  /\ Passes(Wifi_tst, place, next) /\ busy' = value
  /\ UNCHANGED <<drdy, active, stored, server, alarms, blocked>>

\* The answers fit into the buffer: they do not wait for room.
WifiTstStepWaits ==                                      \* mutant: they do
  \/ SetBusy(TRUE, "begin", "test")
  \/ WaitsForRoom(Wifi_tst, "test")
  \/ SetBusy(FALSE, "test", "end")
  \/ Ends(Wifi_tst, "end")
WifiTstStep ==
  \/ SetBusy(TRUE, "begin", "test")
  \/ SetBusy(FALSE, "test", "chain")                     \* new duties
  \/ SetBusy(FALSE, "test", "end")
  \/ /\ at[Wifi_tst] = "chain" /\ ChainTask(Wifi_tst, brushlUpdate)
     /\ Continue(Wifi_tst, IF error' = "E_OK" THEN "begin" ELSE "end")
     /\ UNCHANGED data
  \/ Ends(Wifi_tst, "end")

-----------------------------------------------------------------------------
(* Periodic tasks and interrupts.                                           *)

wifiTaskStep ==
  \/ /\ at[wifiTask] = "begin" /\ ~busy /\ ActivateTask(wifiTask, Wifi_tst)
     /\ Continue(wifiTask, "end") /\ UNCHANGED data
  \/ Ends(wifiTask, "begin")                             \* no data, or busy
  \/ Ends(wifiTask, "end")

ArmsFirst ==                                             \* mutant: before it reads
  \/ /\ Passes(IMUUpdate, "begin", "read") /\ drdy' = TRUE
     /\ UNCHANGED <<active, busy, stored, server, alarms, blocked>>
  \/ Passes(IMUUpdate, "read", "end") /\ UNCHANGED data
  \/ Ends(IMUUpdate, "end")
NeverArms == Ends(IMUUpdate, "begin")                    \* mutant: not armed again
IMUUpdateStep ==
  \/ /\ Passes(IMUUpdate, "begin", "end") /\ drdy' = TRUE
     /\ UNCHANGED <<active, busy, stored, server, alarms, blocked>>
  \/ Ends(IMUUpdate, "end")

PeriodicStep ==
  \/ wifiTaskStep
  \/ IMUUpdateStep
  \/ Ends(batteryUpdate, "begin")
  \/ Ends(brushlUpdate, "begin")

\* What takes longer than the period of u: the EEPROM, a conversion that does not
\* end, and a loop that u cannot interrupt.  All else is done within a period.
TooLong(u) ==
  \E t \in Tasks :
    /\ running = t
    /\ \/ at[t] = "spin" /\ (StaticPriority[t] >= StaticPriority[u] \/ t \notin Preemtive)
       \/ u = wifiTask /\ <<t, at[t]>> \in {<<Wifi_cfg, "save">>, <<batteryUpdate, "begin">>}

\* A handler whose call fails loops in ErrorHook as well.
InHandler == stuck' = (error' # "E_OK" /\ ~hook) /\ hook' = (hook \/ error' # "E_OK")

Expires(u) ==
  /\ u \in alarms /\ (state[u] = "SUSPENDED" \/ TooLong(u))
  /\ IsrActivateTask(u)
  /\ InHandler /\ UNCHANGED <<at, data>>

DataReady ==
  /\ drdy /\ drdy' = FALSE /\ IsrActivateTask(IMUUpdate)
  /\ InHandler
  /\ UNCHANGED <<at, active, busy, stored, server, alarms, blocked>>

Transmitted ==
  /\ blocked # INVALID_TASK /\ IsrSetEvent(blocked, {"POSIXE"})
  /\ blocked' = INVALID_TASK
  /\ InHandler
  /\ UNCHANGED <<at, drdy, active, busy, stored, server, alarms>>

-----------------------------------------------------------------------------
Body ==
  \/ InitTaskStep \/ StartupConfigStep \/ ConfigModeStep
  \/ WifiCfgStep \/ IMUTstStep \/ WifiTstStep \/ PeriodicStep

Thread == Body \/ ((Dispatch \/ \E t \in Tasks : Kernel(t)) /\ UNCHANGED appVars)

AppNext ==
  /\ ~stuck
  /\ \/ (StartOS \/ IsrEnter \/ IsrExit) /\ UNCHANGED appVars
     \/ Thread
     \/ DataReady \/ Transmitted \/ \E u \in alarms : Expires(u)

AppSpec == AppInit /\ [][AppNext]_allVars

-----------------------------------------------------------------------------
\* Which services may fail: the activation of a periodic task by its alarm, which
\* waits for one that takes longer than the period; that of IMUUpdate by an
\* interrupt between its DRDY = 1 and its end; that of a test that waits for the
\* processor or the USB line, or that an interrupt has woken while the kernel did
\* not reschedule; and WaitEvent of a basic task.  Never that of Wifi_tst, nor a
\* chain.
KnownFailure ==
  \/ \E u \in alarms : Expires(u) /\ TooLong(u) /\ activations[u] = 1
  \/ DataReady /\ at[IMUUpdate] = "end"
  \/ \E test \in {IMU_tst, Brushless_tst} :
       ActivateTask(ConfigMode, test) /\ activations[test] = 1
  \/ \E t \in Tasks \ Extended : WaitEvent(t, {"POSIXE"})

\* ErrorHook stops the program for whatever error, so it matters that no other
\* service ever fails.
KnownFailures == [][error' # "E_OK" /\ ~hook => KnownFailure]_allVars

\* The sensor is never deaf: its next interrupt will be taken, or IMUUpdate has
\* been activated and will see to that.
Rearmed == active /\ ~hook => drdy \/ activations[IMUUpdate] = 1

\* A check of the wireless line never comes while a test is under way, thanks to
\* their equal priorities: WIFI.busy is seen set only if it was so in the EEPROM.
TestEndsFirst == Here(wifiTask, "begin") => activations[Wifi_tst] = 0

-----------------------------------------------------------------------------
\* What theorems ask of the configuration.  The kernel knows the calls that the
\* bodies and handlers make, so that what is proved of it holds here.
CallsDeclared ==
  /\ OilTasks \subseteq Tasks /\ {POSIXR, BRUSHLESSR} \subseteq Resources
  /\ StartupConfig \in Activates[InitTask] /\ ConfigMode \in Activates[StartupConfig]
  /\ {Wifi_cfg, Brushless_tst, IMU_tst} \subseteq Activates[ConfigMode]
  /\ Wifi_tst \in Activates[wifiTask] /\ brushlUpdate \in Chains[Wifi_tst]
  /\ {wifiTask, batteryUpdate, IMUUpdate} \subseteq IsrActivates
  /\ {ConfigMode, Wifi_cfg, IMU_tst} \subseteq IsrSignals
  /\ {"POSIXE"} \in Masks

\* As in the OIL file: the sensor's task is an extended one, and so are the check
\* of the wireless line and its test, which have one priority.  StartOS does not
\* start the test.
SensorExtended == IMUUpdate \in Extended
TestsAlike ==
  /\ StaticPriority[wifiTask] = StaticPriority[Wifi_tst]
  /\ {wifiTask, Wifi_tst} \subseteq Extended
  /\ \A i \in DOMAIN AutoStart : AutoStart[i] # Wifi_tst

\* As in the OIL file: one task starts by itself and gives up the processor only
\* by a call, no activation is queued, the test of the wireless configuration is
\* above the task that activates it, and the new duties have the priority of the
\* test that chains them.
OilConfigured ==
  /\ AutoStart = <<InitTask>>
  /\ \A t \in OilTasks : MaxActivations[t] = 1
  /\ OilExtended = OilTasks \cap Extended
  /\ InitTask \notin Preemtive /\ ConfigMode \in Preemtive
  /\ StaticPriority[ConfigMode] < StaticPriority[Wifi_cfg]
  /\ StaticPriority[brushlUpdate] = StaticPriority[Wifi_tst]
  /\ {POSIXR, BRUSHLESSR} \subseteq ResourcesMask[InitTask]
  /\ "POSIXE" \in EventsMask[IMU_tst]
=============================================================================
