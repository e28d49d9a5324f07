------------------------------- MODULE MCCDRon ------------------------------
(* CDRonApp with the configuration of CDRon.oil.                           *)
EXTENDS CDRonApp, TLC

OilResourceIds == {POSIXR, BRUSHLESSR}
OilOnce == [t \in OilTasks |-> 1]
OilEvents == [t \in OilTasks |-> {"POSIXE"}]
OilAutoStart == <<InitTask>>
NoCalls == [t \in OilTasks |-> {}]
OilActivates ==
  (InitTask :> {StartupConfig}) @@ (StartupConfig :> {ConfigMode})
  @@ (ConfigMode :> {Wifi_cfg, Brushless_tst, IMU_tst}) @@ (wifiTask :> {Wifi_tst})
  @@ NoCalls
OilChains == (Wifi_tst :> {brushlUpdate}) @@ NoCalls
OilMasks == {{"POSIXE"}}
OilIsrActivates == {wifiTask, batteryUpdate, IMUUpdate}
OilIsrSignals == {ConfigMode, Wifi_cfg, IMU_tst}

\* The configuration satisfies what the theorems about it ask for.
ASSUME TheoremsApply ==
  /\ CallsDeclared /\ SensorExtended /\ TestsAlike /\ OilConfigured
  /\ ChainedApart /\ UsersOnce
=============================================================================
