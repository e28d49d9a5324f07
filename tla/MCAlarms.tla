------------------------------ MODULE MCAlarms ------------------------------
(* Alarms for TLC.  Alarms 0 and 1 belong to the system counter; 1 is started *)
(* at boot and increments counter 1, that of alarm 2.  Two tasks start alarms *)
(* 0 and 2, the same ones, and cancel alarms.                                 *)
EXTENDS Alarms, TLC

TwoCounters == {0, 1}
ThreeAlarms == 0 .. 2
TwoTasks == {0, 1}
CounterOfAlarm == (0 :> 0) @@ (1 :> 0) @@ (2 :> 1)
AlarmLists == (0 :> <<0, 1>>) @@ (1 :> <<2>>)
Maxima == (0 :> 3) @@ (1 :> 2)
Ones == [c \in TwoCounters |-> 1]
Increments == (0 :> 255) @@ (1 :> 1) @@ (2 :> 255)
Autostart == 1 :> [time |-> 0, cycle |-> 1]
RelativeStarts == (0 :> {<<0, 0, 2>>, <<2, 2, 2>>}) @@ (1 :> {<<0, 2, 0>>})
AbsoluteStarts == (0 :> {}) @@ (1 :> {<<2, 1, 0>>})
Cancelled == (0 :> {1}) @@ (1 :> {0, 2})
=============================================================================
