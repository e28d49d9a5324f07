--------------------------- MODULE MCCortexSwitch ---------------------------
(* CortexSwitch for TLC.  Four priorities, so that an interrupt can come    *)
(* while a switch is under way, and ready a task below or above the one     *)
(* decided for; 2 waits for an event, 1 chains 0, interrupts activate 1 and *)
(* 3 and wake 2.                                                            *)
EXTENDS CortexSwitch, TLC

FourTasks == 0 .. 3
OwnPriority == [t \in FourTasks |-> t]
OneActivation == [t \in FourTasks |-> 1]
Nothing == [t \in FourTasks |-> {}]
OneMask == {{"e"}}
EventsOf2 == [t \in FourTasks |-> IF t = 2 THEN {"e"} ELSE {}]
FirstTask == <<0>>
Activated == (0 :> {1, 2}) @@ (1 :> {2, 3}) @@ (2 :> {}) @@ (3 :> {})
Chained == (0 :> {}) @@ (1 :> {0}) @@ (2 :> {}) @@ (3 :> {})
Signalled == (0 :> {2}) @@ (1 :> {2}) @@ (2 :> {}) @@ (3 :> {2})
=============================================================================
