------------------------------- MODULE MCOsek -------------------------------
(* Configurations of Osek for TLC: what an OIL file and its application    *)
(* would define.                                                           *)
EXTENDS Osek, TLC

OneMask == {{"e"}}
None(tasks) == [t \in tasks |-> {}]

\* Mix.  0 queues two activations, 1 and 2 share a priority, 2 waits for
\* events, 1 and 3 share a resource, 1 is not preemptable.  2 is chained, by
\* itself and by 1, and as in the flight application (which chains brushlUpdate
\* and activates the rest) a chained task is not activated.
MixTasks == 0 .. 3
MixPriority == (0 :> 0) @@ (1 :> 1) @@ (2 :> 1) @@ (3 :> 2)
MixActivations == (0 :> 2) @@ (1 :> 1) @@ (2 :> 1) @@ (3 :> 1)
MixEventsMask == [t \in MixTasks |-> IF t = 2 THEN {"e"} ELSE {}]
MixResourcesMask == [t \in MixTasks |-> IF t \in {1, 3} THEN {0} ELSE {}]
MixAutoStart == <<0, 2>>
MixActivates == (0 :> {1}) @@ (1 :> {0}) @@ (2 :> {3}) @@ (3 :> {1, 255})
MixSignals == (0 :> {2}) @@ (1 :> {2}) @@ (2 :> {0}) @@ (3 :> {})
MixChains == (0 :> {}) @@ (1 :> {2}) @@ (2 :> {2}) @@ (3 :> {255})

\* Nested.  Four preemptable tasks on four priorities.  Three of them share
\* resources of two ceilings, which they take together; the highest has two
\* activations and no resource; 2 waits for events, which interrupts set and 1,
\* also while it holds a resource whose ceiling is below 2.
NestTasks == 0 .. 3
NestPriority == [t \in NestTasks |-> t]
NestActivations == [t \in NestTasks |-> IF t = 3 THEN 2 ELSE 1]
NestEventsMask == [t \in NestTasks |-> IF t = 2 THEN {"e"} ELSE {}]
NestResources == 0 .. 2
NestResourcesMask == (0 :> {0, 1}) @@ (1 :> {0, 2}) @@ (2 :> {1, 2}) @@ (3 :> {})
NestAutoStart == <<0>>
NestActivates == (0 :> {1}) @@ (1 :> {}) @@ (2 :> {3}) @@ (3 :> {})
NestSignals == (0 :> {}) @@ (1 :> {2}) @@ (2 :> {}) @@ (3 :> {})
NestChains == None(NestTasks)

\* The configurations satisfy what the theorems about them ask for.
ASSUME TheoremsApply ==
  /\ ChainedApart
  /\ UsersOnce
=============================================================================
