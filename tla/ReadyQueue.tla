----------------------------- MODULE ReadyQueue -----------------------------
(***************************************************************************)
(* What the kernel expects of the ready list of one priority: a first in,  *)
(* first out queue with room for every activation the configuration allows *)
(* (its capacity).  ReadyList implements it with a circular array, and     *)
(* Osek uses it through AddReady and RemoveTask.                           *)
(***************************************************************************)
EXTENDS Integers, Sequences

CONSTANTS Tasks, Capacity

VARIABLE queue

Init == queue = <<>>

\* A task becomes ready: it goes behind those of the same priority.
Add == /\ Len(queue) < Capacity
       /\ \E t \in Tasks : queue' = Append(queue, t)

\* The task at the head ends or waits.
Remove == queue # <<>> /\ queue' = Tail(queue)

\* ChainTask: the head leaves and its successor of equal priority arrives in
\* one critical section.
Replace == /\ queue # <<>>
           /\ \E t \in Tasks : queue' = Append(Tail(queue), t)

Next == Add \/ Remove \/ Replace

Spec == Init /\ [][Next]_queue
=============================================================================
