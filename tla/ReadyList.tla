------------------------------ MODULE ReadyList ------------------------------
(***************************************************************************)
(* One ready list as Os_Internal.c keeps it: an array of ListLength task   *)
(* ids, the index of the oldest entry and the number of entries.           *)
(***************************************************************************)
EXTENDS Integers, Sequences

CONSTANTS
  Tasks,       \* the task ids
  ListLength   \* ReadyConst[].ListLength, the activations of this priority

ASSUME ListLengthAssumption == ListLength \in Nat \ {0}

VARIABLES
  taskRef,     \* ReadyConst[].TaskRef, the array
  listStart,   \* ReadyVar[].ListStart
  listCount    \* ReadyVar[].ListCount

vars == <<taskRef, listStart, listCount>>

\* The array is zero initialised: it holds whatever task has the id 0.
Init ==
  /\ \E t \in Tasks : taskRef = [i \in 0 .. (ListLength - 1) |-> t]
  /\ listStart = 0
  /\ listCount = 0

\* "this if works like a % instruction"
Around(position) ==
  IF position >= ListLength THEN position - ListLength ELSE position

\* The list has no test for a free entry: the kernel adds a task only within
\* its configured activations (Osek!ListsAreQueues).
AddReady(t) ==
  /\ listCount < ListLength
  /\ taskRef' = [taskRef EXCEPT ![Around(listStart + listCount)] = t]
  /\ listCount' = listCount + 1
  /\ UNCHANGED listStart

\* Called for the running task, so the list is not empty (Osek!HeadOfList).
RemoveNewest ==                        \* mutant: the start stays
  /\ listCount > 0
  /\ listCount' = listCount - 1
  /\ UNCHANGED <<taskRef, listStart>>
RemoveTask ==
  /\ listCount > 0
  /\ listStart' = Around(listStart + 1)
  /\ listCount' = listCount - 1
  /\ UNCHANGED taskRef

Next == (\E t \in Tasks : AddReady(t)) \/ RemoveTask

Spec == Init /\ [][Next]_vars

-----------------------------------------------------------------------------
(* Properties.                                                             *)

\* The entries in order: what GetNextTask would see one after the other.
Entries == [i \in 1 .. listCount |-> taskRef[Around(listStart + i - 1)]]

Queue == INSTANCE ReadyQueue WITH queue <- Entries, Capacity <- ListLength

\* The circular array is a first in, first out queue: no entry is lost,
\* duplicated or overtaken when the indices go around.
IsQueue == Queue!Spec
=============================================================================
