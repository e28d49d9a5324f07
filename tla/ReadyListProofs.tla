--------------------------- MODULE ReadyListProofs ---------------------------
(***************************************************************************)
(* Proof that the circular array of a ready list implements the queue that *)
(* the kernel expects, for every length of the array.                      *)
(***************************************************************************)
EXTENDS ReadyList, TLAPS, SequenceTheorems

\* The indices stay in the array, and it holds tasks.
IndicesOK ==
  /\ taskRef \in [0 .. ListLength - 1 -> Tasks]
  /\ listStart \in 0 .. ListLength - 1
  /\ listCount \in 0 .. ListLength

\* Going around once brings a position back into the array.
LEMMA AroundOnce ==
  ASSUME NEW p \in 0 .. 2 * ListLength - 1
  PROVE  /\ Around(p) \in 0 .. ListLength - 1
         /\ Around(p) = p \/ Around(p) = p - ListLength
  BY ListLengthAssumption DEF Around

\* The indices stay in the array in every step.
LEMMA IndicesKept == IndicesOK /\ [Next]_vars => IndicesOK'
<1> USE ListLengthAssumption
<1> SUFFICES ASSUME IndicesOK, [Next]_vars PROVE IndicesOK'
  OBVIOUS
<1>1. ASSUME NEW t \in Tasks, AddReady(t) PROVE IndicesOK'
  <2> DEFINE p == Around(listStart + listCount)
  <2>1. /\ listCount < ListLength /\ listCount' = listCount + 1 /\ listStart' = listStart
        /\ taskRef' = [taskRef EXCEPT ![p] = t]
    BY <1>1 DEF AddReady
  <2> HIDE DEF p
  <2>2. taskRef' \in [0 .. ListLength - 1 -> Tasks]
    BY <2>1 DEF IndicesOK
  <2>3. listCount' \in 0 .. ListLength
    BY <2>1 DEF IndicesOK
  <2> QED BY <2>1, <2>2, <2>3 DEF IndicesOK
<1>2. CASE RemoveTask
  <2>1. Around(listStart + 1) \in 0 .. ListLength - 1
    BY AroundOnce DEF IndicesOK
  <2> QED BY <1>2, <2>1 DEF IndicesOK, RemoveTask
<1>3. CASE UNCHANGED vars
  BY <1>3 DEF IndicesOK, vars
<1> QED BY <1>1, <1>2, <1>3 DEF Next

\* The n entries of an array a from the index s on.
EntriesOf(a, s, n) == [i \in 1 .. n |-> a[Around(s + i - 1)]]

\* They are tasks: the i-th one is i places behind the start, at most once around.
LEMMA EntriesAre ==
  ASSUME NEW a \in [0 .. ListLength - 1 -> Tasks], NEW s \in 0 .. ListLength - 1,
         NEW n \in 0 .. ListLength
  PROVE  LET e == EntriesOf(a, s, n)
         IN /\ e \in Seq(Tasks) /\ Len(e) = n
            /\ \A i \in 1 .. n : e[i] = a[Around(s + i - 1)]
<1> USE ListLengthAssumption
<1> DEFINE e == EntriesOf(a, s, n)
<1>1. \A i \in 1 .. n : s + i - 1 \in 0 .. 2 * ListLength - 1
  OBVIOUS
<1>2. \A i \in 1 .. n : a[Around(s + i - 1)] \in Tasks
  BY <1>1, AroundOnce
<1>3. e \in [1 .. n -> Tasks] /\ \A i \in 1 .. n : e[i] = a[Around(s + i - 1)]
  BY <1>2 DEF EntriesOf
<1>4. n \in Nat
  OBVIOUS
<1> HIDE DEF e
<1>5. e \in Seq(Tasks)
  BY <1>3, <1>4, SeqDef
<1>6. Len(e) = n
  BY <1>3, <1>4, <1>5, LenProperties
<1> QED BY <1>3, <1>5, <1>6 DEF e

\* So are the entries of a state,
LEMMA EntriesNow ==
  ASSUME IndicesOK
  PROVE  /\ Entries \in Seq(Tasks) /\ Len(Entries) = listCount
         /\ \A i \in 1 .. listCount : Entries[i] = taskRef[Around(listStart + i - 1)]
<1>1. /\ taskRef \in [0 .. ListLength - 1 -> Tasks]
      /\ listStart \in 0 .. ListLength - 1 /\ listCount \in 0 .. ListLength
  BY DEF IndicesOK
<1>2. Entries = EntriesOf(taskRef, listStart, listCount)
  BY DEF Entries, EntriesOf
<1> QED BY <1>1, <1>2, EntriesAre

\* and those of the next one.
LEMMA EntriesNext ==
  ASSUME IndicesOK'
  PROVE  /\ Entries' \in Seq(Tasks) /\ Len(Entries') = listCount'
         /\ \A i \in 1 .. listCount' : Entries'[i] = taskRef'[Around(listStart' + i - 1)]
<1>1. /\ taskRef' \in [0 .. ListLength - 1 -> Tasks]
      /\ listStart' \in 0 .. ListLength - 1 /\ listCount' \in 0 .. ListLength
  BY DEF IndicesOK
<1>2. Entries' = EntriesOf(taskRef', listStart', listCount')
  BY DEF Entries, EntriesOf
<1> QED BY <1>1, <1>2, EntriesAre

\* The place that AddReady writes is behind the last entry and holds none of them.
LEMMA AddReadyAppends ==
  ASSUME IndicesOK, IndicesOK', NEW t \in Tasks, AddReady(t)
  PROVE  /\ Entries' = Append(Entries, t)
         /\ Len(Entries) < ListLength
<1> USE ListLengthAssumption
<1> DEFINE place == Around(listStart + listCount)
<1>1. /\ listCount < ListLength /\ listCount' = listCount + 1 /\ listStart' = listStart
      /\ taskRef' = [taskRef EXCEPT ![place] = t]
  BY DEF AddReady
<1>2. place \in 0 .. ListLength - 1
  BY <1>1, AroundOnce DEF IndicesOK
<1>3. ASSUME NEW i \in 1 .. listCount
      PROVE  /\ Around(listStart + i - 1) \in 0 .. ListLength - 1
             /\ Around(listStart + i - 1) # place
  BY <1>1, <1>3 DEF IndicesOK, Around
<1>4. /\ Entries \in Seq(Tasks) /\ Len(Entries) = listCount
      /\ \A i \in 1 .. listCount : Entries[i] = taskRef[Around(listStart + i - 1)]
  BY EntriesNow
<1>5. /\ Entries' \in Seq(Tasks) /\ Len(Entries') = listCount'
      /\ \A i \in 1 .. listCount' : Entries'[i] = taskRef'[Around(listStart' + i - 1)]
  BY EntriesNext
<1>6. /\ Append(Entries, t) \in Seq(Tasks) /\ Len(Append(Entries, t)) = listCount + 1
      /\ \A i \in 1 .. listCount : Append(Entries, t)[i] = Entries[i]
      /\ Append(Entries, t)[listCount + 1] = t
  BY <1>4, AppendProperties
<1>7. ASSUME NEW i \in 1 .. listCount + 1 PROVE Entries'[i] = Append(Entries, t)[i]
  <2>1. Entries'[i] = taskRef'[Around(listStart + i - 1)]
    BY <1>1, <1>5
  <2>2. CASE i \in 1 .. listCount
    <3>1. taskRef'[Around(listStart + i - 1)] = taskRef[Around(listStart + i - 1)]
      BY <1>1, <1>3, <2>2 DEF IndicesOK
    <3> QED BY <1>4, <1>6, <2>1, <2>2, <3>1
  <2>3. CASE i = listCount + 1
    <3>1. listStart + i - 1 = listStart + listCount
      BY <2>3 DEF IndicesOK
    <3>2. taskRef'[place] = t
      BY <1>1, <1>2 DEF IndicesOK
    <3> QED BY <1>6, <2>1, <2>3, <3>1, <3>2
  <2>4. i \in 1 .. listCount \/ i = listCount + 1
    BY DEF IndicesOK
  <2> QED BY <2>2, <2>3, <2>4
<1>8. Entries' = Append(Entries, t)
  <2> DEFINE e == Entries'
             f == Append(Entries, t)
  <2>1. e \in Seq(Tasks) /\ f \in Seq(Tasks) /\ Len(e) = Len(f)
        /\ Len(e) = listCount + 1
    BY <1>1, <1>5, <1>6
  <2>2. \A i \in 1 .. Len(e) : e[i] = f[i]
    BY <1>7, <2>1
  <2> HIDE DEF e, f
  <2>3. e = f
    BY <2>1, <2>2, SeqEqual
  <2> QED BY <2>3 DEF e, f
<1> QED BY <1>1, <1>4, <1>8

\* RemoveTask takes the oldest entry away and moves no other.
LEMMA RemoveTaskTakesHead ==
  ASSUME IndicesOK, IndicesOK', RemoveTask
  PROVE  Entries # <<>> /\ Entries' = Tail(Entries)
<1> USE ListLengthAssumption
<1>1. /\ listCount > 0 /\ listCount' = listCount - 1 /\ taskRef' = taskRef
      /\ listStart' = Around(listStart + 1)
  BY DEF RemoveTask
<1>2. /\ Entries \in Seq(Tasks) /\ Len(Entries) = listCount
      /\ \A i \in 1 .. listCount : Entries[i] = taskRef[Around(listStart + i - 1)]
  BY EntriesNow
<1>3. Entries # <<>>
  BY <1>1, <1>2
<1>4. /\ Tail(Entries) \in Seq(Tasks) /\ Len(Tail(Entries)) = listCount - 1
      /\ \A i \in 1 .. listCount - 1 : Tail(Entries)[i] = Entries[i + 1]
  BY <1>2, <1>3, HeadTailProperties
<1>5. /\ Entries' \in Seq(Tasks) /\ Len(Entries') = listCount'
      /\ \A i \in 1 .. listCount' : Entries'[i] = taskRef'[Around(listStart' + i - 1)]
  BY EntriesNext
<1>6. ASSUME NEW i \in 1 .. listCount - 1 PROVE Entries'[i] = Tail(Entries)[i]
  <2>1. Around(Around(listStart + 1) + i - 1) = Around(listStart + (i + 1) - 1)
    BY <1>1, <1>6 DEF IndicesOK, Around
  <2>2. i + 1 \in 1 .. listCount /\ i \in 1 .. listCount'
    BY <1>1, <1>6 DEF IndicesOK
  <2>3. Entries'[i] = taskRef[Around(Around(listStart + 1) + i - 1)]
    BY <1>1, <1>5, <2>2
  <2>4. Entries[i + 1] = taskRef[Around(listStart + (i + 1) - 1)]
    BY <1>2, <2>2
  <2> QED BY <1>4, <1>6, <2>1, <2>3, <2>4
<1>7. Entries' = Tail(Entries)
  <2> DEFINE e == Entries'
             f == Tail(Entries)
  <2>1. e \in Seq(Tasks) /\ f \in Seq(Tasks) /\ Len(e) = Len(f)
        /\ Len(e) = listCount - 1
    BY <1>1, <1>4, <1>5
  <2>2. \A i \in 1 .. Len(e) : e[i] = f[i]
    BY <1>6, <2>1
  <2> HIDE DEF e, f
  <2>3. e = f
    BY <2>1, <2>2, SeqEqual
  <2> QED BY <2>3 DEF e, f
<1> QED BY <1>3, <1>7

\* The circular array of Os_Internal.c is a first in, first out queue, however long it is:
\* each AddReady appends, and each RemoveTask takes the oldest entry.
THEOREM ArrayIsQueue == Spec => IsQueue
<1> USE ListLengthAssumption
<1>1. Init => IndicesOK
  BY DEF Init, IndicesOK
<1>2. Init => Queue!Init
  <2> SUFFICES ASSUME Init PROVE Entries = <<>>
    BY DEF Queue!Init
  <2>1. Entries \in Seq(Tasks) /\ Len(Entries) = 0
    BY <1>1, EntriesNow DEF Init
  <2> QED BY <2>1, EmptySeq
<1>3. IndicesOK /\ IndicesOK' /\ [Next]_vars => [Queue!Next]_Entries
  <2> SUFFICES ASSUME IndicesOK, IndicesOK', [Next]_vars PROVE [Queue!Next]_Entries
    OBVIOUS
  <2>1. ASSUME NEW t \in Tasks, AddReady(t) PROVE Queue!Next
    BY <2>1, AddReadyAppends DEF Queue!Next, Queue!Add
  <2>2. CASE RemoveTask
    BY <2>2, RemoveTaskTakesHead DEF Queue!Next, Queue!Remove
  <2>3. CASE UNCHANGED vars
    BY <2>3 DEF vars, Entries
  <2> QED BY <2>1, <2>2, <2>3 DEF Next
<1> QED BY <1>1, <1>2, <1>3, IndicesKept, PTL DEF Spec, IsQueue, Queue!Spec
=============================================================================
