----------------------------- MODULE OsekProofs -----------------------------
(***************************************************************************)
(* Proofs about the kernel.  First types, the place of the running task    *)
(* and of the resource holders in the ready lists, wake-ups, and the       *)
(* processor of tasks that are not preemptable; then the kernel's books    *)
(* and its resource protocol: the counts of activations against the        *)
(* entries of the ready lists, the bound of the lists, the states of the   *)
(* tasks, the priority ceilings with the mutual exclusion that rests on    *)
(* them, and who the scheduler passes over.                                *)
(***************************************************************************)
EXTENDS Osek, TLAPS, SequenceTheorems, WellFoundedInduction, FiniteSetTheorems

-----------------------------------------------------------------------------
(* Least and greatest elements of sets of numbers.                         *)

\* A set of naturals that is not empty has a smallest element.
LEMMA MinExists ==
  ASSUME NEW S, S \subseteq Nat, S # {}
  PROVE  \E m \in S : \A n \in S : m <= n
<1>1. PICK m \in S : \A n \in S : ~ (<<n, m>> \in OpToRel(<, Nat))
  BY NatLessThanWellFounded, WFMin
<1>2. \A n \in S : ~ (n < m)
  BY <1>1 DEF OpToRel
<1> QED BY <1>2

\* A set of naturals that is bounded and not empty has a greatest element.
LEMMA MaxExists ==
  ASSUME NEW S, NEW b \in Nat, S \subseteq 0 .. b, S # {}
  PROVE  \E m \in S : \A n \in S : n <= m
<1> DEFINE D == {b - n : n \in S}
<1>1. D \subseteq Nat /\ D # {}
  <2>1. \A n \in S : b - n \in Nat
    OBVIOUS
  <2>2. PICK n \in S : TRUE
    OBVIOUS
  <2>3. b - n \in D
    OBVIOUS
  <2> QED BY <2>1, <2>3
<1>2. PICK d \in D : \A e \in D : d <= e
  BY <1>1, MinExists
<1>3. PICK m \in S : d = b - m
  OBVIOUS
<1>4. \A n \in S : b - m <= b - n
  BY <1>2, <1>3
<1> QED BY <1>4

-----------------------------------------------------------------------------
(* The operators of the kernel.                                            *)

LEMMA PrioritiesBounded ==
  /\ Priorities \subseteq Nat
  /\ Priorities \subseteq 0 .. READYLISTS_COUNT
  BY TasksAssumption DEF Priorities

\* A ceiling is a priority of the configuration.
LEMMA CeilingIsPriority ==
  ASSUME NEW r, Priorities # {}
  PROVE  /\ ResourcesPriority(r) \in Priorities
         /\ \A t \in ResourceUsers(r) : StaticPriority[t] <= ResourcesPriority(r)
<1> USE TasksAssumption, ConfigAssumption
<1>1. CASE ResourceUsers(r) = {}
  BY <1>1 DEF ResourcesPriority, Priorities
<1>2. CASE ResourceUsers(r) # {}
  <2> DEFINE S == {StaticPriority[t] : t \in ResourceUsers(r)}
  <2>1. S \subseteq 0 .. READYLISTS_COUNT /\ S # {} /\ S \subseteq Priorities
    <3>1. S \subseteq Priorities
      BY DEF ResourceUsers
    <3>2. PICK t \in ResourceUsers(r) : TRUE
      BY <1>2
    <3>3. StaticPriority[t] \in S
      BY <3>2
    <3> QED BY <3>1, <3>3, PrioritiesBounded
  <2>2. \E m \in S : \A n \in S : n <= m
    BY <2>1, MaxExists
  <2>3. \E m \in S : \A t \in ResourceUsers(r) : StaticPriority[t] <= m
    BY <2>2
  <2>4. /\ ResourcesPriority(r) \in S
        /\ \A t \in ResourceUsers(r) : StaticPriority[t] <= ResourcesPriority(r)
    BY <1>2, <2>3 DEF ResourcesPriority
  <2> QED BY <2>1, <2>4
<1> QED BY <1>1, <1>2

\* With the resources it has left a task keeps at least its static priority
\* and their ceilings, and no other level than one of these.
LEMMA PriorityLeft ==
  ASSUME NEW t \in Tasks, NEW left
  PROVE  /\ PriorityWith(t, left) \in Priorities
         /\ StaticPriority[t] <= PriorityWith(t, left)
         /\ \A r \in left : ResourcesPriority(r) <= PriorityWith(t, left)
         /\ left = {} => PriorityWith(t, left) = StaticPriority[t]
<1> USE TasksAssumption, ConfigAssumption
<1> DEFINE levels == {StaticPriority[t]} \cup {ResourcesPriority(r) : r \in left}
<1>1. StaticPriority[t] \in Priorities
  OBVIOUS
<1>2. levels \subseteq Priorities /\ levels # {}
  BY <1>1, CeilingIsPriority
<1>3. levels \subseteq 0 .. READYLISTS_COUNT
  BY <1>2, PrioritiesBounded
<1>4. \E m \in levels : \A n \in levels : n <= m
  BY <1>2, <1>3, MaxExists
<1>5. /\ PriorityWith(t, left) \in levels
      /\ \A n \in levels : n <= PriorityWith(t, left)
  BY <1>4 DEF PriorityWith
<1>6. StaticPriority[t] \in levels /\ \A r \in left : ResourcesPriority(r) \in levels
  OBVIOUS
<1>7. left = {} => levels = {StaticPriority[t]}
  OBVIOUS
<1> HIDE DEF levels
<1> QED BY <1>2, <1>5, <1>6, <1>7

\* The lists and the tasks that hold resources, as GetNextTask finds them.
Placed(lists) ==
  \A p \in Priorities : \A i \in DOMAIN lists[p] :
    StaticPriority[lists[p][i]] = p

HeadIn(lists, t) ==
  lists[StaticPriority[t]] # <<>> /\ Head(lists[StaticPriority[t]]) = t

Listed ==
  /\ ready \in [Priorities -> Seq(Tasks)]
  /\ actPriority \in [Tasks -> Priorities]
  /\ Placed(ready)
  /\ HeadOfList

\* The first of the lists that are not empty has a head, which is a task.
LEMMA FirstReadyIsHead ==
  ASSUME Listed, NonEmpty # {}
  PROVE  /\ FirstReady \in Tasks
         /\ IsHead(FirstReady)
         /\ \A p \in NonEmpty : p <= StaticPriority[FirstReady]
<1> USE TasksAssumption, ConfigAssumption
<1> DEFINE top == CHOOSE p \in NonEmpty : \A q \in NonEmpty : q <= p
<1>1. NonEmpty \subseteq 0 .. READYLISTS_COUNT /\ NonEmpty \subseteq Priorities
  BY DEF NonEmpty, Priorities
<1>2. top \in NonEmpty /\ \A q \in NonEmpty : q <= top
  BY <1>1, MaxExists
<1>3. FirstReady = Head(ready[top])
  BY DEF FirstReady
<1>4. ready[top] # <<>> /\ ready[top] \in Seq(Tasks) /\ top \in Priorities
  BY <1>1, <1>2 DEF NonEmpty, Listed
<1>5. Head(ready[top]) = ready[top][1] /\ 1 \in DOMAIN ready[top]
  BY <1>4
<1>6. StaticPriority[FirstReady] = top
  <2> HIDE DEF top
  <2>1. StaticPriority[ready[top][1]] = top
    BY <1>4, <1>5 DEF Listed, Placed
  <2> QED BY <1>3, <1>5, <2>1
<1>7. FirstReady \in Tasks
  BY <1>3, <1>4, HeadTailProperties
<1>8. IsHead(FirstReady)
  BY <1>3, <1>4, <1>6 DEF IsHead
<1>9. \A p \in NonEmpty : p <= StaticPriority[FirstReady]
  BY <1>2, <1>6
<1> QED BY <1>7, <1>8, <1>9

\* Among the tasks that hold a resource there is one GetNextTask would take.
LEMMA ResTaskExists ==
  ASSUME Listed, Occupying # {}
  PROVE  ResTask \in Occupying /\ IsResTask(ResTask)
<1> USE TasksAssumption, ConfigAssumption
<1> DEFINE levels == {actPriority[t] : t \in Occupying}
<1>1. levels \subseteq 0 .. READYLISTS_COUNT /\ levels # {}
  <2>1. \A t \in Occupying : actPriority[t] \in 0 .. READYLISTS_COUNT
    BY DEF Occupying, Listed, Priorities
  <2>2. PICK t \in Occupying : TRUE
    OBVIOUS
  <2>3. actPriority[t] \in levels
    BY <2>2
  <2> QED BY <2>1, <2>3
<1>2. PICK m \in levels : \A n \in levels : n <= m
  BY <1>1, MaxExists
<1> DEFINE top == {t \in Occupying : actPriority[t] = m}
<1>3. top \subseteq Nat /\ top # {}
  BY DEF Occupying
<1>4. PICK t \in top : \A u \in top : t <= u
  BY <1>3, MinExists
<1>5. IsResTask(t)
  <2> SUFFICES ASSUME NEW u \in Occupying
               PROVE  \/ actPriority[u] < actPriority[t]
                      \/ actPriority[u] = actPriority[t] /\ t <= u
    BY DEF IsResTask
  <2>1. actPriority[u] <= m /\ actPriority[t] = m
    BY <1>2
  <2>2. actPriority[u] \in Int /\ m \in Int
    BY <1>1
  <2> QED BY <1>4, <2>1, <2>2
<1>6. t \in Tasks
  BY DEF Occupying
<1> QED BY <1>5, <1>6 DEF ResTask, IsResTask

\* GetNextTask never reads a task that is not there: it finds the head of a
\* list, or no task when all lists are empty.
LEMMA NextTaskIsHead ==
  ASSUME Listed
  PROVE  /\ NonEmpty = {} => Occupying = {} /\ GetNextTask = INVALID_TASK
         /\ NonEmpty # {} => GetNextTask \in Tasks /\ IsHead(GetNextTask)
<1> USE TasksAssumption, ConfigAssumption
<1>1. \A t \in Occupying : t \in Tasks /\ IsHead(t)
  BY DEF Occupying, Listed, HeadOfList
<1>2. \A t \in Tasks : IsHead(t) => StaticPriority[t] \in NonEmpty
  BY DEF IsHead, NonEmpty
<1>3. NonEmpty = {} => Occupying = {} /\ GetNextTask = INVALID_TASK
  BY <1>1, <1>2 DEF GetNextTask, FirstReady
<1>4. ASSUME NonEmpty # {}
      PROVE  GetNextTask \in Tasks /\ IsHead(GetNextTask)
  BY <1>1, <1>4, FirstReadyIsHead, ResTaskExists DEF GetNextTask
<1> QED BY <1>3, <1>4

\* AddReady keeps every task on the list of its priority and every head.
LEMMA AddReadyLists ==
  ASSUME NEW lists \in [Priorities -> Seq(Tasks)], Placed(lists),
         NEW t \in Tasks
  PROVE  /\ AddReady(lists, t) \in [Priorities -> Seq(Tasks)]
         /\ Placed(AddReady(lists, t))
         /\ \A u \in Tasks : HeadIn(lists, u) => HeadIn(AddReady(lists, t), u)
<1> USE TasksAssumption, ConfigAssumption
<1> DEFINE p == StaticPriority[t]
<1>1. lists[p] \in Seq(Tasks) /\ p \in Priorities
  OBVIOUS
<1>2. AddReady(lists, t) \in [Priorities -> Seq(Tasks)]
  BY <1>1 DEF AddReady
<1>3. /\ AddReady(lists, t)[p] = Append(lists[p], t)
      /\ \A q \in Priorities \ {p} : AddReady(lists, t)[q] = lists[q]
  BY <1>1 DEF AddReady
<1>4. Placed(AddReady(lists, t))
  <2> SUFFICES ASSUME NEW q \in Priorities, NEW i \in DOMAIN AddReady(lists, t)[q]
               PROVE  StaticPriority[AddReady(lists, t)[q][i]] = q
    BY DEF Placed
  <2>1. CASE q # p
    BY <1>3, <2>1 DEF Placed
  <2>2. CASE q = p
    <3>1. i \in 1 .. Len(lists[p]) + 1
      BY <1>1, <1>3, <2>2
    <3>2. CASE i = Len(lists[p]) + 1
      BY <1>1, <1>3, <2>2, <3>2
    <3>3. CASE i \in 1 .. Len(lists[p])
      <4>1. AddReady(lists, t)[q][i] = lists[p][i]
        BY <1>1, <1>3, <2>2, <3>3
      <4>2. StaticPriority[lists[p][i]] = p
        BY <1>1, <3>3 DEF Placed
      <4> QED BY <2>2, <4>1, <4>2
    <3> QED BY <1>1, <3>1, <3>2, <3>3
  <2> QED BY <2>1, <2>2
<1>5. ASSUME NEW u \in Tasks, HeadIn(lists, u)
      PROVE  HeadIn(AddReady(lists, t), u)
  <2>1. CASE StaticPriority[u] # p
    BY <1>3, <1>5, <2>1 DEF HeadIn
  <2>2. CASE StaticPriority[u] = p
    <3>1. lists[p] # <<>> /\ Head(lists[p]) = u
      BY <1>5, <2>2 DEF HeadIn
    <3>2. Append(lists[p], t) # <<>> /\ Head(Append(lists[p], t)) = Head(lists[p])
      <4>1. Len(lists[p]) \in Nat \ {0}
        BY <1>1, <3>1, EmptySeq
      <4>2. Append(lists[p], t) \in Seq(Tasks) /\ Len(Append(lists[p], t)) = Len(lists[p]) + 1
        BY <1>1
      <4>3. Append(lists[p], t) # <<>>
        BY <4>1, <4>2, EmptySeq
      <4>4. Append(lists[p], t)[1] = lists[p][1]
        BY <1>1, <4>1
      <4> QED BY <1>1, <4>2, <4>3, <4>4
    <3> QED BY <1>3, <2>2, <3>1, <3>2 DEF HeadIn
  <2> QED BY <2>1, <2>2
<1> QED BY <1>2, <1>4, <1>5

\* RemoveTask of a head keeps every task on the list of its priority and
\* every other head.
LEMMA RemoveTaskLists ==
  ASSUME NEW lists \in [Priorities -> Seq(Tasks)], Placed(lists),
         NEW t \in Tasks, HeadIn(lists, t)
  PROVE  /\ RemoveTask(lists, t) \in [Priorities -> Seq(Tasks)]
         /\ Placed(RemoveTask(lists, t))
         /\ \A u \in Tasks \ {t} :
              HeadIn(lists, u) => HeadIn(RemoveTask(lists, t), u)
<1> USE TasksAssumption, ConfigAssumption
<1> DEFINE p == StaticPriority[t]
<1>1. lists[p] \in Seq(Tasks) /\ p \in Priorities /\ lists[p] # <<>>
  BY DEF HeadIn
<1>2. /\ Tail(lists[p]) \in Seq(Tasks)
      /\ Len(Tail(lists[p])) = Len(lists[p]) - 1
      /\ \A i \in 1 .. Len(Tail(lists[p])) : Tail(lists[p])[i] = lists[p][i + 1]
  BY <1>1, HeadTailProperties
<1>3. /\ RemoveTask(lists, t)[p] = Tail(lists[p])
      /\ \A q \in Priorities \ {p} : RemoveTask(lists, t)[q] = lists[q]
      /\ RemoveTask(lists, t) \in [Priorities -> Seq(Tasks)]
  BY <1>1, <1>2 DEF RemoveTask
<1>4. Placed(RemoveTask(lists, t))
  <2> SUFFICES ASSUME NEW q \in Priorities,
                      NEW i \in DOMAIN RemoveTask(lists, t)[q]
               PROVE  StaticPriority[RemoveTask(lists, t)[q][i]] = q
    BY DEF Placed
  <2>1. CASE q # p
    BY <1>3, <2>1 DEF Placed
  <2>2. CASE q = p
    <3>1. i \in 1 .. Len(Tail(lists[p])) /\ i + 1 \in 1 .. Len(lists[p])
      BY <1>1, <1>2, <1>3, <2>2
    <3> QED BY <1>1, <1>2, <1>3, <2>2, <3>1 DEF Placed
  <2> QED BY <2>1, <2>2
<1>5. ASSUME NEW u \in Tasks \ {t}, HeadIn(lists, u)
      PROVE  HeadIn(RemoveTask(lists, t), u)
  BY <1>3, <1>5 DEF HeadIn
<1> QED BY <1>3, <1>4, <1>5

-----------------------------------------------------------------------------
(* Types and heads.                                                        *)

\* TypeOK is not inductive alone: that GetNextTask returns a task rests on
\* HeadOfList, which rests on the lists being sorted by priority and on a task
\* that ends holding no resource.
IInv ==
  /\ TypeOK
  /\ Placed(ready)
  /\ HeadOfList
  /\ isr = "none" => context # "ISR2"
  /\ \A t \in Tasks : pc[t] = "chain" => resources[t] = {}

LEMMA HeadInReady == \A t : IsHead(t) <=> HeadIn(ready, t)
  BY DEF IsHead, HeadIn

LEMMA IInvListed == IInv => Listed
  BY DEF IInv, Listed, TypeOK

LEMMA InitIInv == Init => IInv
<1> USE TasksAssumption, ConfigAssumption
<1> SUFFICES ASSUME Init PROVE IInv
  OBVIOUS
<1>1. \A t \in Tasks : StaticPriority[t] \in Priorities
  OBVIOUS
<1>2. \A t \in Tasks : 0 \in Priorities
  BY <1>1 DEF Priorities
<1>3. TypeOK
  BY <1>2 DEF Init, TypeOK
<1>4. Placed(ready)
  BY DEF Init, Placed
<1>5. HeadOfList
  BY DEF Init, HeadOfList
<1>6. \A t \in Tasks : pc[t] = "chain" => resources[t] = {}
  BY DEF Init
<1> QED BY <1>3, <1>4, <1>5, <1>6 DEF IInv, Init

\* What Activate does to the variables it writes.
LEMMA ActivateKeeps ==
  ASSUME IInv, NEW u \in Tasks, Activate(u)
  PROVE  /\ state' \in [Tasks -> {"SUSPENDED", "READY", "RUNNING", "WAITING"}]
         /\ activations' \in [Tasks -> Int]
         /\ actPriority' \in [Tasks -> Priorities]
         /\ events' \in [Tasks -> SUBSET Events]
         /\ eventsWait' \in [Tasks -> SUBSET Events]
         /\ resources' \in [Tasks -> SUBSET Resources]
         /\ ready' \in [Priorities -> Seq(Tasks)]
         /\ Placed(ready')
         /\ \A t \in Tasks : IsHead(t) => IsHead(t)'
<1> USE TasksAssumption, ConfigAssumption
<1>1. ready' = AddReady(ready, u)
  BY DEF Activate
<1>2. /\ ready' \in [Priorities -> Seq(Tasks)]
      /\ Placed(ready')
      /\ \A t \in Tasks : IsHead(t) => IsHead(t)'
  <2>1. ready \in [Priorities -> Seq(Tasks)] /\ Placed(ready)
    BY DEF IInv, TypeOK
  <2>2. \A t \in Tasks : HeadIn(ready, t) => HeadIn(ready', t)
    BY <1>1, <2>1, AddReadyLists
  <2> QED BY <1>1, <2>1, <2>2, AddReadyLists DEF IsHead, HeadIn
<1>3. /\ state' \in [Tasks -> {"SUSPENDED", "READY", "RUNNING", "WAITING"}]
      /\ activations' \in [Tasks -> Int]
      /\ actPriority' \in [Tasks -> Priorities]
      /\ events' \in [Tasks -> SUBSET Events]
  <2>1. state' \in [Tasks -> {"SUSPENDED", "READY", "RUNNING", "WAITING"}]
    BY DEF Activate, IInv, TypeOK
  <2>2. activations' \in [Tasks -> Int]
    BY DEF Activate, IInv, TypeOK
  <2>3. actPriority' \in [Tasks -> Priorities]
    BY DEF Activate, IInv, TypeOK
  <2>4. events' \in [Tasks -> SUBSET Events]
    BY DEF Activate, IInv, TypeOK
  <2> QED BY <2>1, <2>2, <2>3, <2>4
<1> QED BY <1>2, <1>3 DEF Activate, IInv, TypeOK

\* What Signal does to the variables it writes.
LEMMA SignalKeeps ==
  ASSUME IInv, NEW u \in Tasks, NEW mask, Signal(u, mask)
  PROVE  /\ state' \in [Tasks -> {"SUSPENDED", "READY", "RUNNING", "WAITING"}]
         /\ activations' \in [Tasks -> Int]
         /\ actPriority' \in [Tasks -> Priorities]
         /\ events' \in [Tasks -> SUBSET Events]
         /\ eventsWait' \in [Tasks -> SUBSET Events]
         /\ resources' \in [Tasks -> SUBSET Resources]
         /\ ready' \in [Priorities -> Seq(Tasks)]
         /\ Placed(ready')
         /\ \A t \in Tasks : IsHead(t) => IsHead(t)'
<1> USE TasksAssumption, ConfigAssumption
<1>1. events' \in [Tasks -> SUBSET Events]
  <2>1. mask \cap EventsMask[u] \subseteq Events
    OBVIOUS
  <2> QED BY <2>1 DEF Signal, IInv, TypeOK
<1>2. CASE Wakes(u, mask)
  <2>1. ready' = AddReady(ready, u)
    BY <1>2 DEF Signal
  <2>2. /\ ready' \in [Priorities -> Seq(Tasks)]
        /\ Placed(ready')
        /\ \A t \in Tasks : IsHead(t) => IsHead(t)'
    <3>1. ready \in [Priorities -> Seq(Tasks)] /\ Placed(ready)
      BY DEF IInv, TypeOK
    <3>2. \A t \in Tasks : HeadIn(ready, t) => HeadIn(ready', t)
      BY <2>1, <3>1, AddReadyLists
    <3> QED BY <2>1, <3>1, <3>2, AddReadyLists DEF IsHead, HeadIn
  <2>3. /\ state' \in [Tasks -> {"SUSPENDED", "READY", "RUNNING", "WAITING"}]
        /\ actPriority' \in [Tasks -> Priorities]
    <3>1. state' = [state EXCEPT ![u] = "READY"]
      BY <1>2 DEF Signal
    <3>2. actPriority' = [actPriority EXCEPT ![u] = StaticPriority[u]]
      BY <1>2 DEF Signal
    <3>3. /\ state \in [Tasks -> {"SUSPENDED", "READY", "RUNNING", "WAITING"}]
          /\ actPriority \in [Tasks -> Priorities]
          /\ StaticPriority[u] \in Priorities
      BY DEF IInv, TypeOK
    <3> QED BY <3>1, <3>2, <3>3
  <2> QED BY <1>1, <2>2, <2>3 DEF Signal, IInv, TypeOK
<1>3. CASE ~Wakes(u, mask)
  BY <1>1, <1>3 DEF Signal, IInv, TypeOK, IsHead
<1> QED BY <1>2, <1>3

\* The scheduler gives the processor to the head of a list.
LEMMA RescheduleKeeps ==
  ASSUME IInv, running \in Tasks, NEW saved, Reschedule(saved)
  PROVE  /\ state' \in [Tasks -> {"SUSPENDED", "READY", "RUNNING", "WAITING"}]
         /\ running' \in Tasks /\ IsHead(running')
         /\ context' \in {"TASK", saved}
<1> USE TasksAssumption, ConfigAssumption
<1>1. IsHead(running)
  BY DEF IInv, HeadOfList
<1>2. NonEmpty # {}
  BY <1>1 DEF NonEmpty, IsHead
<1>3. GetNextTask \in Tasks /\ IsHead(GetNextTask)
  BY <1>2, IInvListed, NextTaskIsHead
<1> QED BY <1>1, <1>3 DEF Reschedule, IInv, TypeOK

\* The end of a task, without its activations and lists.
LEMMA FinishKeeps ==
  ASSUME IInv, NEW t \in Tasks, Finish(t)
  PROVE  /\ state' \in [Tasks -> {"SUSPENDED", "READY", "RUNNING", "WAITING"}]
         /\ pc' \in [Tasks -> {"run", "enterSys", "sysSchedule", "leaveSys",
                              "schedule", "chain"}]
         /\ \A u \in Tasks : pc'[u] = "chain" => pc[u] = "chain" /\ u # t
         /\ running' = INVALID_TASK /\ context' = "SYS"
<1>1. StateAfterEnd(t) \in {"SUSPENDED", "READY"}
  BY DEF StateAfterEnd
<1>2. /\ state' = [state EXCEPT ![t] = StateAfterEnd(t)]
      /\ pc' = [pc EXCEPT ![t] = "run"]
      /\ running' = INVALID_TASK /\ context' = "SYS"
  BY DEF Finish
<1> QED BY <1>1, <1>2 DEF IInv, TypeOK

\* A step that changes neither the lists nor who runs and who holds what.
LEMMA ReturnIInv ==
  ASSUME IInv, NEW status \in {"E_OK", "E_OS_LIMIT", "E_OS_ID", "E_OS_ACCESS",
                              "E_OS_STATE", "E_OS_RESOURCE", "E_OS_NOFUNC"},
         Return(status)
  PROVE  IInv'
  BY DEF Return, IInv, TypeOK, Placed, HeadOfList, IsHead

LEMMA StepIInv == IInv /\ [Next]_vars => IInv'
<1> USE TasksAssumption, ConfigAssumption, ApplicationAssumption
<1> SUFFICES ASSUME IInv, [Next]_vars PROVE IInv'
  OBVIOUS
<1> USE DEF At, Booted
<1>1. CASE StartOS
  <2> DEFINE t == AutoStart[boot + 1]
  <2>1. boot + 1 \in 1 .. Len(AutoStart) /\ t \in Tasks
    BY <1>1 DEF StartOS, IInv, TypeOK
  <2>2. boot' \in 0 .. Len(AutoStart)
    BY <1>1, <2>1 DEF StartOS
  <2>3. CASE ActivationAllowed(t)
    <3>1. Activate(t)
      BY <1>1, <2>3 DEF StartOS
    <3>2. HeadOfList'
      BY <1>1, <2>1, <3>1, ActivateKeeps DEF StartOS, Activate, IInv, HeadOfList
    <3>3. /\ error' = "E_OK"
          /\ UNCHANGED <<running, context, pc, target, isr, resources>>
      BY <1>1, <2>3 DEF StartOS, Activate
    <3>4. TypeOK'
      BY <2>1, <2>2, <3>1, <3>3, ActivateKeeps DEF IInv, TypeOK
    <3> QED BY <2>1, <3>1, <3>2, <3>3, <3>4, ActivateKeeps DEF IInv
  <2>4. CASE ~ActivationAllowed(t)
    BY <1>1, <2>1, <2>2, <2>4
    DEF StartOS, taskVars, ActivateError, IInv, TypeOK, Placed, HeadOfList, IsHead
  <2> QED BY <2>3, <2>4
<1>2. ASSUME NEW t \in Tasks, NEW u \in Activates[t], ActivateTask(t, u)
      PROVE  IInv'
  <2>1. CASE u \in Tasks /\ ActivationAllowed(u)
    <3>1. Activate(u)
      BY <1>2, <2>1 DEF ActivateTask
    <3>2. HeadOfList'
      BY <1>2, <2>1, <3>1, ActivateKeeps DEF ActivateTask, Activate, IInv, HeadOfList
    <3>3. /\ pc' \in [Tasks -> {"run", "enterSys", "sysSchedule", "leaveSys",
                               "schedule", "chain"}]
          /\ \A v \in Tasks : pc'[v] = "chain" => pc[v] = "chain"
      <4>1. pc \in [Tasks -> {"run", "enterSys", "sysSchedule", "leaveSys",
                              "schedule", "chain"}]
        BY DEF IInv, TypeOK
      <4>2. pc' = pc \/ pc' = [pc EXCEPT ![t] = "enterSys"]
        BY <1>2, <2>1 DEF ActivateTask
      <4> QED BY <4>1, <4>2
    <3>4. /\ error' = "E_OK"
          /\ UNCHANGED <<running, context, target, isr, boot, resources>>
      BY <1>2, <2>1 DEF ActivateTask, Activate
    <3>5. TypeOK'
      BY <2>1, <3>1, <3>3, <3>4, ActivateKeeps DEF IInv, TypeOK
    <3> QED BY <2>1, <3>1, <3>2, <3>3, <3>4, <3>5, ActivateKeeps DEF IInv
  <2>2. CASE ~(u \in Tasks /\ ActivationAllowed(u))
    BY <1>2, <2>2, ReturnIInv DEF ActivateTask, ActivateError
  <2> QED BY <2>1, <2>2
<1>3. ASSUME NEW t \in Tasks, TerminateTask(t)
      PROVE  IInv'
  <2>1. CASE resources[t] # {}
    BY <1>3, <2>1, ReturnIInv DEF TerminateTask
  <2>2. CASE resources[t] = {}
    <3>1. HeadIn(ready, t)
      BY <1>3 DEF TerminateTask, IInv, HeadOfList, IsHead, HeadIn
    <3>2. /\ ready' = RemoveTask(ready, t)
          /\ ready' \in [Priorities -> Seq(Tasks)]
          /\ Placed(ready')
          /\ \A u \in Tasks \ {t} : IsHead(u) => IsHead(u)'
      <4>1. ready' = RemoveTask(ready, t)
        BY <1>3, <2>2 DEF TerminateTask
      <4>2. ready \in [Priorities -> Seq(Tasks)] /\ Placed(ready)
        BY DEF IInv, TypeOK
      <4>3. \A u \in Tasks \ {t} : HeadIn(ready, u) => HeadIn(ready', u)
        BY <3>1, <4>1, <4>2, RemoveTaskLists
      <4> QED BY <3>1, <4>1, <4>2, <4>3, RemoveTaskLists DEF IsHead, HeadIn
    <3>3. HeadOfList'
      BY <1>3, <2>2, <3>2 DEF TerminateTask, Finish, IInv, HeadOfList
    <3>4. TypeOK'
      <4>1. Finish(t)
        BY <1>3, <2>2 DEF TerminateTask
      <4>2. activations' \in [Tasks -> Int]
        BY <1>3, <2>2 DEF TerminateTask, IInv, TypeOK
      <4>3. /\ error' = "E_OK"
            /\ UNCHANGED <<actPriority, events, eventsWait, resources, target,
                          isr, boot>>
        BY <1>3, <2>2 DEF TerminateTask
      <4> QED BY <3>2, <4>1, <4>2, <4>3, FinishKeeps DEF IInv, TypeOK
    <3>5. Finish(t) /\ UNCHANGED <<resources, isr>>
      BY <1>3, <2>2 DEF TerminateTask
    <3> QED BY <3>2, <3>3, <3>4, <3>5, FinishKeeps DEF IInv
  <2> QED BY <2>1, <2>2
<1>4. ASSUME NEW t \in Tasks, NEW u \in Chains[t], ChainTask(t, u)
      PROVE  IInv'
  <2>1. CASE u \in Tasks /\ resources[t] = {} /\ ChainAllowed(t, u)
    <3>1. /\ pc' = [pc EXCEPT ![t] = "chain"]
          /\ target' = [target EXCEPT ![t] = u]
          /\ error' = "E_OK"
          /\ UNCHANGED <<taskVars, ready, running, context, isr, boot>>
      BY <1>4, <2>1 DEF ChainTask
    <3>2. TypeOK'
      BY <2>1, <3>1 DEF taskVars, IInv, TypeOK
    <3>3. \A v \in Tasks : pc'[v] = "chain" => resources'[v] = {}
      BY <2>1, <3>1 DEF taskVars, IInv, TypeOK
    <3> QED BY <3>1, <3>2, <3>3 DEF taskVars, IInv, Placed, HeadOfList, IsHead
  <2>2. CASE ~(u \in Tasks /\ resources[t] = {} /\ ChainAllowed(t, u))
    BY <1>4, <2>2, ReturnIInv DEF ChainTask
  <2> QED BY <2>1, <2>2
<1>5. ASSUME NEW t \in Tasks, Chain(t)
      PROVE  IInv'
  <2> DEFINE u == target[t]
  <2>1. u \in Tasks
    BY <1>5 DEF Chain, IInv, TypeOK
  <2>2. HeadIn(ready, t)
    BY <1>5 DEF Chain, IInv, HeadOfList, IsHead, HeadIn
  <2>3. /\ RemoveTask(ready, t) \in [Priorities -> Seq(Tasks)]
        /\ Placed(RemoveTask(ready, t))
        /\ \A v \in Tasks \ {t} : HeadIn(ready, v) => HeadIn(RemoveTask(ready, t), v)
    BY <2>2, RemoveTaskLists DEF IInv, TypeOK
  <2>4. /\ ready' = AddReady(RemoveTask(ready, t), u)
        /\ ready' \in [Priorities -> Seq(Tasks)]
        /\ Placed(ready')
        /\ \A v \in Tasks \ {t} : IsHead(v) => IsHead(v)'
    <3>1. ready' = AddReady(RemoveTask(ready, t), u)
      BY <1>5 DEF Chain
    <3>2. \A v \in Tasks \ {t} : HeadIn(ready, v) => HeadIn(ready', v)
      BY <2>1, <2>3, <3>1, AddReadyLists
    <3> QED BY <2>1, <2>3, <3>1, <3>2, AddReadyLists DEF IsHead, HeadIn
  <2>5. resources' = resources /\ running' = INVALID_TASK /\ resources[t] = {}
    BY <1>5 DEF Chain, Finish, IInv
  <2>6. HeadOfList'
    BY <2>4, <2>5 DEF IInv, HeadOfList
  <2>7. TypeOK'
    <3>1. Finish(t)
      BY <1>5 DEF Chain
    <3>2. activations' \in [Tasks -> Int]
      <4>1. activations \in [Tasks -> Int]
        BY DEF IInv, TypeOK
      <4> DEFINE left == [activations EXCEPT ![t] = @ - 1]
      <4>2. left \in [Tasks -> Int]
        BY <4>1
      <4>3. activations' = [left EXCEPT ![u] = @ + 1]
        BY <1>5 DEF Chain
      <4> HIDE DEF left, u
      <4> QED BY <2>1, <4>2, <4>3
    <3>3. actPriority' \in [Tasks -> Priorities]
      BY <1>5, <2>1 DEF Chain, IInv, TypeOK
    <3>4. events' \in [Tasks -> SUBSET Events]
      <4>1. PICK old \in {{}, events[u]} : events' = [events EXCEPT ![u] = old]
        BY <1>5 DEF Chain
      <4>2. events \in [Tasks -> SUBSET Events]
        BY DEF IInv, TypeOK
      <4> HIDE DEF u
      <4> QED BY <2>1, <4>1, <4>2
    <3>5. /\ target' = [target EXCEPT ![t] = INVALID_TASK]
          /\ error' = "E_OK"
          /\ UNCHANGED <<eventsWait, resources, isr, boot>>
      BY <1>5 DEF Chain
    <3> QED BY <2>4, <3>1, <3>2, <3>3, <3>4, <3>5, FinishKeeps DEF IInv, TypeOK
  <2>8. Finish(t) /\ UNCHANGED <<resources, isr>>
    BY <1>5 DEF Chain
  <2> QED BY <2>4, <2>6, <2>7, <2>8, FinishKeeps DEF IInv
<1>6. ASSUME NEW t \in Tasks, NEW u \in Signals[t], NEW mask \in Masks,
             SetEvent(t, u, mask)
      PROVE  IInv'
  <2>1. CASE SetEventError(u) = "E_OK"
    <3>1. u \in Tasks
      BY <2>1 DEF SetEventError
    <3>2. /\ Signal(u, mask)
          /\ error' = "E_OK"
          /\ UNCHANGED <<running, context, target, isr, boot>>
          /\ resources' = resources
      BY <1>6, <2>1 DEF SetEvent, Signal
    <3>3. /\ pc' \in [Tasks -> {"run", "enterSys", "sysSchedule", "leaveSys",
                               "schedule", "chain"}]
          /\ \A v \in Tasks : pc'[v] = "chain" => pc[v] = "chain"
      BY <1>6, <2>1 DEF SetEvent, IInv, TypeOK
    <3>4. HeadOfList'
      BY <3>1, <3>2, SignalKeeps DEF IInv, HeadOfList
    <3> QED BY <3>1, <3>2, <3>3, <3>4, SignalKeeps DEF IInv, TypeOK
  <2>2. CASE SetEventError(u) # "E_OK"
    BY <1>6, <2>2, ReturnIInv DEF SetEvent, SetEventError
  <2> QED BY <2>1, <2>2
<1>7. ASSUME NEW t \in Tasks, NEW mask \in Masks, WaitEvent(t, mask)
      PROVE  IInv'
  <2>1. CASE UNCHANGED state /\ UNCHANGED running
    BY <1>7, <2>1, ReturnIInv DEF WaitEvent, IInv, TypeOK
  <2>2. CASE ~(UNCHANGED state /\ UNCHANGED running)
    <3>1. /\ resources[t] = {} /\ running = t
          /\ state' = [state EXCEPT ![t] = "WAITING"]
          /\ eventsWait' = [eventsWait EXCEPT ![t] = mask]
          /\ ready' = RemoveTask(ready, t)
          /\ running' = INVALID_TASK
          /\ context' = "SYS"
          /\ error' = "E_OK"
          /\ UNCHANGED <<activations, actPriority, events, resources, pc,
                        target, isr, boot>>
      BY <1>7, <2>2 DEF WaitEvent, Return
    <3>2. HeadIn(ready, t)
      BY <3>1 DEF IInv, HeadOfList, IsHead, HeadIn
    <3>3. ready \in [Priorities -> Seq(Tasks)] /\ Placed(ready)
      BY DEF IInv, TypeOK
    <3>4. /\ ready' \in [Priorities -> Seq(Tasks)]
          /\ Placed(ready')
          /\ \A u \in Tasks \ {t} : HeadIn(ready, u) => HeadIn(ready', u)
      BY <3>1, <3>2, <3>3, RemoveTaskLists
    <3>5. HeadOfList'
      BY <3>1, <3>4 DEF IInv, HeadOfList, IsHead, HeadIn
    <3>6. /\ state' \in [Tasks -> {"SUSPENDED", "READY", "RUNNING", "WAITING"}]
          /\ eventsWait' \in [Tasks -> SUBSET Events]
      BY <3>1 DEF IInv, TypeOK
    <3>7. TypeOK'
      BY <3>1, <3>4, <3>6 DEF IInv, TypeOK
    <3> QED BY <3>1, <3>4, <3>5, <3>7 DEF IInv
  <2> QED BY <2>1, <2>2
<1>8. ASSUME NEW t \in Tasks, NEW mask \in Masks, ClearEvent(t, mask)
      PROVE  IInv'
  <2>1. CASE t \notin Extended
    BY <1>8, <2>1, ReturnIInv DEF ClearEvent
  <2>2. CASE t \in Extended
    <3>1. /\ events' = [events EXCEPT ![t] = @ \ (mask \cap EventsMask[t])]
          /\ error' = "E_OK"
          /\ UNCHANGED <<state, activations, actPriority, eventsWait,
                        resources, ready, running, context, pc, target, isr, boot>>
      BY <1>8, <2>2 DEF ClearEvent
    <3>2. events' \in [Tasks -> SUBSET Events]
      BY <3>1 DEF IInv, TypeOK
    <3>3. TypeOK'
      BY <3>1, <3>2 DEF IInv, TypeOK
    <3> QED BY <3>1, <3>3 DEF IInv, Placed, HeadOfList, IsHead
  <2> QED BY <2>1, <2>2
<1>9. ASSUME NEW t \in Tasks, NEW r \in Resources, GetResource(t, r)
      PROVE  IInv'
  <2>1. CASE r \in resources[t] \/ r \notin ResourcesMask[t]
    BY <1>9, <2>1, ReturnIInv DEF GetResource
  <2>2. CASE ~(r \in resources[t] \/ r \notin ResourcesMask[t])
    <3>1. /\ actPriority' = [actPriority EXCEPT ![t] = Raised(t, r)]
          /\ resources' = [resources EXCEPT ![t] = @ \cup {r}]
          /\ error' = "E_OK"
          /\ UNCHANGED <<state, activations, events, eventsWait, ready,
                        running, context, pc, target, isr, boot>>
          /\ running = t /\ pc[t] = "run"
      BY <1>9, <2>2 DEF GetResource
    <3>2. Raised(t, r) \in Priorities
      <4>1. actPriority[t] \in Priorities
        BY DEF IInv, TypeOK
      <4> QED BY <4>1, CeilingIsPriority DEF Raised
    <3>3. TypeOK'
      BY <3>1, <3>2 DEF IInv, TypeOK
    <3>4. HeadOfList'
      BY <3>1 DEF IInv, TypeOK, HeadOfList, IsHead
    <3> QED BY <3>1, <3>3, <3>4 DEF IInv, TypeOK, Placed
  <2> QED BY <2>1, <2>2
<1>10. ASSUME NEW t \in Tasks, NEW r \in Resources, ReleaseResource(t, r)
       PROVE  IInv'
  <2>1. CASE r \notin resources[t]
    BY <1>10, <2>1, ReturnIInv DEF ReleaseResource
  <2>2. CASE r \in resources[t]
    <3> DEFINE level == PriorityWith(t, resources[t] \ {r})
    <3>1. /\ resources' = [resources EXCEPT ![t] = @ \ {r}]
          /\ actPriority' = [actPriority EXCEPT ![t] = level]
          /\ pc' = IF t \in Preemtive THEN [pc EXCEPT ![t] = "schedule"] ELSE pc
          /\ error' = "E_OK"
          /\ UNCHANGED <<state, activations, events, eventsWait, ready,
                        running, context, target, isr, boot>>
      BY <1>10, <2>2 DEF ReleaseResource
    <3>2. level \in Priorities
      BY PriorityLeft
    <3> HIDE DEF level
    <3>3. /\ pc' \in [Tasks -> {"run", "enterSys", "sysSchedule", "leaveSys",
                               "schedule", "chain"}]
          /\ \A v \in Tasks : pc'[v] = "chain" => pc[v] = "chain"
      BY <3>1 DEF IInv, TypeOK
    <3>4. \A v \in Tasks : resources'[v] \subseteq resources[v]
      BY <3>1 DEF IInv, TypeOK
    <3>5. TypeOK'
      BY <3>1, <3>2, <3>3 DEF IInv, TypeOK
    <3>6. HeadOfList'
      BY <3>1, <3>4 DEF IInv, HeadOfList, IsHead
    <3> QED BY <3>1, <3>3, <3>4, <3>5, <3>6 DEF IInv, Placed
  <2> QED BY <2>1, <2>2
<1>11. ASSUME NEW t \in Tasks, NEW point \in {"run", "schedule"},
              Schedule(t, point)
       PROVE  IInv'
  <2>1. /\ running = t /\ isr' = "none" /\ isr = "none"
        /\ pc' = [pc EXCEPT ![t] = "run"]
        /\ error' \in {"E_OK", "E_OS_RESOURCE"}
        /\ UNCHANGED <<activations, actPriority, events, eventsWait, resources,
                      ready, target, boot>>
        /\ \/ Reschedule(context)
           \/ UNCHANGED <<state, running, context>>
    BY <1>11 DEF Schedule
  <2>2. /\ state' \in [Tasks -> {"SUSPENDED", "READY", "RUNNING", "WAITING"}]
        /\ running' \in Tasks /\ IsHead(running')
        /\ context' \in {"TASK", context}
    <3>1. CASE Reschedule(context)
      BY <2>1, <3>1, RescheduleKeeps
    <3>2. CASE UNCHANGED <<state, running, context>>
      BY <2>1, <3>2 DEF IInv, TypeOK, HeadOfList
    <3> QED BY <2>1, <3>1, <3>2
  <2>3. HeadOfList'
    BY <2>1, <2>2 DEF IInv, HeadOfList, IsHead
  <2>4. TypeOK'
    BY <2>1, <2>2 DEF IInv, TypeOK
  <2> QED BY <2>1, <2>2, <2>3, <2>4 DEF IInv, TypeOK, Placed
<1>12. ASSUME NEW t \in Tasks, EnterSys(t) \/ LeaveSys(t)
       PROVE  IInv'
  <2>1. /\ context' \in {"SYS", "TASK"}
        /\ pc' \in [Tasks -> {"run", "enterSys", "sysSchedule", "leaveSys",
                             "schedule", "chain"}]
        /\ \A v \in Tasks : pc'[v] = "chain" => pc[v] = "chain"
        /\ error' = "E_OK"
        /\ UNCHANGED <<taskVars, ready, running, target, isr, boot>>
    BY <1>12 DEF EnterSys, LeaveSys, IInv, TypeOK
  <2>2. TypeOK'
    BY <2>1 DEF taskVars, IInv, TypeOK
  <2> QED BY <2>1, <2>2 DEF taskVars, IInv, Placed, HeadOfList, IsHead
<1>13. ASSUME NEW t \in Tasks, SysSchedule(t)
       PROVE  IInv'
  <2>1. /\ running = t /\ isr' = "none" /\ isr = "none"
        /\ pc' = [pc EXCEPT ![t] = "leaveSys"]
        /\ error' = "E_OK"
        /\ UNCHANGED <<activations, actPriority, events, eventsWait, resources,
                      ready, target, boot>>
        /\ Reschedule(context)
    BY <1>13 DEF SysSchedule
  <2>2. /\ state' \in [Tasks -> {"SUSPENDED", "READY", "RUNNING", "WAITING"}]
        /\ running' \in Tasks /\ IsHead(running')
        /\ context' \in {"TASK", context}
    BY <2>1, RescheduleKeeps
  <2>3. HeadOfList'
    BY <2>1, <2>2 DEF IInv, HeadOfList, IsHead
  <2>4. TypeOK'
    BY <2>1, <2>2 DEF IInv, TypeOK
  <2> QED BY <2>1, <2>2, <2>3, <2>4 DEF IInv, TypeOK, Placed
<1>14. CASE Dispatch
  <2> DEFINE next == GetNextTask
  <2>1. /\ next # INVALID_TASK /\ running' = next
        /\ state' = [state EXCEPT ![next] = "RUNNING"]
        /\ context' = "TASK" /\ error' = "E_OK" /\ isr = "none"
        /\ UNCHANGED <<activations, actPriority, events, eventsWait, resources,
                      ready, pc, target, isr, boot>>
    BY <1>14 DEF Dispatch
  <2>2. next \in Tasks /\ IsHead(next)
    BY <2>1, IInvListed, NextTaskIsHead
  <2> HIDE DEF next
  <2>3. TypeOK'
    BY <2>1, <2>2 DEF IInv, TypeOK
  <2>4. HeadOfList'
    BY <2>1, <2>2 DEF IInv, HeadOfList, IsHead
  <2> QED BY <2>1, <2>3, <2>4 DEF IInv, Placed
<1>15. CASE IsrEnter
  <2>1. /\ isr = "none" /\ isr' = context /\ context' = "ISR2"
        /\ error' = "E_OK"
        /\ UNCHANGED <<taskVars, ready, running, pc, target, boot>>
    BY <1>15 DEF IsrEnter
  <2>2. isr' \in {"SYS", "TASK"}
    BY <2>1 DEF IInv, TypeOK
  <2>3. TypeOK'
    BY <2>1, <2>2 DEF taskVars, IInv, TypeOK
  <2> QED BY <2>1, <2>2, <2>3 DEF taskVars, IInv, Placed, HeadOfList, IsHead
<1>16. ASSUME NEW u \in IsrActivates, IsrActivateTask(u)
       PROVE  IInv'
  <2>1. u \in Tasks
    OBVIOUS
  <2>2. CASE ActivationAllowed(u)
    <3>1. /\ Activate(u)
          /\ error' = "E_OK"
          /\ UNCHANGED <<running, context, pc, target, isr, boot, resources>>
      BY <1>16, <2>2 DEF IsrActivateTask, Activate
    <3>2. HeadOfList'
      BY <2>1, <3>1, ActivateKeeps DEF IInv, HeadOfList
    <3>3. TypeOK'
      BY <2>1, <3>1, ActivateKeeps DEF IInv, TypeOK
    <3> QED BY <2>1, <3>1, <3>2, <3>3, ActivateKeeps DEF IInv
  <2>3. CASE ~ActivationAllowed(u)
    BY <1>16, <2>3, ReturnIInv DEF IsrActivateTask, ActivateError
  <2> QED BY <2>2, <2>3
<1>17. ASSUME NEW u \in IsrSignals, NEW mask \in Masks, IsrSetEvent(u, mask)
       PROVE  IInv'
  <2>1. u \in Tasks
    OBVIOUS
  <2>2. CASE SetEventError(u) = "E_OK"
    <3>1. /\ Signal(u, mask)
          /\ error' = "E_OK"
          /\ UNCHANGED <<running, context, pc, target, isr, boot, resources>>
      BY <1>17, <2>2 DEF IsrSetEvent, Signal
    <3>2. HeadOfList'
      BY <2>1, <3>1, SignalKeeps DEF IInv, HeadOfList
    <3>3. TypeOK'
      BY <2>1, <3>1, SignalKeeps DEF IInv, TypeOK
    <3> QED BY <2>1, <3>1, <3>2, <3>3, SignalKeeps DEF IInv
  <2>3. CASE SetEventError(u) # "E_OK"
    BY <1>17, <2>3, ReturnIInv DEF IsrSetEvent, SetEventError
  <2> QED BY <2>2, <2>3
<1>18. CASE IsrExit
  <2>1. /\ isr # "none" /\ isr' = "none" /\ error' = "E_OK"
        /\ UNCHANGED <<activations, actPriority, events, eventsWait, resources,
                      ready, pc, target, boot>>
        /\ isr \in {"SYS", "TASK"}
    BY <1>18 DEF IsrExit, IInv, TypeOK
  <2>2. /\ state' \in [Tasks -> {"SUSPENDED", "READY", "RUNNING", "WAITING"}]
        /\ running' = running \/ (running' \in Tasks /\ IsHead(running'))
        /\ context' \in {"SYS", "TASK"}
    <3>1. CASE IsrReschedules
      <4>1. running \in Tasks /\ Reschedule(isr)
        BY <1>18, <3>1 DEF IsrExit, IsrReschedules
      <4> QED BY <2>1, <4>1, RescheduleKeeps
    <3>2. CASE ~IsrReschedules
      <4>1. context' = isr /\ UNCHANGED <<state, running>>
        BY <1>18, <3>2 DEF IsrExit
      <4>2. state \in [Tasks -> {"SUSPENDED", "READY", "RUNNING", "WAITING"}]
        BY DEF IInv, TypeOK
      <4> QED BY <2>1, <4>1, <4>2
    <3> QED BY <3>1, <3>2
  <2>3. HeadOfList'
    BY <2>1, <2>2 DEF IInv, HeadOfList, IsHead
  <2>4. TypeOK'
    BY <2>1, <2>2 DEF IInv, TypeOK
  <2> QED BY <2>1, <2>2, <2>3, <2>4 DEF IInv, Placed
<1>19. CASE UNCHANGED vars
  BY <1>19 DEF vars, IInv, TypeOK, Placed, HeadOfList, IsHead
<1>20. ASSUME NEW t \in Tasks, Application(t)
       PROVE  IInv'
  BY <1>2, <1>3, <1>4, <1>6, <1>7, <1>8, <1>9, <1>10, <1>11, <1>20
  DEF Application
<1>21. ASSUME NEW t \in Tasks, Kernel(t)
       PROVE  IInv'
  BY <1>5, <1>11, <1>12, <1>13, <1>21 DEF Kernel
<1>22. CASE Interrupt
  BY <1>15, <1>16, <1>17, <1>18, <1>22 DEF Interrupt
<1> QED BY <1>1, <1>14, <1>19, <1>20, <1>21, <1>22 DEF Next

\* The invariant of every execution.
LEMMA InvariantIInv == Spec => []IInv
  BY InitIInv, StepIInv, PTL DEF Spec

\* Every variable keeps its type: whatever the application calls, the kernel
\* never puts into its tables what is not a task, a priority or a state.
THEOREM TypeCorrect == Spec => []TypeOK
<1>1. IInv => TypeOK
  BY DEF IInv
<1> QED BY <1>1, InvariantIInv, PTL

\* RemoveTask, which drops the first entry of a list unseen, and GetNextTask,
\* which takes a resource holder without looking at its list, always find the
\* task they mean at the head of its list.
THEOREM RunningIsHead == Spec => []HeadOfList
<1>1. IInv => HeadOfList
  BY DEF IInv
<1> QED BY <1>1, InvariantIInv, PTL

-----------------------------------------------------------------------------
(* Wake-ups.                                                               *)

\* A step leaves no task waiting for an event it has, if every task that waits
\* afterwards waited before for the same events and has not got new ones.
LEMMA StillWaits ==
  ASSUME NoLostWakeup,
         \A t \in Tasks : state'[t] = "WAITING" =>
           /\ state[t] = "WAITING"
           /\ eventsWait'[t] = eventsWait[t]
           /\ events'[t] \subseteq events[t]
  PROVE  NoLostWakeup'
  BY DEF NoLostWakeup

LEMMA RescheduleWakes ==
  ASSUME IInv, running \in Tasks, NEW saved, Reschedule(saved)
  PROVE  \A t \in Tasks : state'[t] = "WAITING" => state[t] = "WAITING"
<1>1. state \in [Tasks -> {"SUSPENDED", "READY", "RUNNING", "WAITING"}]
  BY DEF IInv, TypeOK
<1> QED BY <1>1 DEF Reschedule

LEMMA ActivateWakes ==
  ASSUME IInv, NEW u \in Tasks, Activate(u), NoLostWakeup
  PROVE  NoLostWakeup'
<1>1. /\ state' = [state EXCEPT ![u] = IF @ = "SUSPENDED" THEN "READY" ELSE @]
      /\ events' = [events EXCEPT ![u] = IF state[u] = "SUSPENDED" THEN {} ELSE @]
      /\ eventsWait' = eventsWait
  BY DEF Activate
<1>2. /\ state \in [Tasks -> {"SUSPENDED", "READY", "RUNNING", "WAITING"}]
      /\ events \in [Tasks -> SUBSET Events]
  BY DEF IInv, TypeOK
<1> QED BY <1>1, <1>2, StillWaits

LEMMA SignalWakes ==
  ASSUME IInv, NEW u \in Tasks, NEW mask, Signal(u, mask), NoLostWakeup
  PROVE  NoLostWakeup'
<1>1. /\ events' = [events EXCEPT ![u] = @ \cup (mask \cap EventsMask[u])]
      /\ eventsWait' = eventsWait
  BY DEF Signal
<1>2. /\ state \in [Tasks -> {"SUSPENDED", "READY", "RUNNING", "WAITING"}]
      /\ events \in [Tasks -> SUBSET Events]
  BY DEF IInv, TypeOK
<1>3. CASE Wakes(u, mask)
  <2>1. state' = [state EXCEPT ![u] = "READY"]
    BY <1>3 DEF Signal
  <2> QED BY <1>1, <1>2, <2>1 DEF NoLostWakeup
<1>4. CASE ~Wakes(u, mask)
  <2>1. state' = state
    BY <1>4 DEF Signal
  <2>2. state'[u] = "WAITING" => eventsWait'[u] \cap events'[u] = {}
    BY <1>1, <1>2, <1>4, <2>1 DEF Wakes
  <2> QED BY <1>1, <1>2, <2>1, <2>2 DEF NoLostWakeup
<1> QED BY <1>3, <1>4

LEMMA StepWakes == IInv /\ NoLostWakeup /\ [Next]_vars => NoLostWakeup'
<1> USE TasksAssumption, ConfigAssumption, ApplicationAssumption
<1> SUFFICES ASSUME IInv, NoLostWakeup, [Next]_vars PROVE NoLostWakeup'
  OBVIOUS
<1> DEFINE Types == /\ state \in [Tasks -> {"SUSPENDED", "READY", "RUNNING", "WAITING"}]
                    /\ events \in [Tasks -> SUBSET Events]
                    /\ eventsWait \in [Tasks -> SUBSET Events]
<1>0. Types
  BY DEF IInv, TypeOK
<1>1. ASSUME UNCHANGED <<state, events, eventsWait>>
      PROVE  NoLostWakeup'
  BY <1>1, StillWaits
<1>2. CASE StartOS
  <2> DEFINE t == AutoStart[boot + 1]
  <2>1. t \in Tasks
    BY <1>2 DEF StartOS, Booted, IInv, TypeOK
  <2>2. Activate(t) \/ UNCHANGED <<state, events, eventsWait>>
    BY <1>2 DEF StartOS, taskVars
  <2> QED BY <1>1, <2>1, <2>2, ActivateWakes
<1>3. ASSUME NEW t \in Tasks, NEW u, ActivateTask(t, u)
      PROVE  NoLostWakeup'
  <2>1. (u \in Tasks /\ Activate(u)) \/ UNCHANGED <<state, events, eventsWait>>
    BY <1>3 DEF ActivateTask, Return
  <2> QED BY <1>1, <2>1, ActivateWakes
<1>4. ASSUME NEW t \in Tasks, TerminateTask(t)
      PROVE  NoLostWakeup'
  <2>1. CASE resources[t] # {}
    BY <1>1, <1>4, <2>1 DEF TerminateTask, Return
  <2>2. CASE resources[t] = {}
    <3>1. /\ state' = [state EXCEPT ![t] = StateAfterEnd(t)]
          /\ UNCHANGED <<events, eventsWait>>
      BY <1>4, <2>2 DEF TerminateTask, Finish
    <3>2. StateAfterEnd(t) # "WAITING"
      BY DEF StateAfterEnd
    <3> QED BY <1>0, <3>1, <3>2, StillWaits
  <2> QED BY <2>1, <2>2
<1>5. ASSUME NEW t \in Tasks, NEW u, ChainTask(t, u)
      PROVE  NoLostWakeup'
  BY <1>1, <1>5 DEF ChainTask, Return, taskVars
<1>6. ASSUME NEW t \in Tasks, Chain(t)
      PROVE  NoLostWakeup'
  <2> DEFINE u == target[t]
  <2>1. /\ state' = [state EXCEPT ![t] = StateAfterEnd(t)]
        /\ eventsWait' = eventsWait
    BY <1>6 DEF Chain, Finish
  <2>2. \E old \in {{}, events[u]} : events' = [events EXCEPT ![u] = old]
    BY <1>6 DEF Chain
  <2>3. StateAfterEnd(t) # "WAITING"
    BY DEF StateAfterEnd
  <2> HIDE DEF u
  <2> QED BY <1>0, <2>1, <2>2, <2>3, StillWaits
<1>7. ASSUME NEW t \in Tasks, NEW u, NEW mask, SetEvent(t, u, mask)
      PROVE  NoLostWakeup'
  <2>1. \/ u \in Tasks /\ Signal(u, mask)
        \/ UNCHANGED <<state, events, eventsWait>>
    BY <1>7 DEF SetEvent, SetEventError, Return
  <2> QED BY <1>1, <2>1, SignalWakes
<1>8. ASSUME NEW t \in Tasks, NEW mask \in Masks, WaitEvent(t, mask)
      PROVE  NoLostWakeup'
  <2>1. CASE UNCHANGED <<state, events, eventsWait>>
    BY <1>1, <2>1
  <2>2. CASE ~UNCHANGED <<state, events, eventsWait>>
    <3>1. /\ mask \cap events[t] = {}
          /\ state' = [state EXCEPT ![t] = "WAITING"]
          /\ eventsWait' = [eventsWait EXCEPT ![t] = mask]
          /\ events' = events
      BY <1>8, <2>2 DEF WaitEvent, Return
    <3> QED BY <1>0, <3>1 DEF NoLostWakeup
  <2> QED BY <2>1, <2>2
<1>9. ASSUME NEW t \in Tasks, NEW mask \in Masks, ClearEvent(t, mask)
      PROVE  NoLostWakeup'
  <2>1. /\ UNCHANGED <<state, eventsWait>>
        /\ \/ events' = [events EXCEPT ![t] = @ \ (mask \cap EventsMask[t])]
           \/ events' = events
    BY <1>9 DEF ClearEvent, Return
  <2> QED BY <1>0, <2>1, StillWaits
<1>10. ASSUME NEW t \in Tasks, NEW r, GetResource(t, r) \/ ReleaseResource(t, r)
       PROVE  NoLostWakeup'
  BY <1>1, <1>10 DEF GetResource, ReleaseResource, Return
<1>11. ASSUME NEW t \in Tasks, NEW point, Schedule(t, point) \/ SysSchedule(t)
       PROVE  NoLostWakeup'
  <2>1. /\ running \in Tasks
        /\ UNCHANGED <<events, eventsWait>>
        /\ Reschedule(context) \/ UNCHANGED state
    BY <1>11 DEF Schedule, SysSchedule, At
  <2> QED BY <2>1, RescheduleWakes, StillWaits
<1>12. ASSUME NEW t \in Tasks, EnterSys(t) \/ LeaveSys(t)
       PROVE  NoLostWakeup'
  BY <1>1, <1>12 DEF EnterSys, LeaveSys, taskVars
<1>13. CASE Dispatch
  <2>1. /\ state' = [state EXCEPT ![GetNextTask] = "RUNNING"]
        /\ UNCHANGED <<events, eventsWait>>
    BY <1>13 DEF Dispatch
  <2> QED BY <1>0, <2>1, StillWaits
<1>14. CASE IsrEnter
  BY <1>1, <1>14 DEF IsrEnter, taskVars
<1>15. ASSUME NEW u \in IsrActivates, IsrActivateTask(u)
       PROVE  NoLostWakeup'
  <2>1. u \in Tasks
    OBVIOUS
  <2>2. Activate(u) \/ UNCHANGED <<state, events, eventsWait>>
    BY <1>15 DEF IsrActivateTask, Return
  <2> QED BY <1>1, <2>1, <2>2, ActivateWakes
<1>16. ASSUME NEW u \in IsrSignals, NEW mask \in Masks, IsrSetEvent(u, mask)
       PROVE  NoLostWakeup'
  <2>1. u \in Tasks
    OBVIOUS
  <2>2. Signal(u, mask) \/ UNCHANGED <<state, events, eventsWait>>
    BY <1>16 DEF IsrSetEvent, Return
  <2> QED BY <1>1, <2>1, <2>2, SignalWakes
<1>17. CASE IsrExit
  <2>1. /\ UNCHANGED <<events, eventsWait>>
        /\ (running \in Tasks /\ Reschedule(isr)) \/ UNCHANGED state
    BY <1>17 DEF IsrExit, IsrReschedules
  <2> QED BY <2>1, RescheduleWakes, StillWaits
<1>18. CASE UNCHANGED vars
  BY <1>1, <1>18 DEF vars
<1>19. ASSUME NEW t \in Tasks, Application(t) \/ Kernel(t)
       PROVE  NoLostWakeup'
  BY <1>3, <1>4, <1>5, <1>6, <1>7, <1>8, <1>9, <1>10, <1>11, <1>12, <1>19
  DEF Application, Kernel
<1>20. CASE Interrupt
  BY <1>14, <1>15, <1>16, <1>17, <1>20 DEF Interrupt
<1> QED BY <1>2, <1>13, <1>18, <1>19, <1>20 DEF Next

\* SetEvent and WaitEvent never miss each other: a task that waits has none
\* of the events it waits for, however the calls of tasks and interrupts
\* interleave.
THEOREM WakeupsArriveOnce == Spec => []NoLostWakeup
<1>1. Init => NoLostWakeup
  BY DEF Init, NoLostWakeup
<1> QED BY <1>1, StepWakes, InvariantIInv, PTL DEF Spec

-----------------------------------------------------------------------------
(* Tasks that are not preemptable.                                         *)

\* A task that is not preemptable is never at a point where a service it has
\* called reschedules on its own account.
CooperativePoints ==
  \A t \in Tasks \ Preemtive : pc[t] \in {"run", "chain"}

LEMMA StepPoints ==
  IInv /\ CooperativePoints /\ [Next]_vars => CooperativePoints'
<1> SUFFICES ASSUME IInv, CooperativePoints, [Next]_vars
             PROVE  CooperativePoints'
  OBVIOUS
<1> DEFINE Moves(t, point) == pc' = [pc EXCEPT ![t] = point]
<1>1. pc \in [Tasks -> {"run", "enterSys", "sysSchedule", "leaveSys",
                        "schedule", "chain"}]
  BY DEF IInv, TypeOK
<1>2. ASSUME NEW t \in Tasks, NEW point, Moves(t, point),
             point \in {"run", "chain"} \/ t \in Preemtive
      PROVE  CooperativePoints'
  BY <1>1, <1>2 DEF CooperativePoints
<1>3. ASSUME UNCHANGED pc
      PROVE  CooperativePoints'
  BY <1>3 DEF CooperativePoints
<1>4. ASSUME NEW t \in Tasks, Application(t)
      PROVE  \/ UNCHANGED pc
             \/ Moves(t, "run") \/ Moves(t, "chain")
             \/ t \in Preemtive /\ Moves(t, "enterSys")
             \/ t \in Preemtive /\ Moves(t, "schedule")
  <2>1. ASSUME NEW u, ActivateTask(t, u)
        PROVE  UNCHANGED pc \/ (t \in Preemtive /\ Moves(t, "enterSys"))
    BY <2>1 DEF ActivateTask, Return
  <2>2. ASSUME TerminateTask(t)
        PROVE  UNCHANGED pc \/ Moves(t, "run")
    BY <2>2 DEF TerminateTask, Finish, Return
  <2>3. ASSUME NEW u, ChainTask(t, u)
        PROVE  UNCHANGED pc \/ Moves(t, "chain")
    BY <2>3 DEF ChainTask, Return
  <2>4. ASSUME NEW u, NEW mask, SetEvent(t, u, mask)
        PROVE  UNCHANGED pc \/ (t \in Preemtive /\ Moves(t, "schedule"))
    BY <2>4 DEF SetEvent, Return
  <2>5. ASSUME NEW mask, WaitEvent(t, mask) \/ ClearEvent(t, mask)
        PROVE  UNCHANGED pc
    BY <2>5 DEF WaitEvent, ClearEvent, Return
  <2>6. ASSUME NEW r, GetResource(t, r) \/ ReleaseResource(t, r)
        PROVE  UNCHANGED pc \/ (t \in Preemtive /\ Moves(t, "schedule"))
    BY <2>6 DEF GetResource, ReleaseResource, Return
  <2>7. ASSUME Schedule(t, "run")
        PROVE  Moves(t, "run")
    BY <2>7 DEF Schedule
  <2> HIDE DEF Moves
  <2> QED BY <1>4, <2>1, <2>2, <2>3, <2>4, <2>5, <2>6, <2>7 DEF Application
<1>5. ASSUME NEW t \in Tasks, Kernel(t)
      PROVE  \/ Moves(t, "run")
             \/ t \in Preemtive /\ Moves(t, "sysSchedule")
             \/ t \in Preemtive /\ Moves(t, "leaveSys")
  BY <1>5 DEF Kernel, EnterSys, SysSchedule, LeaveSys, Chain, Finish, Schedule,
              At, CooperativePoints
<1>6. CASE StartOS \/ Dispatch \/ Interrupt \/ UNCHANGED vars
  <2>1. UNCHANGED pc
    BY <1>6 DEF StartOS, Dispatch, Interrupt, IsrEnter, IsrActivateTask,
                IsrSetEvent, IsrExit, Return, vars
  <2> QED BY <1>3, <2>1
<1> HIDE DEF Moves
<1> QED BY <1>2, <1>3, <1>4, <1>5, <1>6 DEF Next

\* A task that is not preemptable keeps the processor until it calls a
\* service that gives it up; no interrupt and no other task takes it.
THEOREM CooperativeTasks == Spec => NonPreemptableKeepsCpu
<1> DEFINE Keeps == \A t \in Tasks \ Preemtive :
                      running = t /\ running' # t =>
                        isr = "none" /\ pc[t] \in {"run", "chain"}
<1>1. Init => CooperativePoints
  BY DEF Init, CooperativePoints
<1>2. CooperativePoints /\ [Next]_vars => [Keeps]_vars
  <2> SUFFICES ASSUME CooperativePoints, Next,
                      NEW t \in Tasks \ Preemtive, running = t, running' # t
               PROVE  isr = "none"
    BY DEF CooperativePoints
  <2>1. ASSUME NEW u \in Tasks, Application(u)
        PROVE  isr = "none"
    BY <2>1 DEF Application, ActivateTask, TerminateTask, ChainTask, Schedule,
                SetEvent, WaitEvent, ClearEvent, GetResource, ReleaseResource, At
  <2>2. ASSUME NEW u \in Tasks, Kernel(u)
        PROVE  isr = "none"
    BY <2>2 DEF Kernel, EnterSys, SysSchedule, LeaveSys, Chain, Schedule, At
  <2>3. ASSUME Interrupt
        PROVE  isr = "none"
    BY <2>3 DEF Interrupt, IsrEnter, IsrActivateTask, IsrSetEvent, IsrExit,
                IsrReschedules, Return
  <2>4. ~StartOS
    BY DEF StartOS
  <2> QED BY <2>1, <2>2, <2>3, <2>4 DEF Next, Dispatch
<1> QED BY <1>1, <1>2, StepPoints, InvariantIInv, PTL
        DEF Spec, NonPreemptableKeepsCpu

-----------------------------------------------------------------------------
(* Occurrences of an element in a sequence.                                *)

Places(s, x) == {i \in DOMAIN s : s[i] = x}

LEMMA PlacesFinite ==
  ASSUME NEW S, NEW s \in Seq(S), NEW x
  PROVE  /\ IsFiniteSet(Places(s, x))
         /\ Cardinality(Places(s, x)) \in Nat
         /\ Places(s, x) \subseteq 1 .. Len(s)
<1>1. Len(s) \in Nat /\ Places(s, x) \subseteq 1 .. Len(s)
  BY DEF Places
<1>2. IsFiniteSet(1 .. Len(s))
  BY <1>1, FS_Interval
<1> QED BY <1>1, <1>2, FS_Subset, FS_CardinalityType

\* An element is in a sequence just when it occurs in it.
LEMMA PlacesNonEmpty ==
  ASSUME NEW S, NEW s \in Seq(S), NEW x
  PROVE  (\E i \in DOMAIN s : s[i] = x) <=> Cardinality(Places(s, x)) > 0
<1>1. (\E i \in DOMAIN s : s[i] = x) <=> Places(s, x) # {}
  BY DEF Places
<1> QED BY <1>1, PlacesFinite, FS_EmptySet

\* Append adds one occurrence of what it appends.
LEMMA PlacesAppend ==
  ASSUME NEW S, NEW s \in Seq(S), NEW y \in S, NEW x
  PROVE  Cardinality(Places(Append(s, y), x)) =
           Cardinality(Places(s, x)) + (IF x = y THEN 1 ELSE 0)
<1>1. /\ Len(s) \in Nat
      /\ DOMAIN Append(s, y) = 1 .. Len(s) + 1
      /\ \A i \in 1 .. Len(s) : Append(s, y)[i] = s[i]
      /\ Append(s, y)[Len(s) + 1] = y
      /\ DOMAIN s = 1 .. Len(s)
  OBVIOUS
<1>2. CASE x = y
  <2>1. Places(Append(s, y), x) = Places(s, x) \cup {Len(s) + 1}
    BY <1>1, <1>2 DEF Places
  <2>2. Len(s) + 1 \notin Places(s, x)
    BY <1>1 DEF Places
  <2> QED BY <1>2, <2>1, <2>2, PlacesFinite, FS_AddElement
<1>3. CASE x # y
  <2>1. Places(Append(s, y), x) = Places(s, x)
    BY <1>1, <1>3 DEF Places
  <2> QED BY <1>3, <2>1, PlacesFinite
<1> QED BY <1>2, <1>3

\* Tail takes away the occurrence at the head.
LEMMA PlacesTail ==
  ASSUME NEW S, NEW s \in Seq(S), s # <<>>, NEW x
  PROVE  Cardinality(Places(Tail(s), x)) =
           Cardinality(Places(s, x)) - (IF x = Head(s) THEN 1 ELSE 0)
<1>1. /\ Len(s) \in Nat \ {0}
      /\ DOMAIN s = 1 .. Len(s)
      /\ DOMAIN Tail(s) = 1 .. Len(s) - 1
      /\ \A i \in 1 .. Len(s) - 1 : Tail(s)[i] = s[i + 1]
      /\ Head(s) = s[1]
      /\ Tail(s) \in Seq(S)
  BY EmptySeq, HeadTailProperties
<1> DEFINE rest == Places(s, x) \ {1}
           shift == [i \in Places(Tail(s), x) |-> i + 1]
<1>2. shift \in Bijection(Places(Tail(s), x), rest)
  <2>1. shift \in [Places(Tail(s), x) -> rest]
    BY <1>1 DEF Places
  <2>2. \A i, j \in Places(Tail(s), x) : shift[i] = shift[j] => i = j
    BY <1>1 DEF Places
  <2>3. \A j \in rest : \E i \in Places(Tail(s), x) : shift[i] = j
    <3> SUFFICES ASSUME NEW j \in rest
                 PROVE  \E i \in Places(Tail(s), x) : shift[i] = j
      OBVIOUS
    <3>1. j - 1 \in Places(Tail(s), x)
      BY <1>1 DEF Places
    <3>2. shift[j - 1] = j
      BY <1>1, <3>1 DEF Places
    <3> QED BY <3>1, <3>2
  <2> QED BY <2>1, <2>2, <2>3 DEF Bijection, Injection, Surjection, IsInjective
<1>3. Cardinality(Places(Tail(s), x)) = Cardinality(rest)
  <2>1. IsFiniteSet(Places(Tail(s), x))
    BY <1>1, PlacesFinite
  <2> HIDE DEF rest
  <2> QED BY <1>2, <2>1, FS_Bijection DEF ExistsBijection
<1>4. 1 \in Places(s, x) <=> x = Head(s)
  BY <1>1 DEF Places
<1>5. IsFiniteSet(Places(s, x)) /\ Cardinality(Places(s, x)) \in Nat
  BY PlacesFinite
<1>6. Cardinality(rest) = Cardinality(Places(s, x)) - (IF 1 \in Places(s, x) THEN 1 ELSE 0)
  <2>1. Cardinality(rest) = IF 1 \in Places(s, x) THEN Cardinality(Places(s, x)) - 1
                            ELSE Cardinality(Places(s, x))
    BY <1>5, FS_RemoveElement
  <2> QED BY <1>5, <2>1
<1> QED BY <1>3, <1>4, <1>6

\* The array of a list has finitely many places.
LEMMA SlotsFinite ==
  ASSUME NEW p
  PROVE  /\ IsFiniteSet(UNION {Slots(t) : t \in {u \in Tasks : StaticPriority[u] = p}})
         /\ ListLength(p) \in Nat
<1> USE TasksAssumption, ConfigAssumption
<1> DEFINE slots == {Slots(t) : t \in {u \in Tasks : StaticPriority[u] = p}}
<1>1. IsFiniteSet(UNION slots)
  <2>1. IsFiniteSet({u \in Tasks : StaticPriority[u] = p})
    BY FS_Subset
  <2>2. IsFiniteSet(slots)
    <3> DEFINE users == {u \in Tasks : StaticPriority[u] = p}
               its == [u \in users |-> Slots(u)]
    <3>1. its \in Surjection(users, slots)
      BY DEF Surjection
    <3> HIDE DEF its
    <3> QED BY <2>1, <3>1, FS_Surjection
  <2>3. ASSUME NEW t \in Tasks
        PROVE  IsFiniteSet(Slots(t))
    <3>1. IsFiniteSet({t})
      BY FS_Singleton
    <3>2. MaxActivations[t] \in Int
      OBVIOUS
    <3>3. IsFiniteSet(1 .. MaxActivations[t])
      BY <3>2, FS_Interval
    <3> QED BY <3>1, <3>3, FS_Product DEF Slots
  <2>4. \A T \in slots : IsFiniteSet(T)
    BY <2>3
  <2> HIDE DEF slots
  <2> QED BY <2>2, <2>4, FS_UNION
<1>2. ListLength(p) = Cardinality(UNION slots)
  BY DEF ListLength
<1> HIDE DEF slots
<1>3. ListLength(p) \in Nat
  BY <1>1, <1>2, FS_CardinalityType
<1> QED BY <1>1, <1>3 DEF slots

\* A list that has no task more often than ACTIVATION allows fits into its
\* array: the entry that is the k-th of task t is given the k-th slot of t.
LEMMA ListFits ==
  ASSUME NEW p \in Priorities, NEW s \in Seq(Tasks),
         \A i \in DOMAIN s : StaticPriority[s[i]] = p,
         \A t \in Tasks : Cardinality(Places(s, t)) <= MaxActivations[t]
  PROVE  Len(s) <= ListLength(p)
<1> USE TasksAssumption, ConfigAssumption
<1> DEFINE slots == {Slots(t) : t \in {u \in Tasks : StaticPriority[u] = p}}
           earlier(i) == {j \in 1 .. i : s[j] = s[i]}
           slot == [i \in 1 .. Len(s) |-> <<s[i], Cardinality(earlier(i))>>]
<1>1. Len(s) \in Nat /\ DOMAIN s = 1 .. Len(s) /\ \A i \in 1 .. Len(s) : s[i] \in Tasks
  OBVIOUS
<1>2. ASSUME NEW i \in 1 .. Len(s)
      PROVE  /\ IsFiniteSet(earlier(i))
             /\ Cardinality(earlier(i)) \in 1 .. MaxActivations[s[i]]
  <2>1. earlier(i) \subseteq Places(s, s[i])
    BY <1>1 DEF Places
  <2>2. IsFiniteSet(Places(s, s[i])) /\ Cardinality(Places(s, s[i])) \in Nat
    BY PlacesFinite
  <2>3. /\ IsFiniteSet(earlier(i))
        /\ Cardinality(earlier(i)) <= Cardinality(Places(s, s[i]))
        /\ Cardinality(earlier(i)) \in Nat
    BY <2>1, <2>2, FS_Subset, FS_CardinalityType
  <2>4. i \in earlier(i)
    OBVIOUS
  <2>5. Cardinality(earlier(i)) # 0
    <3> HIDE DEF earlier
    <3> QED BY <2>3, <2>4, FS_EmptySet
  <2>6. Cardinality(Places(s, s[i])) <= MaxActivations[s[i]] /\ MaxActivations[s[i]] \in Nat
    BY <1>1
  <2> HIDE DEF earlier
  <2> QED BY <2>2, <2>3, <2>5, <2>6
<1>3. slot \in [1 .. Len(s) -> UNION slots]
  <2> SUFFICES ASSUME NEW i \in 1 .. Len(s)
               PROVE  <<s[i], Cardinality(earlier(i))>> \in UNION slots
    OBVIOUS
  <2>1. Slots(s[i]) \in slots
    BY <1>1
  <2>2. <<s[i], Cardinality(earlier(i))>> \in Slots(s[i])
    BY <1>2 DEF Slots
  <2> QED BY <2>1, <2>2
<1>4. ASSUME NEW i \in 1 .. Len(s), NEW j \in 1 .. Len(s), i < j, s[i] = s[j]
      PROVE  Cardinality(earlier(i)) # Cardinality(earlier(j))
  <2>1. earlier(i) \subseteq earlier(j)
    BY <1>4
  <2>2. j \in earlier(j) /\ j \notin earlier(i)
    BY <1>4
  <2> HIDE DEF earlier
  <2> QED BY <1>2, <2>1, <2>2, FS_Subset
<1>5. \A i, j \in 1 .. Len(s) : slot[i] = slot[j] => i = j
  <2> SUFFICES ASSUME NEW i \in 1 .. Len(s), NEW j \in 1 .. Len(s),
                      slot[i] = slot[j], i # j
               PROVE  FALSE
    OBVIOUS
  <2>1. s[i] = s[j] /\ Cardinality(earlier(i)) = Cardinality(earlier(j))
    OBVIOUS
  <2>2. i < j \/ j < i
    OBVIOUS
  <2> HIDE DEF earlier, slot
  <2> QED BY <1>4, <2>1, <2>2
<1>6. slot \in Injection(1 .. Len(s), UNION slots)
  BY <1>3, <1>5 DEF Injection, IsInjective
<1>7. IsFiniteSet(UNION slots)
  BY SlotsFinite
<1>8. Cardinality(1 .. Len(s)) <= Cardinality(UNION slots)
  <2> HIDE DEF slot, slots
  <2> QED BY <1>6, <1>7, FS_Injection
<1>9. Cardinality(1 .. Len(s)) = Len(s)
  <2>1. \A n \in Nat : Cardinality(1 .. n) = IF 1 > n THEN 0 ELSE n - 1 + 1
    BY FS_Interval
  <2>2. \A n \in Nat : Cardinality(1 .. n) = n
    BY <2>1
  <2> QED BY <1>1, <2>2
<1> QED BY <1>8, <1>9 DEF ListLength

-----------------------------------------------------------------------------
(* The kinds of steps.  As far as counts, priorities and resources are     *)
(* concerned every step of the kernel is one of the following.             *)

\* No task goes to the second half of ChainTask.
NoNewChain ==
  /\ target' = target
  /\ \A v \in Tasks : pc'[v] = "chain" => pc[v] = "chain"

Unmoved ==
  /\ UNCHANGED <<state, activations, actPriority, resources, ready, running>>
  /\ NoNewChain

\* StartOS, a task or an interrupt activates u.
Activation(u) ==
  /\ ActivationAllowed(u) /\ Activate(u)
  /\ ~Booted \/ u \in IsrActivates \/ \E t \in Tasks : u \in Activates[t]
  /\ running' = running /\ NoNewChain

\* SetEvent wakes u.
Wakeup(u) ==
  /\ u \in Extended /\ state[u] = "WAITING"
  /\ state' = [state EXCEPT ![u] = "READY"]
  /\ ready' = AddReady(ready, u)
  /\ actPriority' = [actPriority EXCEPT ![u] = StaticPriority[u]]
  /\ UNCHANGED <<activations, resources, running>> /\ NoNewChain

\* Task t gives up the processor and leaves its list.
Leaves(t, newState) ==
  /\ running = t /\ resources[t] = {}
  /\ state' = [state EXCEPT ![t] = newState]
  /\ running' = INVALID_TASK
  /\ UNCHANGED resources

Termination(t) ==
  /\ Leaves(t, StateAfterEnd(t))
  /\ activations' = [activations EXCEPT ![t] = @ - 1]
  /\ ready' = RemoveTask(ready, t)
  /\ UNCHANGED actPriority /\ NoNewChain

Waiting(t) ==
  /\ t \in Extended /\ Leaves(t, "WAITING")
  /\ ready' = RemoveTask(ready, t)
  /\ UNCHANGED <<activations, actPriority>> /\ NoNewChain

\* The checks of ChainTask, and what follows them.
ChainChecked(t, u) ==
  /\ Booted /\ running = t /\ resources[t] = {}
  /\ u \in Chains[t] /\ u \in Tasks /\ ChainAllowed(t, u)
  /\ pc' = [pc EXCEPT ![t] = "chain"]
  /\ target' = [target EXCEPT ![t] = u]
  /\ UNCHANGED <<state, activations, actPriority, resources, ready, running>>

Chaining(t, u) ==
  /\ pc[t] = "chain" /\ target[t] = u /\ Leaves(t, StateAfterEnd(t))
  /\ activations' = [[activations EXCEPT ![t] = @ - 1] EXCEPT ![u] = @ + 1]
  /\ ready' = AddReady(RemoveTask(ready, t), u)
  /\ actPriority' = [actPriority EXCEPT ![u] = StaticPriority[u]]
  /\ pc' = [pc EXCEPT ![t] = "run"]
  /\ target' = [target EXCEPT ![t] = INVALID_TASK]

\* A task takes or gives back a resource.
Taking(t, r) ==
  /\ running = t /\ r \in ResourcesMask[t] /\ r \notin resources[t]
  /\ actPriority' = [actPriority EXCEPT ![t] = Raised(t, r)]
  /\ resources' = [resources EXCEPT ![t] = @ \cup {r}]
  /\ UNCHANGED <<state, activations, ready, running>> /\ NoNewChain

Giving(t, r) ==
  /\ running = t /\ r \in resources[t]
  /\ actPriority' = [actPriority EXCEPT ![t] = PriorityWith(t, resources[t] \ {r})]
  /\ resources' = [resources EXCEPT ![t] = @ \ {r}]
  /\ UNCHANGED <<state, activations, ready, running>> /\ NoNewChain

\* The scheduler takes the processor from a task, or gives it to the next.
Switch(next) ==
  /\ next = GetNextTask /\ running \in Tasks
  /\ StaticPriority[next] > actPriority[running]
  /\ state' = [state EXCEPT ![running] = "READY", ![next] = "RUNNING"]
  /\ running' = next
  /\ UNCHANGED <<activations, actPriority, resources, ready>> /\ NoNewChain

Start(next) ==
  /\ next = GetNextTask /\ running = INVALID_TASK
  /\ state' = [state EXCEPT ![next] = "RUNNING"]
  /\ running' = next
  /\ UNCHANGED <<activations, actPriority, resources, ready>> /\ NoNewChain

Kinds ==
  \/ Unmoved
  \/ \E u \in Tasks : Activation(u) \/ Wakeup(u)
  \/ \E t \in Tasks : Termination(t) \/ Waiting(t)
  \/ \E t \in Tasks, u \in Tasks : ChainChecked(t, u) \/ Chaining(t, u)
  \/ \E t \in Tasks, r \in Resources : Taking(t, r) \/ Giving(t, r)
  \/ \E next \in Tasks : IsHead(next) /\ (Switch(next) \/ Start(next))

\* A rescheduling is a switch, or nothing changes.
LEMMA RescheduleKinds ==
  ASSUME IInv, running \in Tasks, NEW saved, Reschedule(saved), NoNewChain,
         UNCHANGED <<activations, actPriority, resources, ready>>
  PROVE  Unmoved \/ \E next \in Tasks : IsHead(next) /\ Switch(next)
<1>1. IsHead(running)
  BY DEF IInv, HeadOfList
<1>2. NonEmpty # {}
  <2>1. StaticPriority[running] \in Priorities
    BY ConfigAssumption
  <2> QED BY <1>1, <2>1 DEF NonEmpty, IsHead
<1>3. GetNextTask \in Tasks /\ IsHead(GetNextTask)
  BY <1>2, IInvListed, NextTaskIsHead
<1>4. CASE StaticPriority[GetNextTask] > actPriority[running]
  <2>1. Switch(GetNextTask)
    BY <1>4 DEF Reschedule, Switch
  <2> QED BY <1>3, <2>1
<1>5. CASE ~(StaticPriority[GetNextTask] > actPriority[running])
  BY <1>5 DEF Reschedule, Unmoved
<1> QED BY <1>4, <1>5

\* A call of SetEvent wakes its task, or changes nothing here.
LEMMA SignalKinds ==
  ASSUME NEW u \in Tasks, u \in Extended, NEW mask, Signal(u, mask),
         running' = running, NoNewChain
  PROVE  Unmoved \/ Wakeup(u)
<1>1. CASE Wakes(u, mask)
  BY <1>1 DEF Signal, Wakes, Wakeup
<1>2. CASE ~Wakes(u, mask)
  BY <1>2 DEF Signal, Unmoved
<1> QED BY <1>1, <1>2

LEMMA ReturnKinds ==
  ASSUME NEW status, Return(status)
  PROVE  Unmoved /\ UNCHANGED <<pc, boot>>
  BY DEF Return, Unmoved, NoNewChain

LEMMA TaskKinds ==
  ASSUME IInv, NEW t \in Tasks, Application(t)
  PROVE  Kinds /\ Booted /\ Booted'
<1> USE ApplicationAssumption
<1>0. Booted /\ running = t /\ boot' = boot
  BY DEF Application, ActivateTask, TerminateTask, ChainTask, Schedule, SetEvent,
         WaitEvent, ClearEvent, GetResource, ReleaseResource, At, Return
<1>1. Booted /\ Booted'
  BY <1>0 DEF Booted
<1>2. pc \in [Tasks -> {"run", "enterSys", "sysSchedule", "leaveSys",
                        "schedule", "chain"}]
  BY DEF IInv, TypeOK
<1>3. ASSUME NEW u \in Activates[t], ActivateTask(t, u)
      PROVE  Kinds
  <2>1. CASE u \in Tasks /\ ActivationAllowed(u)
    <3>1. NoNewChain
      BY <1>2, <1>3, <2>1 DEF ActivateTask, NoNewChain
    <3>2. Activation(u)
      BY <1>3, <2>1, <3>1 DEF ActivateTask, Activation
    <3> QED BY <2>1, <3>2 DEF Kinds
  <2>2. CASE ~(u \in Tasks /\ ActivationAllowed(u))
    BY <1>3, <2>2, ReturnKinds DEF ActivateTask, Kinds
  <2> QED BY <2>1, <2>2
<1>4. ASSUME TerminateTask(t)
      PROVE  Kinds
  <2>1. CASE resources[t] # {}
    BY <1>4, <2>1, ReturnKinds DEF TerminateTask, Kinds
  <2>2. CASE resources[t] = {}
    <3>1. NoNewChain
      BY <1>2, <1>4, <2>2 DEF TerminateTask, Finish, NoNewChain
    <3>2. Termination(t)
      BY <1>0, <1>4, <2>2, <3>1 DEF TerminateTask, Finish, Termination, Leaves
    <3> QED BY <3>2 DEF Kinds
  <2> QED BY <2>1, <2>2
<1>5. ASSUME NEW u \in Chains[t], ChainTask(t, u)
      PROVE  Kinds
  <2>1. CASE u \in Tasks /\ resources[t] = {} /\ ChainAllowed(t, u)
    <3>1. ChainChecked(t, u)
      BY <1>0, <1>5, <2>1 DEF ChainTask, ChainChecked, taskVars
    <3> QED BY <2>1, <3>1 DEF Kinds
  <2>2. CASE ~(u \in Tasks /\ resources[t] = {} /\ ChainAllowed(t, u))
    BY <1>5, <2>2, ReturnKinds DEF ChainTask, Kinds
  <2> QED BY <2>1, <2>2
<1>6. ASSUME Schedule(t, "run")
      PROVE  Kinds
  <2>1. NoNewChain /\ UNCHANGED <<activations, actPriority, resources, ready>>
    BY <1>2, <1>6 DEF Schedule, NoNewChain
  <2>2. Reschedule(context) \/ UNCHANGED <<state, running>>
    BY <1>6 DEF Schedule
  <2> QED BY <1>0, <2>1, <2>2, RescheduleKinds DEF Kinds, Unmoved
<1>7. ASSUME NEW u, NEW mask, SetEvent(t, u, mask)
      PROVE  Kinds
  <2>1. CASE SetEventError(u) = "E_OK"
    <3>1. u \in Tasks /\ u \in Extended
      BY <2>1 DEF SetEventError
    <3>2. NoNewChain /\ Signal(u, mask) /\ running' = running
      BY <1>2, <1>7, <2>1 DEF SetEvent, NoNewChain
    <3> QED BY <3>1, <3>2, SignalKinds DEF Kinds
  <2>2. CASE SetEventError(u) # "E_OK"
    BY <1>7, <2>2, ReturnKinds DEF SetEvent, Kinds
  <2> QED BY <2>1, <2>2
<1>8. ASSUME NEW mask, WaitEvent(t, mask)
      PROVE  Kinds
  <2>1. CASE \E status : Return(status)
    BY <2>1, ReturnKinds DEF Kinds
  <2>2. CASE ~ \E status : Return(status)
    <3>1. Waiting(t)
      BY <1>0, <1>8, <2>2 DEF WaitEvent, Waiting, Leaves, NoNewChain
    <3> QED BY <3>1 DEF Kinds
  <2> QED BY <2>1, <2>2
<1>9. ASSUME NEW mask, ClearEvent(t, mask)
      PROVE  Kinds
  BY <1>9 DEF ClearEvent, Return, Kinds, Unmoved, NoNewChain
<1>10. ASSUME NEW r \in Resources, GetResource(t, r)
       PROVE  Kinds
  <2>1. CASE r \in resources[t] \/ r \notin ResourcesMask[t]
    BY <1>10, <2>1, ReturnKinds DEF GetResource, Kinds
  <2>2. CASE ~(r \in resources[t] \/ r \notin ResourcesMask[t])
    <3>1. Taking(t, r)
      BY <1>0, <1>10, <2>2 DEF GetResource, Taking, NoNewChain
    <3> QED BY <3>1 DEF Kinds
  <2> QED BY <2>1, <2>2
<1>11. ASSUME NEW r \in Resources, ReleaseResource(t, r)
       PROVE  Kinds
  <2>1. CASE r \notin resources[t]
    BY <1>11, <2>1, ReturnKinds DEF ReleaseResource, Kinds
  <2>2. CASE r \in resources[t]
    <3>1. NoNewChain
      BY <1>2, <1>11, <2>2 DEF ReleaseResource, NoNewChain
    <3>2. Giving(t, r)
      BY <1>0, <1>11, <2>2, <3>1 DEF ReleaseResource, Giving
    <3> QED BY <3>2 DEF Kinds
  <2> QED BY <2>1, <2>2
<1>12. Kinds
  BY <1>3, <1>4, <1>5, <1>6, <1>7, <1>8, <1>9, <1>10, <1>11 DEF Application
<1> QED BY <1>1, <1>12

LEMMA KernelKinds ==
  ASSUME IInv, NEW t \in Tasks, Kernel(t)
  PROVE  Kinds /\ Booted /\ Booted'
<1>0. Booted /\ running = t /\ boot' = boot
  BY DEF Kernel, EnterSys, SysSchedule, LeaveSys, Chain, Schedule, At
<1>1. Booted /\ Booted'
  BY <1>0 DEF Booted
<1>2. pc \in [Tasks -> {"run", "enterSys", "sysSchedule", "leaveSys",
                        "schedule", "chain"}]
  BY DEF IInv, TypeOK
<1>3. ASSUME EnterSys(t) \/ LeaveSys(t)
      PROVE  Kinds
  BY <1>2, <1>3 DEF EnterSys, LeaveSys, taskVars, Kinds, Unmoved, NoNewChain
<1>4. ASSUME SysSchedule(t)
      PROVE  Kinds
  <2>1. NoNewChain /\ UNCHANGED <<activations, actPriority, resources, ready>>
    BY <1>2, <1>4 DEF SysSchedule, NoNewChain
  <2> QED BY <1>0, <1>4, <2>1, RescheduleKinds DEF SysSchedule, Kinds
<1>5. ASSUME Chain(t)
      PROVE  Kinds
  <2> DEFINE u == target[t]
  <2>1. u \in Tasks /\ resources[t] = {}
    BY <1>5 DEF Chain, At, IInv, TypeOK
  <2>2. Chaining(t, u)
    BY <1>0, <1>5, <2>1 DEF Chain, Finish, At, Chaining, Leaves
  <2> QED BY <2>1, <2>2 DEF Kinds
<1>6. ASSUME Schedule(t, "schedule")
      PROVE  Kinds
  <2>1. NoNewChain /\ UNCHANGED <<activations, actPriority, resources, ready>>
    BY <1>2, <1>6 DEF Schedule, NoNewChain
  <2>2. Reschedule(context) \/ UNCHANGED <<state, running>>
    BY <1>6 DEF Schedule
  <2> QED BY <1>0, <2>1, <2>2, RescheduleKinds DEF Kinds, Unmoved
<1>7. Kinds
  BY <1>3, <1>4, <1>5, <1>6 DEF Kernel
<1> QED BY <1>1, <1>7

LEMMA InterruptKinds ==
  ASSUME IInv, Interrupt
  PROVE  Kinds /\ UNCHANGED <<pc, boot>>
<1> USE ApplicationAssumption
<1>1. CASE IsrEnter
  BY <1>1 DEF IsrEnter, taskVars, Kinds, Unmoved, NoNewChain
<1>2. ASSUME NEW u \in IsrActivates, IsrActivateTask(u)
      PROVE  Kinds /\ UNCHANGED <<pc, boot>>
  <2>1. CASE ActivationAllowed(u)
    <3>1. Activation(u) /\ UNCHANGED <<pc, boot>>
      BY <1>2, <2>1 DEF IsrActivateTask, Activation, NoNewChain
    <3> QED BY <3>1 DEF Kinds
  <2>2. CASE ~ActivationAllowed(u)
    BY <1>2, <2>2, ReturnKinds DEF IsrActivateTask, Kinds
  <2> QED BY <2>1, <2>2
<1>3. ASSUME NEW u \in IsrSignals, NEW mask, IsrSetEvent(u, mask)
      PROVE  Kinds /\ UNCHANGED <<pc, boot>>
  <2>1. CASE SetEventError(u) = "E_OK"
    <3>1. /\ u \in Extended /\ Signal(u, mask) /\ running' = running
          /\ NoNewChain /\ UNCHANGED <<pc, boot>>
      BY <1>3, <2>1 DEF IsrSetEvent, SetEventError, NoNewChain
    <3> QED BY <3>1, SignalKinds DEF Kinds
  <2>2. CASE SetEventError(u) # "E_OK"
    BY <1>3, <2>2, ReturnKinds DEF IsrSetEvent, Kinds
  <2> QED BY <2>1, <2>2
<1>4. CASE IsrExit
  <2>1. /\ NoNewChain
        /\ UNCHANGED <<activations, actPriority, resources, ready, pc, boot>>
    BY <1>4 DEF IsrExit, NoNewChain
  <2>2. (running \in Tasks /\ Reschedule(isr)) \/ UNCHANGED <<state, running>>
    BY <1>4, ConfigAssumption DEF IsrExit, IsrReschedules
  <2> QED BY <2>1, <2>2, RescheduleKinds DEF Kinds, Unmoved
<1> QED BY <1>1, <1>2, <1>3, <1>4 DEF Interrupt

\* Every step is of one of the kinds.  Until StartOS has ended nothing else
\* happens, so that no task moves.
LEMMA StepKinds ==
  ASSUME IInv, [Next]_vars
  PROVE  /\ Kinds
         /\ Booted => Booted'
         /\ ~Booted => UNCHANGED pc
<1>1. CASE StartOS
  <2> DEFINE t == AutoStart[boot + 1]
  <2>1. t \in Tasks
    <3>1. boot + 1 \in 1 .. Len(AutoStart)
      BY <1>1 DEF StartOS, Booted, IInv, TypeOK
    <3> QED BY <3>1, ConfigAssumption
  <2>2. ~Booted /\ UNCHANGED <<pc, running, target>>
    BY <1>1 DEF StartOS
  <2>3. Activation(t) \/ Unmoved
    <3> HIDE DEF t
    <3>1. NoNewChain
      BY <2>2 DEF NoNewChain
    <3>2. \/ ActivationAllowed(t) /\ Activate(t)
          \/ UNCHANGED <<taskVars, ready>>
      BY <1>1 DEF StartOS, t
    <3> QED BY <2>2, <3>1, <3>2 DEF Activation, Unmoved, taskVars
  <2> HIDE DEF t
  <2> QED BY <2>1, <2>2, <2>3 DEF Kinds
<1>2. CASE Dispatch
  <2> DEFINE next == GetNextTask
  <2>1. Start(next) /\ next # INVALID_TASK /\ Booted /\ boot' = boot
    BY <1>2 DEF Dispatch, Start, NoNewChain
  <2>2. next \in Tasks /\ IsHead(next)
    BY <2>1, IInvListed, NextTaskIsHead
  <2> HIDE DEF next
  <2> QED BY <2>1, <2>2 DEF Kinds, Booted
<1>3. CASE \E t \in Tasks : Application(t) \/ Kernel(t)
  BY <1>3, TaskKinds, KernelKinds
<1>4. CASE Interrupt
  BY <1>4, InterruptKinds DEF Booted
<1>5. CASE UNCHANGED vars
  BY <1>5 DEF vars, Kinds, Unmoved, NoNewChain, Booted
<1> QED BY <1>1, <1>2, <1>3, <1>4, <1>5 DEF Next

-----------------------------------------------------------------------------
(* Counts.                                                                 *)

\* How often task t is in its list.
CountIn(lists, t) == Cardinality(Places(lists[StaticPriority[t]], t))

LEMMA EntriesCount == \A t : Entries(t) = CountIn(ready, t)
  BY DEF Entries, CountIn, Places

\* A task is in its list just when it is there at least once.
LEMMA InListCount ==
  ASSUME ready \in [Priorities -> Seq(Tasks)], NEW t \in Tasks
  PROVE  /\ CountIn(ready, t) \in Nat
         /\ InReadyList(t) <=> CountIn(ready, t) > 0
<1>1. ready[StaticPriority[t]] \in Seq(Tasks)
  BY ConfigAssumption
<1> QED BY <1>1, PlacesFinite, PlacesNonEmpty DEF CountIn, InReadyList

LEMMA AddReadyCount ==
  ASSUME NEW lists \in [Priorities -> Seq(Tasks)], NEW u \in Tasks,
         NEW t \in Tasks
  PROVE  CountIn(AddReady(lists, u), t) =
           CountIn(lists, t) + (IF t = u THEN 1 ELSE 0)
<1> DEFINE p == StaticPriority[u]
           q == StaticPriority[t]
<1>1. p \in Priorities /\ q \in Priorities
  BY ConfigAssumption
<1>2. lists[q] \in Seq(Tasks)
  BY <1>1
<1>3. AddReady(lists, u)[q] = IF q = p THEN Append(lists[q], u) ELSE lists[q]
  BY <1>1 DEF AddReady
<1>4. CountIn(lists, t) \in Nat
  BY <1>2, PlacesFinite DEF CountIn
<1>5. CASE q = p
  BY <1>2, <1>3, <1>5, PlacesAppend DEF CountIn
<1>6. CASE q # p
  <2>1. t # u
    BY <1>6
  <2> QED BY <1>3, <1>4, <1>6, <2>1 DEF CountIn
<1> QED BY <1>5, <1>6

LEMMA RemoveTaskCount ==
  ASSUME NEW lists \in [Priorities -> Seq(Tasks)], NEW u \in Tasks,
         HeadIn(lists, u), NEW t \in Tasks
  PROVE  CountIn(RemoveTask(lists, u), t) =
           CountIn(lists, t) - (IF t = u THEN 1 ELSE 0)
<1> DEFINE p == StaticPriority[u]
           q == StaticPriority[t]
<1>1. p \in Priorities /\ q \in Priorities
  BY ConfigAssumption
<1>2. lists[q] \in Seq(Tasks)
  BY <1>1
<1>3. RemoveTask(lists, u)[q] = IF q = p THEN Tail(lists[q]) ELSE lists[q]
  BY <1>1 DEF RemoveTask
<1>4. CountIn(lists, t) \in Nat
  BY <1>2, PlacesFinite DEF CountIn
<1>5. CASE q = p
  <2>1. lists[q] # <<>> /\ Head(lists[q]) = u
    BY <1>5 DEF HeadIn
  <2>2. Cardinality(Places(Tail(lists[q]), t)) =
          Cardinality(Places(lists[q], t)) - (IF t = u THEN 1 ELSE 0)
    BY <1>2, <2>1, PlacesTail
  <2> QED BY <1>3, <1>5, <2>2 DEF CountIn
<1>6. CASE q # p
  <2>1. t # u
    BY <1>6
  <2> QED BY <1>3, <1>4, <1>6, <2>1 DEF CountIn
<1> QED BY <1>5, <1>6

\* What the running task and the tasks that wait are, whatever is called.
Roles ==
  /\ \A t \in Tasks : state[t] = "RUNNING" <=> running = t
  /\ \A t \in Tasks : state[t] = "WAITING" => t \in Extended

LEMMA StepRoles == IInv /\ Roles /\ [Next]_vars => Roles'
<1> SUFFICES ASSUME IInv, Roles, [Next]_vars PROVE Roles'
  OBVIOUS
<1> USE TasksAssumption
<1> DEFINE States == {"SUSPENDED", "READY", "RUNNING", "WAITING"}
<1>0. /\ state \in [Tasks -> States]
      /\ Kinds
  BY StepKinds DEF IInv, TypeOK
<1>1. ASSUME NEW u \in Tasks, Activation(u)
      PROVE  Roles'
  BY <1>0, <1>1 DEF Activation, Activate, Roles
<1>2. ASSUME NEW u \in Tasks, Wakeup(u)
      PROVE  Roles'
  BY <1>0, <1>2 DEF Wakeup, Roles
<1>3. ASSUME NEW t \in Tasks, NEW new \in {"SUSPENDED", "READY", "WAITING"},
             Leaves(t, new), new = "WAITING" => t \in Extended
      PROVE  Roles'
  BY <1>0, <1>3 DEF Leaves, Roles
<1>4. ASSUME NEW t \in Tasks
      PROVE  StateAfterEnd(t) \in {"SUSPENDED", "READY"}
  BY DEF StateAfterEnd
<1>5. ASSUME NEW next \in Tasks, Switch(next) \/ Start(next)
      PROVE  Roles'
  <2>1. CASE Switch(next)
    BY <1>0, <2>1 DEF Switch, Roles
  <2>2. CASE Start(next)
    BY <1>0, <2>2 DEF Start, Roles
  <2> QED BY <1>5, <2>1, <2>2
<1>6. ASSUME UNCHANGED <<state, running>>
      PROVE  Roles'
  BY <1>6 DEF Roles
<1> QED BY <1>0, <1>1, <1>2, <1>3, <1>4, <1>5, <1>6
        DEF Kinds, Unmoved, Termination, Waiting, ChainChecked, Chaining, Taking, Giving

InvariantRoles == IInv /\ Roles

LEMMA RolesHold == Spec => []InvariantRoles
<1>1. Init => Roles
  BY TasksAssumption DEF Init, Roles
<1> QED BY <1>1, InitIInv, StepIInv, StepRoles, PTL DEF Spec, InvariantRoles

\* A task that is about to be chained by another one has room for it: it is
\* chained by no third one and activated by nothing.
ChainsReserved ==
  \A t \in Tasks : pc[t] = "chain" =>
    /\ target[t] \in Chains[t]
    /\ target[t] # t => activations[target[t]] < MaxActivations[target[t]]

\* A suspended task has no activation, unless ChainTask has put it on its list.
SuspendedIdle ==
  \A t \in Tasks :
    state[t] = "SUSPENDED" => activations[t] = 0 \/ (Booted /\ IsChained(t))

NoChainYet == ~Booted => \A t \in Tasks : pc[t] # "chain"

Books ==
  /\ ActivationsMatch
  /\ ActivationLimit
  /\ ChainsReserved
  /\ SuspendedIdle
  /\ NoChainYet

\* An activation that is allowed has room, and does not take the room of a
\* chain.
LEMMA ActivationHasRoom ==
  ASSUME ChainedApart, IInv, Roles, Books, NEW u \in Tasks, Activation(u)
  PROVE  /\ activations[u] + 1 <= MaxActivations[u]
         /\ state[u] # "WAITING"
         /\ \A t \in Tasks : pc[t] = "chain" => target[t] # u
<1> USE ConfigAssumption
<1>1. ~Booted \/ ~IsChained(u)
  BY DEF Activation, ChainedApart
<1>2. /\ activations[u] \in Int
      /\ MaxActivations[u] \in Nat \ {0}
  BY DEF IInv, TypeOK
<1>3. state[u] = "SUSPENDED" => activations[u] = 0
  BY <1>1 DEF Books, SuspendedIdle
<1>4. \/ state[u] = "SUSPENDED"
      \/ u \notin Extended /\ activations[u] < MaxActivations[u]
  BY DEF Activation, ActivationAllowed
<1>5. activations[u] + 1 <= MaxActivations[u]
  BY <1>2, <1>3, <1>4
<1>6. state[u] # "WAITING"
  BY <1>4 DEF Roles
<1>7. \A t \in Tasks : pc[t] = "chain" => target[t] # u
  BY <1>1 DEF Books, NoChainYet, ChainsReserved, IsChained
<1> QED BY <1>5, <1>6, <1>7

\* A task that is chained is idle when the chain is carried out, if it has
\* only one activation.
LEMMA ChainHasRoom ==
  ASSUME IInv, Roles, Books, NEW t \in Tasks, NEW u \in Tasks, Chaining(t, u)
  PROVE  /\ u # t => activations[u] + 1 <= MaxActivations[u]
         /\ state[u] # "WAITING"
         /\ IsChained(u)
<1>1. /\ activations[u] \in Int
      /\ MaxActivations[u] \in Nat \ {0}
      /\ CountIn(ready, u) \in Nat
  BY ConfigAssumption, InListCount DEF IInv, TypeOK
<1>2. /\ u # t => activations[u] < MaxActivations[u]
      /\ IsChained(u)
  BY DEF Chaining, Books, ChainsReserved, IsChained
<1>3. state[t] = "RUNNING"
  BY DEF Chaining, Leaves, Roles
<1>4. ASSUME state[u] = "WAITING"
      PROVE  FALSE
  <2>1. u # t /\ u \in Extended
    BY <1>3, <1>4 DEF Roles
  <2>2. MaxActivations[u] = 1
    BY <2>1, ConfigAssumption
  <2>3. activations[u] = CountIn(ready, u) + 1
    BY <1>4, EntriesCount DEF Books, ActivationsMatch
  <2> QED BY <1>1, <1>2, <2>1, <2>2, <2>3
<1> QED BY <1>1, <1>2, <1>4

\* The counts after each kind of step.
LEMMA StepMatch ==
  ASSUME ChainedApart, IInv, Roles, Books, Kinds
  PROVE  ActivationsMatch'
<1> USE TasksAssumption, ConfigAssumption
<1> DEFINE States == {"SUSPENDED", "READY", "RUNNING", "WAITING"}
           Matches(t) == activations[t] = CountIn(ready, t)
                                 + (IF state[t] = "WAITING" THEN 1 ELSE 0)
<1>0. /\ state \in [Tasks -> States]
      /\ activations \in [Tasks -> Int]
      /\ ready \in [Priorities -> Seq(Tasks)]
      /\ \A t \in Tasks : CountIn(ready, t) \in Nat
  BY InListCount DEF IInv, TypeOK
<1>1. \A t \in Tasks : Matches(t)
  BY EntriesCount DEF Books, ActivationsMatch
<1>2. SUFFICES ASSUME NEW v \in Tasks
               PROVE  Matches(v)'
  BY EntriesCount DEF ActivationsMatch, Entries, CountIn, Places
<1>3. ASSUME UNCHANGED <<activations, ready>>,
             state'[v] = "WAITING" <=> state[v] = "WAITING"
      PROVE  Matches(v)'
  BY <1>1, <1>3 DEF CountIn
<1>4. ASSUME NEW u \in Tasks, Activation(u)
      PROVE  Matches(v)'
  <2>1. /\ ready' = AddReady(ready, u)
        /\ activations'[v] = activations[v] + (IF v = u THEN 1 ELSE 0)
        /\ state'[v] = "WAITING" <=> state[v] = "WAITING"
    BY <1>0, <1>4, SMTT(30) DEF Activation, Activate
  <2>2. CountIn(ready', v) = CountIn(ready, v) + (IF v = u THEN 1 ELSE 0)
    BY <1>0, <2>1, AddReadyCount
  <2>3. activations[v] \in Int /\ CountIn(ready, v) \in Nat /\ Matches(v)
    BY <1>0, <1>1
  <2>4. CountIn(ready, v)' = CountIn(ready', v)
    BY DEF CountIn
  <2> QED BY <2>1, <2>2, <2>3, <2>4
<1>5. ASSUME NEW u \in Tasks, Wakeup(u)
      PROVE  Matches(v)'
  <2>1. /\ ready' = AddReady(ready, u) /\ activations' = activations
        /\ state[u] = "WAITING" /\ state'[u] = "READY"
        /\ v # u => state'[v] = state[v]
    BY <1>0, <1>5 DEF Wakeup
  <2>2. CountIn(ready', v) = CountIn(ready, v) + (IF v = u THEN 1 ELSE 0)
    BY <1>0, <2>1, AddReadyCount
  <2>3. activations[v] \in Int /\ CountIn(ready, v) \in Nat /\ Matches(v)
    BY <1>0, <1>1
  <2>4. CountIn(ready, v)' = CountIn(ready', v)
    BY DEF CountIn
  <2>5. v = u => state'[v] = "READY" /\ state[v] = "WAITING"
    BY <2>1
  <2> QED BY <2>1, <2>2, <2>3, <2>4, <2>5
<1>6. ASSUME NEW t \in Tasks, running = t
      PROVE  /\ HeadIn(ready, t) /\ state[t] = "RUNNING"
             /\ CountIn(RemoveTask(ready, t), v) =
                  CountIn(ready, v) - (IF v = t THEN 1 ELSE 0)
             /\ RemoveTask(ready, t) \in [Priorities -> Seq(Tasks)]
             /\ StateAfterEnd(t) # "WAITING"
  <2>1. HeadIn(ready, t) /\ state[t] = "RUNNING"
    BY <1>6, HeadInReady DEF IInv, HeadOfList, Roles
  <2> QED BY <1>0, <2>1, RemoveTaskCount, RemoveTaskLists DEF IInv, StateAfterEnd
<1>7. ASSUME NEW t \in Tasks, Termination(t) \/ Waiting(t)
      PROVE  Matches(v)'
  <2>1. running = t /\ ready' = RemoveTask(ready, t)
    BY <1>7 DEF Termination, Waiting, Leaves
  <2>2. CountIn(ready', v) = CountIn(ready, v) - (IF v = t THEN 1 ELSE 0)
    BY <1>6, <2>1
  <2>3. \/ /\ state' = [state EXCEPT ![t] = StateAfterEnd(t)]
           /\ activations' = [activations EXCEPT ![t] = @ - 1]
        \/ /\ state' = [state EXCEPT ![t] = "WAITING"]
           /\ activations' = activations
    BY <1>7 DEF Termination, Waiting, Leaves
  <2>4. state[t] = "RUNNING" /\ StateAfterEnd(t) # "WAITING"
    BY <1>6, <2>1
  <2>5. activations[v] \in Int /\ CountIn(ready, v) \in Nat /\ Matches(v)
    BY <1>0, <1>1
  <2>6. CountIn(ready, v)' = CountIn(ready', v)
    BY DEF CountIn
  <2>7. CASE v # t
    <3>1. state'[v] = state[v] /\ activations'[v] = activations[v]
      BY <1>0, <2>3, <2>7
    <3> QED BY <2>2, <2>5, <2>6, <2>7, <3>1
  <2>8. CASE v = t
    <3>1. \/ /\ state'[v] # "WAITING"
             /\ activations'[v] = activations[v] - 1
          \/ /\ state'[v] = "WAITING"
             /\ activations'[v] = activations[v]
      BY <1>0, <2>3, <2>4, <2>8
    <3> QED BY <2>2, <2>4, <2>5, <2>6, <2>8, <3>1
  <2> QED BY <2>7, <2>8
<1>8. ASSUME NEW t \in Tasks, NEW u \in Tasks, Chaining(t, u)
      PROVE  Matches(v)'
  <2>1. /\ running = t /\ ready' = AddReady(RemoveTask(ready, t), u)
        /\ state' = [state EXCEPT ![t] = StateAfterEnd(t)]
        /\ activations' = [[activations EXCEPT ![t] = @ - 1] EXCEPT ![u] = @ + 1]
    BY <1>8 DEF Chaining, Leaves
  <2>2. CountIn(ready', v) = CountIn(ready, v) - (IF v = t THEN 1 ELSE 0)
                                               + (IF v = u THEN 1 ELSE 0)
    BY <1>6, <2>1, AddReadyCount
  <2>3. activations'[v] = activations[v] - (IF v = t THEN 1 ELSE 0)
                                         + (IF v = u THEN 1 ELSE 0)
    <3> DEFINE ended == [activations EXCEPT ![t] = @ - 1]
    <3>1. ended \in [Tasks -> Int] /\ activations' = [ended EXCEPT ![u] = @ + 1]
      BY <1>0, <2>1, SMTT(30)
    <3>2. ended[v] = activations[v] - (IF v = t THEN 1 ELSE 0)
      BY <1>0, SMTT(30)
    <3> HIDE DEF ended
    <3>3. activations'[v] = ended[v] + (IF v = u THEN 1 ELSE 0)
      BY <3>1
    <3> QED BY <3>2, <3>3
  <2>4. state'[v] = "WAITING" <=> state[v] = "WAITING"
    BY <1>0, <1>6, <2>1
  <2>5. activations[v] \in Int /\ CountIn(ready, v) \in Nat /\ Matches(v)
    BY <1>0, <1>1
  <2>6. CountIn(ready, v)' = CountIn(ready', v)
    BY DEF CountIn
  <2> QED BY <2>2, <2>3, <2>4, <2>5, <2>6
<1>9. ASSUME NEW next \in Tasks, IsHead(next), Switch(next) \/ Start(next)
      PROVE  Matches(v)'
  <2>1. /\ UNCHANGED <<activations, ready>>
        /\ \/ /\ running \in Tasks
              /\ state' = [state EXCEPT ![running] = "READY", ![next] = "RUNNING"]
           \/ state' = [state EXCEPT ![next] = "RUNNING"]
    BY <1>9 DEF Switch, Start
  <2>2. CountIn(ready, next) > 0
    <3>1. StaticPriority[next] \in Priorities
      OBVIOUS
    <3>2. InReadyList(next)
      BY <1>0, <1>9, <3>1 DEF IsHead, InReadyList
    <3> QED BY <1>0, <3>2, InListCount
  <2>3. state[next] # "WAITING"
    <3>1. ASSUME state[next] = "WAITING"
          PROVE  activations[next] <= 1
      BY <1>0, <3>1 DEF Roles, Books, ActivationLimit
    <3> QED BY <1>0, <1>1, <2>2, <3>1
  <2>4. running \in Tasks => state[running] = "RUNNING"
    BY DEF Roles
  <2>5. state'[v] = "WAITING" <=> state[v] = "WAITING"
    BY <1>0, <2>1, <2>3, <2>4
  <2> QED BY <1>3, <2>1, <2>5
<1>10. ASSUME UNCHANGED <<activations, ready, state>>
       PROVE  Matches(v)'
  BY <1>3, <1>10
<1> HIDE DEF Matches
<1> QED BY <1>4, <1>5, <1>7, <1>8, <1>9, <1>10
        DEF Kinds, Unmoved, ChainChecked, Taking, Giving

LEMMA StepLimit ==
  ASSUME ChainedApart, IInv, Roles, Books, Kinds
  PROVE  ActivationLimit'
<1> DEFINE Within(v) == activations[v] <= MaxActivations[v]
<1>0. /\ activations \in [Tasks -> Int]
      /\ MaxActivations \in [Tasks -> Nat \ {0}]
      /\ \A v \in Tasks : Within(v)
  BY ConfigAssumption DEF IInv, TypeOK, Books, ActivationLimit
<1>1. SUFFICES ASSUME NEW v \in Tasks
               PROVE  activations'[v] <= MaxActivations[v]
  BY DEF ActivationLimit
<1>2. ASSUME NEW u \in Tasks, Activation(u)
      PROVE  activations'[v] <= MaxActivations[v]
  BY <1>0, <1>2, ActivationHasRoom DEF Activation, Activate
<1>3. ASSUME NEW t \in Tasks, Termination(t)
      PROVE  activations'[v] <= MaxActivations[v]
  BY <1>0, <1>3 DEF Termination
<1>4. ASSUME NEW t \in Tasks, NEW u \in Tasks, Chaining(t, u)
      PROVE  activations'[v] <= MaxActivations[v]
  <2>1. activations'[v] = activations[v] - (IF v = t THEN 1 ELSE 0)
                                         + (IF v = u THEN 1 ELSE 0)
    BY <1>0, <1>4 DEF Chaining
  <2>2. u # t => activations[u] + 1 <= MaxActivations[u]
    BY <1>4, ChainHasRoom
  <2> QED BY <1>0, <2>1, <2>2
<1> QED BY <1>0, <1>2, <1>3, <1>4
        DEF Kinds, Unmoved, Wakeup, Waiting, ChainChecked, Taking, Giving, Switch, Start

LEMMA StepReserved ==
  ASSUME ChainedApart, IInv, Roles, Books, Kinds
  PROVE  ChainsReserved'
<1> DEFINE Reserved(v) ==
             pc[v] = "chain" =>
               /\ target[v] \in Chains[v]
               /\ target[v] # v => activations[target[v]] < MaxActivations[target[v]]
<1>0. /\ activations \in [Tasks -> Int]
      /\ MaxActivations \in [Tasks -> Nat \ {0}]
      /\ target \in [Tasks -> Tasks \cup {INVALID_TASK}]
      /\ \A v \in Tasks : pc[v] = "chain" => target[v] \in Tasks
      /\ pc \in [Tasks -> {"run", "enterSys", "sysSchedule", "leaveSys",
                           "schedule", "chain"}]
      /\ \A v \in Tasks : Reserved(v)
  BY ConfigAssumption DEF IInv, TypeOK, Books, ChainsReserved
<1>1. SUFFICES ASSUME NEW v \in Tasks
               PROVE  Reserved(v)'
  BY DEF ChainsReserved
<1>2. ASSUME UNCHANGED activations, NoNewChain
      PROVE  Reserved(v)'
  BY <1>0, <1>2 DEF NoNewChain
<1>3. ASSUME NEW u \in Tasks, Activation(u)
      PROVE  Reserved(v)'
  <2>1. NoNewChain /\ activations' = [activations EXCEPT ![u] = @ + 1]
    BY <1>3 DEF Activation, Activate
  <2>2. pc[v] = "chain" => target[v] # u
    BY <1>3, ActivationHasRoom
  <2> QED BY <1>0, <2>1, <2>2 DEF NoNewChain
<1>4. ASSUME NEW t \in Tasks, Termination(t)
      PROVE  Reserved(v)'
  <2>1. NoNewChain /\ activations' = [activations EXCEPT ![t] = @ - 1]
    BY <1>4 DEF Termination
  <2> QED BY <1>0, <2>1 DEF NoNewChain
<1>5. ASSUME NEW t \in Tasks, NEW u \in Tasks, ChainChecked(t, u)
      PROVE  Reserved(v)'
  <2>1. CASE v = t
    BY <1>0, <1>5, <2>1 DEF ChainChecked, ChainAllowed
  <2>2. CASE v # t
    BY <1>0, <1>5, <2>2 DEF ChainChecked
  <2> QED BY <2>1, <2>2
<1>6. ASSUME NEW t \in Tasks, NEW u \in Tasks, Chaining(t, u)
      PROVE  Reserved(v)'
  <2>1. CASE v = t
    BY <1>0, <1>6, <2>1 DEF Chaining
  <2>2. CASE v # t /\ pc[v] = "chain" /\ target[v] # v
    <3> DEFINE w == target[v]
    <3>1. /\ w \in Tasks /\ w \in Chains[v]
          /\ activations[w] < MaxActivations[w]
          /\ pc'[v] = pc[v] /\ target'[v] = w
      BY <1>0, <1>6, <2>2 DEF Chaining
    <3>2. u \in Chains[t]
      BY <1>0, <1>6 DEF Chaining
    <3>3. w = u => u = t
      BY <2>2, <3>1, <3>2 DEF ChainedApart, IsChained
    <3>4. activations'[w] = activations[w] - (IF w = t THEN 1 ELSE 0)
                                           + (IF w = u THEN 1 ELSE 0)
      <4> HIDE DEF w
      <4> QED BY <1>0, <1>6, <3>1 DEF Chaining
    <3>5. activations'[w] <= activations[w] /\ {activations[w], activations'[w]} \subseteq Int
      <4> HIDE DEF w
      <4> QED BY <1>0, <3>1, <3>3, <3>4
    <3> HIDE DEF w
    <3> QED BY <1>0, <3>1, <3>5
  <2>3. CASE v # t /\ ~(pc[v] = "chain" /\ target[v] # v)
    BY <1>0, <1>6, <2>3 DEF Chaining
  <2> QED BY <2>1, <2>2, <2>3
<1> QED BY <1>2, <1>3, <1>4, <1>5, <1>6
        DEF Kinds, Unmoved, Wakeup, Waiting, Taking, Giving, Switch, Start

LEMMA StepIdle ==
  ASSUME ChainedApart, IInv, Roles, Books, Kinds, Booted => Booted'
  PROVE  SuspendedIdle'
<1> USE TasksAssumption
<1> DEFINE States == {"SUSPENDED", "READY", "RUNNING", "WAITING"}
           Idle(v) == state[v] = "SUSPENDED" =>
                        activations[v] = 0 \/ (Booted /\ IsChained(v))
<1>0. /\ activations \in [Tasks -> Int]
      /\ state \in [Tasks -> States]
      /\ \A v \in Tasks : Idle(v)
  BY DEF IInv, TypeOK, Books, SuspendedIdle
<1>1. SUFFICES ASSUME NEW v \in Tasks
               PROVE  Idle(v)'
  BY DEF SuspendedIdle, IsChained
<1>2. ASSUME state'[v] = "SUSPENDED" => /\ state[v] = "SUSPENDED"
                                        /\ activations'[v] = activations[v]
      PROVE  Idle(v)'
  BY <1>0, <1>2 DEF IsChained
<1>3. ASSUME NEW u \in Tasks, Activation(u)
      PROVE  Idle(v)'
  BY <1>0, <1>2, <1>3 DEF Activation, Activate
<1>4. ASSUME NEW u \in Tasks, Wakeup(u)
      PROVE  Idle(v)'
  BY <1>0, <1>2, <1>4 DEF Wakeup
<1>5. ASSUME NEW t \in Tasks, Termination(t)
      PROVE  Idle(v)'
  <2>1. CASE v # t
    BY <1>0, <1>2, <1>5, <2>1 DEF Termination, Leaves
  <2>2. CASE v = t
    BY <1>0, <1>5, <2>2 DEF Termination, Leaves, StateAfterEnd
  <2> QED BY <2>1, <2>2
<1>6. ASSUME NEW t \in Tasks, Waiting(t)
      PROVE  Idle(v)'
  BY <1>0, <1>2, <1>6 DEF Waiting, Leaves
<1>7. ASSUME NEW t \in Tasks, NEW u \in Tasks, Chaining(t, u)
      PROVE  Idle(v)'
  <2>1. Booted' /\ IsChained(u)
    BY <1>7, ChainHasRoom DEF Chaining, Books, NoChainYet
  <2>2. CASE v = u
    BY <2>1, <2>2 DEF IsChained
  <2>3. CASE v # u /\ v # t
    BY <1>0, <1>2, <1>7, <2>3 DEF Chaining, Leaves
  <2>4. CASE v # u /\ v = t
    BY <1>0, <1>7, <2>4 DEF Chaining, Leaves, StateAfterEnd
  <2> QED BY <2>2, <2>3, <2>4
<1>8. ASSUME NEW next \in Tasks, Switch(next) \/ Start(next)
      PROVE  Idle(v)'
  BY <1>0, <1>2, <1>8 DEF Switch, Start
<1> HIDE DEF Idle
<1> QED BY <1>2, <1>3, <1>4, <1>5, <1>6, <1>7, <1>8
        DEF Kinds, Unmoved, ChainChecked, Taking, Giving

LEMMA InitBooks == Init => Books
<1> SUFFICES ASSUME Init PROVE Books
  OBVIOUS
<1> USE ConfigAssumption DEF Init
<1>1. ActivationsMatch
  <2> SUFFICES ASSUME NEW t \in Tasks
               PROVE  Entries(t) = 0
    BY DEF ActivationsMatch
  <2>1. ready[StaticPriority[t]] = <<>>
    OBVIOUS
  <2>2. Places(<<>>, t) = {}
    BY DEF Places
  <2> QED BY <2>1, <2>2, EntriesCount, FS_EmptySet DEF CountIn
<1>2. ActivationLimit
  BY DEF ActivationLimit
<1> QED BY <1>1, <1>2 DEF Books, ChainsReserved, SuspendedIdle, NoChainYet

LEMMA StepBooks ==
  ASSUME ChainedApart, IInv, Roles, Books, [Next]_vars
  PROVE  Books'
<1>1. Kinds /\ (Booted => Booted') /\ (~Booted => UNCHANGED pc)
  BY StepKinds
<1>2. NoChainYet'
  BY <1>1 DEF Books, NoChainYet
<1> QED BY <1>1, <1>2, StepMatch, StepLimit, StepReserved, StepIdle DEF Books

LEMMA InvariantBooks ==
  ASSUME ChainedApart
  PROVE  Spec => [](InvariantRoles /\ Books)
<1>1. InvariantRoles /\ Books /\ [Next]_vars => Books'
  BY StepBooks DEF InvariantRoles
<1> QED BY <1>1, InitBooks, RolesHold, PTL DEF Spec

\* The activations the kernel counts are the entries of the ready lists, and
\* the instance that waits, however activations, ends, chains and wake-ups
\* follow each other: no activation is lost and none is carried out twice.
THEOREM CountsTrue ==
  ASSUME ChainedApart
  PROVE  Spec => []ActivationsMatch
<1>1. Books => ActivationsMatch
  BY DEF Books
<1> QED BY <1>1, InvariantBooks, PTL

\* No task is activated more often than its ACTIVATION allows, although
\* ChainTask tests the limit before its critical section and ActivateTask
\* tests none for a suspended task.
THEOREM LimitKept ==
  ASSUME ChainedApart
  PROVE  Spec => []ActivationLimit
<1>1. Books => ActivationLimit
  BY DEF Books
<1> QED BY <1>1, InvariantBooks, PTL

-----------------------------------------------------------------------------
(* The ready lists are bounded queues.                                     *)

LEMMA ListsFit ==
  ASSUME IInv, Books
  PROVE  \A p \in Priorities : Len(ready[p]) <= ListLength(p)
<1> USE TasksAssumption, ConfigAssumption
<1> SUFFICES ASSUME NEW p \in Priorities
             PROVE  Len(ready[p]) <= ListLength(p)
  OBVIOUS
<1>1. /\ ready[p] \in Seq(Tasks)
      /\ \A i \in DOMAIN ready[p] : StaticPriority[ready[p][i]] = p
  BY DEF IInv, TypeOK, Placed
<1>2. ASSUME NEW t \in Tasks
      PROVE  Cardinality(Places(ready[p], t)) <= MaxActivations[t]
  <2>1. CASE StaticPriority[t] = p
    <3>1. CountIn(ready, t) \in Nat /\ activations[t] \in Int
      BY InListCount DEF IInv, TypeOK
    <3>2. activations[t] = CountIn(ready, t) + (IF state[t] = "WAITING" THEN 1 ELSE 0)
      BY EntriesCount DEF Books, ActivationsMatch
    <3>3. activations[t] <= MaxActivations[t]
      BY DEF Books, ActivationLimit
    <3>4. CountIn(ready, t) <= MaxActivations[t]
      BY <3>1, <3>2, <3>3
    <3> QED BY <2>1, <3>4 DEF CountIn
  <2>2. CASE StaticPriority[t] # p
    <3>1. Places(ready[p], t) = {}
      BY <1>1, <2>2 DEF Places
    <3> QED BY <3>1, FS_EmptySet
  <2> QED BY <2>1, <2>2
<1> QED BY <1>1, <1>2, ListFits

\* A list that still fits after an entry was added had room for it.
LEMMA AddIsAdd ==
  ASSUME NEW p \in Priorities, NEW u \in Tasks,
         ready \in [Priorities -> Seq(Tasks)],
         ready'[p] = Append(ready[p], u), Len(ready'[p]) <= ListLength(p),
         ListLength(p) \in Int
  PROVE  Queue(p)!Next
<1>1. ready[p] \in Seq(Tasks)
  OBVIOUS
<1>2. Len(ready[p]) \in Nat /\ Len(Append(ready[p], u)) = Len(ready[p]) + 1
  BY <1>1
<1>3. Len(ready[p]) < ListLength(p)
  BY <1>2
<1>4. Queue(p)!Add
  BY <1>3 DEF Queue!Add
<1> QED BY <1>4 DEF Queue!Next

LEMMA StepQueues ==
  ASSUME IInv, Kinds, IInv', \A p \in Priorities : Len(ready'[p]) <= ListLength(p)
  PROVE  \A p \in Priorities : Queue(p)!Next \/ UNCHANGED ready[p]
<1> USE TasksAssumption, ConfigAssumption
<1> SUFFICES ASSUME NEW p \in Priorities
             PROVE  Queue(p)!Next \/ UNCHANGED ready[p]
  OBVIOUS
<1>0. /\ ready \in [Priorities -> Seq(Tasks)]
      /\ Len(ready'[p]) <= ListLength(p)
      /\ ListLength(p) \in Int
      /\ \A t \in Tasks : running = t => HeadIn(ready, t)
  <2>1. ListLength(p) \in Nat
    BY SlotsFinite
  <2> QED BY <2>1, HeadInReady, SMTT(30) DEF IInv, TypeOK, HeadOfList
<1>1. ASSUME NEW u \in Tasks, ready' = AddReady(ready, u)
      PROVE  Queue(p)!Next \/ UNCHANGED ready[p]
  <2>1. CASE p = StaticPriority[u]
    <3>1. ready'[p] = Append(ready[p], u)
      BY <1>0, <1>1, <2>1 DEF AddReady
    <3> QED BY <1>0, <3>1, AddIsAdd
  <2>2. CASE p # StaticPriority[u]
    BY <1>0, <1>1, <2>2 DEF AddReady
  <2> QED BY <2>1, <2>2
<1>2. ASSUME NEW t \in Tasks, running = t, ready' = RemoveTask(ready, t)
      PROVE  Queue(p)!Next \/ UNCHANGED ready[p]
  <2>1. CASE p = StaticPriority[t]
    <3>1. ready[p] # <<>> /\ ready'[p] = Tail(ready[p])
      BY <1>0, <1>2, <2>1 DEF RemoveTask, HeadIn
    <3> QED BY <3>1 DEF Queue!Next, Queue!Remove
  <2>2. CASE p # StaticPriority[t]
    BY <1>0, <1>2, <2>2 DEF RemoveTask
  <2> QED BY <2>1, <2>2
<1>3. ASSUME NEW t \in Tasks, NEW u \in Tasks, running = t,
             ready' = AddReady(RemoveTask(ready, t), u)
      PROVE  Queue(p)!Next \/ UNCHANGED ready[p]
  <2> DEFINE left == RemoveTask(ready, t)
  <2>1. /\ left[p] = IF p = StaticPriority[t] THEN Tail(ready[p]) ELSE ready[p]
        /\ p = StaticPriority[t] => ready[p] # <<>>
    BY <1>0, <1>3 DEF RemoveTask, HeadIn
  <2>2. left \in [Priorities -> Seq(Tasks)]
    BY <1>0, <1>3, RemoveTaskLists DEF IInv
  <2>3. ready'[p] = IF p = StaticPriority[u] THEN Append(left[p], u) ELSE left[p]
    BY <1>3, <2>2 DEF AddReady
  <2> HIDE DEF left
  <2>4. CASE p = StaticPriority[t] /\ p = StaticPriority[u]
    BY <2>1, <2>3, <2>4 DEF Queue!Next, Queue!Replace
  <2>5. CASE p = StaticPriority[t] /\ p # StaticPriority[u]
    BY <2>1, <2>3, <2>5 DEF Queue!Next, Queue!Remove
  <2>6. CASE p # StaticPriority[t] /\ p = StaticPriority[u]
    BY <1>0, <2>1, <2>3, <2>6, AddIsAdd
  <2>7. CASE p # StaticPriority[t] /\ p # StaticPriority[u]
    BY <2>1, <2>3, <2>7
  <2> QED BY <2>4, <2>5, <2>6, <2>7
<1> QED BY <1>1, <1>2, <1>3
        DEF Kinds, Unmoved, Activation, Activate, Wakeup, Termination, Waiting, Leaves,
            ChainChecked, Chaining, Taking, Giving, Switch, Start

\* The kernel uses its ready lists as bounded queues: AddReady never writes
\* over an entry, and RemoveTask always finds one.
THEOREM QueuesBounded ==
  ASSUME ChainedApart
  PROVE  Spec => ListsAreQueues
<1>1. Init => \A p \in Priorities : Queue(p)!Init
  BY DEF Init, Queue!Init
<1> DEFINE Fit == \A p \in Priorities : Len(ready[p]) <= ListLength(p)
<1>2. InvariantRoles /\ Books => Fit
  BY ListsFit DEF InvariantRoles
<1>3. InvariantRoles /\ InvariantRoles' /\ Fit' /\ [Next]_vars
      => [\A p \in Priorities : Queue(p)!Next \/ UNCHANGED ready[p]]_ready
  <2> SUFFICES ASSUME InvariantRoles, InvariantRoles', Fit', [Next]_vars
               PROVE  \A p \in Priorities : Queue(p)!Next \/ UNCHANGED ready[p]
    OBVIOUS
  <2> QED BY StepKinds, StepQueues DEF InvariantRoles
<1> HIDE DEF Fit
<1> QED BY <1>1, <1>2, <1>3, InvariantBooks, PTL DEF Spec, ListsAreQueues

-----------------------------------------------------------------------------
(* States.                                                                 *)

\* No task hands over to another one (ChainTask leaves the state of the task
\* it puts on its list as it was, SUSPENDED).
NoChains == \A t \in Tasks : Chains[t] \cap Tasks = {}

ReadyAgrees ==
  \A t \in Tasks : state[t] = "READY" <=> running # t /\ CountIn(ready, t) > 0

LEMMA StepAgrees ==
  ASSUME NoChains, IInv, Roles, Books, ReadyAgrees, [Next]_vars
  PROVE  ReadyAgrees'
<1> USE TasksAssumption, ConfigAssumption
<1> DEFINE States == {"SUSPENDED", "READY", "RUNNING", "WAITING"}
           Agrees(v) == state[v] = "READY" <=> running # v /\ CountIn(ready, v) > 0
<1>0. /\ state \in [Tasks -> States]
      /\ activations \in [Tasks -> Int]
      /\ ready \in [Priorities -> Seq(Tasks)]
      /\ \A t \in Tasks : CountIn(ready, t) \in Nat
      /\ Kinds
  BY InListCount, StepKinds DEF IInv, TypeOK
<1>1. ChainedApart
  BY ApplicationAssumption DEF NoChains, ChainedApart, IsChained
<1>2. SUFFICES ASSUME NEW v \in Tasks
               PROVE  Agrees(v)'
  BY DEF ReadyAgrees, CountIn, Places
<1>3. Agrees(v) /\ (state[v] = "RUNNING" <=> running = v)
  BY DEF ReadyAgrees, Roles
<1>4. activations[v] = CountIn(ready, v) + (IF state[v] = "WAITING" THEN 1 ELSE 0)
  BY EntriesCount DEF Books, ActivationsMatch
<1>5. ASSUME NEW t \in Tasks, running = t
      PROVE  /\ HeadIn(ready, t) /\ CountIn(ready, t) > 0
             /\ CountIn(RemoveTask(ready, t), v) =
                  CountIn(ready, v) - (IF v = t THEN 1 ELSE 0)
  <2>1. HeadIn(ready, t)
    BY <1>5, HeadInReady DEF IInv, HeadOfList
  <2>2. InReadyList(t)
    <3>1. ready[StaticPriority[t]] \in Seq(Tasks)
      BY <1>0
    <3> QED BY <2>1, <3>1 DEF HeadIn, InReadyList
  <2>3. CountIn(ready, t) > 0
    BY <1>0, <2>2, InListCount
  <2> QED BY <1>0, <2>1, <2>3, RemoveTaskCount
<1>6. ASSUME NEW u \in Tasks, Activation(u)
      PROVE  Agrees(v)'
  <2>1. /\ ready' = AddReady(ready, u) /\ running' = running
        /\ state' = [state EXCEPT ![u] = IF @ = "SUSPENDED" THEN "READY" ELSE @]
    BY <1>6 DEF Activation, Activate
  <2>2. CountIn(ready', v) = CountIn(ready, v) + (IF v = u THEN 1 ELSE 0)
    BY <1>0, <2>1, AddReadyCount
  <2>3. state[u] # "WAITING"
    BY <1>1, <1>6, ActivationHasRoom
  <2>4. CASE v = u
    <3>1. CountIn(ready', v) > 0
      BY <1>0, <2>2, <2>4
    <3>2. state'[v] = "READY" <=> state[v] # "RUNNING"
      BY <1>0, <2>1, <2>3, <2>4
    <3> QED BY <1>3, <2>1, <3>1, <3>2 DEF CountIn
  <2>5. CASE v # u
    <3>1. state'[v] = state[v] /\ CountIn(ready', v) = CountIn(ready, v)
      BY <1>0, <2>1, <2>2, <2>5
    <3> QED BY <1>3, <2>1, <3>1 DEF CountIn
  <2> QED BY <2>4, <2>5
<1>7. ASSUME NEW u \in Tasks, Wakeup(u)
      PROVE  Agrees(v)'
  <2>1. /\ ready' = AddReady(ready, u) /\ running' = running
        /\ state' = [state EXCEPT ![u] = "READY"] /\ state[u] = "WAITING"
    BY <1>7 DEF Wakeup
  <2>2. CountIn(ready', v) = CountIn(ready, v) + (IF v = u THEN 1 ELSE 0)
    BY <1>0, <2>1, AddReadyCount
  <2>3. CASE v = u
    <3>1. CountIn(ready', v) > 0
      BY <1>0, <2>2, <2>3
    <3>2. state'[v] = "READY" /\ running' # v
      BY <1>0, <1>3, <2>1, <2>3
    <3> QED BY <3>1, <3>2 DEF CountIn
  <2>4. CASE v # u
    <3>1. state'[v] = state[v] /\ CountIn(ready', v) = CountIn(ready, v)
      BY <1>0, <2>1, <2>2, <2>4
    <3> QED BY <1>3, <2>1, <3>1 DEF CountIn
  <2> QED BY <2>3, <2>4
<1>8. ASSUME NEW t \in Tasks, Termination(t) \/ Waiting(t)
      PROVE  Agrees(v)'
  <2>1. running = t /\ ready' = RemoveTask(ready, t) /\ running' = INVALID_TASK
    BY <1>8 DEF Termination, Waiting, Leaves
  <2>2. CountIn(ready', v) = CountIn(ready, v) - (IF v = t THEN 1 ELSE 0)
    BY <1>5, <2>1
  <2>3. running' # v
    BY <2>1
  <2>4. CASE v # t
    <3>1. state'[v] = state[v]
      BY <1>0, <1>8, <2>4 DEF Termination, Waiting, Leaves
    <3>2. CountIn(ready', v) = CountIn(ready, v)
      BY <1>0, <2>2, <2>4
    <3> QED BY <1>3, <2>1, <2>3, <2>4, <3>1, <3>2 DEF CountIn
  <2>5. CASE v = t
    <3>1. activations[v] = CountIn(ready, v)
      BY <1>0, <1>3, <1>4, <2>1, <2>5
    <3>2. CASE Termination(t)
      <4>1. state'[v] = "READY" <=> activations[v] - 1 # 0
        BY <1>0, <2>5, <3>2 DEF Termination, Leaves, StateAfterEnd
      <4>2. CountIn(ready', v) > 0 <=> activations[v] - 1 # 0
        BY <1>0, <1>5, <2>1, <2>2, <2>5, <3>1
      <4> QED BY <2>3, <4>1, <4>2 DEF CountIn
    <3>3. CASE Waiting(t)
      <4>1. state'[v] = "WAITING" /\ MaxActivations[v] = 1
        BY <1>0, <2>5, <3>3 DEF Waiting, Leaves
      <4>2. activations[v] <= 1
        BY <4>1 DEF Books, ActivationLimit
      <4>3. ~(CountIn(ready', v) > 0)
        BY <1>0, <2>2, <2>5, <3>1, <4>2
      <4> QED BY <4>1, <4>3 DEF CountIn
    <3> QED BY <1>8, <3>2, <3>3
  <2> QED BY <2>4, <2>5
<1>9. ASSUME NEW t \in Tasks, NEW u \in Tasks, ChainChecked(t, u) \/ Chaining(t, u)
      PROVE  FALSE
  BY <1>9 DEF ChainChecked, Chaining, Books, ChainsReserved, NoChains
<1>10. ASSUME NEW next \in Tasks, IsHead(next), Switch(next) \/ Start(next)
       PROVE  Agrees(v)'
  <2>1. ready' = ready /\ running' = next
    BY <1>10 DEF Switch, Start
  <2>2. CASE v = next
    <3>1. state'[v] = "RUNNING"
      BY <1>0, <1>10, <2>2 DEF Switch, Start
    <3> QED BY <2>1, <2>2, <3>1
  <2>3. CASE v # next /\ Switch(next) /\ running = v
    <3>1. state'[v] = "READY" /\ CountIn(ready, v) > 0
      BY <1>0, <1>5, <2>3 DEF Switch
    <3> QED BY <2>1, <2>3, <3>1 DEF CountIn
  <2>4. CASE v # next /\ ~(Switch(next) /\ running = v)
    <3>1. state'[v] = state[v] /\ running # v
      BY <1>0, <1>10, <2>4 DEF Switch, Start
    <3> QED BY <1>3, <2>1, <2>4, <3>1 DEF CountIn
  <2> QED BY <2>2, <2>3, <2>4
<1>11. ASSUME UNCHANGED <<state, running, ready>>
       PROVE  Agrees(v)'
  BY <1>3, <1>11 DEF CountIn
<1> HIDE DEF Agrees
<1> QED BY <1>0, <1>6, <1>7, <1>8, <1>9, <1>10, <1>11
        DEF Kinds, Unmoved, Taking, Giving

\* Where tasks do not hand over to each other, the state of a task says where
\* it is: RUNNING for the one that has the processor, READY for the others
\* that are in the ready lists.
THEOREM StatesTrue ==
  ASSUME NoChains
  PROVE  Spec => []StatesAgree
<1>1. ChainedApart
  BY ApplicationAssumption DEF NoChains, ChainedApart, IsChained
<1>2. Init => ReadyAgrees
  <2> SUFFICES ASSUME Init, NEW t \in Tasks
               PROVE  ~(CountIn(ready, t) > 0)
    BY DEF Init, ReadyAgrees
  <2>1. ready[StaticPriority[t]] = <<>>
    BY ConfigAssumption DEF Init
  <2>2. Places(<<>>, t) = {}
    BY DEF Places
  <2>3. CountIn(ready, t) = 0
    BY <2>1, <2>2, FS_EmptySet DEF CountIn
  <2> QED BY <2>3
<1>3. InvariantRoles /\ Books /\ ReadyAgrees /\ [Next]_vars => ReadyAgrees'
  BY StepAgrees DEF InvariantRoles
<1>4. InvariantRoles /\ ReadyAgrees => StatesAgree
  <2> SUFFICES ASSUME InvariantRoles, ReadyAgrees, NEW t \in Tasks
               PROVE  InReadyList(t) <=> CountIn(ready, t) > 0
    BY DEF InvariantRoles, Roles, ReadyAgrees, StatesAgree
  <2> QED BY InListCount DEF InvariantRoles, IInv, TypeOK
<1> QED BY <1>1, <1>2, <1>3, <1>4, InvariantBooks, PTL DEF Spec

-----------------------------------------------------------------------------
(* Resources.                                                              *)

Holds(t) == resources[t] # {}

\* A task holds what its configuration declares.
Declared == \A t \in Tasks : resources[t] \subseteq ResourcesMask[t]

\* A task in the lists runs at its static priority, or above it if it holds
\* a resource.
Levels ==
  \A t \in Tasks : CountIn(ready, t) > 0 =>
    /\ actPriority[t] >= StaticPriority[t]
    /\ ~Holds(t) => actPriority[t] = StaticPriority[t]

\* The running task was dispatched above every other task with a resource, and
\* of two tasks with a resource one has preempted the other.
Outranks(t, u) == StaticPriority[t] > actPriority[u]
Preempts ==
  \A t, u \in Tasks : running = t /\ u # t /\ Holds(u) => Outranks(t, u)
Stacked ==
  \A t, u \in Tasks :
    t # u /\ Holds(t) /\ Holds(u) => Outranks(t, u) \/ Outranks(u, t)

Ceilings == Declared /\ CeilingHeld /\ Levels /\ Preempts /\ Stacked

\* What the proofs use of the earlier invariants.
LEMMA KernelFacts ==
  ASSUME IInv
  PROVE  /\ actPriority \in [Tasks -> Nat]
         /\ StaticPriority \in [Tasks -> Nat]
         /\ resources \in [Tasks -> SUBSET Resources]
         /\ ready \in [Priorities -> Seq(Tasks)]
         /\ \A t \in Tasks : CountIn(ready, t) \in Nat
         /\ \A t \in Tasks : IsHead(t) => CountIn(ready, t) > 0
         /\ \A t \in Tasks : running = t \/ Holds(t) => IsHead(t)
<1> USE TasksAssumption, ConfigAssumption
<1>1. actPriority \in [Tasks -> Nat] /\ StaticPriority \in [Tasks -> Nat]
  BY PrioritiesBounded DEF IInv, TypeOK
<1>2. resources \in [Tasks -> SUBSET Resources] /\ ready \in [Priorities -> Seq(Tasks)]
  BY DEF IInv, TypeOK
<1>3. \A t \in Tasks : CountIn(ready, t) \in Nat
  BY <1>2, InListCount
<1>4. ASSUME NEW t \in Tasks, IsHead(t)
      PROVE  CountIn(ready, t) > 0
  <2>1. ready[StaticPriority[t]] \in Seq(Tasks)
    BY <1>2
  <2>2. InReadyList(t)
    BY <1>4, <2>1 DEF IsHead, InReadyList
  <2> QED BY <1>2, <2>2, InListCount
<1>5. \A t \in Tasks : running = t \/ Holds(t) => IsHead(t)
  BY DEF IInv, HeadOfList, Holds
<1> QED BY <1>1, <1>2, <1>3, <1>4, <1>5

\* A task that holds a resource is never put on its list again: its only
\* activation is the one under way.
LEMMA HolderNotAdded ==
  ASSUME ChainedApart, UsersOnce, IInv, Roles, Books, Declared,
         NEW u \in Tasks, NEW t \in Tasks,
         Activation(u) \/ Wakeup(u) \/ Chaining(t, u)
  PROVE  ~Holds(u)
<1> SUFFICES ASSUME Holds(u) PROVE FALSE
  OBVIOUS
<1>1. MaxActivations[u] = 1
  BY DEF Declared, Holds, UsersOnce
<1>2. CountIn(ready, u) > 0 /\ CountIn(ready, u) \in Nat /\ activations[u] \in Int
  BY KernelFacts DEF IInv, TypeOK
<1>3. activations[u] = CountIn(ready, u) + (IF state[u] = "WAITING" THEN 1 ELSE 0)
  BY EntriesCount DEF Books, ActivationsMatch
<1>4. activations[u] <= 1
  BY <1>1 DEF Books, ActivationLimit
<1>5. CASE Activation(u)
  BY <1>1, <1>2, <1>3, <1>5, ActivationHasRoom
<1>6. CASE Wakeup(u)
  BY <1>2, <1>3, <1>4, <1>6 DEF Wakeup
<1>7. CASE Chaining(t, u)
  <2>1. u # t
    BY <1>7 DEF Chaining, Leaves, Holds
  <2> QED BY <1>1, <1>2, <1>3, <1>7, <2>1, ChainHasRoom
<1> QED BY <1>5, <1>6, <1>7

\* Steps that leave the resources alone and the priorities of who holds one.
LEMMA LevelsKept ==
  ASSUME IInv, Ceilings, UNCHANGED resources,
         running' \in {running, INVALID_TASK},
         \A v \in Tasks :
           /\ \/ actPriority'[v] = actPriority[v]
              \/ ~Holds(v) /\ actPriority'[v] = StaticPriority[v]
           /\ \/ CountIn(ready', v) > 0 => CountIn(ready, v) > 0
              \/ actPriority'[v] = StaticPriority[v]
  PROVE  Ceilings'
<1> USE TasksAssumption, KernelFacts
<1>1. \A v \in Tasks : /\ Holds(v)' <=> Holds(v)
                       /\ Holds(v) => actPriority'[v] = actPriority[v]
  BY DEF Holds
<1>2. Declared'
  BY DEF Ceilings, Declared
<1>3. CeilingHeld'
  BY <1>1 DEF Ceilings, CeilingHeld, Holds
<1>4. Levels'
  BY <1>1 DEF Ceilings, Levels, CountIn
<1>5. Preempts'
  BY <1>1 DEF Ceilings, Preempts, Outranks
<1>6. Stacked'
  BY <1>1 DEF Ceilings, Stacked, Outranks
<1> QED BY <1>2, <1>3, <1>4, <1>5, <1>6 DEF Ceilings

\* The running task takes a resource: the ceiling keeps off everybody who
\* might ask for it.
LEMMA TakingKeeps ==
  ASSUME IInv, Ceilings, NEW t \in Tasks, NEW r \in Resources, Taking(t, r)
  PROVE  Ceilings'
<1> USE KernelFacts
<1>1. /\ running = t /\ running' = t /\ r \in ResourcesMask[t]
      /\ actPriority' = [actPriority EXCEPT ![t] = Raised(t, r)]
      /\ resources' = [resources EXCEPT ![t] = @ \cup {r}]
      /\ ready' = ready
  BY DEF Taking
<1>2. /\ Raised(t, r) \in Nat
      /\ Raised(t, r) >= ResourcesPriority(r)
      /\ Raised(t, r) >= actPriority[t]
  <2>1. Priorities # {}
    BY ConfigAssumption
  <2>2. ResourcesPriority(r) \in Nat
    BY <2>1, CeilingIsPriority, PrioritiesBounded
  <2> QED BY <2>2 DEF Raised
<1>3. \A v \in Tasks \ {t} : /\ actPriority'[v] = actPriority[v]
                             /\ resources'[v] = resources[v]
  BY <1>1
<1>4. actPriority'[t] = Raised(t, r) /\ resources'[t] = resources[t] \cup {r}
  BY <1>1
<1>5. actPriority[t] >= StaticPriority[t]
  BY <1>1 DEF Ceilings, Levels
<1>6. Declared'
  BY <1>1, <1>3, <1>4 DEF Ceilings, Declared
<1>7. CeilingHeld'
  <2> SUFFICES ASSUME NEW v \in Tasks, NEW q \in resources'[v]
               PROVE  actPriority'[v] >= ResourcesPriority(q)
    BY DEF CeilingHeld
  <2>1. CASE v # t
    BY <1>3, <2>1 DEF Ceilings, CeilingHeld
  <2>2. CASE v = t /\ q = r
    BY <1>2, <1>4, <2>2
  <2>3. CASE v = t /\ q # r
    <3>1. actPriority[t] >= ResourcesPriority(q)
      BY <1>4, <2>3 DEF Ceilings, CeilingHeld
    <3>2. ResourcesPriority(q) \in Nat
      BY ConfigAssumption, CeilingIsPriority, PrioritiesBounded
    <3> QED BY <1>2, <1>4, <2>3, <3>1, <3>2
  <2> QED BY <2>1, <2>2, <2>3
<1>8. Levels'
  <2> SUFFICES ASSUME NEW v \in Tasks, CountIn(ready, v) > 0
               PROVE  /\ actPriority'[v] >= StaticPriority[v]
                      /\ ~Holds(v)' => actPriority'[v] = StaticPriority[v]
    BY <1>1 DEF Levels, CountIn
  <2>1. CASE v # t
    BY <1>3, <2>1 DEF Ceilings, Levels, Holds
  <2>2. CASE v = t
    <3>1. Holds(t)'
      BY <1>4 DEF Holds
    <3>2. {actPriority[t], StaticPriority[t]} \subseteq Nat
      OBVIOUS
    <3>3. actPriority'[t] >= StaticPriority[t]
      BY <1>2, <1>4, <1>5, <3>2
    <3> QED BY <2>2, <3>1, <3>3
  <2> QED BY <2>1, <2>2
<1>9. \A v \in Tasks \ {t} : Holds(v)' => Holds(v) /\ Outranks(t, v) /\ Outranks(t, v)'
  BY <1>1, <1>3 DEF Ceilings, Preempts, Holds, Outranks
<1>10. Preempts'
  BY <1>1, <1>9 DEF Preempts
<1>11. Stacked'
  <2> SUFFICES ASSUME NEW v \in Tasks, NEW w \in Tasks, v # w, Holds(v)', Holds(w)'
               PROVE  Outranks(v, w)' \/ Outranks(w, v)'
    BY DEF Stacked
  <2>1. CASE v = t \/ w = t
    BY <1>9, <2>1
  <2>2. CASE v # t /\ w # t
    BY <1>3, <1>9, <2>2 DEF Ceilings, Stacked, Outranks
  <2> QED BY <2>1, <2>2
<1> QED BY <1>6, <1>7, <1>8, <1>10, <1>11 DEF Ceilings

\* It gives one back: what it has left decides its priority.
LEMMA GivingKeeps ==
  ASSUME IInv, Ceilings, NEW t \in Tasks, NEW r \in Resources, Giving(t, r)
  PROVE  Ceilings'
<1> USE KernelFacts
<1> DEFINE left == resources[t] \ {r}
           level == PriorityWith(t, left)
<1>1. /\ running = t /\ running' = t
      /\ actPriority' = [actPriority EXCEPT ![t] = level]
      /\ resources' = [resources EXCEPT ![t] = left]
      /\ ready' = ready
  BY DEF Giving
<1>2. /\ level \in Nat /\ StaticPriority[t] <= level
      /\ \A q \in left : ResourcesPriority(q) <= level
      /\ left = {} => level = StaticPriority[t]
  BY PriorityLeft, PrioritiesBounded
<1> HIDE DEF level
<1>3. \A v \in Tasks \ {t} : /\ actPriority'[v] = actPriority[v]
                             /\ resources'[v] = resources[v]
  BY <1>1
<1>4. actPriority'[t] = level /\ resources'[t] = left
  BY <1>1
<1>5. Declared'
  BY <1>3, <1>4 DEF Ceilings, Declared
<1>6. CeilingHeld'
  <2> SUFFICES ASSUME NEW v \in Tasks, NEW q \in resources'[v]
               PROVE  actPriority'[v] >= ResourcesPriority(q)
    BY DEF CeilingHeld
  <2>1. CASE v # t
    BY <1>3, <2>1 DEF Ceilings, CeilingHeld
  <2>2. CASE v = t
    <3>1. ResourcesPriority(q) \in Nat
      BY ConfigAssumption, CeilingIsPriority, PrioritiesBounded
    <3>2. ResourcesPriority(q) <= level
      BY <1>2, <1>4, <2>2
    <3> QED BY <1>2, <1>4, <2>2, <3>1, <3>2
  <2> QED BY <2>1, <2>2
<1>7. Levels'
  <2> SUFFICES ASSUME NEW v \in Tasks, CountIn(ready, v) > 0
               PROVE  /\ actPriority'[v] >= StaticPriority[v]
                      /\ ~Holds(v)' => actPriority'[v] = StaticPriority[v]
    BY <1>1 DEF Levels, CountIn
  <2>1. CASE v # t
    BY <1>3, <2>1 DEF Ceilings, Levels, Holds
  <2>2. CASE v = t
    <3>1. ~Holds(t)' => level = StaticPriority[t]
      BY <1>2, <1>4 DEF Holds
    <3>2. level >= StaticPriority[t]
      <4>1. {level, StaticPriority[t]} \subseteq Nat
        BY <1>2
      <4> QED BY <1>2, <4>1
    <3> QED BY <1>4, <2>2, <3>1, <3>2
  <2> QED BY <2>1, <2>2
<1>8. \A v \in Tasks \ {t} : Holds(v)' => Holds(v) /\ Outranks(t, v) /\ Outranks(t, v)'
  BY <1>1, <1>3 DEF Ceilings, Preempts, Holds, Outranks
<1>9. Preempts'
  BY <1>1, <1>8 DEF Preempts
<1>10. Stacked'
  <2> SUFFICES ASSUME NEW v \in Tasks, NEW w \in Tasks, v # w, Holds(v)', Holds(w)'
               PROVE  Outranks(v, w)' \/ Outranks(w, v)'
    BY DEF Stacked
  <2>1. CASE v = t \/ w = t
    BY <1>8, <2>1
  <2>2. CASE v # t /\ w # t
    BY <1>3, <1>8, <2>2 DEF Ceilings, Stacked, Outranks
  <2> QED BY <2>1, <2>2
<1> QED BY <1>5, <1>6, <1>7, <1>9, <1>10 DEF Ceilings

\* The task that takes the processor outranks who holds a resource: the one
\* that loses it, and with it all that this one has outranked.
LEMMA SwitchOutranks ==
  ASSUME IInv, Ceilings, NEW next \in Tasks, Switch(next),
         NEW u \in Tasks, u # next, Holds(u)
  PROVE  Outranks(next, u)
<1> USE KernelFacts
<1>1. running \in Tasks /\ StaticPriority[next] > actPriority[running]
  BY DEF Switch
<1>2. CASE u = running
  BY <1>1, <1>2 DEF Outranks
<1>3. CASE u # running
  <2>1. StaticPriority[running] > actPriority[u]
    BY <1>1, <1>3 DEF Ceilings, Preempts, Outranks
  <2>2. actPriority[running] >= StaticPriority[running]
    BY <1>1 DEF Ceilings, Levels
  <2>3. {actPriority[u], actPriority[running], StaticPriority[running],
         StaticPriority[next]} \subseteq Nat
    BY <1>1
  <2> QED BY <1>1, <2>1, <2>2, <2>3 DEF Outranks
<1> QED BY <1>2, <1>3

\* So does the task that is dispatched when none is running.
LEMMA StartOutranks ==
  ASSUME IInv, Ceilings, NEW next \in Tasks, IsHead(next), Start(next),
         NEW u \in Tasks, u # next, Holds(u)
  PROVE  Outranks(next, u)
<1> USE KernelFacts
<1>1. next = GetNextTask /\ Listed
  BY IInvListed DEF Start
<1>2. {actPriority[u], actPriority[next], StaticPriority[u], StaticPriority[next]}
        \subseteq Nat
  OBVIOUS
<1>3. actPriority[u] >= StaticPriority[u]
  BY DEF Ceilings, Levels
<1>4. CASE Occupying # {} /\ actPriority[ResTask] >= actPriority[FirstReady]
  <2>1. next = ResTask
    BY <1>1, <1>4 DEF GetNextTask
  <2>2. Holds(next) /\ IsResTask(next)
    BY <1>1, <1>4, <2>1, ResTaskExists DEF Occupying, Holds
  <2>3. CASE Outranks(next, u)
    BY <2>3
  <2>4. CASE Outranks(u, next)
    <3>1. StaticPriority[u] > actPriority[next]
      BY <2>4 DEF Outranks
    <3>2. actPriority[u] > actPriority[next]
      BY <1>2, <1>3, <3>1
    <3>3. u \in Occupying
      BY <1>2, <3>2 DEF Occupying, Holds
    <3>4. actPriority[u] <= actPriority[next]
      BY <1>2, <2>2, <3>3, SMTT(30) DEF IsResTask
    <3> QED BY <1>2, <3>2, <3>4
  <2> QED BY <2>2, <2>3, <2>4 DEF Ceilings, Stacked
<1>5. CASE ~(Occupying # {} /\ actPriority[ResTask] >= actPriority[FirstReady])
  <2>1. next = FirstReady
    BY <1>1, <1>5 DEF GetNextTask
  <2>2. CASE u \in Occupying
    <3>1. ResTask \in Tasks /\ IsResTask(ResTask)
      BY <1>1, <2>2, ResTaskExists DEF Occupying
    <3>2. {actPriority[ResTask]} \subseteq Nat
      BY <3>1
    <3>3. actPriority[ResTask] < actPriority[next]
      BY <1>2, <1>5, <2>1, <2>2, <3>2
    <3>4. \A v \in Occupying : actPriority[v] <= actPriority[ResTask]
      <4> TAKE v \in Occupying
      <4>1. actPriority[v] \in Nat
        BY DEF Occupying
      <4>2. \/ actPriority[v] < actPriority[ResTask]
            \/ actPriority[v] = actPriority[ResTask]
        BY <3>1, Zenon DEF IsResTask
      <4> HIDE DEF ResTask
      <4> QED BY <3>2, <4>1, <4>2
    <3>5. actPriority[u] < actPriority[next]
      BY <1>2, <2>2, <3>2, <3>3, <3>4
    <3>6. ~Holds(next)
      <4>1. next \notin Occupying
        BY <1>2, <3>2, <3>3, <3>4
      <4>2. actPriority[next] > 0
        BY <1>2, <3>5
      <4> QED BY <4>1, <4>2 DEF Occupying, Holds
    <3>7. actPriority[next] = StaticPriority[next]
      BY <3>6 DEF Ceilings, Levels
    <3> QED BY <3>5, <3>7, <1>2 DEF Outranks
  <2>3. CASE u \notin Occupying
    <3>1. actPriority[u] = 0 /\ StaticPriority[u] = 0
      BY <1>2, <1>3, <2>3 DEF Occupying, Holds
    <3>2. IsHead(u)
      OBVIOUS
    <3>3. StaticPriority[next] # 0
      BY <3>1, <3>2 DEF IsHead
    <3> QED BY <1>2, <3>1, <3>3 DEF Outranks
  <2> QED BY <2>2, <2>3
<1> QED BY <1>4, <1>5

\* The processor goes to a task that outranks the holders.
LEMMA HandoverKeeps ==
  ASSUME IInv, Ceilings, NEW next \in Tasks, running' = next,
         UNCHANGED <<actPriority, resources, ready>>,
         \A u \in Tasks : u # next /\ Holds(u) => Outranks(next, u)
  PROVE  Ceilings'
<1>1. Declared' /\ CeilingHeld' /\ Levels' /\ Stacked'
  BY DEF Ceilings, Declared, CeilingHeld, Levels, Stacked, Holds, Outranks, CountIn
<1>2. Preempts'
  BY DEF Preempts, Holds, Outranks
<1> QED BY <1>1, <1>2 DEF Ceilings

LEMMA StepCeilings ==
  ASSUME ChainedApart, UsersOnce, IInv, Roles, Books, Ceilings, [Next]_vars
  PROVE  Ceilings'
<1> USE TasksAssumption, KernelFacts
<1>0. Kinds
  BY StepKinds
<1>1. ASSUME NEW u \in Tasks, ~Holds(u), UNCHANGED resources,
             running' \in {running, INVALID_TASK},
             actPriority' = [actPriority EXCEPT ![u] = StaticPriority[u]],
             \A v \in Tasks \ {u} : CountIn(ready', v) > 0 => CountIn(ready, v) > 0
      PROVE  Ceilings'
  <2>1. ASSUME NEW v \in Tasks
        PROVE  /\ \/ actPriority'[v] = actPriority[v]
                  \/ ~Holds(v) /\ actPriority'[v] = StaticPriority[v]
               /\ \/ CountIn(ready', v) > 0 => CountIn(ready, v) > 0
                  \/ actPriority'[v] = StaticPriority[v]
    BY <1>1
  <2> QED BY <1>1, <2>1, LevelsKept
<1>2. ASSUME NEW u \in Tasks, Activation(u) \/ Wakeup(u)
      PROVE  Ceilings'
  <2>1. ~Holds(u)
    BY <1>2, HolderNotAdded DEF Ceilings
  <2>2. /\ ready' = AddReady(ready, u) /\ UNCHANGED <<resources, running>>
        /\ actPriority' = [actPriority EXCEPT ![u] = StaticPriority[u]]
    BY <1>2 DEF Activation, Activate, Wakeup
  <2>3. \A v \in Tasks \ {u} : CountIn(ready', v) = CountIn(ready, v)
    BY <2>2, AddReadyCount
  <2> QED BY <1>1, <2>1, <2>2, <2>3
<1>3. ASSUME NEW t \in Tasks, running = t
      PROVE  /\ RemoveTask(ready, t) \in [Priorities -> Seq(Tasks)]
             /\ \A v \in Tasks : CountIn(RemoveTask(ready, t), v) =
                                   CountIn(ready, v) - (IF v = t THEN 1 ELSE 0)
  <2>1. HeadIn(ready, t)
    BY <1>3, HeadInReady
  <2> QED BY <2>1, RemoveTaskCount, RemoveTaskLists DEF IInv
<1>4. ASSUME NEW t \in Tasks, Termination(t) \/ Waiting(t)
      PROVE  Ceilings'
  <2>1. /\ running = t /\ running' = INVALID_TASK /\ ready' = RemoveTask(ready, t)
        /\ UNCHANGED <<resources, actPriority>>
    BY <1>4 DEF Termination, Waiting, Leaves
  <2>2. ASSUME NEW v \in Tasks
        PROVE  CountIn(ready', v) > 0 => CountIn(ready, v) > 0
    BY <1>3, <2>1
  <2> QED BY <2>1, <2>2, LevelsKept
<1>5. ASSUME NEW t \in Tasks, NEW u \in Tasks, Chaining(t, u)
      PROVE  Ceilings'
  <2>1. ~Holds(u)
    BY <1>5, HolderNotAdded DEF Ceilings
  <2>2. /\ running = t /\ running' = INVALID_TASK /\ UNCHANGED resources
        /\ ready' = AddReady(RemoveTask(ready, t), u)
        /\ actPriority' = [actPriority EXCEPT ![u] = StaticPriority[u]]
    BY <1>5 DEF Chaining, Leaves
  <2>3. ASSUME NEW v \in Tasks \ {u}
        PROVE  CountIn(ready', v) > 0 => CountIn(ready, v) > 0
    <3>1. CountIn(RemoveTask(ready, t), v) = CountIn(ready, v) - (IF v = t THEN 1 ELSE 0)
      BY <1>3, <2>2
    <3>2. CountIn(ready', v) = CountIn(RemoveTask(ready, t), v) + 0
      BY <1>3, <2>2, AddReadyCount, ZenonT(40)
    <3> QED BY <3>1, <3>2
  <2> QED BY <1>1, <2>1, <2>2, <2>3
<1>6. ASSUME NEW next \in Tasks, IsHead(next), Switch(next) \/ Start(next)
      PROVE  Ceilings'
  <2>1. running' = next /\ UNCHANGED <<actPriority, resources, ready>>
    BY <1>6 DEF Switch, Start
  <2>2. \A u \in Tasks : u # next /\ Holds(u) => Outranks(next, u)
    BY <1>6, SwitchOutranks, StartOutranks
  <2> QED BY <2>1, <2>2, HandoverKeeps
<1>7. ASSUME UNCHANGED <<actPriority, resources, ready, running>>
      PROVE  Ceilings'
  BY <1>7, LevelsKept
<1> QED BY <1>0, <1>2, <1>4, <1>5, <1>6, <1>7, TakingKeeps, GivingKeeps
        DEF Kinds, Unmoved, ChainChecked

LEMMA InitCeilings == Init => Ceilings
<1> SUFFICES ASSUME Init PROVE Ceilings
  OBVIOUS
<1>1. \A t \in Tasks : ~Holds(t)
  BY DEF Init, Holds
<1>2. ASSUME NEW t \in Tasks
      PROVE  ~(CountIn(ready, t) > 0)
  <2>1. ready[StaticPriority[t]] = <<>>
    BY ConfigAssumption DEF Init
  <2>2. Places(<<>>, t) = {}
    BY DEF Places
  <2>3. CountIn(ready, t) = 0
    BY <2>1, <2>2, FS_EmptySet DEF CountIn
  <2> QED BY <2>3
<1>3. Declared /\ CeilingHeld
  BY DEF Init, Declared, CeilingHeld
<1> QED BY <1>1, <1>2, <1>3 DEF Ceilings, Levels, Preempts, Stacked

LEMMA InvariantCeilings ==
  ASSUME ChainedApart, UsersOnce
  PROVE  Spec => [](InvariantRoles /\ Ceilings)
<1>1. InvariantRoles /\ Books /\ Ceilings /\ [Next]_vars => Ceilings'
  BY StepCeilings DEF InvariantRoles
<1> QED BY <1>1, InitCeilings, InvariantBooks, PTL DEF Spec

\* A task that holds a resource runs at its ceiling at least until it gives it
\* back, whatever interrupts activate and whatever else it takes and gives
\* back in between.
THEOREM CeilingsKept ==
  ASSUME ChainedApart, UsersOnce
  PROVE  Spec => []CeilingHeld
<1>1. Ceilings => CeilingHeld
  BY DEF Ceilings
<1> QED BY <1>1, InvariantCeilings, PTL

\* Of two tasks with a resource one was dispatched above the other, so that they
\* cannot have one in common and only one of them can hold up a third task.
LEMMA HoldersApart ==
  ASSUME InvariantRoles, Ceilings
  PROVE  MutualExclusion
<1> SUFFICES ASSUME IInv, Ceilings, NEW t \in Tasks, NEW u \in Tasks, t # u,
                    NEW r \in resources[t], r \in resources[u]
             PROVE  FALSE
  BY DEF InvariantRoles, MutualExclusion
<1>1. /\ ResourcesPriority(r) \in Nat
      /\ StaticPriority[t] <= ResourcesPriority(r)
      /\ StaticPriority[u] <= ResourcesPriority(r)
  <2>1. {t, u} \subseteq ResourceUsers(r)
    BY DEF Ceilings, Declared, ResourceUsers
  <2> QED BY <2>1, ConfigAssumption, CeilingIsPriority, PrioritiesBounded
<1>2. /\ actPriority[t] >= ResourcesPriority(r)
      /\ actPriority[u] >= ResourcesPriority(r)
  BY DEF Ceilings, CeilingHeld
<1>3. {actPriority[t], actPriority[u], StaticPriority[t], StaticPriority[u]}
        \subseteq Nat
  BY KernelFacts
<1>4. StaticPriority[t] > actPriority[u] \/ StaticPriority[u] > actPriority[t]
  BY DEF Ceilings, Stacked, Holds, Outranks
<1> QED BY <1>1, <1>2, <1>3, <1>4

LEMMA HoldersBlockOnce ==
  ASSUME InvariantRoles, Ceilings
  PROVE  SingleBlocking
<1> SUFFICES ASSUME IInv, Ceilings, NEW u \in Tasks,
                    NEW t \in Tasks, NEW v \in Tasks,
                    Holds(t), StaticPriority[t] < StaticPriority[u],
                    actPriority[t] >= StaticPriority[u],
                    Holds(v), StaticPriority[v] < StaticPriority[u],
                    actPriority[v] >= StaticPriority[u],
                    t # v
             PROVE  FALSE
  BY DEF InvariantRoles, SingleBlocking, Holds
<1>1. {actPriority[t], actPriority[v], StaticPriority[t], StaticPriority[v],
       StaticPriority[u]} \subseteq Nat
  BY KernelFacts
<1>2. StaticPriority[t] > actPriority[v] \/ StaticPriority[v] > actPriority[t]
  BY DEF Ceilings, Stacked, Outranks
<1> QED BY <1>1, <1>2

\* No two tasks ever hold the same resource, although GetResource does not
\* look whether anybody has it: the scheduler alone keeps them apart.
THEOREM ResourcesExclude ==
  ASSUME ChainedApart, UsersOnce
  PROVE  Spec => []MutualExclusion
BY HoldersApart, InvariantCeilings, PTL

\* A task is held up by at most one task of lower priority.
THEOREM BlockedOnce ==
  ASSUME ChainedApart, UsersOnce
  PROVE  Spec => []SingleBlocking
BY HoldersBlockOnce, InvariantCeilings, PTL

-----------------------------------------------------------------------------
(* Priorities.                                                             *)

\* No other ready task has a higher priority than the one t runs at.
NoneAbove(t) ==
  \A u \in Tasks \ {t} : InReadyList(u) => StaticPriority[u] <= actPriority[t]

InService == {"sysSchedule", "leaveSys"}

\* Outside of the last part of ActivateTask the running task is in TASK
\* context, so that an interrupt that comes goes on to reschedule.
Modes ==
  /\ ~Booted => running = INVALID_TASK
  /\ running \in Tasks /\ (isr = "SYS" \/ (isr = "none" /\ context = "SYS"))
       => pc[running] \in InService

\* Back at its own code, or about to be, a preemptable task has been compared
\* with who is ready.
Back(t) == running = t /\ isr = "none" /\ pc[t] \in {"run", "leaveSys"}
Settled == \A t \in Preemtive : Back(t) => NoneAbove(t)

\* What the next step may rely on: nobody is above t if t executes its own code,
\* or is where the kernel will not call the scheduler.
SettledFor(t) == Back(t) \/ Unasked(t) => NoneAbove(t)

LEMMA StepModes == IInv /\ Modes /\ [Next]_vars => Modes'
<1> SUFFICES ASSUME IInv, Modes, [Next]_vars
             PROVE  Modes'
  OBVIOUS
<1> USE TasksAssumption
<1>0. /\ pc \in [Tasks -> {"run", "enterSys", "sysSchedule", "leaveSys",
                           "schedule", "chain"}]
      /\ context \in {"SYS", "TASK", "ISR2"} /\ isr \in {"none", "SYS", "TASK"}
      /\ isr = "none" => context # "ISR2"
  BY DEF IInv, TypeOK
<1>1. CASE StartOS
  <2>1. running' = INVALID_TASK
    BY <1>1 DEF StartOS, Modes
  <2> QED BY <2>1 DEF Modes
<1>2. CASE Dispatch
  <2>1. Booted' /\ isr' = "none" /\ context' = "TASK"
    BY <1>2 DEF Dispatch, Booted
  <2> QED BY <2>1 DEF Modes
<1>3. ASSUME NEW t \in Tasks, Application(t) \/ Kernel(t)
      PROVE  Modes'
  <2>1. Booted /\ running = t /\ isr = "none" /\ boot' = boot /\ isr' = isr
    BY <1>3 DEF Application, Kernel, EnterSys, SysSchedule, LeaveSys, Chain, Schedule,
                ActivateTask, TerminateTask, ChainTask, SetEvent, WaitEvent, ClearEvent,
                GetResource, ReleaseResource, At, Return
  <2>2. Booted'
    BY <2>1 DEF Booted
  <2>3. CASE pc[t] \notin InService /\ ~EnterSys(t)
    <3>1. context = "TASK"
      BY <1>0, <2>1, <2>3 DEF Modes
    <3>2. context' = "TASK" \/ running' = INVALID_TASK
      BY <1>3, <2>3, <3>1
         DEF Application, Kernel, SysSchedule, LeaveSys, Chain, Schedule,
             ActivateTask, TerminateTask, ChainTask, SetEvent, WaitEvent, ClearEvent,
             GetResource, ReleaseResource, Return, Reschedule, Finish, InService, At
    <3> QED BY <2>1, <2>2, <3>2 DEF Modes
  <2>4. CASE EnterSys(t)
    BY <1>0, <2>1, <2>2, <2>4 DEF EnterSys, Modes, InService
  <2>5. CASE pc[t] \in InService
    <3>1. SysSchedule(t) \/ LeaveSys(t)
      BY <1>3, <2>5
         DEF Application, Kernel, EnterSys, Chain, Schedule, ActivateTask, TerminateTask,
             ChainTask, SetEvent, WaitEvent, ClearEvent, GetResource, ReleaseResource,
             InService, At
    <3>2. CASE LeaveSys(t)
      BY <2>1, <2>2, <3>2 DEF LeaveSys, Modes
    <3>3. CASE SysSchedule(t)
      <4>1. context' = "TASK" \/ running' = t
        BY <2>1, <3>3 DEF SysSchedule, Reschedule
      <4>2. pc'[t] = "leaveSys"
        BY <1>0, <3>3 DEF SysSchedule
      <4> QED BY <2>1, <2>2, <4>1, <4>2 DEF Modes, InService
    <3> QED BY <3>1, <3>2, <3>3
  <2> QED BY <2>3, <2>4, <2>5
<1>4. CASE IsrEnter
  <2>1. /\ Booted' /\ isr = "none" /\ isr' = context /\ context' = "ISR2"
        /\ UNCHANGED <<running, pc>>
    BY <1>4 DEF IsrEnter, Booted
  <2> QED BY <1>0, <2>1 DEF Modes
<1>5. ASSUME UNCHANGED <<running, context, pc, isr, boot>>
      PROVE  Modes'
  BY <1>5 DEF Modes, Booted
<1>6. ASSUME NEW u, IsrActivateTask(u) \/ \E mask : IsrSetEvent(u, mask)
      PROVE  Modes'
  BY <1>5, <1>6 DEF IsrActivateTask, IsrSetEvent, Return
<1>7. CASE IsrExit
  <2>1. isr # "none" /\ isr' = "none" /\ UNCHANGED <<pc, boot>>
    BY <1>7 DEF IsrExit
  <2>2. CASE IsrReschedules
    <3>1. context' = "TASK" /\ running \in Tasks
      BY <1>7, <2>2, ConfigAssumption DEF IsrExit, IsrReschedules, Reschedule
    <3> QED BY <2>1, <3>1 DEF Modes, Booted
  <2>3. CASE ~IsrReschedules
    <3>1. context' = isr /\ running' = running
      BY <1>7, <2>3 DEF IsrExit
    <3> QED BY <2>1, <3>1 DEF Modes, Booted
  <2> QED BY <2>2, <2>3
<1> QED BY <1>1, <1>2, <1>3, <1>4, <1>5, <1>6, <1>7 DEF Next, Interrupt, vars

\* Who is ready is not above the task at the head of the highest list.
LEMMA BelowFirst ==
  ASSUME IInv, Ceilings, NonEmpty # {}
  PROVE  /\ FirstReady \in Tasks /\ IsHead(FirstReady)
         /\ actPriority[FirstReady] >= StaticPriority[FirstReady]
         /\ \A u \in Tasks : InReadyList(u) => StaticPriority[u] <= StaticPriority[FirstReady]
<1> USE KernelFacts
<1>1. /\ FirstReady \in Tasks /\ IsHead(FirstReady)
      /\ \A p \in NonEmpty : p <= StaticPriority[FirstReady]
  BY IInvListed, FirstReadyIsHead
<1>2. actPriority[FirstReady] >= StaticPriority[FirstReady]
  BY <1>1 DEF Ceilings, Levels
<1>3. ASSUME NEW u \in Tasks, InReadyList(u)
      PROVE  StaticPriority[u] \in NonEmpty
  BY <1>3, ConfigAssumption DEF InReadyList, NonEmpty
<1> QED BY <1>1, <1>2, <1>3

\* Nor is it above the task that the scheduler chooses.
LEMMA BelowNext ==
  ASSUME IInv, Ceilings, NonEmpty # {}, NEW u \in Tasks, InReadyList(u)
  PROVE  /\ GetNextTask \in Tasks
         /\ StaticPriority[u] <= actPriority[GetNextTask]
         /\ GetNextTask # FirstReady => Holds(GetNextTask)
<1> USE KernelFacts, BelowFirst
<1>1. GetNextTask \in Tasks
  BY IInvListed, NextTaskIsHead
<1>2. {StaticPriority[u], StaticPriority[FirstReady], actPriority[FirstReady],
       actPriority[GetNextTask]} \subseteq Nat
  BY <1>1
<1>3. CASE Occupying # {} /\ actPriority[ResTask] >= actPriority[FirstReady]
  <2>1. GetNextTask = ResTask
    BY <1>3 DEF GetNextTask
  <2>2. ResTask \in Occupying
    BY <1>3, IInvListed, ResTaskExists
  <2> QED BY <1>1, <1>2, <1>3, <2>1, <2>2 DEF Occupying, Holds
<1>4. CASE ~(Occupying # {} /\ actPriority[ResTask] >= actPriority[FirstReady])
  <2>1. GetNextTask = FirstReady
    BY <1>4 DEF GetNextTask
  <2> QED BY <1>1, <1>2, <2>1
<1> QED BY <1>3, <1>4

\* After the scheduler has run nobody who is ready is above the running task:
\* if it was left the processor, the task it was compared with is the highest,
\* or holds a resource and has been outranked before.
LEMMA RescheduleSettles ==
  ASSUME IInv, Ceilings, running \in Tasks, NEW saved, Reschedule(saved),
         UNCHANGED <<actPriority, ready>>
  PROVE  NoneAbove(running)'
<1> USE KernelFacts, TasksAssumption
<1>1. NonEmpty # {}
  BY ConfigAssumption DEF NonEmpty, IsHead
<1>2. SUFFICES ASSUME NEW u \in Tasks, InReadyList(u)
               PROVE  StaticPriority[u] <= actPriority[running']
  BY DEF NoneAbove, InReadyList
<1>3. /\ GetNextTask \in Tasks /\ FirstReady \in Tasks
      /\ StaticPriority[u] <= actPriority[GetNextTask]
      /\ StaticPriority[u] <= StaticPriority[FirstReady]
      /\ GetNextTask # FirstReady => Holds(GetNextTask)
  BY <1>1, <1>2, BelowNext, BelowFirst
<1>4. CASE StaticPriority[GetNextTask] > actPriority[running]
  <2>1. running' = GetNextTask
    BY <1>4 DEF Reschedule
  <2> QED BY <1>3, <2>1
<1>5. CASE ~(StaticPriority[GetNextTask] > actPriority[running])
  <2>1. running' = running
    BY <1>5 DEF Reschedule
  <2>2. {StaticPriority[u], StaticPriority[running], StaticPriority[GetNextTask],
         actPriority[running], actPriority[GetNextTask]} \subseteq Nat
    BY <1>3
  <2>3. CASE GetNextTask = FirstReady
    BY <1>3, <1>5, <2>1, <2>2, <2>3
  <2>4. CASE GetNextTask = running
    BY <1>3, <2>1, <2>4
  <2>5. CASE GetNextTask # FirstReady /\ GetNextTask # running
    <3>1. StaticPriority[running] > actPriority[GetNextTask]
      BY <1>3, <2>5 DEF Ceilings, Preempts, Outranks
    <3>2. actPriority[running] >= StaticPriority[running]
      BY DEF Ceilings, Levels
    <3> QED BY <1>3, <2>1, <2>2, <3>1, <3>2
  <2> QED BY <2>3, <2>4, <2>5
<1> QED BY <1>4, <1>5

\* After Dispatch neither.
LEMMA DispatchSettles ==
  ASSUME IInv, Ceilings, Dispatch
  PROVE  NoneAbove(running)'
<1>1. /\ running' = GetNextTask /\ GetNextTask # INVALID_TASK
      /\ UNCHANGED <<actPriority, ready>>
  BY DEF Dispatch
<1>2. NonEmpty # {}
  BY <1>1, IInvListed, NextTaskIsHead
<1> QED BY <1>1, <1>2, BelowNext DEF NoneAbove, InReadyList

\* The steps of the running task that leave it where the next call is its own
\* (or the end of ActivateTask).
LEMMA TaskSettles ==
  ASSUME IInv, Ceilings, NEW t \in Tasks, Application(t) \/ Kernel(t),
         running' \in Preemtive, pc'[running'] \in {"run", "leaveSys"},
         running' = t => SettledFor(t)
  PROVE  NoneAbove(running)'
<1> USE TasksAssumption, ConfigAssumption
<1>0. /\ pc \in [Tasks -> {"run", "enterSys", "sysSchedule", "leaveSys",
                           "schedule", "chain"}]
      /\ actPriority \in [Tasks -> Nat] /\ StaticPriority \in [Tasks -> Nat]
      /\ running' \in Tasks
  BY KernelFacts DEF IInv, TypeOK
<1>1. Booted /\ running = t /\ isr = "none"
  BY DEF Application, Kernel, EnterSys, SysSchedule, LeaveSys, Chain, Schedule,
         ActivateTask, TerminateTask, ChainTask, SetEvent, WaitEvent, ClearEvent,
         GetResource, ReleaseResource, At
<1>2. ASSUME Schedule(t, "run") \/ Schedule(t, "schedule") \/ SysSchedule(t)
      PROVE  NoneAbove(running)'
  <2>1. UNCHANGED <<actPriority, resources, ready>>
    BY <1>2 DEF Schedule, SysSchedule
  <2>2. CASE Reschedule(context)
    BY <1>1, <2>1, <2>2, RescheduleSettles
  <2>3. CASE ~Reschedule(context)
    <3>1. /\ resources[t] # {} /\ running' = running
          /\ pc[t] \in {"run", "schedule"}
      BY <1>2, <2>3 DEF Schedule, SysSchedule, At
    <3>2. NoneAbove(t)
      BY <1>1, <3>1 DEF SettledFor, Unasked, Back
    <3> QED BY <1>1, <2>1, <3>1, <3>2 DEF NoneAbove, InReadyList
  <2> QED BY <2>2, <2>3
<1>3. ASSUME pc[t] \in {"run", "leaveSys"}, running' = running, ready' = ready,
             actPriority'[t] >= actPriority[t], actPriority'[t] \in Nat
      PROVE  NoneAbove(running)'
  <2>1. NoneAbove(t)
    BY <1>1, <1>3 DEF SettledFor, Back
  <2>2. SUFFICES ASSUME NEW u \in Tasks \ {t}, InReadyList(u)
                 PROVE  StaticPriority[u] <= actPriority'[t]
    BY <1>1, <1>3 DEF NoneAbove, InReadyList
  <2>3. StaticPriority[u] <= actPriority[t]
    BY <2>1, <2>2 DEF NoneAbove
  <2>4. StaticPriority[u] \in Nat /\ actPriority[t] \in Nat
    BY <1>0
  <2>5. actPriority'[t] >= actPriority[t] /\ actPriority'[t] \in Nat
    BY <1>3
  <2> QED BY <2>3, <2>4, <2>5
<1>4. ASSUME NEW status, Return(status), pc[t] = "run"
      PROVE  NoneAbove(running)'
  BY <1>0, <1>1, <1>3, <1>4 DEF Return
<1>5. ASSUME NEW u, ActivateTask(t, u)
      PROVE  NoneAbove(running)'
  <2>1. CASE u \in Tasks /\ ActivationAllowed(u)
    BY <1>0, <1>1, <1>5, <2>1 DEF ActivateTask
  <2>2. CASE ~(u \in Tasks /\ ActivationAllowed(u))
    BY <1>4, <1>5, <2>2 DEF ActivateTask, At
  <2> QED BY <2>1, <2>2
<1>6. ASSUME NEW u, NEW mask, SetEvent(t, u, mask)
      PROVE  NoneAbove(running)'
  <2>1. CASE SetEventError(u) = "E_OK"
    <3>1. /\ Signal(u, mask) /\ running' = running /\ pc[t] = "run"
          /\ ~Wakes(u, mask)
      BY <1>0, <1>1, <1>6, <2>1 DEF SetEvent, At
    <3> QED BY <1>0, <1>1, <1>3, <3>1 DEF Signal
  <2>2. CASE SetEventError(u) # "E_OK"
    BY <1>4, <1>6, <2>2 DEF SetEvent, At
  <2> QED BY <2>1, <2>2
<1>7. ASSUME NEW r \in Resources, GetResource(t, r)
      PROVE  NoneAbove(running)'
  <2>1. CASE r \in resources[t] \/ r \notin ResourcesMask[t]
    BY <1>4, <1>7, <2>1 DEF GetResource, At
  <2>2. CASE ~(r \in resources[t] \/ r \notin ResourcesMask[t])
    <3>1. ResourcesPriority(r) \in Nat
      BY CeilingIsPriority, PrioritiesBounded
    <3>2. actPriority'[t] >= actPriority[t] /\ actPriority'[t] \in Nat
      BY <1>0, <1>7, <2>2, <3>1 DEF GetResource, Raised
    <3> QED BY <1>1, <1>3, <1>7, <2>2, <3>2 DEF GetResource, At
  <2> QED BY <2>1, <2>2
<1>8. ASSUME NEW r \in Resources, ReleaseResource(t, r)
      PROVE  NoneAbove(running)'
  <2>1. CASE r \notin resources[t]
    BY <1>4, <1>8, <2>1 DEF ReleaseResource, At
  <2>2. CASE r \in resources[t]
    BY <1>0, <1>1, <1>8, <2>2 DEF ReleaseResource
  <2> QED BY <2>1, <2>2
<1>9. ASSUME NEW mask, ClearEvent(t, mask)
      PROVE  NoneAbove(running)'
  BY <1>0, <1>1, <1>3, <1>4, <1>9 DEF ClearEvent, At
<1>10. ASSUME NEW mask, WaitEvent(t, mask)
       PROVE  NoneAbove(running)'
  BY <1>0, <1>4, <1>10 DEF WaitEvent, At
<1>11. ASSUME NEW u, ChainTask(t, u)
       PROVE  NoneAbove(running)'
  BY <1>0, <1>1, <1>4, <1>11 DEF ChainTask, At
<1>12. CASE TerminateTask(t)
  BY <1>0, <1>4, <1>12 DEF TerminateTask, Finish, At
<1>13. CASE EnterSys(t) \/ Chain(t)
  BY <1>0, <1>1, <1>13 DEF EnterSys, Chain, Finish
<1>14. CASE LeaveSys(t)
  BY <1>0, <1>1, <1>3, <1>14 DEF LeaveSys, taskVars, At
<1> QED BY <1>2, <1>5, <1>6, <1>7, <1>8, <1>9, <1>10, <1>11, <1>12, <1>13, <1>14
        DEF Application, Kernel

\* No step puts a task back at its own code under somebody who is ready, except
\* from where the kernel does not call the scheduler.
LEMMA StepSettles ==
  ASSUME IInv, Ceilings, Modes, [Next]_vars, NEW t \in Preemtive,
         SettledFor(t), Back(t)'
  PROVE  NoneAbove(t)'
<1> USE TasksAssumption, ConfigAssumption, KernelFacts
<1>0. t = running' /\ isr' = "none" /\ pc'[t] \in {"run", "leaveSys"}
  BY DEF Back
<1>1. CASE StartOS
  BY <1>0, <1>1 DEF StartOS, Modes
<1>2. CASE Dispatch
  BY <1>0, <1>2, DispatchSettles DEF NoneAbove, InReadyList
<1>3. CASE \E w \in Tasks : Application(w) \/ Kernel(w)
  BY <1>0, <1>3, TaskSettles DEF NoneAbove, InReadyList
<1>4. CASE IsrExit
  <2>1. isr \in {"SYS", "TASK"} /\ UNCHANGED <<actPriority, ready, pc>>
    BY <1>4 DEF IsrExit, IInv, TypeOK
  <2>2. CASE IsrReschedules
    <3>1. running \in Tasks /\ Reschedule(isr)
      BY <1>4, <2>2 DEF IsrExit, IsrReschedules
    <3> QED BY <1>0, <2>1, <3>1, RescheduleSettles DEF NoneAbove, InReadyList
  <2>3. CASE ~IsrReschedules
    <3>1. running = t /\ isr = "SYS"
      BY <1>0, <1>4, <2>1, <2>3 DEF IsrExit, IsrReschedules
    <3>2. pc[t] = "leaveSys"
      BY <1>0, <2>1, <3>1 DEF Modes, InService
    <3>3. NoneAbove(t)
      BY <3>1, <3>2 DEF SettledFor, Unasked
    <3> QED BY <2>1, <3>3 DEF NoneAbove, InReadyList
  <2> QED BY <2>2, <2>3
<1>5. ASSUME IsrEnter \/ \E u : IsrActivateTask(u) \/ \E mask : IsrSetEvent(u, mask)
      PROVE  FALSE
  BY <1>0, <1>5 DEF IsrEnter, IsrActivateTask, IsrSetEvent, Return, IInv, TypeOK
<1>6. CASE UNCHANGED vars
  <2>1. UNCHANGED <<running, isr, pc, ready, actPriority>>
    BY <1>6 DEF vars
  <2> QED BY <1>0, <2>1 DEF SettledFor, Back, NoneAbove, InReadyList
<1> QED BY <1>1, <1>2, <1>3, <1>4, <1>5, <1>6 DEF Next, Interrupt

LEMMA PassesOverMeans ==
  ASSUME IInv, Ceilings, NEW t \in Tasks
  PROVE  PassesOver(t) <=> Back(t) /\ ~NoneAbove(t)
<1>1. \A u \in Tasks : StaticPriority[u] \in Nat /\ actPriority[t] \in Nat
  BY KernelFacts
<1> QED BY <1>1 DEF PassesOver, Back, NoneAbove

\* However interrupts, services and resources interleave, a preemptable task
\* comes to execute its own code under a ready task that outranks it only from
\* the two points at which the kernel returns without having called the
\* scheduler: the end of an interrupt at the end of ActivateTask, and the
\* Schedule that is refused to a task that holds a resource.
THEOREM PassesOverOnlyUnasked ==
  ASSUME ChainedApart, UsersOnce
  PROVE  Spec => PassesOverUnasked
<1>1. Init => Modes
  <2> SUFFICES ASSUME Init PROVE running \notin Tasks /\ running = INVALID_TASK
    BY ConfigAssumption DEF Modes
  <2> QED BY TasksAssumption DEF Init
<1>2. InvariantRoles /\ Modes /\ [Next]_vars => Modes'
  BY StepModes DEF InvariantRoles
<1>3. /\ InvariantRoles /\ Ceilings /\ Modes /\ [Next]_vars
      /\ InvariantRoles' /\ Ceilings'
      => [\A t \in Preemtive : ~PassesOver(t) /\ PassesOver(t)' => Unasked(t)]_vars
  <2> SUFFICES ASSUME IInv, Ceilings, Modes, [Next]_vars, IInv', Ceilings',
                      NEW t \in Preemtive, ~PassesOver(t), PassesOver(t)', ~Unasked(t)
               PROVE  FALSE
    BY DEF InvariantRoles
  <2>1. t \in Tasks
    BY ConfigAssumption
  <2>2. Back(t)' /\ ~NoneAbove(t)'
    <3>1. \A u \in Tasks : StaticPriority[u] \in Nat /\ actPriority'[t] \in Nat
      BY <2>1, PrioritiesBounded, ConfigAssumption DEF IInv, TypeOK
    <3> QED BY <3>1 DEF PassesOver, Back, NoneAbove
  <2>3. SettledFor(t)
    BY <2>1, PassesOverMeans DEF SettledFor
  <2> QED BY <2>2, <2>3, StepSettles
<1> QED BY <1>1, <1>2, <1>3, InvariantCeilings, PTL DEF Spec, PassesOverUnasked

\* While a preemptable task executes its own code nobody who is ready has a
\* higher priority than the one it runs at, if nobody has at these two points.
THEOREM NoneOvertaken ==
  ASSUME ChainedApart, UsersOnce
  PROVE  Spec /\ []NoScheduleMissed => []NoInversion
<1>1. Init => Modes /\ Settled
  <2> SUFFICES ASSUME Init PROVE running \notin Tasks /\ running = INVALID_TASK
    BY ConfigAssumption DEF Modes, Settled, Back
  <2> QED BY TasksAssumption DEF Init
<1>2. InvariantRoles /\ Ceilings /\ NoScheduleMissed /\ Modes /\ Settled /\ [Next]_vars
      => Modes' /\ Settled'
  <2> SUFFICES ASSUME IInv, Ceilings, NoScheduleMissed, Modes, Settled, [Next]_vars
               PROVE  Modes' /\ Settled'
    BY DEF InvariantRoles
  <2>1. \A t \in Preemtive : SettledFor(t)
    BY DEF Settled, SettledFor, NoScheduleMissed, NoneAbove
  <2>2. \A t \in Preemtive : Back(t)' => NoneAbove(t)'
    BY <2>1, StepSettles
  <2> QED BY <2>2, StepModes DEF Settled
<1>3. Settled => NoInversion
  BY DEF Settled, Back, NoInversion, NoneAbove, At
<1> QED BY <1>1, <1>2, <1>3, InvariantCeilings, PTL DEF Spec
=============================================================================
