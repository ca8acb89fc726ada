-------------------------- MODULE ThreadPoolProofs --------------------------
(***************************************************************************)
(* Theorems about ThreadPool, for any number of callers, workers and tasks *)
(* and any initial capacity.                                               *)
(*                                                                         *)
(* The invariant Inv is inductive: Accounting needs the tasks of the queue *)
(* to be distinct, the absence of lost wakeups needs the mutex, and the    *)
(* mutex is what keeps the counter positive between a worker's test of it  *)
(* and its decrement.                                                      *)
(***************************************************************************)
EXTENDS ThreadPool, FiniteSetTheorems, SequenceTheorems, TLAPS

\* No task is twice in the queue, nor in the queue and already deleted.
DistinctTasks ==
    /\ \A i, j \in DOMAIN queue : queue[i] = queue[j] => i = j
    /\ \A i \in DOMAIN queue : queue[i] \notin dropped
    /\ IsFiniteSet(dropped)

\* Between the test of the counter and the decrement it stays positive: only
\* the holder of the mutex decrements it.
CountedWhilePopping ==
    \A w \in Workers : wpc[w] \in {"pop", "uncount"} => counter > 0

Inv ==
    /\ TypeOK
    /\ MutexHeld
    /\ DistinctTasks
    /\ CountedWhilePopping
    /\ Accounting
    /\ NoLostWakeup

-----------------------------------------------------------------------------
(* Every initial state satisfies the invariant.                            *)

LEMMA InitInv == Init => Inv
  <1> SUFFICES ASSUME Init PROVE Inv
    OBVIOUS
  <1> USE ConstantsAssumption DEF Init
  <1>1. TypeOK
    BY DEF TypeOK, CallerPC, WorkerPC
  <1>2. MutexHeld
    BY DEF MutexHeld, HoldingPC
  <1>3. DistinctTasks
    BY FS_EmptySet DEF DistinctTasks
  <1>4. CountedWhilePopping
    BY DEF CountedWhilePopping
  <1>5. Accounting
    <2>1. Uncounted = {} /\ Overcounted = {}
      BY DEF Uncounted, Overcounted
    <2>2. QED
      BY <2>1, FS_EmptySet DEF Accounting
  <1>6. NoLostWakeup
    BY DEF NoLostWakeup
  <1>7. QED
    BY <1>1, <1>2, <1>3, <1>4, <1>5, <1>6 DEF Inv

-----------------------------------------------------------------------------
(* The types are preserved.                                                *)

LEMMA NextTaskIsNew ==
  ASSUME Tasks \ Pushed # {}
  PROVE  NextTask \in Tasks /\ NextTask \notin Pushed
  BY DEF NextTask

LEMMA TypeStep == Inv /\ [Next]_vars => TypeOK'
  <1> SUFFICES ASSUME Inv, [Next]_vars PROVE TypeOK'
    OBVIOUS
  <1> USE ConstantsAssumption DEF Inv, TypeOK, CallerPC, WorkerPC
  <1>1. ASSUME NEW c \in Callers, Push(c) PROVE TypeOK'
    <2>1. NextTask \in Tasks
      BY <1>1, NextTaskIsNew DEF Push
    <2>2. QED
      BY <1>1, <2>1 DEF Push, CallerStep, workerVars
  <1>2. ASSUME NEW c \in Callers, Count(c) PROVE TypeOK'
    BY <1>2 DEF Count, CallerStep, workerVars
  <1>3. ASSUME NEW c \in Callers, PassAssert(c) PROVE TypeOK'
    BY <1>3 DEF PassAssert, CallerStep, workerVars
  <1>4. ASSUME NEW c \in Callers, Notify(c) PROVE TypeOK'
    BY <1>4 DEF Notify, CallerStep
  <1>5. ASSUME NEW c \in Callers, Margin(c) PROVE TypeOK'
    BY <1>5 DEF Margin, CallerStep, workerVars
  <1>6. ASSUME NEW c \in Callers, ChooseSize(c) PROVE TypeOK'
    BY <1>6 DEF ChooseSize, CallerStep, workerVars
  <1>7. ASSUME NEW c \in Callers, Reserve(c) PROVE TypeOK'
    BY <1>7 DEF Reserve, CallerStep, workerVars
  <1>8. ASSUME NEW c \in Callers, LoadCapacity(c) PROVE TypeOK'
    BY <1>8 DEF LoadCapacity, CallerStep, workerVars
  <1>9. ASSUME NEW c \in Callers, StoreCapacity(c) PROVE TypeOK'
    BY <1>9 DEF StoreCapacity, CallerStep, workerVars
  <1>10. ASSUME NEW w \in Workers, Worker(w) \/ SpuriousWakeup(w) PROVE TypeOK'
    <2> USE DEF WorkerStep, callerVars
    <2>1. CASE Lock(w)
      BY <2>1 DEF Lock
    <2>2. CASE Check(w)
      BY <2>2 DEF Check
    <2>3. CASE Pop(w)
      <3>1. CASE queue # <<>>
        <4>1. Head(queue) \in Tasks /\ Tail(queue) \in Seq(Tasks)
          BY <3>1
        <4>2. QED
          BY <2>3, <3>1, <4>1 DEF Pop
      <3>2. CASE queue = <<>>
        BY <2>3, <3>2 DEF Pop
      <3>3. QED
        BY <3>1, <3>2
    <2>4. CASE Uncount(w)
      BY <2>4 DEF Uncount, CountedWhilePopping
    <2>5. CASE Execute(w)
      <3>1. task[w] \in Tasks
        BY <2>5 DEF Execute, MutexHeld
      <3>2. QED
        BY <2>5, <3>1 DEF Execute
    <2>6. CASE Test(w)
      BY <2>6 DEF Test
    <2>7. CASE Wait(w)
      BY <2>7 DEF Wait
    <2>8. CASE Resume(w)
      BY <2>8 DEF Resume
    <2>9. CASE SpuriousWakeup(w)
      BY <2>9 DEF SpuriousWakeup
    <2>10. QED
      BY <1>10, <2>1, <2>2, <2>3, <2>4, <2>5, <2>6, <2>7, <2>8, <2>9 DEF Worker
  <1>11. CASE BeginDestroy
    BY <1>11 DEF BeginDestroy, callerVars, workerVars
  <1>12. CASE DropTask
    <2>1. Head(queue) \in Tasks /\ Tail(queue) \in Seq(Tasks)
      BY <1>12 DEF DropTask
    <2>2. QED
      BY <1>12, <2>1 DEF DropTask, callerVars, workerVars
  <1>13. CASE EndDestroy
    BY <1>13 DEF EndDestroy, callerVars, workerVars
  <1>14. CASE UNCHANGED vars
    BY <1>14 DEF vars
  <1>15. QED
    BY <1>1, <1>2, <1>3, <1>4, <1>5, <1>6, <1>7, <1>8, <1>9, <1>10, <1>11,
       <1>12, <1>13, <1>14 DEF Next, Caller, Destroy

-----------------------------------------------------------------------------
(* Callers and the destructor do not touch the workers, except that a      *)
(* notification may wake one.                                              *)

Bystander == Destroy \/ UNCHANGED vars \/ \E c \in Callers : Caller(c)

LEMMA BystanderWorkers ==
  ASSUME Inv, Bystander
  PROVE  /\ mutex' = mutex
         /\ task' = task
         /\ \/ wpc' = wpc
            \/ \E w \in Workers : /\ wpc[w] = "waiting"
                                  /\ wpc' = [wpc EXCEPT ![w] = "woken"]
  <1> USE DEF workerVars
  <1>1. CASE Destroy
    BY <1>1 DEF Destroy, BeginDestroy, DropTask, EndDestroy
  <1>2. CASE UNCHANGED vars
    BY <1>2 DEF vars
  <1>3. ASSUME NEW c \in Callers, Caller(c)
        PROVE  /\ mutex' = mutex
               /\ task' = task
               /\ \/ wpc' = wpc
                  \/ \E w \in Workers : /\ wpc[w] = "waiting"
                                        /\ wpc' = [wpc EXCEPT ![w] = "woken"]
    <2>1. CASE Notify(c)
      BY <2>1 DEF Notify
    <2>2. CASE ~Notify(c)
      BY <1>3, <2>2 DEF Caller, Push, Count, PassAssert, Margin, ChooseSize,
                        Reserve, LoadCapacity, StoreCapacity
    <2>3. QED
      BY <2>1, <2>2
  <1>4. QED
    BY <1>1, <1>2, <1>3 DEF Bystander

LEMMA NextCases ==
  ASSUME [Next]_vars
  PROVE  Bystander \/ \E w \in Workers : Worker(w) \/ SpuriousWakeup(w)
  BY DEF Next, Bystander

-----------------------------------------------------------------------------
(* The mutex.                                                              *)

LEMMA MutexStep == Inv /\ [Next]_vars => MutexHeld'
  <1> SUFFICES ASSUME Inv, [Next]_vars PROVE MutexHeld'
    OBVIOUS
  <1> USE ConstantsAssumption DEF Inv, TypeOK, MutexHeld, HoldingPC
  <1>1. CASE Bystander
    <2>1. mutex' = mutex /\ task' = task
      BY <1>1, BystanderWorkers
    <2>2. CASE wpc' = wpc
      BY <2>1, <2>2
    <2>3. ASSUME NEW u \in Workers, wpc[u] = "waiting",
                 wpc' = [wpc EXCEPT ![u] = "woken"]
          PROVE  MutexHeld'
      BY <2>1, <2>3
    <2>4. QED
      BY <1>1, <2>2, <2>3, BystanderWorkers
  <1>2. ASSUME NEW w \in Workers, Worker(w) \/ SpuriousWakeup(w) PROVE MutexHeld'
    <2> USE DEF WorkerStep
    <2>1. CASE Lock(w)
      BY <2>1 DEF Lock
    <2>2. CASE Check(w)
      BY <2>2 DEF Check
    <2>3. CASE Pop(w)
      <3>1. CASE queue # <<>>
        <4>1. Head(queue) \in Tasks
          BY <3>1
        <4>2. QED
          BY <2>3, <3>1, <4>1 DEF Pop
      <3>2. CASE queue = <<>>
        BY <2>3, <3>2 DEF Pop
      <3>3. QED
        BY <3>1, <3>2
    <2>4. CASE Uncount(w)
      BY <2>4 DEF Uncount
    <2>5. CASE Execute(w)
      BY <2>5 DEF Execute
    <2>6. CASE Test(w)
      BY <2>6 DEF Test
    <2>7. CASE Wait(w)
      BY <2>7 DEF Wait
    <2>8. CASE Resume(w)
      BY <2>8 DEF Resume
    <2>9. CASE SpuriousWakeup(w)
      BY <2>9 DEF SpuriousWakeup
    <2>10. QED
      BY <1>2, <2>1, <2>2, <2>3, <2>4, <2>5, <2>6, <2>7, <2>8, <2>9 DEF Worker
  <1>3. QED
    BY <1>1, <1>2, NextCases

-----------------------------------------------------------------------------
(* The queue: what a push, a pop and a deletion do to it.                  *)

LEMMA QueueStep ==
  ASSUME Inv, [Next]_vars
  PROVE  \/ /\ \E c \in Callers : Push(c)
            /\ queue' = Append(queue, NextTask)
            /\ NextTask \in Tasks /\ NextTask \notin Pushed
            /\ dropped' = dropped
         \/ /\ \E w \in Workers : Pop(w)
            /\ queue # <<>>
            /\ queue' = Tail(queue)
            /\ dropped' = dropped
         \/ /\ DropTask
            /\ queue # <<>>
            /\ queue' = Tail(queue)
            /\ dropped' = dropped \cup {Head(queue)}
         \/ /\ queue' = queue
            /\ dropped' = dropped
  <1> USE DEF WorkerStep
  <1>1. CASE UNCHANGED vars
    BY <1>1 DEF vars
  <1>2. CASE Destroy
    BY <1>2 DEF Destroy, BeginDestroy, DropTask, EndDestroy
  <1>3. ASSUME NEW c \in Callers, Push(c)
        PROVE  /\ queue' = Append(queue, NextTask)
               /\ NextTask \in Tasks /\ NextTask \notin Pushed
               /\ dropped' = dropped
    BY <1>3, NextTaskIsNew DEF Push
  <1>4. ASSUME NEW c \in Callers, Caller(c), ~Push(c)
        PROVE  queue' = queue /\ dropped' = dropped
    BY <1>4 DEF Caller, Count, PassAssert, Notify, Margin, ChooseSize, Reserve,
                LoadCapacity, StoreCapacity
  <1>5. ASSUME NEW w \in Workers, Pop(w)
        PROVE  /\ dropped' = dropped
               /\ queue' = queue \/ (queue # <<>> /\ queue' = Tail(queue))
    BY <1>5 DEF Pop
  <1>6. ASSUME NEW w \in Workers, Worker(w) \/ SpuriousWakeup(w), ~Pop(w)
        PROVE  queue' = queue /\ dropped' = dropped
    BY <1>6 DEF Worker, Lock, Check, Uncount, Execute, Test, Wait, Resume,
                SpuriousWakeup
  <1>7. QED
    BY <1>1, <1>2, <1>3, <1>4, <1>5, <1>6 DEF Next

LEMMA DistinctStep == Inv /\ [Next]_vars => DistinctTasks'
  <1> SUFFICES ASSUME Inv, [Next]_vars PROVE DistinctTasks'
    OBVIOUS
  <1> USE DEF Inv, TypeOK, DistinctTasks
  <1>1. CASE /\ queue' = Append(queue, NextTask)
             /\ NextTask \in Tasks /\ NextTask \notin Pushed
             /\ dropped' = dropped
    <2>1. \A i \in DOMAIN queue : queue[i] # NextTask
      BY <1>1 DEF Pushed
    <2>2. NextTask \notin dropped
      BY <1>1 DEF Pushed
    <2>3. QED
      BY <1>1, <2>1, <2>2
  <1>2. CASE queue # <<>> /\ queue' = Tail(queue) /\ dropped' = dropped
    BY <1>2
  <1>3. CASE /\ queue # <<>>
             /\ queue' = Tail(queue)
             /\ dropped' = dropped \cup {Head(queue)}
    <2>1. IsFiniteSet(dropped')
      BY <1>3, FS_AddElement
    <2>2. QED
      BY <1>3, <2>1
  <1>4. CASE queue' = queue /\ dropped' = dropped
    BY <1>4
  <1>5. QED
    BY <1>1, <1>2, <1>3, <1>4, QueueStep

-----------------------------------------------------------------------------
(* The counter.                                                            *)

LEMMA CountedStep == Inv /\ [Next]_vars => CountedWhilePopping'
  <1> SUFFICES ASSUME Inv, [Next]_vars PROVE CountedWhilePopping'
    OBVIOUS
  <1> USE DEF Inv, TypeOK, CountedWhilePopping
  <1>1. CASE Bystander
    <2>1. counter' >= counter
      BY <1>1 DEF Bystander, Destroy, BeginDestroy, DropTask, EndDestroy, vars,
                  Caller, Push, Count, PassAssert, Notify, Margin, ChooseSize,
                  Reserve, LoadCapacity, StoreCapacity
    <2>2. counter' \in Nat
      BY TypeStep
    <2>3. \A w \in Workers : wpc'[w] \in {"pop", "uncount"} =>
                             wpc[w] \in {"pop", "uncount"}
      BY <1>1, BystanderWorkers
    <2>4. ASSUME NEW w \in Workers, wpc'[w] \in {"pop", "uncount"}
          PROVE  counter' > 0
      <3>1. counter > 0
        BY <2>3, <2>4
      <3>2. QED
        BY <2>1, <2>2, <3>1
    <2>5. QED
      BY <2>4
  <1>2. ASSUME NEW w \in Workers, Worker(w) \/ SpuriousWakeup(w)
        PROVE  CountedWhilePopping'
    <2> USE DEF WorkerStep
    <2>1. CASE Uncount(w)
      <3>1. \A v \in Workers \ {w} : wpc'[v] \notin {"pop", "uncount"}
        BY <2>1, ConstantsAssumption DEF Uncount, MutexHeld, HoldingPC
      <3>2. wpc'[w] = "execute"
        BY <2>1 DEF Uncount
      <3>3. QED
        BY <3>1, <3>2
    <2>2. CASE ~Uncount(w)
      <3>1. counter' = counter
        BY <1>2, <2>2 DEF Worker, Lock, Check, Pop, Execute, Test, Wait, Resume,
                          SpuriousWakeup
      <3>2. \A v \in Workers \ {w} : wpc'[v] = wpc[v]
        BY <1>2, <2>2 DEF Worker, Lock, Check, Pop, Execute, Test, Wait, Resume,
                          SpuriousWakeup
      <3>3. wpc'[w] \in {"pop", "uncount"} => counter > 0
        BY <1>2, <2>2 DEF Worker, Lock, Check, Pop, Execute, Test, Wait, Resume,
                          SpuriousWakeup
      <3>4. QED
        BY <3>1, <3>2, <3>3
    <2>3. QED
      BY <2>1, <2>2
  <1>3. QED
    BY <1>1, <1>2, NextCases

LEMMA UncountedFinite == IsFiniteSet(Uncounted) /\ Cardinality(Uncounted) \in Nat
  BY ConstantsAssumption, FS_Subset, FS_CardinalityType DEF Uncounted

\* At most one worker has popped a task that it has not uncounted.
LEMMA OvercountedValue ==
  ASSUME TypeOK, MutexHeld
  PROVE  /\ \A w \in Workers : wpc[w] = "uncount" => Cardinality(Overcounted) = 1
         /\ (\A w \in Workers : wpc[w] # "uncount") => Cardinality(Overcounted) = 0
         /\ Cardinality(Overcounted) \in Nat
  <1>1. ASSUME NEW w \in Workers, wpc[w] = "uncount"
        PROVE  Cardinality(Overcounted) = 1
    <2>1. Overcounted = {w}
      BY <1>1, ConstantsAssumption DEF Overcounted, MutexHeld, HoldingPC
    <2>2. QED
      BY <2>1, FS_Singleton
  <1>2. ASSUME \A w \in Workers : wpc[w] # "uncount"
        PROVE  Cardinality(Overcounted) = 0
    <2>1. Overcounted = {}
      BY <1>2 DEF Overcounted
    <2>2. QED
      BY <2>1, FS_EmptySet
  <1>3. QED
    BY <1>1, <1>2

LEMMA AccountingStep == Inv /\ [Next]_vars => Accounting'
  <1> SUFFICES ASSUME Inv, [Next]_vars PROVE Accounting'
    OBVIOUS
  <1> DEFINE U == Cardinality(Uncounted)
             O == Cardinality(Overcounted)
             D == Cardinality(dropped)
  <1>1. /\ counter \in Nat /\ U \in Nat /\ O \in Nat /\ D \in Nat
        /\ queue \in Seq(Tasks)
        /\ counter + U = Len(queue) + O + D
    BY UncountedFinite, OvercountedValue, FS_CardinalityType
       DEF Inv, TypeOK, DistinctTasks, Accounting
  <1>2. TypeOK' /\ MutexHeld'
    BY TypeStep, MutexStep
  <1>3. ASSUME NEW c \in Callers, Push(c) PROVE Accounting'
    <2>1. Uncounted' = Uncounted \cup {c} /\ c \notin Uncounted
      BY <1>3 DEF Push, CallerStep, Uncounted, Inv, TypeOK
    <2>2. U' = U + 1
      BY <2>1, UncountedFinite, FS_AddElement
    <2>3. O' = O /\ D' = D /\ counter' = counter
      BY <1>3 DEF Push, Overcounted, workerVars
    <2>4. Len(queue') = Len(queue) + 1
      BY <1>1, <1>3, NextTaskIsNew DEF Push
    <2>5. QED
      BY <1>1, <2>2, <2>3, <2>4 DEF Accounting
  <1>4. ASSUME NEW c \in Callers, Count(c) PROVE Accounting'
    <2>1. Uncounted' = Uncounted \ {c} /\ c \in Uncounted
      BY <1>4 DEF Count, CallerStep, Uncounted, Inv, TypeOK
    <2>2. U' = U - 1
      BY <2>1, UncountedFinite, FS_RemoveElement
    <2>3. O' = O /\ D' = D /\ counter' = counter + 1 /\ queue' = queue
      BY <1>4 DEF Count, Overcounted, workerVars
    <2>4. QED
      BY <1>1, <2>2, <2>3 DEF Accounting
  <1>5. ASSUME NEW c \in Callers, Caller(c), ~Push(c), ~Count(c) PROVE Accounting'
    <2>1. Uncounted' = Uncounted
      BY <1>5 DEF Caller, PassAssert, Notify, Margin, ChooseSize, Reserve,
                  LoadCapacity, StoreCapacity, CallerStep, Uncounted, Inv, TypeOK
    <2>2. Overcounted' = Overcounted
      BY <1>5, BystanderWorkers DEF Bystander, Overcounted, Inv, TypeOK
    <2>3. counter' = counter /\ queue' = queue /\ dropped' = dropped
      BY <1>5 DEF Caller, PassAssert, Notify, Margin, ChooseSize, Reserve,
                  LoadCapacity, StoreCapacity
    <2>4. QED
      BY <1>1, <2>1, <2>2, <2>3 DEF Accounting
  <1>6. ASSUME NEW w \in Workers, Worker(w) \/ SpuriousWakeup(w) PROVE Accounting'
    <2> USE DEF WorkerStep
    <2>1. U' = U /\ D' = D
      <3>1. cpc' = cpc /\ dropped' = dropped
        BY <1>6 DEF Worker, Lock, Check, Pop, Uncount, Execute, Test, Wait,
                    Resume, SpuriousWakeup, callerVars
      <3>2. QED
        BY <3>1 DEF Uncounted
    <2>2. CASE Pop(w) /\ queue # <<>>
      <3>1. \A v \in Workers : wpc[v] # "uncount"
        BY <2>2, ConstantsAssumption DEF Pop, Inv, MutexHeld, HoldingPC
      <3>2. O = 0
        BY <3>1, OvercountedValue DEF Inv
      <3>3. wpc'[w] = "uncount"
        BY <2>2 DEF Pop, Inv, TypeOK
      <3>4. Overcounted' = {w}
        BY <1>2, <3>3, ConstantsAssumption DEF MutexHeld, HoldingPC, Overcounted
      <3>5. O' = 1
        BY <3>4, FS_Singleton
      <3>6. Len(queue') = Len(queue) - 1 /\ counter' = counter
        BY <1>1, <2>2 DEF Pop
      <3>7. QED
        BY <1>1, <2>1, <3>2, <3>5, <3>6 DEF Accounting
    <2>3. CASE Uncount(w)
      <3>1. O = 1
        BY <2>3, OvercountedValue DEF Uncount, Inv
      <3>2. \A v \in Workers : wpc'[v] # "uncount"
        BY <2>3, ConstantsAssumption DEF Uncount, Inv, TypeOK, MutexHeld, HoldingPC
      <3>3. Overcounted' = {}
        BY <3>2 DEF Overcounted
      <3>4. O' = 0
        BY <3>3, FS_EmptySet
      <3>5. counter' = counter - 1 /\ queue' = queue
        BY <2>3 DEF Uncount
      <3>6. QED
        BY <1>1, <2>1, <3>1, <3>4, <3>5 DEF Accounting
    <2>4. CASE ~Uncount(w) /\ ~(Pop(w) /\ queue # <<>>)
      <3>1. counter' = counter /\ queue' = queue
        BY <1>6, <2>4 DEF Worker, Lock, Check, Pop, Execute, Test, Wait, Resume,
                          SpuriousWakeup
      <3>2. Overcounted' = Overcounted
        BY <1>6, <2>4 DEF Worker, Lock, Check, Pop, Execute, Test, Wait, Resume,
                          SpuriousWakeup, Overcounted, Inv, TypeOK
      <3>3. QED
        BY <1>1, <2>1, <3>1, <3>2 DEF Accounting
    <2>5. QED
      BY <2>2, <2>3, <2>4
  <1>7. CASE BeginDestroy \/ EndDestroy \/ UNCHANGED vars
    BY <1>7, <1>1 DEF BeginDestroy, EndDestroy, vars, callerVars, workerVars,
                      Accounting, Uncounted, Overcounted
  <1>8. CASE DropTask
    <2>1. U' = U /\ O' = O /\ counter' = counter
      BY <1>8 DEF DropTask, callerVars, workerVars, Uncounted, Overcounted
    <2>2. Len(queue') = Len(queue) - 1
      BY <1>1, <1>8 DEF DropTask
    <2>3. Head(queue) \notin dropped /\ IsFiniteSet(dropped)
      BY <1>1, <1>8 DEF DropTask, Inv, DistinctTasks
    <2>4. D' = D + 1
      BY <1>8, <2>3, FS_AddElement DEF DropTask
    <2>5. QED
      BY <1>1, <2>1, <2>2, <2>4 DEF Accounting
  <1>9. QED
    BY <1>3, <1>4, <1>5, <1>6, <1>7, <1>8 DEF Next, Destroy

-----------------------------------------------------------------------------
(* Wakeups.                                                                *)

LEMMA WakeupStep == Inv /\ [Next]_vars => NoLostWakeup'
  <1> SUFFICES ASSUME Inv, [Next]_vars, SeveralWorkers, (counter > 0)'
               PROVE  \/ \E c \in Callers : cpc'[c] \in {"assert", "notify"}
                      \/ Awake'
    BY DEF NoLostWakeup, SeveralWorkers
  <1> DEFINE Calling == \E c \in Callers : cpc[c] \in {"assert", "notify"}
             Goal == Calling' \/ Awake'
  <1> SUFFICES Goal
    OBVIOUS
  <1>1. counter > 0 => Calling \/ Awake
    BY DEF Inv, NoLostWakeup
  <1>2. cpc \in [Callers -> CallerPC] /\ wpc \in [Workers -> WorkerPC]
    BY DEF Inv, TypeOK
  <1>3. ASSUME NEW c \in Callers, Count(c) \/ PassAssert(c) PROVE Goal
    <2>1. cpc'[c] \in {"assert", "notify"}
      BY <1>2, <1>3 DEF Count, PassAssert, CallerStep
    <2>2. QED
      BY <2>1
  <1>4. ASSUME NEW c \in Callers, Notify(c) PROVE Goal
    <2>1. CASE \E w \in Workers : wpc' = [wpc EXCEPT ![w] = "woken"]
      BY <1>2, <2>1 DEF Awake
    <2>2. CASE wpc' = wpc /\ \A w \in Workers : wpc[w] # "waiting"
      <3>1. PICK u, v \in Workers : u # v
        BY DEF SeveralWorkers
      <3>2. wpc[u] # "wait" \/ wpc[v] # "wait"
        BY <3>1 DEF Inv, MutexHeld, HoldingPC
      <3>3. QED
        BY <2>2, <3>1, <3>2 DEF Awake
    <2>3. QED
      BY <1>4, <2>1, <2>2 DEF Notify
  <1>5. ASSUME NEW c \in Callers, Caller(c),
               ~Count(c), ~PassAssert(c), ~Notify(c)
        PROVE  Goal
    <2>1. counter' = counter /\ wpc' = wpc
      BY <1>5 DEF Caller, Push, Margin, ChooseSize, Reserve, LoadCapacity,
                  StoreCapacity, workerVars
    <2>2. Calling => Calling'
      BY <1>2, <1>5 DEF Caller, Push, Margin, ChooseSize, Reserve, LoadCapacity,
                        StoreCapacity, CallerStep
    <2>3. QED
      BY <1>1, <2>1, <2>2 DEF Awake
  <1>6. CASE Destroy \/ UNCHANGED vars
    BY <1>1, <1>6 DEF Destroy, BeginDestroy, DropTask, EndDestroy, vars,
                      callerVars, workerVars, Awake
  <1>7. ASSUME NEW w \in Workers, Worker(w) \/ SpuriousWakeup(w) PROVE Goal
    <2> USE DEF WorkerStep
    <2>1. CASE Wait(w)
      <3>1. counter' = counter /\ cpc' = cpc
        BY <2>1 DEF Wait, callerVars
      <3>2. Awake => Awake'
        BY <1>2, <2>1 DEF Wait, Awake
      <3>3. QED
        BY <1>1, <3>1, <3>2
    <2>2. CASE Test(w)
      BY <1>2, <2>2 DEF Test, Awake
    <2>3. CASE ~Wait(w) /\ ~Test(w)
      <3>1. wpc'[w] \notin {"wait", "waiting"}
        BY <1>2, <1>7, <2>3 DEF Worker, Lock, Check, Pop, Uncount, Execute, Resume,
                                SpuriousWakeup
      <3>2. QED
        BY <3>1 DEF Awake
    <2>4. QED
      BY <2>1, <2>2, <2>3
  <1>8. QED
    BY <1>3, <1>4, <1>5, <1>6, <1>7 DEF Next

-----------------------------------------------------------------------------
(* The theorems.                                                           *)

LEMMA Invariance == Spec => []Inv
  <1>1. Inv /\ [Next]_vars => Inv'
    BY TypeStep, MutexStep, DistinctStep, CountedStep, AccountingStep, WakeupStep
       DEF Inv
  <1>2. QED
    BY InitInv, <1>1, PTL DEF Spec

\* Every variable keeps its type; in particular the counter of queued tasks,
\* a signed Int64 in the code, is never negative.
THEOREM TypeCorrect == Spec => []TypeOK
  BY Invariance, PTL DEF Inv

\* The difference between the counter and the queue is always accounted for by
\* tasks in transit between the two.
THEOREM CounterAccountsForQueue == Spec => []Accounting
  BY Invariance, PTL DEF Inv

\* The assertion in Run holds before every decrement.
THEOREM RunAssertionHolds == Spec => []PoppedTaskIsCounted
  <1>1. Inv => PoppedTaskIsCounted
    BY DEF Inv, CountedWhilePopping, PoppedTaskIsCounted
  <1>2. QED
    BY Invariance, <1>1, PTL

\* With two workers or more, a counted task never meets a pool that sleeps and
\* that nobody is about to notify.
THEOREM SeveralWorkersLoseNoWakeup == Spec => []NoLostWakeup
  BY Invariance, PTL DEF Inv

-----------------------------------------------------------------------------
(* The pool implements a serial executor.                                  *)

LEMMA RunningValue ==
  ASSUME TypeOK, MutexHeld
  PROVE  /\ \A w \in Workers : task[w] # NoTask => Running = task[w]
         /\ (\A w \in Workers : task[w] = NoTask) => Running = NoTask
  <1>1. \A v, w \in Workers : task[v] # NoTask /\ task[w] # NoTask => v = w
    BY ConstantsAssumption DEF MutexHeld, HoldingPC
  <1>2. QED
    BY <1>1 DEF Running

\* Every step of the pool is a step of the executor, or leaves it unchanged.
LEMMA ExecutorStep == Inv /\ Inv' /\ [Next]_vars => [Executor!Next]_Executor!vars
  <1> SUFFICES ASSUME Inv, Inv', [Next]_vars
               PROVE  [Executor!Next]_Executor!vars
    OBVIOUS
  <1> USE DEF Executor!vars, WorkerStep, Inv, TypeOK
  <1>1. (task' = task) => Running' = Running
    BY DEF Running
  <1>2. ASSUME NEW c \in Callers, Push(c) PROVE Executor!Next
    <2>1. NextTask \in Tasks /\ NextTask \notin Pushed
      BY <1>2, NextTaskIsNew DEF Push
    <2>2. Running # NextTask
      <3>1. CASE \A w \in Workers : task[w] = NoTask
        BY <2>1, <3>1, RunningValue, ConstantsAssumption
      <3>2. CASE \E w \in Workers : task[w] # NoTask
        BY <2>1, <3>2, RunningValue DEF Pushed
      <3>3. QED
        BY <3>1, <3>2
    <2>3. ~Executor!Seen(NextTask)
      BY <2>1, <2>2 DEF Executor!Seen, Pushed
    <2>4. Executor!Submit(NextTask)
      BY <1>1, <1>2, <2>3 DEF Executor!Submit, Push, workerVars
    <2>5. QED
      BY <2>1, <2>4 DEF Executor!Next
  <1>3. ASSUME NEW w \in Workers, Pop(w), queue # <<>> PROVE Executor!Next
    <2>1. \A v \in Workers : task[v] = NoTask
      BY <1>3, ConstantsAssumption DEF Pop, MutexHeld, HoldingPC
    <2>2. Running = NoTask
      BY <2>1, RunningValue
    <2>3. task'[w] = Head(queue) /\ Head(queue) \in Tasks
      BY <1>3 DEF Pop
    <2>4. \A v \in Workers \ {w} : task'[v] = NoTask
      BY <1>3, <2>1 DEF Pop
    <2>5. Running' = Head(queue)
      BY <2>3, <2>4, ConstantsAssumption DEF Running
    <2>6. Executor!Start
      BY <1>3, <2>2, <2>5 DEF Executor!Start, Pop
    <2>7. QED
      BY <2>6 DEF Executor!Next
  <1>4. ASSUME NEW w \in Workers, Execute(w) PROVE Executor!Next
    <2>1. task[w] # NoTask
      BY <1>4 DEF Execute, MutexHeld
    <2>2. Running = task[w]
      BY <2>1, RunningValue
    <2>3. \A v \in Workers \ {w} : task[v] = NoTask
      BY <2>1, ConstantsAssumption DEF MutexHeld, HoldingPC
    <2>4. \A v \in Workers : task'[v] = NoTask
      BY <1>4, <2>3 DEF Execute
    <2>5. Running' = NoTask
      BY <2>4 DEF Running
    <2>6. Executor!Finish
      BY <1>4, <2>1, <2>2, <2>5 DEF Executor!Finish, Execute
    <2>7. QED
      BY <2>6 DEF Executor!Next
  <1>5. CASE DropTask
    BY <1>1, <1>5 DEF DropTask, Executor!Discard, Executor!Next, workerVars
  <1>6. ASSUME NEW w \in Workers, Worker(w) \/ SpuriousWakeup(w),
               ~Execute(w), ~(Pop(w) /\ queue # <<>>)
        PROVE  UNCHANGED Executor!vars
    BY <1>1, <1>6 DEF Worker, Lock, Check, Pop, Uncount, Test, Wait, Resume,
                      SpuriousWakeup
  <1>7. ASSUME NEW c \in Callers, Caller(c), ~Push(c)
        PROVE  UNCHANGED Executor!vars
    BY <1>1, <1>7 DEF Caller, Count, PassAssert, Notify, Margin, ChooseSize,
                      Reserve, LoadCapacity, StoreCapacity, workerVars
  <1>8. CASE BeginDestroy \/ EndDestroy \/ UNCHANGED vars
    BY <1>1, <1>8 DEF BeginDestroy, EndDestroy, vars, workerVars
  <1>9. QED
    BY <1>2, <1>3, <1>4, <1>5, <1>6, <1>7, <1>8 DEF Next, Destroy

\* Whatever the interleaving of callers, workers and destructor, the pool runs
\* each task at most once, one at a time, in the order of the pushes.
THEOREM PoolIsSerialExecutor == Spec => ImplementsSerialExecutor
  <1>1. Init => Executor!Init
    BY DEF Init, Executor!Init, Running
  <1>2. QED
    BY <1>1, ExecutorStep, Invariance, PTL
       DEF Spec, ImplementsSerialExecutor, Executor!Spec
=============================================================================
