----------------------------- MODULE ThreadPool -----------------------------
(***************************************************************************)
(* src/Code/ThreadPool.h and ThreadPool.cpp: callers push tasks on a       *)
(* lock-free queue and count them in an atomic counter; worker threads pop *)
(* and execute them under one mutex and sleep on a condition variable when *)
(* the counter is zero.                                                    *)
(*                                                                         *)
(* One step is one access to shared state: callers take no lock, so every  *)
(* access of theirs interleaves with every access of the workers.          *)
(***************************************************************************)
EXTENDS Integers, Sequences, FiniteSets

CONSTANTS
    Callers,          \* threads that call PushTask
    Workers,          \* the detached threads in Run()
    Tasks,            \* tasks that may be pushed, each at most once
    NoTask,
    NoWorker,
    InitialCapacity   \* INITIAL_QUEUE_CAPACITY (512 in the code)

ASSUME ConstantsAssumption ==
    /\ NoTask \notin Tasks
    /\ NoWorker \notin Workers
    /\ InitialCapacity \in Nat \ {0, 1}
    /\ IsFiniteSet(Callers)

VARIABLES
    queue,      \* m_workQueue
    counter,    \* m_tasksInQueueCounter
    capacity,   \* m_queueCapacity
    nodes,      \* nodes the lock-free queue has allocated for its free list
    mutex,      \* holder of m_mutex, or NoWorker
    cpc,        \* caller -> next statement of PushTask / OnAddedTask / ResizeQueue
    request,    \* caller -> its newSize
    loaded,     \* caller -> the m_queueCapacity it has read in ResizeQueue
    wpc,        \* worker -> next statement of Run
    task,       \* worker -> its local `task' while it points to a live task
    done,       \* tasks executed, in order
    dropped,    \* tasks deleted by ~ThreadPool without being executed
    pool        \* "live", "draining" (in ~ThreadPool), "destroyed"

callerVars == <<cpc, request, loaded>>
workerVars == <<wpc, task>>
vars == <<queue, counter, capacity, nodes, mutex, cpc, request, loaded,
          wpc, task, done, dropped, pool>>

CallerPC == {"idle", "count", "assert", "notify", "margin", "size",
             "reserve", "load", "store"}
WorkerPC == {"lock", "check", "pop", "uncount", "execute", "test", "wait",
             "waiting", "woken"}

\* Workers between acquiring the mutex and releasing it.
HoldingPC == {"check", "pop", "uncount", "execute", "test", "wait"}

Pushed == {queue[i] : i \in DOMAIN queue} \cup {task[w] : w \in Workers}
            \cup {done[i] : i \in DOMAIN done} \cup dropped

Init ==
    /\ queue = <<>>
    /\ counter = 0
    /\ capacity = InitialCapacity
    /\ nodes = InitialCapacity
    /\ mutex = NoWorker
    /\ cpc = [c \in Callers |-> "idle"]
    /\ request = [c \in Callers |-> 0]
    /\ loaded = [c \in Callers |-> 0]
    /\ wpc = [w \in Workers |-> "lock"]
    /\ task = [w \in Workers |-> NoTask]
    /\ done = <<>>
    /\ dropped = {}
    /\ pool = "live"

-----------------------------------------------------------------------------
(* Callers: PushTask, PushTaskFuture, OnAddedTask, ResizeQueue.            *)

CallerStep(c, from, to) ==
    /\ pool # "destroyed"
    /\ cpc[c] = from
    /\ cpc' = [cpc EXCEPT ![c] = to]

\* Tasks differ in nothing but their identity: the next one is any not yet pushed.
NextTask == CHOOSE t \in Tasks : t \notin Pushed

\* m_workQueue.push: the queue has no fixed size, so the loop around push ends.
Push(c) ==
    /\ pool = "live"
    /\ Tasks \ Pushed # {}
    /\ CallerStep(c, "idle", "count")
    /\ queue' = Append(queue, NextTask)
    /\ UNCHANGED <<counter, capacity, nodes, mutex, request, loaded, workerVars,
                   done, dropped, pool>>

\* ++m_tasksInQueueCounter
Count(c) ==
    /\ CallerStep(c, "count", "assert")
    /\ counter' = counter + 1
    /\ UNCHANGED <<queue, capacity, nodes, mutex, request, loaded, workerVars,
                   done, dropped, pool>>

\* ASSERT(m_tasksInQueueCounter > 0), which a release build compiles out.
PassAssert(c) ==
    /\ CallerStep(c, "assert", "notify")
    /\ UNCHANGED <<queue, counter, capacity, nodes, mutex, request, loaded,
                   workerVars, done, dropped, pool>>

\* Mutation: nobody is notified.
NotifyForgotten(c) ==
    /\ CallerStep(c, "notify", "margin")
    /\ UNCHANGED <<queue, counter, capacity, nodes, mutex, request, loaded,
                   workerVars, done, dropped, pool>>

\* notify_one without the mutex: wakes some waiting worker if there is one.
Notify(c) ==
    /\ CallerStep(c, "notify", "margin")
    /\ LET asleep == {w \in Workers : wpc[w] = "waiting"} IN
         \/ /\ asleep = {}
            /\ UNCHANGED wpc
         \/ \E w \in asleep : wpc' = [wpc EXCEPT ![w] = "woken"]
    /\ UNCHANGED <<queue, counter, capacity, nodes, mutex, request, loaded, task,
                   done, dropped, pool>>

\* if (m_tasksInQueueCounter >= m_queueCapacity - 2)
Margin(c) ==
    /\ CallerStep(c, "margin", IF counter >= capacity - 2 THEN "size" ELSE "idle")
    /\ UNCHANGED <<queue, counter, capacity, nodes, mutex, request, loaded,
                   workerVars, done, dropped, pool>>

\* const Int64 newSize = m_queueCapacity * 2
ChooseSize(c) ==
    /\ CallerStep(c, "size", "reserve")
    /\ request' = [request EXCEPT ![c] = capacity * 2]
    /\ UNCHANGED <<queue, counter, capacity, nodes, mutex, loaded, workerVars,
                   done, dropped, pool>>

\* m_workQueue.reserve(requestedQueueCapacity) allocates that many more nodes.
Reserve(c) ==
    /\ CallerStep(c, "reserve", "load")
    /\ nodes' = nodes + request[c]
    /\ UNCHANGED <<queue, counter, capacity, mutex, request, loaded, workerVars,
                   done, dropped, pool>>

\* m_queueCapacity = m_queueCapacity + requested: an atomic load ...
LoadCapacity(c) ==
    /\ CallerStep(c, "load", "store")
    /\ loaded' = [loaded EXCEPT ![c] = capacity]
    /\ UNCHANGED <<queue, counter, capacity, nodes, mutex, request, workerVars,
                   done, dropped, pool>>

\* ... and, later, an atomic store of the sum.
StoreCapacity(c) ==
    /\ CallerStep(c, "store", "idle")
    /\ capacity' = loaded[c] + request[c]
    /\ request' = [request EXCEPT ![c] = 0]
    /\ loaded' = [loaded EXCEPT ![c] = 0]
    /\ UNCHANGED <<queue, counter, nodes, mutex, workerVars, done, dropped, pool>>

Caller(c) ==
    \/ Push(c)
    \/ Count(c)
    \/ PassAssert(c)
    \/ Notify(c)
    \/ Margin(c)
    \/ ChooseSize(c)
    \/ Reserve(c)
    \/ LoadCapacity(c)
    \/ StoreCapacity(c)

-----------------------------------------------------------------------------
(* Workers: one iteration of the loop of Run.                              *)

WorkerStep(w, from, to) ==
    /\ pool # "destroyed"
    /\ wpc[w] = from
    /\ wpc' = [wpc EXCEPT ![w] = to]
    /\ UNCHANGED <<capacity, nodes, callerVars, dropped, pool>>

\* Mutation: no lock around the body of the loop.
LockIgnoringHolder(w) ==
    /\ WorkerStep(w, "lock", "check")
    /\ mutex' = w
    /\ UNCHANGED <<queue, counter, task, done>>

\* std::unique_lock<std::mutex> lock(m_mutex)
Lock(w) ==
    /\ mutex = NoWorker
    /\ WorkerStep(w, "lock", "check")
    /\ mutex' = w
    /\ UNCHANGED <<queue, counter, task, done>>

\* Mutation: the queue is popped whatever the counter says.
CheckForgotten(w) ==
    /\ WorkerStep(w, "check", "pop")
    /\ UNCHANGED <<queue, counter, mutex, task, done>>

\* if (m_tasksInQueueCounter > 0)
Check(w) ==
    /\ WorkerStep(w, "check", IF counter > 0 THEN "pop" ELSE "test")
    /\ UNCHANGED <<queue, counter, mutex, task, done>>

\* Mutation: the result of pop is not looked at.
PopUnchecked(w) ==
    /\ WorkerStep(w, "pop", "uncount")
    /\ IF queue # <<>>
          THEN /\ task' = [task EXCEPT ![w] = Head(queue)]
               /\ queue' = Tail(queue)
          ELSE UNCHANGED <<task, queue>>
    /\ UNCHANGED <<counter, mutex, done>>

\* if (m_workQueue.pop(task))
Pop(w) ==
    \/ /\ queue # <<>>
       /\ WorkerStep(w, "pop", "uncount")
       /\ task' = [task EXCEPT ![w] = Head(queue)]
       /\ queue' = Tail(queue)
       /\ UNCHANGED <<counter, mutex, done>>
    \/ /\ queue = <<>>
       /\ WorkerStep(w, "pop", "test")
       /\ UNCHANGED <<queue, counter, mutex, task, done>>

\* Mutation: a task is taken without being uncounted.
UncountForgotten(w) ==
    /\ WorkerStep(w, "uncount", "execute")
    /\ UNCHANGED <<queue, counter, mutex, task, done>>

\* ASSERT(m_tasksInQueueCounter > 0); --m_tasksInQueueCounter
Uncount(w) ==
    /\ WorkerStep(w, "uncount", "execute")
    /\ counter' = counter - 1
    /\ UNCHANGED <<queue, mutex, task, done>>

\* task->Execute(); delete task: still under the mutex.
Execute(w) ==
    /\ WorkerStep(w, "execute", "test")
    /\ done' = Append(done, task[w])
    /\ task' = [task EXCEPT ![w] = NoTask]
    /\ UNCHANGED <<queue, counter, mutex>>

\* Mutation: sleeps after every iteration.
TestAlwaysSleeps(w) ==
    /\ WorkerStep(w, "test", "wait")
    /\ UNCHANGED <<queue, counter, mutex, task, done>>

\* if (m_tasksInQueueCounter == 0), otherwise the lock goes out of scope.
Test(w) ==
    \/ /\ counter = 0
       /\ WorkerStep(w, "test", "wait")
       /\ UNCHANGED <<queue, counter, mutex, task, done>>
    \/ /\ counter # 0
       /\ WorkerStep(w, "test", "lock")
       /\ mutex' = NoWorker
       /\ UNCHANGED <<queue, counter, task, done>>

\* m_conditionVariable.wait(lock) releases the mutex and sleeps in one step.
Wait(w) ==
    /\ WorkerStep(w, "wait", "waiting")
    /\ mutex' = NoWorker
    /\ UNCHANGED <<queue, counter, task, done>>

\* The wait returns owning the mutex, which the end of the iteration releases.
Resume(w) ==
    /\ mutex = NoWorker
    /\ WorkerStep(w, "woken", "lock")
    /\ UNCHANGED <<queue, counter, mutex, task, done>>

Worker(w) ==
    \/ Lock(w)
    \/ Check(w)
    \/ Pop(w)
    \/ Uncount(w)
    \/ Execute(w)
    \/ Test(w)
    \/ Wait(w)
    \/ Resume(w)

\* A condition variable may wake a waiter nobody notified.
SpuriousWakeup(w) ==
    /\ WorkerStep(w, "waiting", "woken")
    /\ UNCHANGED <<queue, counter, mutex, task, done>>

-----------------------------------------------------------------------------
(* ~ThreadPool runs without the mutex while the detached workers go on.    *)

NobodyPushing == \A c \in Callers : cpc[c] = "idle"

BeginDestroy ==
    /\ pool = "live"
    /\ NobodyPushing
    /\ pool' = "draining"
    /\ UNCHANGED <<queue, counter, capacity, nodes, mutex, callerVars, workerVars,
                   done, dropped>>

\* while (m_workQueue.pop(task)) delete task
DropTask ==
    /\ pool = "draining"
    /\ queue # <<>>
    /\ dropped' = dropped \cup {Head(queue)}
    /\ queue' = Tail(queue)
    /\ UNCHANGED <<counter, capacity, nodes, mutex, callerVars, workerVars, done, pool>>

\* The members are gone: what a worker still in Run does next is undefined.
EndDestroy ==
    /\ pool = "draining"
    /\ queue = <<>>
    /\ pool' = "destroyed"
    /\ UNCHANGED <<queue, counter, capacity, nodes, mutex, callerVars, workerVars,
                   done, dropped>>

Destroy == BeginDestroy \/ DropTask \/ EndDestroy

Next ==
    \/ \E c \in Callers : Caller(c)
    \/ \E w \in Workers : Worker(w)
    \/ \E w \in Workers : SpuriousWakeup(w)
    \/ Destroy

Spec == Init /\ [][Next]_vars

\* The system scheduler runs every thread: a caller inside PushTask and a
\* worker that is not asleep make progress.  Nothing makes a caller push, and
\* nothing wakes a worker spuriously.
FairSpec ==
    /\ Spec
    /\ \A c \in Callers : WF_vars(cpc[c] # "idle" /\ Caller(c))
    /\ \A w \in Workers : WF_vars(Worker(w))

-----------------------------------------------------------------------------
(* Properties.                                                             *)

TypeOK ==
    /\ queue \in Seq(Tasks)
    /\ counter \in Nat
    /\ capacity \in Nat
    /\ nodes \in Nat
    /\ mutex \in Workers \cup {NoWorker}
    /\ cpc \in [Callers -> CallerPC]
    /\ request \in [Callers -> Nat]
    /\ loaded \in [Callers -> Nat]
    /\ wpc \in [Workers -> WorkerPC]
    /\ task \in [Workers -> Tasks \cup {NoTask}]
    /\ done \in Seq(Tasks)
    /\ dropped \in SUBSET Tasks
    /\ pool \in {"live", "draining", "destroyed"}

Uncounted == {c \in Callers : cpc[c] = "count"}
Overcounted == {w \in Workers : wpc[w] = "uncount"}

\* The mutex is what makes the pool a serial executor: whoever is between the
\* lock and the unlock of Run is its holder, and only the holder has a task.
MutexHeld ==
    /\ \A w \in Workers : wpc[w] \in HoldingPC <=> mutex = w
    /\ \A w \in Workers : task[w] # NoTask <=> wpc[w] \in {"uncount", "execute"}

\* The counter and the lock-free queue are updated by separate instructions of
\* several threads; they differ by exactly the tasks pushed and not yet counted,
\* popped and not yet uncounted, or deleted by the destructor.
Accounting ==
    counter + Cardinality(Uncounted)
      = Len(queue) + Cardinality(Overcounted) + Cardinality(dropped)

\* ASSERT(m_tasksInQueueCounter > 0) of Run: a popped task has been counted,
\* although its caller may not have reached the increment when it was popped.
PoppedTaskIsCounted ==
    \A w \in Workers : wpc[w] = "uncount" => counter > 0

Running ==
    IF \E w \in Workers : task[w] # NoTask
      THEN task[CHOOSE w \in Workers : task[w] # NoTask]
      ELSE NoTask

Executor == INSTANCE SerialExecutor WITH
    pending <- queue, running <- Running, finished <- done, discarded <- dropped

\* Any number of callers and workers look like one executor that runs each task
\* at most once, one at a time, in push order.
ImplementsSerialExecutor == Executor!Spec

Executed(t) == \E i \in DOMAIN done : done[i] = t

\* A worker that has not decided to sleep, and will look at the counter again.
Awake == \E w \in Workers : wpc[w] \notin {"wait", "waiting"}

SeveralWorkers == \E v, w \in Workers : v # w

\* Nobody takes the mutex to notify, so a notification can fall between a
\* worker's last look at the counter and its wait.  A pool of two or more
\* workers survives that: the mutex lets only one worker be in that window, and
\* the others either see the task or are there to be notified.
NoLostWakeup ==
    (SeveralWorkers /\ counter > 0) =>
        \/ \E c \in Callers : cpc[c] \in {"assert", "notify"}
        \/ Awake

\* What a caller relies on (Logger.h: a log line is written asynchronously):
\* every task pushed is executed, unless the pool is destroyed.
EveryTaskExecuted ==
    \A t \in Tasks : (t \in Pushed) ~> (Executed(t) \/ pool # "live")
=============================================================================
