CONSTANTS
    Callers = {c1, c2}
    Workers = {w1, w2}
    Tasks = {t1, t2, t3}
    NoTask = NoTask
    NoWorker = NoWorker
    InitialCapacity = 4
SPECIFICATION FairSpec
INVARIANTS
    TypeOK
    Accounting
    PoppedTaskIsCounted
    NoLostWakeup
PROPERTIES
    ImplementsSerialExecutor
    EveryTaskExecuted
CHECK_DEADLOCK FALSE
