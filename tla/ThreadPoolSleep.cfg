CONSTANTS
    Callers = {c1, c2}
    Workers = {w1}
    Tasks = {t1, t2, t3}
    NoTask = NoTask
    NoWorker = NoWorker
    InitialCapacity = 4
SPECIFICATION FairSpec
PROPERTY EveryTaskExecuted
CHECK_DEADLOCK FALSE
