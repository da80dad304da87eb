\* The queue has one slot per worker, the smallest that is large enough; the
\* caller's queue of exceptions is smaller than the number of tasks, so that a
\* worker may be stuck for ever on reporting an exception: see the README.
SPECIFICATION FairSpec
CONSTANTS
    Workers = {w1, w2, w3}
    Tasks = {t1, t2, t3}
    StopMessage = StopMessage
    NoTask = NoTask
    QueueSize = 3
    HasExceptions = TRUE
    ExceptionsSize = 2
INVARIANTS
    Inv
    StopMeansDone
    EveryWorkerHasAStop
PROPERTIES
    ImplementsTaskPool
    StopReturns
CHECK_DEADLOCK FALSE
