\* A queue smaller than the number of workers: Stop() and then the destructor.
SPECIFICATION FairSpec
CONSTANTS
    Workers = {w1, w2}
    Tasks = {t1}
    StopMessage = StopMessage
    NoTask = NoTask
    QueueSize = 1
    HasExceptions = FALSE
    ExceptionsSize = 0
PROPERTIES
    DestructorReturns
CHECK_DEADLOCK FALSE
