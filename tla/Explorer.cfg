\* Two workers and a queue of two slots, or no worker.
SPECIFICATION ExplorerFairSpec
CONSTANTS
    Workers = {w1, w2}
    Tasks <- FourTasks
    StopMessage = StopMessage
    NoTask = NoTask
    QueueSize = 2
    HasExceptions = FALSE
    ExceptionsSize = 0
    NumberOfTasks = 4
    MaxNumberOfEdges = 2
    EdgesOf <- FourEdges
    Numbers = {0, 1, 3}
    MaxUnsigned = 3
INVARIANTS
    RowsAreFinal
PROPERTIES
    ExplorerEnds
