\* Queues that are much smaller than 1000, so that the main thread blocks on
\* the pool and the tasks block on the writer.
SPECIFICATION FairSpec
CONSTANTS
    PoolWorkers = {w1, w2}
    WriterWorkers = {writer}
    StopMessage = StopMessage
    NoTask = NoTask
    PoolQueueSize = 2
    WriterQueueSize = 2
    Combinations = 4
INVARIANTS
    OutputIsComplete
    LinesKeepTheirOrder
    WriterOutlivesTheTasks
PROPERTIES
    PipelineEnds
