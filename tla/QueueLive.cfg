\* Every thread keeps calling its operation, with fairness; plain and timed
\* Pops together, with a WaitEmpty caller.
SPECIFICATION FairSpec
CONSTANTS
    Producers = {p1, p2}
    Poppers = {c1}
    TimedPoppers = {d1}
    EmptyWaiters = {w1}
    MaxSize = 2
    MaxPushes = 2
PROPERTIES
    ImplementsFifo
    EverythingDelivered
    WaitEmptyIsAnswered
CHECK_DEADLOCK FALSE
