\* Three producers and three poppers on a queue of two slots: producers and
\* consumers sleep at the same time, and others barge in.  A system where
\* nobody pushes any more may stop: everybody is idle or asleep.
SPECIFICATION Spec
CONSTANTS
    Producers = {p1, p2, p3}
    Poppers = {c1, c2, c3}
    TimedPoppers = {}
    EmptyWaiters = {w1, w2}
    MaxSize = 2
    MaxPushes = 2
SYMMETRY Symmetry
INVARIANTS
    TypeOK
    NoItemSleptOn
    NoRoomSleptOn
    NoEmptinessSleptOn
CHECK_DEADLOCK FALSE
