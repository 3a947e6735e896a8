SPECIFICATION Spec
CONSTANTS
    t1 = t1
    t2 = t2
    q1 = q1
    e1 = e1
    g1 = g1
    NONE = NONE
    Threads = {t1, t2}
    Queues = {q1}
    Events = {e1}
    Guards = {g1}
    WaitsOn <- Disjoint
    Timeouts = {"zero", "finite"}
    Depth = 2
    MaxNotifying = 1
INVARIANTS TriggersReported
PROPERTIES ReadyReported WaitEnds
