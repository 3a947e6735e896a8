SPECIFICATION Spec
CONSTANTS
    Goals = {g1}
    Requests = {r1, r2}
    Cancels = {c1}
    QueueDepth = 1
    HasGoalTimeout = TRUE
    HandlersMayDrop = TRUE
SYMMETRY Symmetry
CHECK_DEADLOCK FALSE
INVARIANTS RecordFaithful NoOrphanedWaiter
PROPERTIES ImplementsLifecycle SilenceExplained
