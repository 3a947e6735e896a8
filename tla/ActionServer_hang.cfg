SPECIFICATION FairSpec
CONSTANTS
    Goals = {g1}
    Requests = {r1}
    Cancels = {c1}
    QueueDepth = 1
    HasGoalTimeout = TRUE
    HandlersMayDrop = FALSE
CHECK_DEADLOCK FALSE
PROPERTIES ShutdownCompletes
