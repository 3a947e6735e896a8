SPECIFICATION FairSpec
CONSTANTS
    Capacity = 2
    BlockingReceivers = {b1, b2}
    AsyncReceivers = {a1}
    MaxPush = 4
CHECK_DEADLOCK FALSE
INVARIANTS ItemsAccounted WaitersNotified
PROPERTIES QueueOrder ReceiversServed
