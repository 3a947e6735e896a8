SPECIFICATION Spec
CONSTANTS
    t1 = t1
    t2 = t2
    t3 = t3
    p1 = p1
    p2 = p2
    s1 = s1
    Threads = {t1, t2, t3}
    Pubs = {p1, p2}
    Subs = {s1}
    PubOf <- MCPubOf
    Reliable = {p1}
    RmwPubs = {p1}
    Shm = {p1, p2}
    Attached = {p1}
    Depth <- MCDepth
    MaxMsgs <- MCMsgs
CHECK_DEADLOCK FALSE
INVARIANTS StampsUnique ReadsFaithful
PROPERTIES SamplesReachUser
