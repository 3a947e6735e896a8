SPECIFICATION PySpec
CONSTANTS
    c1 = c1
    c2 = c2
    r1 = r1
    r2 = r2
    r3 = r3
    r4 = r4
    Clients = {c1, c2}
    Requests = {r1, r2, r3, r4}
    ClientOf <- TwoAndTwo
    Malformed = {r3}
    NativeClients = {c1, c2}
    NativeServer = TRUE
    MayTimeout = FALSE
    ServerDepth = 4
    ClientDepth = 1
    Workers = {w1, w2}
    NONE = NONE
CHECK_DEADLOCK FALSE
INVARIANTS AnswersPaired
PROPERTIES AnsweredUnlessHeldUp
