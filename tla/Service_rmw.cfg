SPECIFICATION Spec
CONSTANTS
    c1 = c1
    c2 = c2
    r1 = r1
    r2 = r2
    r3 = r3
    r4 = r4
    Clients = {c1, c2}
    Requests = {r1, r2, r3, r4}
    ClientOf <- TwoAndTwo
    Malformed = {}
    NativeClients = {c2}
    NativeServer = FALSE
    MayTimeout = TRUE
    ServerDepth = 2
    ClientDepth = 1
CHECK_DEADLOCK FALSE
INVARIANTS Correlated AnswerableOnce
