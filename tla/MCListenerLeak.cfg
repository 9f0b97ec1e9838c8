SPECIFICATION Spec
CONSTANTS
    v1 = v1
    v2 = v2
    c1 = c1
    h1 = h1
    h2 = h2
    n1 = n1
    n2 = n2
    n3 = n3
    w1 = w1
    w2 = w2
    Server = {v1}
    Sched = {}
    Handler = {h1}
    Name = {n1}
    Writer = {w1, w2}
    Coordinated = TRUE
    Remote = FALSE
    Faults = FALSE
    Capacity = 3
    MaxWrites = 3
CHECK_DEADLOCK FALSE
INVARIANTS
    ListenersStopWithHandlers
