SPECIFICATION FairSpec
CONSTANTS
    r1 = r1
    r2 = r2
    n1 = n1
    t1 = t1
    t2 = t2
    Row = {r1, r2}
    Name = {n1}
    Task = {t1, t2}
    PoolSize = 2
    MaxWrites = 2
INVARIANTS
    ReadYourWrites
    AnswersNeverGoBack
PROPERTIES
    EveryCallEnds
