SPECIFICATION Spec
CONSTANTS
    n1 = n1
    n2 = n2
    e1 = e1
    e2 = e2
    bad = bad
    u1 = u1
    w1 = w1
    o1 = o1
    none = none
    Name = {n1, n2}
    Endpoint = {e1, e2, bad}
    Parsable = {e1, e2}
    Normal <- ReadBack
    Url = {u1}
    Worker = {w1}
    Option = {o1}
    NoText = none
    MaxId = 6
    File <- UserFiles
    Requests = 3
CHECK_DEADLOCK FALSE
INVARIANTS
    TypeOK
    EveryRowRunsOneThing
    ReimportFailsOnlyForServers
    ImportableFilesLoad
PROPERTIES
    ImportsWhatTheFileSays
    NoReferenceIsRetargeted
