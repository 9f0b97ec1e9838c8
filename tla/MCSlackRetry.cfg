SPECIFICATION FairRetrySpec
CONSTANTS
    e1 = e1
    h1 = h1
    o1 = o1
    Task = {e1}
    Source = {h1}
    Ref <- MCRef
    SourceOf <- MCSourceOf
    HandlerOf <- MCHandlerOf
    Origins = {"auto"}
    MaxRetries = 2
    Op = {o1}
    Rpcs = {"cancel", "force"}
    Faults = TRUE
    Stores = {FALSE}
    MaxCrashes = 1
    ChunkSize = 1
CHECK_DEADLOCK FALSE
INVARIANTS
    RetryTypeOK
    SuccessIsLast
    OnlyLostJobsAreRepeated
PROPERTIES
    EveryRunEnds
    EveryRowIsClosed
