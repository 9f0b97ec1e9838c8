SPECIFICATION Spec
CONSTANTS
    r1 = r1
    r2 = r2
    o1 = o1
    o2 = o2
    s1 = s1
    Ref = {r1}
    Source = {s1}
    SourceOf <- MCSourceOf
    Op = {o1, o2}
    Origins = {"auto", "manual", "client"}
    Rpcs = {"status", "cancel", "delete", "sweep", "force"}
    Faults = TRUE
    Stores = {TRUE, FALSE}
    MaxCrashes = 1
    ChunkSize = 1
SYMMETRY Handlers
CHECK_DEADLOCK FALSE
INVARIANTS
    TypeOK
    TerminalReportIsFinished
    FailureNotMasked
    DiscardedIsCancelled
PROPERTIES
    CancelledIsFinal
    LiveJobStaysTrackable
    KeepsPromise
