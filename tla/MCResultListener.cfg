SPECIFICATION FairSpec
CONSTANTS
    r1 = r1
    r2 = r2
    Result = {r1, r2}
    MaxStarts = 2
INVARIANTS
    ResultsRunOnce
PROPERTIES
    ResultsAreRun
    ListenerReturns
    ChangesGetThrough
