SPECIFICATION Spec
CONSTANTS
    h1 = h1
    h2 = h2
    p1 = p1
    p2 = p2
    hi = hi
    bye = bye
    here = here
    there = there
    None = None
    Handler = {h1, h2}
    Word = {hi, bye}
    Channel = {here, there}
    Row <- MCRow
    Happening <- MCHappening
    Post = {p1}
    MaxChanges = 2
INVARIANTS
    PatternsFollowStore
    CalmEventsRunTheirHandlers
    MentionRunsOnce
CHECK_DEADLOCK FALSE
