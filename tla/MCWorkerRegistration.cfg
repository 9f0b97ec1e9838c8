SPECIFICATION Spec
CONSTANTS
    p1 = p1
    p2 = p2
    Process = {p1, p2}
    Defs = 2
    MaxCommands = 4
SYMMETRY Symmetry
INVARIANTS
    CalmRegistrationCompletes
    RemovalLeavesNoWorker
    ListedWorkersExist
CHECK_DEADLOCK FALSE
