SPECIFICATION Spec
CONSTANTS
    c1 = c1
    c2 = c2
    v1 = v1
    cron = cron
    server = server
    n1 = n1
    n2 = n2
    d1 = d1
    Id = {c1, c2, v1}
    Kind = {cron, server}
    KindOf <- MCKindOf
    Name = {n1, n2}
    Data = {d1}
    Absent = Absent
    SnapshotLimit = 2
    MaxVersion = 4
SYMMETRY Alike
CHECK_DEADLOCK FALSE
INVARIANTS
    LookupsNeverLie
    VersionNamesContents
PROPERTIES
    LookupsStayComplete
    ImportCanBeUndone
