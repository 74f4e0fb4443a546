SPECIFICATION FairSpec
CONSTANTS
    p1 = p1
    p2 = p2
    Proc = {p1, p2}
    Faults = {"disk", "crash"}
    MaxOpen = 3
    MaxRows = 2
INVARIANT SchemaComplete
INVARIANT EntriesKept
INVARIANT OpenFindsTables
PROPERTY OpenEnds
CHECK_DEADLOCK FALSE
