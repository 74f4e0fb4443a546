SPECIFICATION Spec
CONSTANTS
    p1 = p1
    p2 = p2
    Proc = {p1, p2}
    Faults = {}
    MaxOpen = 2
    MaxRows = 2
CHECK_DEADLOCK FALSE
INVARIANT OpenIsCurrent
