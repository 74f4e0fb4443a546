SPECIFICATION Spec
CONSTANTS
    p1 = p1
    p2 = p2
    none = none
    Proc = {p1, p2}
    NoProc = none
    CommandLoops = {p1}
    MaxNest = 1
    MaxLocks = 3
INVARIANT MutualExclusion
CHECK_DEADLOCK FALSE
