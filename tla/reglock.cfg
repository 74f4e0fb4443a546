SPECIFICATION FairSpec
CONSTANTS
    p1 = p1
    p2 = p2
    none = none
    Proc = {p1, p2}
    NoProc = none
    CommandLoops = {p1}
    MaxNest = 2
    MaxLocks = 3
INVARIANT CounterExact
INVARIANT SectionOwnsLock
INVARIANT CleanExclusion
PROPERTY WaiterServed
CHECK_DEADLOCK FALSE
