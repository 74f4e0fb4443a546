SPECIFICATION FairSpec
CONSTANTS
    Proc = {p1, p2}
    p1 = p1
    p2 = p2
    NoProc = NoProc
    None = None
    Portfile = {a, b}
    a = a
    b = b
    Variant = {u}
    u = u
    Targets = 3
    Scenes <- MCScenes
    MaxFiles = 2
INVARIANT CompletedHasWork
INVARIANT WorkExclusive
PROPERTY OwnWork
PROPERTY RunsEnd
