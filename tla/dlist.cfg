SPECIFICATION SelectSpec
CONSTANTS
    i1 = i1
    i2 = i2
    i3 = i3
    t1 = t1
    t2 = t2
    Item = {i1, i2, i3}
    Token = {t1, t2}
    Provides <- SharedToken
    Graphs <- AnyGraphs
INVARIANT SelectsNeeded
INVARIANT CompleteWhenAcyclic
INVARIANT LeftoversBlocked
PROPERTY HardOrder
PROPERTY SoftOrder
CHECK_DEADLOCK FALSE
