SPECIFICATION MCSpec
CONSTANTS
    a = a
    b = b
    c = c
    cu = cu
    pa = pa
    pb = pb
    pc3 = pc3
    g = g
    h = h
    Port = {a, b, c, cu}
    Name <- MCName
    Dir <- MCName
    Hash <- MCHash
    Groups <- MCGroups
    Options <- MCOptions
    Graphs <- Acyclic
    BuildGraphs <- OneBuild
    MaxCommands = 2
INVARIANT StoredFilesKept
INVARIANT NoResidue
INVARIANT DependenciesKept
INVARIANT FollowsExactly
CHECK_DEADLOCK FALSE
