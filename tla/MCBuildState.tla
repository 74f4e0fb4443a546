---------------------------- MODULE MCBuildState ----------------------------
(* BuildState for TLC: a process on its own, whose Portfile is edited and  *)
(* whose directory is cleaned; two processes that share a directory, with  *)
(* -o; and two without it, which discard it after an edit.                 *)
EXTENDS BuildState

CONSTANTS p1, p2

Alone ==
    [procs |-> {p1}, cleaners |-> {p1}, forces |-> {FALSE}, honors |-> {FALSE},
     selects |-> SUBSET Variant, last |-> Targets, faults |-> {"fail", "crash"}, edits |-> 2]

Shared ==
    [procs |-> {p1, p2}, cleaners |-> {}, forces |-> BOOLEAN, honors |-> {TRUE},
     selects |-> SUBSET Variant, last |-> Targets, faults |-> {"fail"}, edits |-> 0]

Contended ==
    [procs |-> {p1, p2}, cleaners |-> {}, forces |-> {FALSE}, honors |-> {FALSE},
     selects |-> {{}}, last |-> 1, faults |-> {}, edits |-> 1]

MCScenes == {Alone, Shared, Contended}
=============================================================================
