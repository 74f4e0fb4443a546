---------------------------- MODULE MCPortImage ----------------------------
(* Model-checking instances of PortImage. Port b has two files: the one of *)
(* both versions of port a, and the one of port c.                         *)
EXTENDS PortImage

CONSTANTS a1, a2, b1, c1, f1, f2

MCNameOf == [e \in Entry |-> IF e \in {a1, a2} THEN "a" ELSE IF e = b1 THEN "b" ELSE "c"]

MCImage == [e \in Entry |-> IF e = b1 THEN {f1, f2} ELSE IF e = c1 THEN {f2} ELSE {f1}]

(* Port b is replaced by port a.                                           *)
MCReplacedBy == {<<"b", "a">>}

NoneReplaced == {}

(* Four ports' files and the user's meet in the prefix.                    *)
Files ==
    [entries |-> {a1, a2, b1, c1}, userFiles |-> {f1, f2}, faults |-> {"source", "crash"},
     sameSecond |-> FALSE, lastActivation |-> 3, lastSecond |-> 5]

(* Every fault, and two activations in one second.                         *)
AllFaults ==
    [entries |-> {a1, a2, b1}, userFiles |-> {},
     faults |-> FaultKinds, sameSecond |-> TRUE, lastActivation |-> 2, lastSecond |-> 4]

MCScenes == {Files, AllFaults}

(* One forced activation over a file of the user.                          *)
Forced ==
    {[entries |-> {a1, b1}, userFiles |-> {f1}, faults |-> {"source"},
      sameSecond |-> FALSE, lastActivation |-> 3, lastSecond |-> 3]}
=============================================================================
