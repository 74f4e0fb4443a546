---------------------------- MODULE ActivePorts ----------------------------
(***************************************************************************)
(* What the registry promises about active ports, whatever goes wrong in   *)
(* portimage.tcl: it changes one step at a time, and each step activates   *)
(* one entry completely, deactivates one entry completely, or moves active *)
(* files of other ports aside to make room. Two versions of a port are     *)
(* never active together and two entries never own the same path.          *)
(***************************************************************************)
EXTENDS Integers

CONSTANTS Entry, NameOf, File, Image, MaxStamp

VARIABLES
    active, \* the active entries
    place   \* where each file of an entry is active, NoPath where it is not

NoPath == <<>>
InUse == {place[e][f] : e \in Entry, f \in File} \ {NoPath}

Init ==
    /\ active = {}
    /\ place = [e \in Entry |-> [f \in File |-> NoPath]]

(* An entry becomes active where no other port has a file.                 *)
Activate(e) ==
    /\ e \notin active
    /\ \A x \in active : NameOf[x] # NameOf[e]
    /\ \A f \in Image[e] : <<f, 0>> \notin InUse
    /\ active' = active \cup {e}
    /\ place' = [place EXCEPT ![e] =
                   [f \in File |-> IF f \in Image[e] THEN <<f, 0>> ELSE NoPath]]

Deactivate(e) ==
    /\ e \in active
    /\ active' = active \ {e}
    /\ place' = [place EXCEPT ![e] = [f \in File |-> NoPath]]

(* Files in the way of a forced activation keep their owners under another *)
(* name.                                                                   *)
MoveAside(F, s) ==
    /\ \A f \in F : <<f, s>> \notin InUse
    /\ place' = [e \in Entry |-> [f \in File |->
                   IF f \in F /\ place[e][f] = <<f, 0>> THEN <<f, s>> ELSE place[e][f]]]
    /\ UNCHANGED active

Next ==
    \/ \E e \in Entry : Activate(e) \/ Deactivate(e)
    \/ \E F \in SUBSET File, s \in 1 .. MaxStamp : MoveAside(F, s)

Spec == Init /\ [][Next]_<<active, place>>
=============================================================================
