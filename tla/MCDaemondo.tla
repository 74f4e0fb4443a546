----------------------------- MODULE MCDaemondo -----------------------------
EXTENDS Daemondo

\* The command lines portstartupitem.tcl writes, and the two modes of the help text.
Line(style, stop, restart) == [style |-> style, stop |-> stop, restart |-> restart]
Tracked == {Line(s, FALSE, FALSE) : s \in Styles}
Wrapped == {Line(s, TRUE, TRUE) : s \in Styles} \cup {Line("none", TRUE, FALSE)}
AllLines == Tracked \cup Wrapped
=============================================================================
