------------------------------ MODULE MCTrace ------------------------------
EXTENDS Trace

Asked(autostart, targets) == [autostart |-> autostart, targets |-> targets]
\* A fenced session before one that is not, and the other way round; calls of other
\* targets; and a deactivation that nests a session in its own.
Several == {Asked(TRUE, <<"build", "activate">>), Asked(FALSE, <<"uninstall", "build">>),
            Asked(FALSE, <<"build", "uninstall", "clean">>), Asked(TRUE, <<"deactivate">>)}
=============================================================================
