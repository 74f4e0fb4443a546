--------------------------- MODULE MCRegistryLock ---------------------------
(* Model-checking instance of RegistryLock: two processes, one of which is *)
(* an interactive shell.                                                   *)
EXTENDS RegistryLock

CONSTANTS p1, p2, none
=============================================================================
