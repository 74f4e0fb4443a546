---------------------------- MODULE MCRegistryDb ----------------------------
(* Model-checking instance of RegistryDb: two connections.                 *)
EXTENDS RegistryDb

CONSTANTS p1, p2
=============================================================================
