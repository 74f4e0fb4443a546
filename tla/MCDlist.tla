------------------------------ MODULE MCDlist ------------------------------
(* Model-checking instance of DlistSelect (and of Dlist, which it runs):   *)
(* three items over all graphs; the last two provide the same token, as    *)
(* two variants of a port do.                                              *)
EXTENDS DlistSelect

CONSTANTS i1, i2, i3, t1, t2

SharedToken == [x \in Item |-> IF x = i1 THEN {t1} ELSE {t2}]

(* Every item may need any token.                                          *)
AnyGraphs == [Item -> SUBSET Token]
=============================================================================
