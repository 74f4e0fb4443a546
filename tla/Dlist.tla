------------------------------- MODULE Dlist -------------------------------
(***************************************************************************)
(* The dependency evaluator (macports_dlist.tcl): dlist_eval runs a        *)
(* handler on every item of a list, hard dependencies (requires) before    *)
(* the item, soft ones (uses) before it if possible. It orders the targets *)
(* of a port (eval_targets), its variants, and the dependencies that       *)
(* mportexec installs.                                                     *)
(*                                                                         *)
(* One action is one iteration of the loop of dlist_eval: the item is      *)
(* selected and its handler returns. Who calls it, and with which list, is *)
(* in DlistSelect.                                                         *)
(***************************************************************************)
EXTENDS Integers, FiniteSets

CONSTANTS
    Item,     \* the ditems
    Token,    \* what items provide and need
    Provides, \* the tokens each item provides
    Graphs    \* the dependencies: a set of functions from items to tokens

ASSUME ConstantsOK ==
    /\ IsFiniteSet(Item) /\ IsFiniteSet(Token)
    /\ Provides \in [Item -> SUBSET Token]
    /\ Graphs \subseteq [Item -> SUBSET Token]

VARIABLES
    requires, \* the hard dependencies of each item
    uses,     \* the soft dependencies of each item
    pos,      \* the position of each item of the list
    canfail,  \* the canfail argument
    dlist,    \* the items of the list that remain
    status,   \* statusdict: "unset", "ok" (1) or "failed" (0) for each token
    pc,       \* "call", "test", "loop" or "done"
    passed,   \* history: items whose test or handler succeeded
    failed    \* history: items whose handler failed or raised an error

input == <<requires, uses, pos, canfail>>
vars == <<input, dlist, status, pc, passed, failed>>

Init ==
    /\ requires \in Graphs
    /\ uses \in Graphs
    /\ pos = [x \in Item |-> 0]
    /\ canfail = FALSE
    /\ dlist = {}
    /\ status = [t \in Token |-> "unset"]
    /\ pc = "call"
    /\ passed = {}
    /\ failed = {}

-----------------------------------------------------------------------------
(* dlist_count_unmet, as a set.                                            *)
Unmet(tokens) == {t \in tokens : status[t] # "ok"}

(* Mutant: the items that remain are not asked.                            *)
HasPendingNever(tokens) == FALSE

(* dlist_has_pending                                                       *)
HasPending(tokens) == \E x \in dlist : Provides[x] \cap tokens # {}

(* Mutant: soft dependencies count as hard ones.                           *)
EligibleHard(d) ==
    /\ d \in dlist
    /\ Unmet(requires[d] \cup uses[d]) = {}

(* Mutant: hard dependencies are not looked at.                            *)
EligibleBlind(d) ==
    /\ d \in dlist
    /\ Unmet(uses[d]) = {} \/ ~HasPending(uses[d])

(* The items dlist_get_next does not skip.                                 *)
Eligible(d) ==
    /\ d \in dlist
    /\ Unmet(requires[d]) = {}
    /\ Unmet(uses[d]) = {} \/ ~HasPending(uses[d])

(* Of those, dlist_get_next picks the first with the fewest unmet soft     *)
(* dependencies.                                                           *)
Precedes(x, y) ==
    LET n(z) == Cardinality(Unmet(uses[z]))
    IN  n(x) < n(y) \/ (n(x) = n(y) /\ pos[x] < pos[y])

Selected(d) == Eligible(d) /\ \A x \in dlist \ {d} : Eligible(x) => Precedes(d, x)

(* The tokens of the items in S get a value in statusdict.                 *)
Recorded(S, value) ==
    [t \in Token |-> IF \E d \in S : t \in Provides[d] THEN value ELSE status[t]]

-----------------------------------------------------------------------------
(* dlist_eval is called with the list L in the order p; tests: a testcond  *)
(* is given, skips: canfail is set.                                        *)
Evaluate(L, p, tests, skips) ==
    /\ pc = "call"
    /\ dlist' = L
    /\ pos' = p
    /\ canfail' = skips
    /\ pc' = IF tests THEN "test" ELSE "loop"
    /\ UNCHANGED <<requires, uses, status, passed, failed>>

(* The pre-run: the items whose test holds are done.                       *)
Test(S) ==
    /\ pc = "test"
    /\ status' = Recorded(S, "ok")
    /\ dlist' = dlist \ S
    /\ passed' = S
    /\ pc' = "loop"
    /\ UNCHANGED <<input, failed>>

(* Mutant: the success is not recorded.                                    *)
SucceedUnrecorded(d) ==
    /\ pc = "loop" /\ Selected(d)
    /\ dlist' = dlist \ {d}
    /\ passed' = passed \cup {d}
    /\ UNCHANGED <<input, status, pc, failed>>

(* The handler returns 0.                                                  *)
Succeed(d) ==
    /\ pc = "loop" /\ Selected(d)
    /\ status' = Recorded({d}, "ok")
    /\ dlist' = dlist \ {d}
    /\ passed' = passed \cup {d}
    /\ UNCHANGED <<input, pc, failed>>

(* The handler returns another status: the failure is recorded, and the    *)
(* evaluation ends unless it may go on.                                    *)
Fail(d) ==
    /\ pc = "loop" /\ Selected(d)
    /\ status' = Recorded({d}, "failed")
    /\ failed' = failed \cup {d}
    /\ IF canfail
         THEN dlist' = dlist \ {d} /\ UNCHANGED pc
         ELSE pc' = "done" /\ UNCHANGED dlist
    /\ UNCHANGED <<input, passed>>

(* The handler raises an error, which always ends the evaluation.          *)
Raise(d) ==
    /\ pc = "loop" /\ Selected(d)
    /\ pc' = "done"
    /\ failed' = failed \cup {d}
    /\ UNCHANGED <<input, dlist, status, passed>>

(* Nothing is eligible: what remains is returned.                          *)
Finish ==
    /\ pc = "loop"
    /\ \A d \in dlist : ~Eligible(d)
    /\ pc' = "done"
    /\ UNCHANGED <<input, dlist, status, passed, failed>>

Run ==
    \/ \E S \in SUBSET dlist : Test(S)
    \/ \E d \in Item : Succeed(d) \/ Fail(d) \/ Raise(d)
    \/ Finish

Next ==
    \/ \E L \in SUBSET Item, p \in [Item -> Nat], tests, skips \in BOOLEAN :
          Evaluate(L, p, tests, skips)
    \/ Run

Spec == Init /\ [][Next]_vars

-----------------------------------------------------------------------------
(* Type invariant.                                                         *)
TypeOK ==
    /\ requires \in [Item -> SUBSET Token]
    /\ uses \in [Item -> SUBSET Token]
    /\ pos \in [Item -> Nat]
    /\ canfail \in BOOLEAN
    /\ dlist \subseteq Item
    /\ status \in [Token -> {"unset", "ok", "failed"}]
    /\ pc \in {"call", "test", "loop", "done"}
    /\ passed \subseteq Item
    /\ failed \subseteq Item

(* A token is on offer when some item that succeeded provides it.          *)
Offered(t) == \E x \in passed : t \in Provides[x]

(* An item is run only when, for each token it requires, another item that *)
(* provides it has succeeded before.                                       *)
HardOrder ==
    [][\A d \in (passed' \cup failed') \ (passed \cup failed) :
           pc = "loop" => \A t \in requires[d] : Offered(t)]_vars

(* An item is run only when each token it would like is on offer or no     *)
(* item that waits, itself included, can provide it.                       *)
SoftOrder ==
    [][\A d \in (passed' \cup failed') \ (passed \cup failed) :
           pc = "loop" =>
               \A t \in uses[d] : Offered(t) \/ \A x \in dlist : t \notin Provides[x]]_vars

(* The list the evaluation was called with.                                *)
Listed == dlist \cup passed \cup failed

(* No part of the list depends on itself, and all that is needed is there: *)
(* every nonempty set of items has one that needs no other of the set, and *)
(* every required token has a provider.                                    *)
WellFounded ==
    \A S \in (SUBSET Listed) \ {{}} :
        \E d \in S : \A x \in S : Provides[x] \cap (requires[d] \cup uses[d]) = {}
Closed == \A d \in Listed : \A t \in requires[d] : \E x \in Listed : t \in Provides[x]

(* When nothing fails, a list without cycles and gaps is evaluated to the  *)
(* end (mportexec and eval_targets take what remains for a failure).       *)
CompleteWhenAcyclic ==
    pc = "done" /\ failed = {} /\ WellFounded /\ Closed => dlist = {}

(* Whatever remains, once the evaluation has not been cut short, has a     *)
(* reason: a required token that nothing provides or one of whose          *)
(* providers failed or remains, or a wanted one that an item that remains  *)
(* provides.                                                               *)
LeftoversBlocked ==
    pc = "done" /\ (canfail \/ failed = {}) =>
        \/ \E d \in failed : d \in dlist
        \/ \A d \in dlist :
              \/ \E t \in requires[d] :
                    \/ \A x \in Listed : t \notin Provides[x]
                    \/ \E x \in dlist \cup failed : t \in Provides[x]
              \/ \E x \in dlist : Provides[x] \cap uses[d] # {}

=============================================================================
