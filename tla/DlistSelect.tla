---------------------------- MODULE DlistSelect ----------------------------
(***************************************************************************)
(* Who evaluates a dependency list, and of what: the part of a list that   *)
(* some items need is selected (dlist_append_dependents) and evaluated     *)
(* (dlist_eval, module Dlist). eval_targets selects for one target, or     *)
(* takes all; eval_variants selects for each chosen variant in turn, into  *)
(* one list; mportexec selects for a port and leaves that port out.        *)
(*                                                                         *)
(* The selection calls itself for every provider of every token that is    *)
(* required. Its calls are a stack of frames, each with the providers it   *)
(* has still to visit; the order in which it visits them is left open.     *)
(***************************************************************************)
EXTENDS Dlist, Sequences, SequencesExt

VARIABLES
    caller,   \* "all", "targets", "variants" or "install"
    asked,    \* history: the items the selection is made for
    roots,    \* those it has still to be called for
    selected, \* result
    frames    \* the calls: an item and the providers still to visit

selection == <<caller, asked, roots, selected, frames>>

(* Lists of items, each at most once.                                      *)
Lists == {s \in UNION {[1 .. n -> Item] : n \in 0 .. Cardinality(Item)} : IsInjective(s)}

SelectInit ==
    /\ Init
    /\ frames = <<>>
    /\ \/ /\ caller = "all"
          /\ asked = Item
          /\ roots = <<>>
          /\ selected \in {s \in Lists : Range(s) = Item}
       \/ /\ caller \in {"targets", "variants", "install"}
          /\ roots \in {s \in Lists : caller # "variants" => Len(s) = 1}
          /\ asked = Range(roots)
          /\ selected = <<>>

-----------------------------------------------------------------------------
(* Mutant: only one provider of a token is followed.                       *)
FirstSearch(t) ==
    LET found == {x \in Item : t \in Provides[x]}
    IN  IF found = {} THEN {} ELSE {CHOOSE x \in found : TRUE}

(* dlist_search: the providers of a token.                                 *)
Search(t) == {x \in Item : t \in Provides[x]}

Providers(d) == UNION {Search(t) : t \in requires[d]}

(* dlist_append_dependents is called for d, with the calls in s under way. *)
AppendDependents(d, s) ==
    IF d \in Range(selected)
      THEN frames' = s /\ UNCHANGED selected
      ELSE /\ selected' = Append(selected, d)
           /\ frames' = <<[item |-> d, todo |-> Providers(d)]>> \o s

SelectRoot ==
    /\ frames = <<>> /\ roots # <<>>
    /\ AppendDependents(Head(roots), frames)
    /\ roots' = Tail(roots)
    /\ UNCHANGED <<vars, caller, asked>>

SelectProvider ==
    /\ frames # <<>>
    /\ \E x \in Head(frames).todo :
           AppendDependents(x, <<[Head(frames) EXCEPT !.todo = @ \ {x}]>> \o Tail(frames))
    /\ UNCHANGED <<vars, caller, asked, roots>>

Return ==
    /\ frames # <<>> /\ Head(frames).todo = {}
    /\ frames' = Tail(frames)
    /\ UNCHANGED <<vars, caller, asked, roots, selected>>

(* mportexec deletes the port it was called for from the list.             *)
Excluded == IF caller = "install" THEN asked ELSE {}

Position(x) == IF x \in Range(selected) THEN CHOOSE i \in DOMAIN selected : selected[i] = x ELSE 0

CallEval ==
    /\ frames = <<>> /\ roots = <<>>
    /\ \E skips \in BOOLEAN :
           Evaluate(Range(selected) \ Excluded, [x \in Item |-> Position(x)],
                    caller = "install", skips)
    /\ UNCHANGED selection

SelectNext ==
    \/ SelectRoot \/ SelectProvider \/ Return \/ CallEval
    \/ Run /\ UNCHANGED selection

SelectSpec == SelectInit /\ [][SelectNext]_<<vars, selection>>

-----------------------------------------------------------------------------
(* What the items of S need: the least set that contains them and all that *)
(* its members require.                                                    *)
Needed(S) ==
    LET closed == {C \in SUBSET Item :
                     /\ S \subseteq C
                     /\ \A x \in C, y \in Item : requires[x] \cap Provides[y] # {} => y \in C}
    IN  {x \in Item : \A C \in closed : x \in C}

(* The list that is evaluated holds exactly what the items asked for need, *)
(* each item once, even when the graph has cycles and items share          *)
(* providers (dlist_eval would run an item twice that is in the list       *)
(* twice: dlist_delete removes one occurrence); mportexec leaves its own   *)
(* port out.                                                               *)
SelectsNeeded ==
    pc # "call" => /\ Listed = Needed(asked) \ Excluded
                   /\ IsInjective(selected)
=============================================================================
