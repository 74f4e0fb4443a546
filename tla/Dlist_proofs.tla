--------------------------- MODULE Dlist_proofs ---------------------------
(***************************************************************************)
(* Proofs about dependency lists, for every graph, every list and every    *)
(* order. Of the evaluator (Dlist): its type invariant, the order in which *)
(* it runs items, and what it leaves behind. Of its callers (DlistSelect): *)
(* that they run it as specified, so all this holds of them too, and that  *)
(* what they select is exactly what is needed.                             *)
(***************************************************************************)
EXTENDS DlistSelect, TLAPS, SequenceTheorems, FiniteSetTheorems

(* A token counts as met only when an item that provides it succeeded.     *)
StatusSound == \A t \in Token : status[t] = "ok" => Offered(t)

(* A token counts as failed only when an item that provides it failed.     *)
FailureSound ==
    \A t \in Token : status[t] = "failed" => \E x \in failed : t \in Provides[x]

(* No item that succeeded provides a token without a status.               *)
UnsetSound ==
    \A t \in Token : status[t] = "unset" => \A x \in passed : t \notin Provides[x]

(* The evaluation ends because nothing is eligible or something failed.    *)
DoneSound ==
    pc = "done" =>
        \/ \A d \in dlist : ~Eligible(d)
        \/ failed # {} /\ (canfail => failed \cap dlist # {})

(* Nothing has succeeded before the tests, and nothing at all happened     *)
(* before the call.                                                        *)
TestFirst ==
    /\ pc \in {"call", "test"} => passed = {}
    /\ pc = "call" => failed = {}

IInv == TypeOK /\ TestFirst /\ StatusSound /\ FailureSound /\ UnsetSound /\ DoneSound

-----------------------------------------------------------------------------
(* Recording a value for the items in S changes the status of their tokens *)
(* and of no others.                                                       *)
LEMMA RecordedTypes ==
    ASSUME TypeOK, NEW S, S \subseteq Item, NEW v \in {"unset", "ok", "failed"}
    PROVE  /\ Recorded(S, v) \in [Token -> {"unset", "ok", "failed"}]
           /\ \A t \in Token :
                 \/ (\E d \in S : t \in Provides[d]) /\ Recorded(S, v)[t] = v
                 \/ (\A d \in S : t \notin Provides[d]) /\ Recorded(S, v)[t] = status[t]
BY DEF TypeOK, Recorded

(* The invariant holds initially.                                          *)
LEMMA InitInv == Init => IInv
<1> SUFFICES ASSUME Init PROVE IInv
    OBVIOUS
<1>1. /\ requires \in [Item -> SUBSET Token] /\ uses \in [Item -> SUBSET Token]
      /\ pos \in [Item -> Nat] /\ dlist = {} /\ passed = {} /\ failed = {}
      /\ status \in [Token -> {"unset", "ok", "failed"}] /\ pc = "call"
      /\ \A t \in Token : status[t] = "unset"
    BY ConstantsOK DEF Init, ConstantsOK
<1>2. canfail \in BOOLEAN
    BY DEF Init
<1>3. TypeOK
    BY <1>1, <1>2 DEF TypeOK
<1> QED BY <1>1, <1>3 DEF IInv, StatusSound, FailureSound, UnsetSound, DoneSound, TestFirst

(* Every step keeps the invariant.                                         *)
LEMMA StepInv == IInv /\ [Next]_vars => IInv'
<1> SUFFICES ASSUME IInv, [Next]_vars
             PROVE  IInv'
    OBVIOUS
<1> USE DEF IInv
<1>0. ASSUME NEW L \in SUBSET Item, NEW p \in [Item -> Nat], NEW tests \in BOOLEAN,
             NEW skips \in BOOLEAN, Evaluate(L, p, tests, skips)
      PROVE  IInv'
  <2>0. /\ dlist' = L /\ pos' = p /\ canfail' = skips /\ pc = "call"
        /\ UNCHANGED <<requires, uses, status, passed, failed>>
        /\ pc' \in {"test", "loop"} /\ passed = {}
        BY <1>0 DEF Evaluate, TestFirst
  <2>1. canfail' \in BOOLEAN
        BY <2>0
  <2>2. TypeOK'
        BY <2>0, <2>1 DEF TypeOK
  <2>3. StatusSound' /\ FailureSound' /\ UnsetSound' /\ DoneSound' /\ TestFirst'
        BY <2>0 DEF StatusSound, FailureSound, UnsetSound, DoneSound, TestFirst, Offered
  <2> QED BY <2>2, <2>3
<1>1. ASSUME NEW S \in SUBSET dlist, Test(S)
      PROVE  IInv'
  <2>1. TypeOK'
        BY <1>1, RecordedTypes DEF Test, TypeOK, input
  <2>2. StatusSound' /\ FailureSound' /\ UnsetSound'
        <3>1. /\ status' = Recorded(S, "ok") /\ passed' = S /\ passed = {}
              /\ dlist' = dlist \ S /\ failed' = failed
              BY <1>1 DEF Test, TestFirst
        <3> QED BY <3>1, RecordedTypes, <2>1
                DEF StatusSound, FailureSound, UnsetSound, Offered, TypeOK
  <2>3. DoneSound' /\ TestFirst'
        BY <1>1 DEF Test, DoneSound, TestFirst
  <2> QED BY <2>1, <2>2, <2>3
<1>2. ASSUME NEW d \in Item, Succeed(d)
      PROVE  IInv'
  <2>1. TypeOK'
        BY <1>2, RecordedTypes DEF Succeed, TypeOK, input
  <2>2. StatusSound' /\ FailureSound' /\ UnsetSound'
        <3>1. /\ status' = Recorded({d}, "ok") /\ passed' = passed \cup {d}
              /\ dlist' = dlist \ {d} /\ failed' = failed
              BY <1>2 DEF Succeed
        <3> QED BY <3>1, RecordedTypes, <2>1
                DEF StatusSound, FailureSound, UnsetSound, Offered, TypeOK
  <2>3. DoneSound' /\ TestFirst'
        BY <1>2 DEF Succeed, DoneSound, TestFirst
  <2> QED BY <2>1, <2>2, <2>3
<1>3. ASSUME NEW d \in Item, Fail(d)
      PROVE  IInv'
  <2>0. /\ status' = Recorded({d}, "failed") /\ passed' = passed
        /\ failed' = failed \cup {d} /\ d \in dlist
        /\ dlist' = (IF canfail THEN dlist \ {d} ELSE dlist)
        /\ pc' = (IF canfail THEN pc ELSE "done")
        /\ pc = "loop" /\ input' = input
        BY <1>3 DEF Fail, Selected, Eligible
  <2>1. TypeOK'
        BY <2>0, RecordedTypes DEF TypeOK, input
  <2>2. StatusSound' /\ FailureSound' /\ UnsetSound'
        BY <2>0, <2>1, RecordedTypes
        DEF StatusSound, FailureSound, UnsetSound, Offered, TypeOK
  <2>3. DoneSound' /\ TestFirst'
        BY <2>0 DEF DoneSound, TestFirst
  <2> QED BY <2>1, <2>2, <2>3
<1>4. ASSUME NEW d \in Item, Raise(d)
      PROVE  IInv'
  <2>0. /\ status' = status /\ passed' = passed /\ dlist' = dlist
        /\ failed' = failed \cup {d} /\ d \in dlist
        /\ pc' = "done" /\ input' = input
        BY <1>4 DEF Raise, Selected, Eligible
  <2>1. TypeOK'
        BY <2>0 DEF TypeOK, input
  <2>2. StatusSound' /\ FailureSound' /\ UnsetSound' /\ DoneSound' /\ TestFirst'
        BY <2>0 DEF StatusSound, FailureSound, UnsetSound, Offered, TypeOK, DoneSound,
                    TestFirst
  <2> QED BY <2>1, <2>2
<1>5. CASE Finish
  <2>0. /\ status' = status /\ passed' = passed /\ dlist' = dlist
        /\ failed' = failed /\ input' = input /\ pc' = "done"
        /\ \A d \in dlist : ~Eligible(d)
        BY <1>5 DEF Finish
  <2>1. TypeOK' /\ StatusSound' /\ FailureSound' /\ UnsetSound'
        BY <2>0 DEF TypeOK, input, StatusSound, FailureSound, UnsetSound, Offered
  <2>2. DoneSound' /\ TestFirst'
        BY <2>0 DEF TestFirst, DoneSound, Eligible, Unmet, HasPending, input
  <2> QED BY <2>1, <2>2
<1>6. CASE UNCHANGED vars
      BY <1>6 DEF vars, input, TypeOK, StatusSound, FailureSound, UnsetSound,
                  Offered, DoneSound, TestFirst, Eligible, Unmet, HasPending
<1> QED BY <1>0, <1>1, <1>2, <1>3, <1>4, <1>5, <1>6 DEF Next, Run

(* The invariant holds always.                                             *)
THEOREM Invariance == Spec => []IInv
BY InitInv, StepInv, PTL DEF Spec

(* The type invariant holds always.                                        *)
THEOREM TypeCorrect == Spec => []TypeOK
<1>1. IInv => TypeOK
      BY DEF IInv
<1> QED BY <1>1, Invariance, PTL

-----------------------------------------------------------------------------
(* One step of the evaluation runs one eligible item.                      *)
LEMMA RunsEligible ==
    ASSUME [Next]_vars, pc = "loop",
           NEW d \in (passed' \cup failed') \ (passed \cup failed)
    PROVE  Eligible(d)
<1>1. ASSUME NEW x \in Item, Succeed(x) \/ Fail(x) \/ Raise(x)
      PROVE  Eligible(d)
  <2>1. /\ Selected(x)
        /\ passed' \cup failed' \subseteq passed \cup failed \cup {x}
        BY <1>1 DEF Succeed, Fail, Raise
  <2> QED BY <2>1 DEF Selected
<1>2. ASSUME NEW S \in SUBSET dlist, Test(S)
      PROVE  FALSE
      BY <1>2 DEF Test
<1>5. ASSUME NEW L, NEW p, NEW tests, NEW skips, Evaluate(L, p, tests, skips)
      PROVE  FALSE
      BY <1>5 DEF Evaluate
<1>3. CASE Finish
      BY <1>3 DEF Finish
<1>4. CASE UNCHANGED vars
      BY <1>4 DEF vars
<1> QED BY <1>1, <1>2, <1>3, <1>4, <1>5 DEF Next, Run

(* An item is run only after providers of all tokens it requires           *)
(* (dlist_get_next, line 249).                                             *)
THEOREM HardDependenciesFirst == Spec => HardOrder
<1>1. ASSUME IInv, [Next]_vars,
             NEW d \in (passed' \cup failed') \ (passed \cup failed), pc = "loop",
             NEW t \in requires[d]
      PROVE  Offered(t)
  <2>1. Eligible(d)
        BY <1>1, RunsEligible
  <2>2. t \in Token /\ status[t] = "ok"
        BY <1>1, <2>1 DEF Eligible, Unmet, IInv, TypeOK
  <2> QED BY <1>1, <2>2 DEF IInv, StatusSound
<1>2. IInv /\ [Next]_vars =>
        [\A d \in (passed' \cup failed') \ (passed \cup failed) :
            pc = "loop" => \A t \in requires[d] : Offered(t)]_vars
      BY <1>1
<1> QED BY <1>2, Invariance, PTL DEF Spec, HardOrder

(* An item is run only when each token it would like is there or cannot be *)
(* provided any more (dlist_get_next, line 257).                           *)
THEOREM SoftDependenciesFirst == Spec => SoftOrder
<1>1. ASSUME IInv, [Next]_vars,
             NEW d \in (passed' \cup failed') \ (passed \cup failed), pc = "loop",
             NEW t \in uses[d]
      PROVE  Offered(t) \/ \A x \in dlist : t \notin Provides[x]
  <2>1. Eligible(d)
        BY <1>1, RunsEligible
  <2>2. CASE Unmet(uses[d]) = {}
        <3>1. t \in Token /\ status[t] = "ok"
              BY <1>1, <2>1, <2>2 DEF Eligible, Unmet, IInv, TypeOK
        <3> QED BY <1>1, <3>1 DEF IInv, StatusSound
  <2>3. CASE ~HasPending(uses[d])
        BY <1>1, <2>3 DEF HasPending
  <2> QED BY <2>1, <2>2, <2>3 DEF Eligible
<1>2. IInv /\ [Next]_vars =>
        [\A d \in (passed' \cup failed') \ (passed \cup failed) :
            pc = "loop" =>
              \A t \in uses[d] : Offered(t) \/ \A x \in dlist : t \notin Provides[x]]_vars
      BY <1>1
<1> QED BY <1>2, Invariance, PTL DEF Spec, SoftOrder

(* A list without cycles and gaps is evaluated to the end when nothing     *)
(* fails: the items that remain would be a set each member of which needs  *)
(* another one.                                                            *)
THEOREM AcyclicListsComplete == Spec => []CompleteWhenAcyclic
<1>1. ASSUME IInv PROVE CompleteWhenAcyclic
  <2> SUFFICES ASSUME pc = "done", failed = {}, WellFounded, Closed, dlist # {}
               PROVE  FALSE
      BY DEF CompleteWhenAcyclic
  <2>1. dlist \in (SUBSET Listed) \ {{}} /\ Listed \subseteq Item
        BY <1>1 DEF IInv, TypeOK, Listed
  <2>2. PICK d \in dlist :
            \A x \in dlist : Provides[x] \cap (requires[d] \cup uses[d]) = {}
        BY <2>1 DEF WellFounded
  <2>3. ~Eligible(d)
        BY <1>1 DEF IInv, DoneSound
  <2>4. ~HasPending(uses[d])
        BY <2>2 DEF HasPending
  <2>5. PICK t \in requires[d] : status[t] # "ok"
        BY <2>3, <2>4 DEF Eligible, Unmet
  <2>6. d \in Item /\ t \in Token
        BY <1>1, <2>1 DEF IInv, TypeOK
  <2>7. status[t] = "unset"
        BY <1>1, <2>5, <2>6 DEF IInv, TypeOK, FailureSound
  <2>8. PICK x \in Listed : t \in Provides[x]
        BY <2>1, <2>6 DEF Closed
  <2>9. x \in dlist
        BY <1>1, <2>6, <2>7, <2>8 DEF IInv, UnsetSound, Listed
  <2> QED BY <2>2, <2>8, <2>9
<1> QED BY <1>1, Invariance, PTL

(* Everything that remains has a reason to.                                *)
THEOREM LeftoversAreBlocked == Spec => []LeftoversBlocked
<1>1. ASSUME IInv PROVE LeftoversBlocked
  <2> SUFFICES ASSUME pc = "done", canfail \/ failed = {},
                      \A x \in failed : x \notin dlist, NEW d \in dlist,
                      ~HasPending(uses[d])
               PROVE  \E t \in requires[d] :
                         \/ \A x \in Listed : t \notin Provides[x]
                         \/ \E x \in dlist \cup failed : t \in Provides[x]
      BY DEF LeftoversBlocked, HasPending
  <2>1. ~Eligible(d)
        BY <1>1 DEF IInv, DoneSound
  <2>2. PICK t \in requires[d] : status[t] # "ok"
        BY <2>1 DEF Eligible, Unmet
  <2>3. t \in Token
        BY <1>1 DEF IInv, TypeOK
  <2>4. CASE status[t] = "failed"
        BY <1>1, <2>3, <2>4 DEF IInv, FailureSound
  <2>5. CASE status[t] = "unset"
        BY <1>1, <2>3, <2>5 DEF IInv, UnsetSound, Listed
  <2> QED BY <1>1, <2>2, <2>3, <2>4, <2>5 DEF IInv, TypeOK
<1> QED BY <1>1, Invariance, PTL

-----------------------------------------------------------------------------
(* The callers run the evaluation as it is specified: a step of the        *)
(* selection leaves it alone, the call is one of its calls.                *)
LEMMA PositionIs ==
    ASSUME selected \in Seq(Item), NEW x \in Item
    PROVE  Position(x) \in Nat
<1>1. CASE x \in Range(selected)
  <2>1. \E i \in DOMAIN selected : selected[i] = x
        BY <1>1 DEF Range
  <2>2. Position(x) \in DOMAIN selected
        BY <1>1, <2>1 DEF Position
  <2> QED BY <2>2
<1>2. CASE x \notin Range(selected)
      BY <1>2 DEF Position
<1> QED BY <1>1, <1>2

(* The variables of the selection have their types.                        *)
Frame == [item : Item, todo : SUBSET Item]
SelectTypes ==
    /\ caller \in {"all", "targets", "variants", "install"}
    /\ asked \subseteq Item
    /\ roots \in Seq(Item) /\ selected \in Seq(Item)
    /\ frames \in Seq(Frame)

(* Each item is selected once; all that is selected is needed; what is     *)
(* asked for is selected or will be.                                       *)
SelectedSound ==
    /\ IsInjective(selected)
    /\ Range(selected) \subseteq Needed(asked)
    /\ Range(roots) \subseteq asked /\ asked \subseteq Range(selected) \cup Range(roots)

(* What a selected item requires is selected, or still to be visited by    *)
(* the call for that item.                                                 *)
Waiting(x, y) == \E i \in DOMAIN frames : frames[i].item = x /\ y \in frames[i].todo
FramesSound ==
    /\ \A i \in DOMAIN frames : /\ frames[i].item \in Range(selected)
                                /\ frames[i].todo \subseteq Providers(frames[i].item)
    /\ \A x \in Range(selected) : \A y \in Providers(x) : y \in Range(selected) \/ Waiting(x, y)

(* The selection is complete when the evaluation is called with it.        *)
CalledWith ==
    pc # "call" => /\ frames = <<>> /\ roots = <<>>
                   /\ Listed = Range(selected) \ Excluded

SelectInv == SelectTypes /\ SelectedSound /\ FramesSound /\ CalledWith

-----------------------------------------------------------------------------
(* What is needed: the items asked for, and whatever provides what a       *)
(* needed item requires; and nothing that a closed set leaves out.         *)
LEMMA NeededIs ==
    ASSUME NEW S \in SUBSET Item
    PROVE  /\ S \subseteq Needed(S) /\ Needed(S) \subseteq Item
           /\ \A x \in Needed(S) : Providers(x) \subseteq Needed(S)
           /\ \A C \in SUBSET Item :
                 S \subseteq C /\ (\A x \in C : Providers(x) \subseteq C) => Needed(S) \subseteq C
<1> DEFINE closed == {C \in SUBSET Item :
                        /\ S \subseteq C
                        /\ \A x \in C, y \in Item : requires[x] \cap Provides[y] # {} => y \in C}
<1>1. Needed(S) = {x \in Item : \A C \in closed : x \in C}
      BY DEF Needed
<1>2. \A x, y : y \in Providers(x) <=> y \in Item /\ requires[x] \cap Provides[y] # {}
      BY DEF Providers, Search
<1>3. \A C \in SUBSET Item :
          C \in closed <=> S \subseteq C /\ \A x \in C : Providers(x) \subseteq C
      BY <1>2
<1> HIDE DEF closed
<1>4. ASSUME NEW x \in Needed(S), NEW y \in Providers(x) PROVE y \in Needed(S)
  <2>1. ASSUME NEW C \in closed PROVE y \in C
    <3>1. C \in SUBSET Item
          BY <2>1 DEF closed
    <3>2. x \in C
          BY <1>1, <1>4, <2>1
    <3> QED BY <1>3, <1>4, <2>1, <3>1, <3>2
  <2>2. y \in Item
        BY <1>2, <1>4
  <2> QED BY <1>1, <2>1, <2>2
<1>5. \A C \in closed : S \subseteq C
      BY DEF closed
<1> QED BY <1>1, <1>3, <1>4, <1>5

(* Adding an element to the end of a sequence, or a call to the stack.     *)
LEMMA AppendIs ==
    ASSUME NEW s \in Seq(Item), NEW x \in Item
    PROVE  /\ Append(s, x) \in Seq(Item) /\ Range(Append(s, x)) = Range(s) \cup {x}
           /\ IsInjective(s) /\ x \notin Range(s) => IsInjective(Append(s, x))
<1>1. /\ Append(s, x) \in Seq(Item) /\ Len(Append(s, x)) = Len(s) + 1
      /\ \A i \in 1 .. Len(s) : Append(s, x)[i] = s[i]
      /\ Append(s, x)[Len(s) + 1] = x /\ Len(s) \in Nat
      OBVIOUS
<1>2. /\ DOMAIN s = 1 .. Len(s) /\ DOMAIN Append(s, x) = 1 .. (Len(s) + 1)
      /\ 1 .. (Len(s) + 1) = (1 .. Len(s)) \cup {Len(s) + 1}
      BY <1>1
<1>3. Range(Append(s, x)) = Range(s) \cup {x}
      BY <1>1, <1>2 DEF Range
<1>4. ASSUME IsInjective(s), x \notin Range(s) PROVE IsInjective(Append(s, x))
      BY <1>1, <1>2, <1>4 DEF IsInjective, Range
<1> QED BY <1>1, <1>3, <1>4

(* The first of a sequence, and the others.                                *)
LEMMA HeadTailIs ==
    ASSUME NEW s \in Seq(Item), s # <<>>
    PROVE  /\ Head(s) \in Item /\ Tail(s) \in Seq(Item)
           /\ Range(s) = {Head(s)} \cup Range(Tail(s))
<1>1. /\ Head(s) = s[1] /\ Head(s) \in Item /\ Tail(s) \in Seq(Item) /\ Len(s) \in Nat \ {0}
      /\ \A i \in 1 .. Len(s) - 1 : Tail(s)[i] = s[i + 1]
      /\ DOMAIN s = 1 .. Len(s) /\ DOMAIN Tail(s) = 1 .. Len(s) - 1
      OBVIOUS
<1>2. ASSUME NEW y \in Range(s) PROVE y \in {Head(s)} \cup Range(Tail(s))
  <2>1. PICK i \in 1 .. Len(s) : y = s[i]
        BY <1>1, <1>2 DEF Range
  <2>2. CASE i # 1
    <3>1. i - 1 \in 1 .. Len(s) - 1 /\ (i - 1) + 1 = i
          BY <1>1, <2>2
    <3>2. Tail(s)[i - 1] = y
          BY <1>1, <2>1, <3>1
    <3> QED BY <1>1, <3>1, <3>2 DEF Range
  <2> QED BY <1>1, <2>1, <2>2
<1>3. ASSUME NEW y \in Range(Tail(s)) PROVE y \in Range(s)
  <2>1. PICK i \in 1 .. Len(s) - 1 : y = Tail(s)[i]
        BY <1>1, <1>3 DEF Range
  <2>2. i + 1 \in 1 .. Len(s) /\ y = s[i + 1]
        BY <1>1, <2>1
  <2> QED BY <1>1, <2>2 DEF Range
<1>4. Head(s) \in Range(s)
      BY <1>1 DEF Range
<1> QED BY <1>1, <1>2, <1>3, <1>4

LEMMA PushIs ==
    ASSUME NEW s \in Seq(Frame), NEW f \in Frame
    PROVE  /\ <<f>> \o s \in Seq(Frame)
           /\ Len(<<f>> \o s) = Len(s) + 1 /\ (<<f>> \o s)[1] = f
           /\ \A i \in 1 .. Len(s) : (<<f>> \o s)[i + 1] = s[i]
           /\ \A i \in 2 .. (Len(s) + 1) : (<<f>> \o s)[i] = s[i - 1]
<1>1. <<f>> \in Seq(Frame) /\ Len(<<f>>) = 1 /\ <<f>>[1] = f
      OBVIOUS
<1> QED BY <1>1, ConcatProperties

(* A call for x adds x unless it is there, and leaves nothing out.         *)
LEMMA CallKeeps ==
    ASSUME SelectTypes, IsInjective(selected), requires' = requires,
           NEW x \in Item, NEW s \in Seq(Frame), AppendDependents(x, s),
           \A i \in DOMAIN s : /\ s[i].item \in Range(selected)
                               /\ s[i].todo \subseteq Providers(s[i].item),
           \A z \in Range(selected) : \A y \in Providers(z) :
               \/ y \in Range(selected) \cup {x}
               \/ \E i \in DOMAIN s : s[i].item = z /\ y \in s[i].todo
    PROVE  /\ selected' \in Seq(Item) /\ frames' \in Seq(Frame)
           /\ IsInjective(selected') /\ Range(selected') = Range(selected) \cup {x}
           /\ FramesSound'
<1>1. \A z : Providers(z)' = Providers(z)
      BY DEF Providers, Search
<1>2. CASE x \in Range(selected)
  <2>1. frames' = s /\ selected' = selected
        BY <1>2 DEF AppendDependents
  <2>2. FramesSound'
        BY <1>1, <1>2, <2>1 DEF FramesSound, Waiting
  <2> QED BY <1>2, <2>1, <2>2 DEF SelectTypes
<1>3. CASE x \notin Range(selected)
  <2> DEFINE f == [item |-> x, todo |-> Providers(x)]
  <2>1. f \in Frame
        BY DEF Frame, Providers, Search
  <2>2. selected' = Append(selected, x) /\ frames' = <<f>> \o s
        BY <1>3 DEF AppendDependents
  <2>3. /\ selected' \in Seq(Item) /\ Range(selected') = Range(selected) \cup {x}
        /\ IsInjective(selected')
        BY <1>3, <2>2, AppendIs DEF SelectTypes
  <2>4. f.item = x /\ f.todo = Providers(x)
        OBVIOUS
  <2> HIDE DEF f
  <2>5. /\ frames' \in Seq(Frame) /\ Len(frames') = Len(s) + 1 /\ frames'[1] = f
        /\ \A i \in 1 .. Len(s) : frames'[i + 1] = s[i]
        /\ \A i \in 2 .. (Len(s) + 1) : frames'[i] = s[i - 1]
        BY <2>1, <2>2, PushIs
  <2>6. /\ DOMAIN frames' = 1 .. (Len(s) + 1) /\ DOMAIN s = 1 .. Len(s) /\ Len(s) \in Nat
        BY <2>5
  <2>7. ASSUME NEW i \in DOMAIN frames'
        PROVE  frames'[i].item \in Range(selected') /\ frames'[i].todo \subseteq Providers(frames'[i].item)
    <3>1. CASE i = 1
          BY <2>3, <2>4, <2>5, <3>1
    <3>2. CASE i # 1
      <4>1. i \in 2 .. (Len(s) + 1) /\ i - 1 \in DOMAIN s
            BY <2>6, <3>2
      <4> QED BY <2>3, <2>5, <4>1
    <3> QED BY <3>1, <3>2
  <2>8. ASSUME NEW z \in Range(selected'), NEW y \in Providers(z)
        PROVE  y \in Range(selected') \/ Waiting(z, y)'
    <3>1. CASE z = x
      <4>1. 1 \in DOMAIN frames'
            BY <2>6
      <4> QED BY <2>4, <2>5, <2>8, <3>1, <4>1 DEF Waiting
    <3>2. CASE z # x
      <4>1. z \in Range(selected)
            BY <2>3, <3>2
      <4>2. ASSUME NEW i \in DOMAIN s, s[i].item = z, y \in s[i].todo PROVE Waiting(z, y)'
        <5>1. i + 1 \in DOMAIN frames' /\ frames'[i + 1] = s[i]
              BY <2>5, <2>6
        <5> QED BY <4>2, <5>1 DEF Waiting
      <4> QED BY <2>3, <2>8, <4>1, <4>2
    <3> QED BY <3>1, <3>2
  <2> QED BY <1>1, <2>3, <2>5, <2>7, <2>8 DEF FramesSound
<1> QED BY <1>2, <1>3

(* The invariant holds initially.                                          *)
LEMMA SelectInitInv == SelectInit => SelectInv
<1> SUFFICES ASSUME SelectInit PROVE SelectInv
    OBVIOUS
<1>1. frames = <<>> /\ pc = "call" /\ frames \in Seq(Frame) /\ DOMAIN frames = {}
      BY DEF SelectInit, Init
<1>2. ASSUME NEW q \in Lists PROVE q \in Seq(Item) /\ IsInjective(q)
  <2>1. PICK n \in 0 .. Cardinality(Item) : q \in [1 .. n -> Item]
        BY <1>2 DEF Lists
  <2>2. n \in Nat
        BY FS_CardinalityType, ConstantsOK DEF ConstantsOK
  <2> QED BY <1>2, <2>1, <2>2 DEF Lists
<1>3. CASE caller = "all" /\ asked = Item /\ roots = <<>> /\ selected \in {s \in Lists : Range(s) = Item}
  <2>1. selected \in Seq(Item) /\ IsInjective(selected) /\ Range(selected) = Item /\ Range(roots) = {}
        BY <1>2, <1>3 DEF Range
  <2>2. Needed(asked) = Item
        BY <1>3, NeededIs
  <2>3. \A x : Providers(x) \subseteq Item
        BY DEF Providers, Search
  <2>4. FramesSound
        BY <1>1, <2>1, <2>3 DEF FramesSound
  <2> QED BY <1>1, <1>3, <2>1, <2>2, <2>4 DEF SelectInv, SelectTypes, SelectedSound, CalledWith
<1>4. CASE /\ caller \in {"targets", "variants", "install"} /\ selected = <<>>
           /\ roots \in Lists /\ asked = Range(roots)
  <2>1. roots \in Seq(Item) /\ Range(roots) \subseteq Item
        BY <1>2, <1>4 DEF Range
  <2>2. Range(selected) = {} /\ IsInjective(selected) /\ selected \in Seq(Item)
        BY <1>4 DEF Range, IsInjective
  <2> QED BY <1>1, <1>4, <2>1, <2>2
          DEF SelectInv, SelectTypes, SelectedSound, FramesSound, CalledWith
<1> QED BY <1>3, <1>4 DEF SelectInit

(* A step of the evaluation keeps the list it was called with.             *)
LEMMA RunKeeps ==
    ASSUME TypeOK, TestFirst, Run
    PROVE  Listed' = Listed /\ requires' = requires /\ pc # "call"
<1>1. ASSUME NEW S \in SUBSET dlist, Test(S)
      PROVE  Listed' = Listed /\ requires' = requires /\ pc # "call"
      BY <1>1 DEF Test, Listed, TestFirst, input
<1>2. ASSUME NEW d \in Item, Succeed(d) \/ Fail(d) \/ Raise(d)
      PROVE  Listed' = Listed /\ requires' = requires /\ pc # "call"
  <2>1. d \in dlist /\ pc = "loop" /\ requires' = requires
        BY <1>2 DEF Succeed, Fail, Raise, Selected, Eligible, input
  <2>2. \/ dlist' = dlist \ {d} /\ passed' = passed \cup {d} /\ failed' = failed
        \/ dlist' = dlist \ {d} /\ passed' = passed /\ failed' = failed \cup {d}
        \/ dlist' = dlist /\ passed' = passed /\ failed' = failed \cup {d}
        BY <1>2 DEF Succeed, Fail, Raise
  <2> QED BY <2>1, <2>2 DEF Listed
<1>3. CASE Finish
      BY <1>3 DEF Finish, Listed, input
<1> QED BY <1>1, <1>2, <1>3 DEF Run

(* Every step keeps the invariant.                                         *)
LEMMA SelectStepInv == IInv /\ SelectInv /\ [SelectNext]_<<vars, selection>> => SelectInv'
<1> SUFFICES ASSUME IInv, SelectInv, [SelectNext]_<<vars, selection>> PROVE SelectInv'
    OBVIOUS
<1>0. /\ SelectTypes /\ SelectedSound /\ FramesSound /\ CalledWith
      /\ IsInjective(selected) /\ TypeOK /\ TestFirst
      BY DEF SelectInv, SelectedSound, IInv
<1>n. asked' = asked /\ requires' = requires => Needed(asked)' = Needed(asked)
      BY DEF Needed
<1>1. CASE SelectRoot
  <2>1. /\ frames = <<>> /\ roots # <<>> /\ AppendDependents(Head(roots), <<>>)
        /\ roots' = Tail(roots) /\ caller' = caller /\ asked' = asked
        /\ requires' = requires /\ pc' = pc /\ pc = "call"
        BY <1>0, <1>1 DEF SelectRoot, vars, input, CalledWith
  <2>2. /\ Head(roots) \in Item /\ Tail(roots) \in Seq(Item)
        /\ Range(roots) = {Head(roots)} \cup Range(Tail(roots))
        BY <1>0, <2>1, HeadTailIs DEF SelectTypes
  <2>3. <<>> \in Seq(Frame) /\ DOMAIN <<>> = {}
        OBVIOUS
  <2>4. /\ selected' \in Seq(Item) /\ frames' \in Seq(Frame) /\ IsInjective(selected')
        /\ Range(selected') = Range(selected) \cup {Head(roots)} /\ FramesSound'
        BY <1>0, <2>1, <2>2, <2>3, CallKeeps DEF FramesSound, Waiting
  <2>5. Head(roots) \in Needed(asked)
        BY <1>0, <2>2, NeededIs DEF SelectedSound, SelectTypes
  <2> QED BY <1>0, <1>n, <2>1, <2>2, <2>4, <2>5 DEF SelectInv, SelectTypes, SelectedSound, CalledWith
<1>2. CASE SelectProvider
  <2> DEFINE h == Head(frames)
  <2>1. PICK x \in h.todo :
            AppendDependents(x, <<[h EXCEPT !.todo = @ \ {x}]>> \o Tail(frames))
        BY <1>2 DEF SelectProvider
  <2>2. /\ frames # <<>> /\ roots' = roots /\ caller' = caller /\ asked' = asked
        /\ requires' = requires /\ pc' = pc /\ pc = "call"
        BY <1>0, <1>2 DEF SelectProvider, vars, input, CalledWith
  <2> DEFINE g == [h EXCEPT !.todo = @ \ {x}]
             s == <<g>> \o Tail(frames)
  <2>3. /\ h \in Frame /\ h = frames[1] /\ Tail(frames) \in Seq(Frame)
        /\ Len(Tail(frames)) = Len(frames) - 1 /\ 1 \in DOMAIN frames
        /\ \A i \in 1 .. Len(frames) - 1 : Tail(frames)[i] = frames[i + 1]
        BY <1>0, <2>2 DEF SelectTypes
  <2>4. g \in Frame /\ g.item = h.item /\ g.todo = h.todo \ {x}
        BY <2>3 DEF Frame
  <2>5. AppendDependents(x, s)
        BY <2>1
  <2> HIDE DEF g, h
  <2>6. /\ s \in Seq(Frame) /\ Len(s) = Len(frames) /\ s[1] = g /\ Len(frames) \in Nat
        /\ \A i \in 2 .. Len(frames) : s[i] = frames[i]
    <3>1. /\ s \in Seq(Frame) /\ Len(s) = Len(Tail(frames)) + 1 /\ s[1] = g
          /\ \A i \in 2 .. (Len(Tail(frames)) + 1) : s[i] = Tail(frames)[i - 1]
          BY <2>3, <2>4, PushIs
    <3>2. Len(frames) \in Nat
          BY <1>0 DEF SelectTypes
    <3>3. ASSUME NEW i \in 2 .. Len(frames) PROVE s[i] = frames[i]
      <4>1. i \in 2 .. (Len(Tail(frames)) + 1) /\ i - 1 \in 1 .. Len(frames) - 1 /\ (i - 1) + 1 = i
            BY <2>3, <3>2
      <4> QED BY <2>3, <3>1, <4>1
    <3> QED BY <2>3, <3>1, <3>2, <3>3
  <2>7. DOMAIN s = DOMAIN frames /\ DOMAIN frames = 1 .. Len(frames)
        BY <1>0, <2>6 DEF SelectTypes
  <2> HIDE DEF s
  <2>8. ASSUME NEW i \in DOMAIN s
        PROVE  /\ s[i].item = frames[i].item
               /\ s[i].todo = IF i = 1 THEN frames[i].todo \ {x} ELSE frames[i].todo
    <3>1. CASE i = 1
          BY <2>3, <2>4, <2>6, <3>1
    <3>2. CASE i # 1
          BY <2>6, <2>7, <3>2
    <3> QED BY <3>1, <3>2
  <2>9. x \in Item /\ x \in Needed(asked)
    <3>1. h.item \in Range(selected) /\ x \in Providers(h.item)
          BY <1>0, <2>1, <2>3 DEF FramesSound
    <3>2. h.item \in Needed(asked)
          BY <1>0, <3>1 DEF SelectedSound
    <3> QED BY <1>0, <3>1, <3>2, NeededIs DEF SelectTypes
  <2>10. \A i \in DOMAIN s : s[i].item \in Range(selected) /\ s[i].todo \subseteq Providers(s[i].item)
        BY <1>0, <2>7, <2>8 DEF FramesSound
  <2>11. ASSUME NEW z \in Range(selected), NEW y \in Providers(z), y \notin Range(selected) \cup {x}
         PROVE  \E i \in DOMAIN s : s[i].item = z /\ y \in s[i].todo
    <3>1. PICK i \in DOMAIN frames : frames[i].item = z /\ y \in frames[i].todo
          BY <1>0, <2>11 DEF FramesSound, Waiting
    <3>2. s[i].item = z /\ y \in s[i].todo
          BY <2>7, <2>8, <2>11, <3>1
    <3> QED BY <2>7, <3>2
  <2>12. /\ selected' \in Seq(Item) /\ frames' \in Seq(Frame) /\ IsInjective(selected')
         /\ Range(selected') = Range(selected) \cup {x} /\ FramesSound'
         BY <1>0, <2>2, <2>5, <2>6, <2>9, <2>10, <2>11, CallKeeps
  <2> QED BY <1>0, <1>n, <2>2, <2>9, <2>12 DEF SelectInv, SelectTypes, SelectedSound, CalledWith
<1>3. CASE Return
  <2>1. /\ frames # <<>> /\ Head(frames).todo = {} /\ frames' = Tail(frames)
        /\ UNCHANGED <<caller, asked, roots, selected, requires, pc>> /\ pc = "call"
        BY <1>0, <1>3 DEF Return, vars, input, CalledWith
  <2>2. /\ Tail(frames) \in Seq(Frame) /\ Len(Tail(frames)) = Len(frames) - 1
        /\ \A i \in 1 .. Len(frames) - 1 : Tail(frames)[i] = frames[i + 1]
        /\ Head(frames) = frames[1] /\ Len(frames) \in Nat /\ DOMAIN frames = 1 .. Len(frames)
        /\ DOMAIN Tail(frames) = 1 .. Len(frames) - 1
        BY <1>0, <2>1 DEF SelectTypes
  <2>3. \A z : Providers(z)' = Providers(z)
        BY <2>1 DEF Providers, Search
  <2>4. ASSUME NEW i \in DOMAIN frames'
        PROVE  frames'[i].item \in Range(selected) /\ frames'[i].todo \subseteq Providers(frames'[i].item)
    <3>1. i + 1 \in DOMAIN frames /\ frames'[i] = frames[i + 1]
          BY <2>1, <2>2
    <3> QED BY <1>0, <3>1 DEF FramesSound
  <2>5. ASSUME NEW z \in Range(selected), NEW y \in Providers(z), y \notin Range(selected)
        PROVE  Waiting(z, y)'
    <3>1. PICK i \in DOMAIN frames : frames[i].item = z /\ y \in frames[i].todo
          BY <1>0, <2>5 DEF FramesSound, Waiting
    <3>2. i # 1
          BY <2>1, <2>2, <3>1
    <3>3. i - 1 \in DOMAIN frames' /\ frames'[i - 1] = frames[i]
      <4>1. i - 1 \in 1 .. Len(frames) - 1 /\ (i - 1) + 1 = i
            BY <2>2, <3>2
      <4> QED BY <2>1, <2>2, <4>1
    <3> QED BY <3>1, <3>3 DEF Waiting
  <2>6. FramesSound'
        BY <2>1, <2>3, <2>4, <2>5 DEF FramesSound
  <2> QED BY <1>0, <1>n, <2>1, <2>2, <2>6 DEF SelectInv, SelectTypes, SelectedSound, CalledWith
<1>4. CASE CallEval
  <2>1. /\ frames = <<>> /\ roots = <<>> /\ dlist' = Range(selected) \ Excluded
        /\ passed' = passed /\ failed' = failed /\ requires' = requires /\ pc = "call"
        /\ UNCHANGED <<caller, asked, roots, selected, frames>>
        BY <1>4 DEF CallEval, Evaluate, selection
  <2>2. Listed' = (Range(selected) \ Excluded)'
        BY <1>0, <2>1 DEF Listed, TestFirst, Excluded
  <2>3. FramesSound'
        BY <1>0, <2>1 DEF FramesSound, Waiting, Providers, Search
  <2> QED BY <1>0, <1>n, <2>1, <2>2, <2>3 DEF SelectInv, SelectTypes, SelectedSound, CalledWith
<1>5. CASE (Run \/ UNCHANGED vars) /\ UNCHANGED selection
  <2>1. UNCHANGED <<caller, asked, roots, selected, frames>>
        BY <1>5 DEF selection
  <2>2. Listed' = Listed /\ requires' = requires /\ (pc' = pc \/ pc # "call")
        BY <1>0, <1>5, RunKeeps DEF vars, input, Listed
  <2>3. FramesSound'
        BY <1>0, <2>1, <2>2 DEF FramesSound, Waiting, Providers, Search
  <2>4. CalledWith'
        BY <1>0, <2>1, <2>2 DEF CalledWith, Excluded
  <2> QED BY <1>0, <1>n, <2>1, <2>2, <2>3, <2>4 DEF SelectInv, SelectTypes, SelectedSound
<1> QED BY <1>1, <1>2, <1>3, <1>4, <1>5 DEF SelectNext, selection

-----------------------------------------------------------------------------
(* The callers evaluate lists as dlist_eval is specified: a step of the    *)
(* selection leaves the evaluation alone, and the call gives it a list of  *)
(* items and an order.                                                     *)
LEMMA SelectStepEvaluates ==
    SelectTypes /\ [SelectNext]_<<vars, selection>> => [Next]_vars
<1> SUFFICES ASSUME SelectTypes, [SelectNext]_<<vars, selection>> PROVE [Next]_vars
    OBVIOUS
<1>1. CASE SelectRoot \/ SelectProvider \/ Return \/ UNCHANGED <<vars, selection>>
      BY <1>1 DEF SelectRoot, SelectProvider, Return
<1>2. CASE CallEval
  <2> DEFINE L == Range(selected) \ Excluded
             p == [x \in Item |-> Position(x)]
             tests == caller = "install"
  <2>1. PICK skips \in BOOLEAN : Evaluate(L, p, tests, skips)
        BY <1>2 DEF CallEval
  <2>2. L \in SUBSET Item
        BY DEF SelectTypes, Range
  <2>3. p \in [Item -> Nat]
        BY PositionIs DEF SelectTypes
  <2>4. tests \in BOOLEAN
        OBVIOUS
  <2> HIDE DEF L, p, tests
  <2> QED BY <2>1, <2>2, <2>3, <2>4 DEF Next
<1>3. CASE Run
      BY <1>3 DEF Next
<1> QED BY <1>1, <1>2, <1>3 DEF SelectNext

(* The inductive invariants hold always.                                   *)
LEMMA SelectInvariance == SelectSpec => [](IInv /\ SelectInv)
<1>1. SelectInit => IInv /\ SelectInv
      BY InitInv, SelectInitInv DEF SelectInit
<1>2. IInv /\ SelectInv /\ [SelectNext]_<<vars, selection>> => (IInv /\ SelectInv)'
      BY StepInv, SelectStepInv, SelectStepEvaluates DEF SelectInv
<1> QED BY <1>1, <1>2, PTL DEF SelectSpec

(* The refinement: what eval_targets, eval_variants and mportexec do is an *)
(* evaluation as dlist_eval promises it.                                   *)
THEOREM CallersEvaluate == SelectSpec => Spec
<1>1. SelectInit => Init
      BY DEF SelectInit
<1>2. SelectInv /\ [SelectNext]_<<vars, selection>> => [Next]_vars
      BY SelectStepEvaluates DEF SelectInv
<1> QED BY <1>1, <1>2, SelectInvariance, PTL DEF SelectSpec, Spec

(* So its promises hold of the callers.                                    *)
THEOREM CallersKeepPromises ==
    SelectSpec => HardOrder /\ SoftOrder /\ []CompleteWhenAcyclic /\ []LeftoversBlocked
BY CallersEvaluate, HardDependenciesFirst, SoftDependenciesFirst, AcyclicListsComplete,
   LeftoversAreBlocked, PTL

(* What is evaluated is exactly what is needed, whatever the graph         *)
(* (dlist_append_dependents): all of it is needed, and when no call is     *)
(* under way any more, the selected items are closed.                      *)
THEOREM SelectionIsExact == SelectSpec => []SelectsNeeded
<1>1. ASSUME SelectInv PROVE SelectsNeeded
  <2> SUFFICES ASSUME pc # "call" PROVE Listed = Needed(asked) \ Excluded /\ IsInjective(selected)
      BY DEF SelectsNeeded
  <2>1. /\ frames = <<>> /\ roots = <<>> /\ Listed = Range(selected) \ Excluded
        /\ IsInjective(selected) /\ Range(selected) \subseteq Needed(asked)
        /\ asked \subseteq Range(selected) \cup Range(roots)
        /\ Range(selected) \subseteq Item /\ asked \subseteq Item
        BY <1>1 DEF SelectInv, CalledWith, SelectedSound, SelectTypes, Range
  <2>2. Range(roots) = {} /\ DOMAIN frames = {}
        BY <2>1 DEF Range
  <2>3. \A x \in Range(selected) : Providers(x) \subseteq Range(selected)
        BY <1>1, <2>2 DEF SelectInv, FramesSound, Waiting
  <2>4. Needed(asked) \subseteq Range(selected)
        BY <2>1, <2>2, <2>3, NeededIs
  <2> QED BY <2>1, <2>4
<1> QED BY <1>1, SelectInvariance, PTL

(* The two together: when nothing fails and the list has no cycles and no  *)
(* gaps, all that the items asked for need has succeeded, mportexec's own  *)
(* port aside, which it runs itself.                                       *)
THEOREM NeededSucceeds ==
    SelectSpec => [](pc = "done" /\ failed = {} /\ WellFounded /\ Closed =>
                       Needed(asked) \ Excluded = passed)
<1>1. CompleteWhenAcyclic /\ SelectsNeeded =>
        (pc = "done" /\ failed = {} /\ WellFounded /\ Closed =>
           Needed(asked) \ Excluded = passed)
      BY DEF CompleteWhenAcyclic, SelectsNeeded, Listed
<1> QED BY <1>1, CallersKeepPromises, SelectionIsExact, PTL
=============================================================================
