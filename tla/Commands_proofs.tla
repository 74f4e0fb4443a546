-------------------------- MODULE Commands_proofs --------------------------
(***************************************************************************)
(* Theorems about the commands of port: the lock they run under            *)
(* (RegistryLock), for any set of processes and any bounds, and one of     *)
(* them, the upgrade (Upgrade), for any entries, versions and options.     *)
(*                                                                         *)
(* The lock: the counter alone does not say that a region is locked: a     *)
(* process may have a positive counter without the flock (its acquisition  *)
(* was cut short). IInv therefore ties the three pieces of state together: *)
(* the counter is exact; an acquisition in progress is the outermost one;  *)
(* and a process that runs with a positive counter owns the flock unless   *)
(* it abandoned an acquisition.                                            *)
(*                                                                         *)
(* The upgrade: UpgradeInv says what the scan of the list has found, which *)
(* of the plans that allows is carried out, and what of it is done.        *)
(***************************************************************************)
EXTENDS RegistryLock, Upgrade, TLAPS


(* Outside an action nothing is nested; an action's own acquisition comes  *)
(* before any mportexec.                                                   *)
FramesNested ==
    \A p \in Proc :
        /\ pc[p] \in {"prompt", "exited"} => exec[p] = 0 /\ kind[p] = "none"
        /\ Acquiring(p) /\ at[p] = "cmd" => exec[p] = 0 /\ kind[p] = "listed"

(* Only the outermost acquisition calls flock, on an open descriptor that  *)
(* does not hold the lock.                                                 *)
OutermostAcquires ==
    \A p \in Proc : Acquiring(p) => nlocked[p] = 1 /\ lockfd[p] /\ holder # p

(* A positive counter stands for the flock.                                *)
CounterMeansLock ==
    \A p \in Proc :
        supported /\ p \in writers /\ pc[p] \in {"prompt", "run"} /\ nlocked[p] > 0
            => holder = p \/ abandoned[p]

(* The flock is counted, so that the last release drops it.                *)
LockIsCounted ==
    \A p \in Proc : holder = p => nlocked[p] > 0 /\ lockfd[p] /\ pc[p] # "exited"

IInv ==
    /\ TypeOK
    /\ CounterExact
    /\ FramesNested
    /\ OutermostAcquires
    /\ CounterMeansLock
    /\ LockIsCounted

-----------------------------------------------------------------------------
(* exclusive_lock keeps the types, whichever way it takes.                 *)
LEMMA ExclusiveLockTypes ==
    ASSUME TypeOK, NEW p \in Proc, NEW c \in {"cmd", "exec"}, ExclusiveLock(p, c)
    PROVE  /\ pc' \in [Proc -> {"prompt", "try", "wait", "run", "exited"}]
           /\ at' \in [Proc -> {"cmd", "exec"}]
           /\ exec' \in [Proc -> Nat]
           /\ nlocked' \in [Proc -> Int]
           /\ lockfd' \in [Proc -> BOOLEAN]
           /\ UNCHANGED <<holder, abandoned, leaks>>
<1>1. CASE nlocked[p] > 0 \/ (~lockfd[p] /\ p \notin writers)
  <2>1. LockReturns(p, c) /\ UNCHANGED lockfd
    BY <1>1 DEF ExclusiveLock
  <2>2. exec' \in [Proc -> Nat]
    <3>1. exec[p] \in Nat /\ exec[p] + 1 \in Nat
      BY DEF TypeOK
    <3>2. CASE c = "exec"
      BY <2>1, <3>1, <3>2 DEF LockReturns, TypeOK
    <3>3. CASE c = "cmd"
      BY <2>1, <3>1, <3>3 DEF LockReturns, TypeOK
    <3>4. QED BY <3>2, <3>3
  <2>3. QED BY <2>1, <2>2 DEF TypeOK, ExclusiveLock, LockReturns
<1>2. CASE ~(nlocked[p] > 0 \/ (~lockfd[p] /\ p \notin writers))
  <2>1. /\ pc' = [pc EXCEPT ![p] = "try"]
        /\ lockfd' = [lockfd EXCEPT ![p] = TRUE]
        /\ UNCHANGED exec
    BY <1>2 DEF ExclusiveLock
  <2>2. lockfd' \in [Proc -> BOOLEAN]
    BY <2>1 DEF TypeOK
  <2>3. QED BY <2>1, <2>2 DEF TypeOK, ExclusiveLock
<1>3. QED BY <1>1, <1>2

(* The invariant of the lock holds initially.                              *)
LEMMA InitInv == Init => IInv
BY ConstantsOK DEF Init, IInv, TypeOK, CounterExact, FramesNested, OutermostAcquires,
   CounterMeansLock, LockIsCounted, Acquiring, Frames, ActionKinds

(* Every step keeps it.                                                    *)
LEMMA StepInv == IInv /\ [Next]_vars => IInv'
<1> SUFFICES ASSUME IInv, [Next]_vars PROVE IInv'
  OBVIOUS
<1> USE ConstantsOK DEF IInv, ActionKinds
<1>1. ASSUME NEW p \in Proc, NEW k \in ActionKinds, StartAction(p, k) PROVE IInv'
  <2> USE <1>1 DEF StartAction, ExclusiveLock, LockReturns
  <2>1. TypeOK'
    <3>1. CASE k = "listed"
      BY <3>1, ExclusiveLockTypes DEF TypeOK
    <3>2. CASE k # "listed"
      BY <3>2 DEF TypeOK
    <3>3. QED BY <3>1, <3>2
  <2>2. CounterExact'
    BY DEF TypeOK, CounterExact, FramesNested, OutermostAcquires, Frames, Acquiring
  <2>3. FramesNested'
    BY DEF TypeOK, FramesNested, Acquiring
  <2>4. OutermostAcquires'
    BY DEF TypeOK, OutermostAcquires, LockIsCounted, CounterExact, FramesNested, Frames, Acquiring
  <2>5. CounterMeansLock'
    BY DEF TypeOK, CounterMeansLock, LockIsCounted, OutermostAcquires, CounterExact, FramesNested, Frames, Acquiring
  <2>6. LockIsCounted'
    BY DEF TypeOK, LockIsCounted, OutermostAcquires, CounterExact, FramesNested, Frames, Acquiring
  <2>7. QED BY <2>1, <2>2, <2>3, <2>4, <2>5, <2>6
<1>2. ASSUME NEW p \in Proc, TryLock(p) PROVE IInv'
  <2> USE <1>2 DEF TryLock, LockReturns
  <2>1. TypeOK'
    BY DEF TypeOK
  <2>2. CounterExact'
    BY DEF TypeOK, CounterExact, FramesNested, OutermostAcquires, Frames, Acquiring
  <2>3. FramesNested'
    BY DEF TypeOK, FramesNested, Acquiring
  <2>4. OutermostAcquires'
    BY DEF TypeOK, OutermostAcquires, LockIsCounted, CounterExact, FramesNested, Frames, Acquiring
  <2>5. CounterMeansLock'
    BY DEF TypeOK, CounterMeansLock, LockIsCounted, OutermostAcquires, CounterExact, FramesNested, Frames, Acquiring
  <2>6. LockIsCounted'
    BY DEF TypeOK, LockIsCounted, OutermostAcquires, CounterExact, FramesNested, Frames, Acquiring
  <2>7. QED BY <2>1, <2>2, <2>3, <2>4, <2>5, <2>6
<1>3. ASSUME NEW p \in Proc, GrantLock(p) PROVE IInv'
  <2> USE <1>3 DEF GrantLock, LockReturns
  <2>1. TypeOK'
    BY DEF TypeOK
  <2>2. CounterExact'
    BY DEF TypeOK, CounterExact, FramesNested, OutermostAcquires, Frames, Acquiring
  <2>3. FramesNested'
    BY DEF TypeOK, FramesNested, Acquiring
  <2>4. OutermostAcquires'
    BY DEF TypeOK, OutermostAcquires, LockIsCounted, CounterExact, FramesNested, Frames, Acquiring
  <2>5. CounterMeansLock'
    BY DEF TypeOK, CounterMeansLock, LockIsCounted, OutermostAcquires, CounterExact, FramesNested, Frames, Acquiring
  <2>6. LockIsCounted'
    BY DEF TypeOK, LockIsCounted, OutermostAcquires, CounterExact, FramesNested, Frames, Acquiring
  <2>7. QED BY <2>1, <2>2, <2>3, <2>4, <2>5, <2>6
<1>4. ASSUME NEW p \in Proc, InterruptLock(p) PROVE IInv'
  <2> USE <1>4 DEF InterruptLock, BreakLoop
  <2>1. TypeOK'
    BY DEF TypeOK
  <2>2. CounterExact'
    BY DEF TypeOK, CounterExact, FramesNested, OutermostAcquires, Frames, Acquiring
  <2>3. FramesNested'
    BY DEF TypeOK, FramesNested, Acquiring
  <2>4. OutermostAcquires'
    BY DEF TypeOK, OutermostAcquires, LockIsCounted, CounterExact, FramesNested, Frames, Acquiring
  <2>5. CounterMeansLock'
    BY DEF TypeOK, CounterMeansLock, LockIsCounted, OutermostAcquires, CounterExact, FramesNested, Frames, Acquiring
  <2>6. LockIsCounted'
    BY DEF TypeOK, LockIsCounted, OutermostAcquires, CounterExact, FramesNested, Frames, Acquiring
  <2>7. QED BY <2>1, <2>2, <2>3, <2>4, <2>5, <2>6
<1>5. ASSUME NEW p \in Proc, ParseError(p) PROVE IInv'
  <2> USE <1>5 DEF ParseError, BreakLoop, ReleasedBy
  <2>1. TypeOK'
    BY DEF TypeOK
  <2>2. CounterExact'
    BY DEF TypeOK, CounterExact, FramesNested, OutermostAcquires, Frames, Acquiring
  <2>3. FramesNested'
    BY DEF TypeOK, FramesNested, Acquiring
  <2>4. OutermostAcquires'
    BY DEF TypeOK, OutermostAcquires, LockIsCounted, CounterExact, FramesNested, Frames, Acquiring
  <2>5. CounterMeansLock'
    BY DEF TypeOK, CounterMeansLock, LockIsCounted, OutermostAcquires, CounterExact, FramesNested, Frames, Acquiring
  <2>6. LockIsCounted'
    BY DEF TypeOK, LockIsCounted, OutermostAcquires, CounterExact, FramesNested, Frames, Acquiring
  <2>7. QED BY <2>1, <2>2, <2>3, <2>4, <2>5, <2>6
<1>6. ASSUME NEW p \in Proc, BeginExec(p) PROVE IInv'
  <2>1. TypeOK'
    <3>1. ExclusiveLock(p, "exec") /\ UNCHANGED <<supported, writers, kind>>
      BY <1>6 DEF BeginExec
    <3>2. /\ pc' \in [Proc -> {"prompt", "try", "wait", "run", "exited"}]
          /\ at' \in [Proc -> {"cmd", "exec"}]
          /\ exec' \in [Proc -> Nat]
          /\ nlocked' \in [Proc -> Int]
          /\ lockfd' \in [Proc -> BOOLEAN]
          /\ UNCHANGED <<holder, abandoned, leaks>>
      BY <3>1, ExclusiveLockTypes
    <3>3. QED BY <3>1, <3>2 DEF TypeOK
  <2> USE <1>6 DEF BeginExec
  <2>2. CounterExact'
    BY DEF TypeOK, CounterExact, FramesNested, OutermostAcquires, Frames, Acquiring, ExclusiveLock, LockReturns
  <2>3. FramesNested'
    BY DEF TypeOK, FramesNested, Acquiring, ExclusiveLock, LockReturns
  <2>4. OutermostAcquires'
    <3>1. CASE nlocked[p] > 0 \/ (~lockfd[p] /\ p \notin writers)
      <4>1. ~Acquiring(p)'
        BY <3>1 DEF TypeOK, Acquiring, ExclusiveLock, LockReturns
      <4>2. QED BY <3>1, <4>1 DEF TypeOK, OutermostAcquires, Acquiring, ExclusiveLock, LockReturns
    <3>2. CASE ~(nlocked[p] > 0 \/ (~lockfd[p] /\ p \notin writers))
      <4>1. nlocked[p] = 0
        BY <3>2 DEF TypeOK, CounterExact, Frames, Acquiring
      <4>2. QED BY <3>2, <4>1 DEF TypeOK, OutermostAcquires, LockIsCounted, Acquiring, ExclusiveLock
    <3>3. QED BY <3>1, <3>2
  <2>5. CounterMeansLock'
    BY DEF TypeOK, CounterMeansLock, LockIsCounted, OutermostAcquires, CounterExact, FramesNested, Frames, Acquiring, ExclusiveLock, LockReturns
  <2>6. LockIsCounted'
    BY DEF TypeOK, LockIsCounted, OutermostAcquires, CounterExact, FramesNested, Frames, Acquiring, ExclusiveLock, LockReturns
  <2>7. QED BY <2>1, <2>2, <2>3, <2>4, <2>5, <2>6
<1>7. ASSUME NEW p \in Proc, EndExec(p) PROVE IInv'
  <2> USE <1>7 DEF EndExec, ExclusiveUnlock
  <2>1. TypeOK'
    BY DEF TypeOK
  <2>2. CounterExact'
    BY DEF TypeOK, CounterExact, FramesNested, OutermostAcquires, Frames, Acquiring
  <2>3. FramesNested'
    BY DEF TypeOK, FramesNested, Acquiring
  <2>4. OutermostAcquires'
    BY DEF TypeOK, OutermostAcquires, LockIsCounted, CounterExact, FramesNested, Frames, Acquiring
  <2>5. CounterMeansLock'
    BY DEF TypeOK, CounterMeansLock, LockIsCounted, OutermostAcquires, CounterExact, FramesNested, Frames, Acquiring
  <2>6. LockIsCounted'
    BY DEF TypeOK, LockIsCounted, OutermostAcquires, CounterExact, FramesNested, Frames, Acquiring
  <2>7. QED BY <2>1, <2>2, <2>3, <2>4, <2>5, <2>6
<1>8. ASSUME NEW p \in Proc, LeaveExec(p) PROVE IInv'
  <2> USE <1>8 DEF LeaveExec
  <2>1. TypeOK'
    BY DEF TypeOK
  <2>2. CounterExact'
    BY DEF TypeOK, CounterExact, FramesNested, OutermostAcquires, Frames, Acquiring
  <2>3. FramesNested'
    BY DEF TypeOK, FramesNested, Acquiring
  <2>4. OutermostAcquires'
    BY DEF TypeOK, OutermostAcquires, LockIsCounted, CounterExact, FramesNested, Frames, Acquiring
  <2>5. CounterMeansLock'
    BY DEF TypeOK, CounterMeansLock, LockIsCounted, OutermostAcquires, CounterExact, FramesNested, Frames, Acquiring
  <2>6. LockIsCounted'
    BY DEF TypeOK, LockIsCounted, OutermostAcquires, CounterExact, FramesNested, Frames, Acquiring
  <2>7. QED BY <2>1, <2>2, <2>3, <2>4, <2>5, <2>6
<1>9. ASSUME NEW p \in Proc, EndAction(p) PROVE IInv'
  <2> USE <1>9 DEF EndAction, ExclusiveUnlock
  <2>1. TypeOK'
    BY DEF TypeOK
  <2>2. CounterExact'
    BY DEF TypeOK, CounterExact, FramesNested, OutermostAcquires, Frames, Acquiring
  <2>3. FramesNested'
    BY DEF TypeOK, FramesNested, Acquiring
  <2>4. OutermostAcquires'
    BY DEF TypeOK, OutermostAcquires, LockIsCounted, CounterExact, FramesNested, Frames, Acquiring
  <2>5. CounterMeansLock'
    BY DEF TypeOK, CounterMeansLock, LockIsCounted, OutermostAcquires, CounterExact, FramesNested, Frames, Acquiring
  <2>6. LockIsCounted'
    BY DEF TypeOK, LockIsCounted, OutermostAcquires, CounterExact, FramesNested, Frames, Acquiring
  <2>7. QED BY <2>1, <2>2, <2>3, <2>4, <2>5, <2>6
<1>10. ASSUME NEW p \in Proc, Exit(p) PROVE IInv'
  <2> USE <1>10 DEF Exit, ReleasedBy
  <2>1. TypeOK'
    BY DEF TypeOK
  <2>2. CounterExact'
    BY DEF TypeOK, CounterExact, FramesNested, OutermostAcquires, Frames, Acquiring
  <2>3. FramesNested'
    BY DEF TypeOK, FramesNested, Acquiring
  <2>4. OutermostAcquires'
    BY DEF TypeOK, OutermostAcquires, LockIsCounted, CounterExact, FramesNested, Frames, Acquiring
  <2>5. CounterMeansLock'
    BY DEF TypeOK, CounterMeansLock, LockIsCounted, OutermostAcquires, CounterExact, FramesNested, Frames, Acquiring
  <2>6. LockIsCounted'
    BY DEF TypeOK, LockIsCounted, OutermostAcquires, CounterExact, FramesNested, Frames, Acquiring
  <2>7. QED BY <2>1, <2>2, <2>3, <2>4, <2>5, <2>6
<1>11. CASE UNCHANGED vars
  BY <1>11 DEF vars, TypeOK, CounterExact, FramesNested, OutermostAcquires,
     CounterMeansLock, LockIsCounted, Frames, Acquiring
<1>12. QED
  BY <1>1, <1>2, <1>3, <1>4, <1>5, <1>6, <1>7, <1>8, <1>9, <1>10, <1>11 DEF Next, Step

(* The inductive invariant holds throughout.                               *)
THEOREM Invariance == Spec => []IInv
BY InitInv, StepInv, PTL DEF Spec

(* Every state of exclusive_lock, exclusive_unlock and their callers is    *)
(* well typed.                                                             *)
THEOREM TypeCorrect == Spec => []TypeOK
<1>1. IInv => TypeOK
  BY DEF IInv
<1>2. QED BY <1>1, Invariance, PTL

(* nlocked counts exactly the acquisitions in progress, those that will be *)
(* undone and those that never will: exclusive_unlock is never called more *)
(* often than exclusive_lock.                                              *)
THEOREM CounterIsExact == Spec => []CounterExact
<1>1. IInv => CounterExact
  BY DEF IInv
<1>2. QED BY <1>1, Invariance, PTL

(* Inside any locked region, nested to any depth, the process owns the     *)
(* flock, unless one of its acquisitions was cut short.                    *)
THEOREM SectionsOwnTheLock == Spec => []SectionOwnsLock
<1>1. IInv => SectionOwnsLock
  <2> SUFFICES ASSUME IInv, NEW p \in Proc, supported, InSection(p)
               PROVE  holder = p \/ abandoned[p]
    BY DEF SectionOwnsLock
  <2>1. Frames(p) > 0 /\ pc[p] = "run"
    BY DEF IInv, TypeOK, InSection, Frames
  <2>2. nlocked[p] > 0
    BY <2>1 DEF IInv, TypeOK, CounterExact, Acquiring, Frames
  <2>3. QED BY <2>1, <2>2 DEF IInv, CounterMeansLock, InSection
<1>2. QED BY <1>1, Invariance, PTL

(* Two processes that never had an acquisition cut short are never both    *)
(* inside a locked region: the registry lock excludes.                     *)
THEOREM LockExcludes == Spec => []CleanExclusion
<1>1. SectionOwnsLock => CleanExclusion
  BY DEF SectionOwnsLock, CleanExclusion
<1>2. QED BY <1>1, SectionsOwnTheLock, PTL

(* A process at its prompt that undid every acquisition does not keep the  *)
(* lock.                                                                   *)
THEOREM BalancedProcessReleases == Spec => []IdleBalanced
<1>1. IInv => IdleBalanced
  <2> SUFFICES ASSUME IInv, NEW p \in Proc, pc[p] = "prompt", leaks[p] = 0
               PROVE  holder # p
    BY DEF IdleBalanced
  <2>1. Frames(p) = 0
    BY DEF IInv, TypeOK, FramesNested, Frames
  <2>2. nlocked[p] = 0
    BY <2>1 DEF IInv, TypeOK, CounterExact, Acquiring
  <2>3. QED BY <2>2 DEF IInv, LockIsCounted
<1>2. QED BY <1>1, Invariance, PTL

-----------------------------------------------------------------------------
(* What the theorems about versions rest on: on the versions of a case     *)
(* that can be compared, vercmp computes the reference order (which        *)
(* Vercomp defines, and the run checks), and that is an order.             *)
VersionsAgree ==
    \A c \in Cases :
        OrderedIn(c) =>
            \A d, e, f \in Involved(c) :
                LET u == d.version
                    v == e.version
                    w == f.version
                IN  /\ Agree(u, v)
                    /\ SameAs(u, v) <=> ~NewerThan(u, v) /\ ~NewerThan(v, u)
                    /\ ~(NewerThan(u, v) /\ NewerThan(v, u))
                    /\ NewerThan(u, v) /\ NewerThan(v, w) => NewerThan(u, w)

(* The entries and the list are those of the case, one version of a port   *)
(* is active, and the loops stay within the list.                          *)
CaseInv ==
    /\ case \in Cases
    /\ entries \subseteq Involved(case)
    /\ active \subseteq entries
    /\ \A e, f \in active : e.name = f.name => e = f
    /\ rest \in Seq(Range(case.list))

-----------------------------------------------------------------------------
(* What the loop looks at next, and what it has still to look at.          *)
LEMMA HeadAndTail ==
    ASSUME NEW S, NEW s \in Seq(S), s # <<>>
    PROVE  /\ Head(s) \in S /\ Tail(s) \in Seq(S)
           /\ Range(s) = {Head(s)} \cup Range(Tail(s))
<1>1. Head(s) = s[1] /\ Len(s) \in Nat \ {0} /\ Head(s) \in S /\ Tail(s) \in Seq(S)
      OBVIOUS
<1>2. Len(Tail(s)) = Len(s) - 1 /\ \A i \in 1 .. Len(s) - 1 : Tail(s)[i] = s[i + 1]
      OBVIOUS
<1>3. ASSUME NEW x \in Range(s) PROVE x \in {Head(s)} \cup Range(Tail(s))
  <2>1. PICK i \in 1 .. Len(s) : x = s[i]
        BY <1>3 DEF Range
  <2>2. CASE i = 1
        BY <2>1, <2>2, <1>1
  <2>3. CASE i # 1
    <3>1. i - 1 \in 1 .. Len(s) - 1 /\ Tail(s)[i - 1] = x
          BY <2>1, <2>3, <1>1, <1>2
    <3>2. i - 1 \in DOMAIN Tail(s)
          BY <3>1, <1>1, <1>2
    <3> QED BY <3>1, <3>2 DEF Range
  <2> QED BY <2>2, <2>3
<1>4. ASSUME NEW x \in Range(Tail(s)) PROVE x \in Range(s)
  <2>1. PICK i \in 1 .. Len(Tail(s)) : x = Tail(s)[i]
        BY <1>1, <1>4 DEF Range
  <2>2. i + 1 \in 1 .. Len(s) /\ s[i + 1] = x
        BY <2>1, <1>1, <1>2
  <2> QED BY <2>2, <1>1 DEF Range
<1>5. Head(s) \in Range(s)
      BY <1>1 DEF Range
<1> QED BY <1>1, <1>3, <1>4, <1>5

(* The empty list has no elements, and only that.                          *)
LEMMA EmptyRange ==
    ASSUME NEW S, NEW s \in Seq(S)
    PROVE  /\ Range(<<>>) = {}
           /\ s # <<>> => Range(s) # {}
<1>1. Range(<<>>) = {}
      BY DEF Range
<1>2. ASSUME s # <<>> PROVE Range(s) # {}
      BY <1>2, HeadAndTail
<1> QED BY <1>1, <1>2

-----------------------------------------------------------------------------
(* The entries of a case have epochs and revisions.                        *)
LEMMA CaseNumbers ==
    ASSUME case \in Cases, NEW e \in Involved(case)
    PROVE  e.epoch \in Nat /\ e.revision \in Nat /\ vercmp(e.version, e.version) = 0
BY CasesOK

(* The order of versions, on entries.                                      *)
LEMMA VersionOrder ==
    ASSUME VersionsAgree, case \in Cases, Ordered,
           NEW d \in Involved(case), NEW e \in Involved(case), NEW f \in Involved(case)
    PROVE  /\ Agree(d.version, e.version)
           /\ SameAs(d.version, e.version) <=>
                 ~NewerThan(d.version, e.version) /\ ~NewerThan(e.version, d.version)
           /\ SameAs(d.version, e.version) <=> d.version = e.version
           /\ d.version = e.version => d.epoch = e.epoch
           /\ ~(NewerThan(d.version, e.version) /\ NewerThan(e.version, d.version))
           /\ NewerThan(d.version, e.version) /\ NewerThan(e.version, f.version) =>
                 NewerThan(d.version, f.version)
<1>1. OrderedIn(case)
      BY DEF Ordered
<1>2. /\ Agree(d.version, e.version) /\ Agree(d.version, d.version)
      /\ SameAs(d.version, e.version) <=>
            ~NewerThan(d.version, e.version) /\ ~NewerThan(e.version, d.version)
      /\ ~(NewerThan(d.version, e.version) /\ NewerThan(e.version, d.version))
      /\ NewerThan(d.version, e.version) /\ NewerThan(e.version, f.version) =>
            NewerThan(d.version, f.version)
      BY <1>1 DEF VersionsAgree
<1>3. SameAs(d.version, d.version)
      BY <1>2, CaseNumbers DEF Agree
<1>4. SameAs(d.version, e.version) => d.version = e.version /\ d.epoch = e.epoch
      BY <1>1 DEF OrderedIn
<1> QED BY <1>2, <1>3, <1>4

(* An entry the database takes for another is written like it.             *)
LEMMA SameKeySameText ==
    ASSUME VersionsAgree, case \in Cases, Ordered,
           NEW e \in Involved(case), NEW f \in Involved(case), SameKey(e, f)
    PROVE  SameText(e, f) /\ e.epoch = f.epoch
BY VersionOrder DEF SameKey, SameText, Agree

(* The condition of the loop is the order of entries.                      *)
LEMMA LaterIsNewer ==
    ASSUME VersionsAgree, case \in Cases, Ordered,
           NEW e \in Involved(case), NEW f \in Involved(case)
    PROVE  Later(e, f) <=> NewerEntry(e, f)
<1>1. e.epoch \in Nat /\ f.epoch \in Nat /\ e.revision \in Nat /\ f.revision \in Nat
      BY CaseNumbers
<1>2. /\ vercmp(e.version, f.version) > 0 <=> NewerThan(e.version, f.version)
      /\ vercmp(e.version, f.version) = 0 <=> SameAs(e.version, f.version)
      /\ SameAs(e.version, f.version) <=> e.version = f.version
      /\ e.version = f.version => e.epoch = f.epoch
      BY VersionOrder DEF Agree
<1> QED BY <1>1, <1>2 DEF Later, NewerEntry

(* NewerEntry is an order; not being newer is transitive.                  *)
LEMMA NewerIsOrder ==
    ASSUME VersionsAgree, case \in Cases, Ordered,
           NEW d \in Involved(case), NEW e \in Involved(case), NEW f \in Involved(case)
    PROVE  /\ NewerEntry(d, e) => ~NewerEntry(e, d)
           /\ ~NewerEntry(d, e) /\ ~NewerEntry(e, f) => ~NewerEntry(d, f)
<1> DEFINE N(x, y) == NewerThan(x.version, y.version)
           S(x, y) == SameAs(x.version, y.version)
<1>1. /\ d.epoch \in Nat /\ e.epoch \in Nat /\ f.epoch \in Nat
      /\ d.revision \in Nat /\ e.revision \in Nat /\ f.revision \in Nat
      BY CaseNumbers
<1>2. /\ S(d, e) <=> ~N(d, e) /\ ~N(e, d)
      /\ S(e, f) <=> ~N(e, f) /\ ~N(f, e)
      /\ S(d, f) <=> ~N(d, f) /\ ~N(f, d)
      /\ S(e, d) <=> ~N(d, e) /\ ~N(e, d)
      /\ ~(N(d, e) /\ N(e, d)) /\ ~(N(e, f) /\ N(f, e)) /\ ~(N(d, f) /\ N(f, d))
      BY VersionOrder
<1>3. /\ N(f, e) /\ N(e, d) => N(f, d)
      /\ N(d, f) /\ N(f, e) => N(d, e)
      /\ N(e, d) /\ N(d, f) => N(e, f)
      BY VersionOrder
<1>4. /\ S(d, e) /\ S(e, f) => S(d, f)
      /\ S(d, e) => d.version = e.version
      /\ S(e, f) => e.version = f.version
      BY VersionOrder
<1>5. NewerEntry(d, e) <=> \/ d.epoch > e.epoch
                           \/ d.epoch = e.epoch /\ N(d, e)
                           \/ d.epoch = e.epoch /\ S(d, e) /\ d.revision > e.revision
      BY DEF NewerEntry
<1>6. NewerEntry(e, d) <=> \/ e.epoch > d.epoch
                           \/ e.epoch = d.epoch /\ N(e, d)
                           \/ e.epoch = d.epoch /\ S(e, d) /\ e.revision > d.revision
      BY DEF NewerEntry
<1>7. NewerEntry(e, f) <=> \/ e.epoch > f.epoch
                           \/ e.epoch = f.epoch /\ N(e, f)
                           \/ e.epoch = f.epoch /\ S(e, f) /\ e.revision > f.revision
      BY DEF NewerEntry
<1>8. NewerEntry(d, f) <=> \/ d.epoch > f.epoch
                           \/ d.epoch = f.epoch /\ N(d, f)
                           \/ d.epoch = f.epoch /\ S(d, f) /\ d.revision > f.revision
      BY DEF NewerEntry
<1> HIDE DEF N, S
<1>9. NewerEntry(d, e) => ~NewerEntry(e, d)
      BY <1>1, <1>2, <1>5, <1>6
<1>10. ~NewerEntry(d, e) /\ ~NewerEntry(e, f) => ~NewerEntry(d, f)
  <2> SUFFICES ASSUME ~NewerEntry(d, e), ~NewerEntry(e, f), NewerEntry(d, f) PROVE FALSE
      OBVIOUS
  <2>1. d.epoch = e.epoch /\ e.epoch = f.epoch
        BY <1>1, <1>5, <1>7, <1>8
  <2>2. ~N(d, e) /\ ~N(e, f)
        BY <2>1, <1>5, <1>7
  <2>3. CASE S(d, e)
    <3>1. N(d, f) = N(e, f)
          BY <2>3, <1>4 DEF N
    <3>2. S(d, f) = S(e, f)
          BY <2>3, <1>4 DEF S
    <3> QED BY <1>1, <2>1, <2>2, <2>3, <3>1, <3>2, <1>5, <1>7, <1>8
  <2>4. CASE ~S(d, e)
    <3>1. N(e, d)
          BY <2>2, <2>4, <1>2
    <3>2. CASE S(e, f)
      <4>1. N(d, f) = N(d, e) /\ S(d, f) = S(d, e)
            BY <3>2, <1>4 DEF N, S
      <4> QED BY <4>1, <2>1, <2>2, <2>4, <1>1, <1>8
    <3>3. CASE ~S(e, f)
      <4>1. N(f, e) /\ N(f, d)
            BY <3>1, <3>3, <2>2, <1>2, <1>3
      <4> QED BY <4>1, <1>1, <1>2, <1>8, <2>1
    <3> QED BY <3>2, <3>3
  <2> QED BY <2>3, <2>4
<1> QED BY <1>9, <1>10

-----------------------------------------------------------------------------
(* What the loop has found: no entry it has looked at is newer.            *)
ScanInv ==
    /\ step = "scan" =>
          \/ latest = None /\ rest = case.list
          \/ /\ latest \in Range(case.list)
             /\ Ordered => \A e \in Range(case.list) :
                              e \in Range(rest) \/ ~NewerEntry(e, latest)
    /\ step \notin {"scan", "failed"} =>
          /\ latest \in Range(case.list)
          /\ Ordered => \A e \in Range(case.list) : ~NewerEntry(e, latest)

(* Nothing is changed until there is something to install; without further *)
(* reasons, that is when the tree's version is newer.                      *)
Untouched == entries = Range(case.list) \cup case.others /\ active = case.active
Plain == ~Replaced /\ opts \subseteq {"uninstall_old", "nodeps"}

PlanInv ==
    /\ step \in {"scan", "deps", "decided", "nothing", "build"} => Untouched
    /\ step \in {"deps", "decided"} => already = (Registered # {})
    /\ step = "nothing" => ~will_install
    /\ step \in {"build", "remove", "replace", "activate", "dependents", "old"} => will_install
    /\ step = "done" /\ ~will_install => Untouched
    /\ step \notin {"scan", "failed"} /\ Plain => (will_install <=> ~UpToDate \/ EpochOverride)

(* Once versions may be given up, the tree's is built or registered.       *)
ReadyInv ==
    /\ step = "remove" => ready
    /\ Ordered /\ step \in {"replace", "activate", "dependents", "old"} =>
          ready \/ Registered # {}

(* After an activation that did not fail unnoticed, the tree's version is  *)
(* active; what else is registered is still to be looked at.               *)
EndInv ==
    Ordered /\ will_install /\ ~unnoticed =>
        /\ step \in {"dependents", "old", "done"} => \E e \in active : SameText(e, tree)
        /\ step \notin {"scan", "failed"} /\ ~Replaced /\ "processall" \notin opts =>
              \A e \in entries : SameText(e, tree) \/ e \in Range(rest)
        /\ step = "done" /\ "uninstall_old" \in opts /\ ~Replaced => rest = <<>>

UpgradeInv == CaseInv /\ ScanInv /\ PlanInv /\ ReadyInv /\ EndInv

-----------------------------------------------------------------------------
(* Who is who in a case.                                                   *)
LEMMA CaseFacts ==
    ASSUME case \in Cases
    PROVE  /\ case.list # <<>> /\ case.list \in Seq(Range(case.list))
           /\ Range(case.list) \subseteq Involved(case)
           /\ case.others \subseteq Involved(case)
           /\ tree \in Involved(case) /\ SameKey(tree, tree) /\ SameText(tree, tree)
           /\ None \notin Involved(case)
           /\ \A e \in Range(case.list) : e.name = Port
           /\ ~Replaced => case.others = {}
           /\ case.active \subseteq Range(case.list) \cup case.others
           /\ \A e, f \in case.active : e.name = f.name => e = f
<1>1. /\ case.list # <<>> /\ case.list \in Seq(Range(case.list))
      /\ \A e \in Range(case.list) : e.name = Port
      /\ tree.name = Port => case.others = {}
      /\ case.active \subseteq Range(case.list) \cup case.others
      /\ \A e, f \in case.active : e.name = f.name => e = f
      /\ None \notin Involved(case)
      BY CasesOK DEF tree
<1>2. tree \in Involved(case)
      BY DEF Involved, tree
<1>3. vercmp(tree.version, tree.version) = 0
      BY <1>2, CaseNumbers
<1> QED BY <1>1, <1>2, <1>3 DEF Involved, SameKey, SameText, Replaced

(* What depends on the case only does not change.                          *)
LEMMA CaseFixed ==
    ASSUME case' = case
    PROVE  /\ Ordered' = Ordered /\ tree' = tree /\ opts' = opts /\ Replaced' = Replaced
           /\ Plain' = Plain /\ Involved(case)' = Involved(case)
BY DEF Ordered, tree, opts, Replaced, Plain, Involved, OrderedIn

(* What is said of the latest version changes with it only.                *)
LEMMA ScanFixed ==
    ASSUME ScanInv, case' = case, latest' = latest,
           step \notin {"scan", "failed"} \/ step' = "failed", step' # "scan"
    PROVE  ScanInv'
<1>1. step' \notin {"scan", "failed"} =>
        /\ latest \in Range(case.list)
        /\ Ordered => \A e \in Range(case.list) : ~NewerEntry(e, latest)
      BY DEF ScanInv
<1>2. Ordered' = Ordered
      BY CaseFixed
<1> QED BY <1>1, <1>2, ZenonT(60) DEF ScanInv, NewerEntry

(* The registered entries of the tree's version are those in entries.      *)
LEMMA RegisteredIs ==
    /\ \A e : e \in Registered <=> e \in entries /\ SameKey(e, tree)
    /\ case' = case /\ entries \subseteq entries' /\ Registered # {} => Registered' # {}
    /\ case' = case /\ entries' = entries => Registered' = Registered
<1>1. \A e : e \in Registered <=> e \in entries /\ SameKey(e, tree)
      BY DEF Registered
<1>2. case' = case /\ entries \subseteq entries' => Registered \subseteq Registered'
      BY DEF Registered, tree, SameKey
<1>3. case' = case /\ entries' = entries => Registered' = Registered
      BY DEF Registered, tree, SameKey
<1> QED BY <1>1, <1>2, <1>3

(* The invariant holds initially.                                          *)
LEMMA UpgradeInitInv == UpgradeInit => UpgradeInv
<1> SUFFICES ASSUME UpgradeInit PROVE UpgradeInv
    OBVIOUS
<1> USE DEF UpgradeInit
<1>1. CaseInv
      BY CaseFacts DEF CaseInv
<1>2. ScanInv
      BY DEF ScanInv
<1>3. PlanInv
      BY DEF PlanInv, Untouched
<1>4. ReadyInv /\ EndInv
      BY DEF ReadyInv, EndInv
<1> QED BY <1>1, <1>2, <1>3, <1>4 DEF UpgradeInv

(* Steps before the decision.                                              *)
LEMMA ScanStep ==
    ASSUME VersionsAgree, UpgradeInv, Scan
    PROVE  UpgradeInv'
<1> DEFINE i == Head(rest)
<1>1. /\ step = "scan" /\ step' = "scan" /\ rest # <<>> /\ rest' = Tail(rest)
      /\ latest' = IF latest = None \/ Later(i, latest) THEN i ELSE latest
      /\ case' = case /\ entries' = entries /\ active' = active
      BY DEF Scan
<1>2. /\ case \in Cases /\ entries \subseteq Involved(case) /\ active \subseteq entries
      /\ \A e, f \in active : e.name = f.name => e = f
      /\ rest \in Seq(Range(case.list))
      BY DEF UpgradeInv, CaseInv
<1>3. i \in Range(case.list) /\ Tail(rest) \in Seq(Range(case.list))
      /\ Range(rest) = {i} \cup Range(Tail(rest))
      BY <1>1, <1>2, HeadAndTail
<1>4. CaseInv'
      BY <1>1, <1>2, <1>3, CaseFixed DEF CaseInv
<1>5. Range(case.list) \subseteq Involved(case) /\ None \notin Involved(case)
      BY <1>2, CaseFacts
<1>6. latest' \in Range(case.list)
      BY <1>1, <1>3 DEF UpgradeInv, ScanInv
<1>7. ASSUME Ordered, NEW e \in Range(case.list), e \notin Range(rest')
      PROVE  ~NewerEntry(e, latest')
  <2>1. e = i \/ e \notin Range(rest)
        BY <1>1, <1>3, <1>7
  <2>2. CASE latest = None
    <3>1. rest = case.list
          BY <2>2, <1>1, <1>5 DEF UpgradeInv, ScanInv
    <3>2. e = i /\ latest' = i
          BY <3>1, <2>1, <2>2, <1>1
    <3> QED BY <3>2, <1>2, <1>3, <1>5, <1>7, NewerIsOrder
  <2>3. CASE latest # None
    <3>1. latest \in Range(case.list) /\ (e \notin Range(rest) => ~NewerEntry(e, latest))
          BY <2>3, <1>1, <1>7 DEF UpgradeInv, ScanInv
    <3>2. Later(i, latest) <=> NewerEntry(i, latest)
          BY <3>1, <1>2, <1>3, <1>5, <1>7, LaterIsNewer
    <3>3. CASE Later(i, latest)
      <4>1. latest' = i
            BY <3>3, <1>1
      <4>2. ~NewerEntry(latest, i) /\ ~NewerEntry(i, i)
            BY <3>1, <3>2, <3>3, <1>2, <1>3, <1>5, <1>7, NewerIsOrder
      <4>3. e # i => ~NewerEntry(e, i)
            BY <4>2, <3>1, <2>1, <1>2, <1>3, <1>5, <1>7, NewerIsOrder
      <4> QED BY <4>1, <4>2, <4>3
    <3>4. CASE ~Later(i, latest)
      <4>1. latest' = latest /\ ~NewerEntry(i, latest)
            BY <3>2, <3>4, <2>3, <1>1
      <4> QED BY <4>1, <3>1, <2>1
    <3> QED BY <3>3, <3>4
  <2> QED BY <2>2, <2>3
<1>8. ScanInv'
  <2>1. Ordered' = Ordered
        BY <1>1, CaseFixed
  <2>2. \A e : NewerEntry(e, latest)' <=> NewerEntry(e, latest')
        BY DEF NewerEntry
  <2>3. Ordered => \A e \in Range(case.list) : e \in Range(rest') \/ ~NewerEntry(e, latest')
        BY <1>7
  <2> QED BY <2>1, <2>3, <1>1, <1>6 DEF ScanInv
<1>9. PlanInv'
      BY <1>1 DEF UpgradeInv, PlanInv, Untouched
<1>10. ReadyInv' /\ EndInv'
      BY <1>1 DEF ReadyInv, EndInv
<1> QED BY <1>4, <1>8, <1>9, <1>10 DEF UpgradeInv

(* The decision is taken on what the whole list has shown.                 *)
LEMMA DecideStep ==
    ASSUME UpgradeInv, Decide
    PROVE  UpgradeInv'
<1>1. /\ step = "scan" /\ rest = <<>> /\ rest' = case.list
      /\ step' \in {"decided", "deps"}
      /\ will_install' = WillInstall /\ already' = (Registered # {})
      /\ case' = case /\ entries' = entries /\ active' = active
      /\ latest' = latest /\ anyactive' = anyactive
      BY DEF Decide, scanned
<1>2. /\ case \in Cases /\ entries \subseteq Involved(case) /\ active \subseteq entries
      /\ \A e, f \in active : e.name = f.name => e = f
      BY DEF UpgradeInv, CaseInv
<1>3. /\ case.list # <<>> /\ case.list \in Seq(Range(case.list))
      /\ ~Replaced => case.others = {}
      BY <1>2, CaseFacts
<1>4. CaseInv'
      BY <1>1, <1>2, <1>3, CaseFixed DEF CaseInv
<1>5. /\ latest \in Range(case.list)
      /\ Ordered => \A e \in Range(case.list) : ~NewerEntry(e, latest)
  <2>1. Range(rest) = {}
        BY <1>1 DEF Range
  <2> QED BY <2>1, <1>1, <1>3 DEF UpgradeInv, ScanInv
<1>6. Ordered' = Ordered /\ Plain' = Plain /\ Replaced' = Replaced
      BY <1>1, CaseFixed
<1>7. ScanInv'
      BY <1>1, <1>5, <1>6 DEF ScanInv, NewerEntry
<1>8. PlanInv'
  <2>1. Untouched'
        BY <1>1 DEF UpgradeInv, PlanInv, Untouched
  <2>2. already' = (Registered' # {})
        BY <1>1, RegisteredIs
  <2>3. Plain => (WillInstall <=> ~UpToDate \/ EpochOverride)
        BY DEF Plain, WillInstall, Enforced
  <2>4. UpToDate' = UpToDate /\ EpochOverride' = EpochOverride
        BY <1>1 DEF UpToDate, EpochOverride, tree
  <2> QED BY <1>1, <1>6, <2>1, <2>2, <2>3, <2>4 DEF PlanInv
<1>9. ReadyInv'
      BY <1>1 DEF ReadyInv
<1>10. EndInv'
  <2>1. ~Replaced => \A e \in entries : e \in Range(case.list)
        BY <1>1, <1>3 DEF UpgradeInv, PlanInv, Untouched
  <2> QED BY <2>1, <1>1, <1>6 DEF EndInv
<1> QED BY <1>4, <1>7, <1>8, <1>9, <1>10 DEF UpgradeInv

(* A step that changes neither the registry nor what was decided, from one *)
(* point of the procedure to the next or to a failure.                     *)
Moves ==
    \/ step' = "failed"
    \/ step = "deps" /\ step' = "decided"
    \/ step = "decided" /\ step' = "nothing" /\ ~will_install
    \/ step = "decided" /\ step' = "build" /\ will_install
    \/ step = "decided" /\ step' = "replace" /\ will_install /\ already
    \/ step = "nothing" /\ step' = "done"
    \/ step = "build" /\ step' = "remove" /\ ready'
    \/ step = "activate" /\ step' \in {"dependents", "old"} /\ unnoticed'
    \/ step = "dependents" /\ step' = "old"
    \/ step = "old" /\ step' = "done" /\ ("uninstall_old" \in opts /\ ~Replaced => rest = <<>>)

(* Such a step keeps the invariant.                                        *)
LEMMA MoveStep ==
    ASSUME UpgradeInv, Moves, ready => ready', unnoticed => unnoticed',
           UNCHANGED <<case, entries, active, latest, will_install, already, rest>>
    PROVE  UpgradeInv'
<1>1. /\ case' = case /\ entries' = entries /\ active' = active /\ latest' = latest
      /\ will_install' = will_install /\ already' = already /\ rest' = rest
      OBVIOUS
<1>2. Ordered' = Ordered /\ Plain' = Plain /\ Replaced' = Replaced /\ opts' = opts
      /\ tree' = tree
      BY <1>1, CaseFixed
<1>3. step' # "scan" /\ (step = "scan" => step' = "failed") /\ (step = "failed" => step' = "failed")
      BY DEF Moves
<1>4. CaseInv'
      BY <1>1, CaseFixed DEF UpgradeInv, CaseInv
<1>5. ScanInv'
      BY <1>1, <1>3, ScanFixed DEF UpgradeInv
<1>6. Registered' = Registered
      BY <1>1, RegisteredIs
<1>7. PlanInv'
  <2>1. UpToDate' = UpToDate /\ EpochOverride' = EpochOverride /\ Untouched' = Untouched
        BY <1>1 DEF UpToDate, EpochOverride, tree, Untouched
  <2>2. step' \in {"deps", "decided", "nothing", "build"} => Untouched
        BY DEF Moves, UpgradeInv, PlanInv
  <2>3. step' \in {"deps", "decided"} => already = (Registered # {})
        BY DEF Moves, UpgradeInv, PlanInv
  <2>4. /\ step' = "nothing" => ~will_install
        /\ step' \in {"build", "remove", "replace", "activate", "dependents", "old"} => will_install
        BY DEF Moves, UpgradeInv, PlanInv
  <2>5. step' = "done" /\ ~will_install => Untouched
        BY DEF Moves, UpgradeInv, PlanInv
  <2>6. step' # "failed" /\ Plain => (will_install <=> ~UpToDate \/ EpochOverride)
        BY <1>3 DEF UpgradeInv, PlanInv
  <2> QED BY <1>1, <1>2, <1>3, <1>6, <2>1, <2>2, <2>3, <2>4, <2>5, <2>6 DEF PlanInv
<1>8. ReadyInv'
  <2>1. step' = "remove" => ready'
        BY DEF Moves, UpgradeInv, ReadyInv
  <2>2. Ordered /\ step' \in {"replace", "activate", "dependents", "old"} =>
           ready' \/ Registered # {}
    <3>1. step \in {"deps", "decided"} => already = (Registered # {})
          BY DEF UpgradeInv, PlanInv
    <3>2. Ordered /\ step \in {"replace", "activate", "dependents", "old"} =>
             ready \/ Registered # {}
          BY DEF UpgradeInv, ReadyInv
    <3> QED BY <3>1, <3>2 DEF Moves
  <2> QED BY <2>1, <2>2, <1>2, <1>6 DEF ReadyInv
<1>9. EndInv'
  <2> SUFFICES ASSUME Ordered, will_install, ~unnoticed'
               PROVE  /\ step' \in {"dependents", "old", "done"} =>
                            \E e \in active : SameText(e, tree)
                      /\ step' \notin {"scan", "failed"} /\ ~Replaced /\ "processall" \notin opts =>
                            \A e \in entries : SameText(e, tree) \/ e \in Range(rest)
                      /\ step' = "done" /\ "uninstall_old" \in opts /\ ~Replaced => rest = <<>>
      BY <1>1, <1>2 DEF EndInv, SameText, SameKey
  <2>1. ~unnoticed
        OBVIOUS
  <2>2. /\ step \in {"dependents", "old", "done"} => \E e \in active : SameText(e, tree)
        /\ step \notin {"scan", "failed"} /\ ~Replaced /\ "processall" \notin opts =>
              \A e \in entries : SameText(e, tree) \/ e \in Range(rest)
        BY <2>1 DEF UpgradeInv, EndInv
  <2>3. step' \in {"dependents", "old", "done"} => step \in {"dependents", "old"}
    <3>1. step # "nothing"
          BY DEF UpgradeInv, PlanInv
    <3> QED BY <3>1 DEF Moves
  <2>4. step' = "done" /\ "uninstall_old" \in opts /\ ~Replaced => rest = <<>>
    <3>1. step # "nothing"
          BY DEF UpgradeInv, PlanInv
    <3> QED BY <3>1 DEF Moves
  <2> QED BY <2>2, <2>3, <2>4, <1>3
<1> QED BY <1>4, <1>5, <1>7, <1>8, <1>9 DEF UpgradeInv

(* The steps that only go on.                                              *)
LEMMA QuietSteps ==
    ASSUME UpgradeInv,
           \/ Dependencies \/ Proceed \/ Nothing \/ Build \/ ActivateFails
           \/ Dependents \/ Finish \/ Fail
    PROVE  UpgradeInv'
<1>1. /\ UNCHANGED <<case, entries, active, latest, will_install, already, rest>>
      /\ ready => ready'
      /\ unnoticed => unnoticed'
      BY DEF Dependencies, Proceed, Nothing, Build, ActivateFails, Dependents, Finish, Fail,
             scanned, plan
<1>2. Moves
  <2>1. CASE Dependencies \/ Nothing \/ Build \/ Dependents \/ Finish \/ Fail
        BY <2>1 DEF Moves, Dependencies, Nothing, Build, Dependents, Finish, Fail
  <2>2. CASE Proceed
    <3>1. step = "decided" /\ step' = Branch("build", "replace", "nothing")
          BY <2>2 DEF Proceed
    <3>2. \/ step' = "nothing" /\ ~will_install
          \/ step' = "build" /\ will_install
          \/ step' = "replace" /\ will_install /\ already
          BY <3>1 DEF Branch
    <3> QED BY <3>1, <3>2 DEF Moves
  <2>3. CASE ActivateFails
        BY <2>3 DEF Moves, ActivateFails, Activated
  <2> QED BY <2>1, <2>2, <2>3
<1> QED BY <1>1, <1>2, MoveStep

-----------------------------------------------------------------------------
(* From the first change on: what was found and planned is kept.           *)
Acting == {"remove", "replace", "activate", "dependents", "old"}

(* They rest on the latest version and the case, which do not change.      *)
LEMMA ActingKeepsPlan ==
    ASSUME UpgradeInv, step \in Acting \cup {"build"}, step' \in Acting,
           UNCHANGED <<case, latest, will_install>>
    PROVE  ScanInv' /\ PlanInv' /\ will_install
<1>1. case' = case /\ latest' = latest /\ will_install' = will_install
      OBVIOUS
<1>2. ScanInv'
      BY <1>1, ScanFixed DEF UpgradeInv, Acting
<1>3. Plain' = Plain /\ UpToDate' = UpToDate /\ EpochOverride' = EpochOverride
      BY <1>1, CaseFixed DEF UpToDate, EpochOverride, tree
<1>4. will_install /\ (Plain => (will_install <=> ~UpToDate \/ EpochOverride))
      BY DEF UpgradeInv, PlanInv, Acting
<1>5. Plain' => (will_install' <=> ~UpToDate' \/ EpochOverride')
      BY <1>1, <1>3, <1>4
<1>6. step' \notin {"scan", "deps", "decided", "nothing", "build", "done"}
      BY DEF Acting
<1>7. PlanInv'
      BY <1>1, <1>4, <1>5, <1>6 DEF PlanInv
<1> QED BY <1>2, <1>4, <1>7

(* Such a step that registers the tree's version or nothing, and activates *)
(* nothing.                                                                *)
LEMMA ActingKeeps ==
    ASSUME UpgradeInv, step \in Acting \cup {"build"}, step' \in {"remove", "replace", "activate"},
           UNCHANGED <<case, latest, will_install, rest, unnoticed>>,
           entries \subseteq entries' \/ ready', entries' \subseteq entries \cup {tree},
           active' \subseteq active, active' \subseteq entries',
           step' = "remove" => ready', ready => ready',
           step \in {"build", "remove"} /\ step' # "remove" => ready' \/ Registered' # {}
    PROVE  UpgradeInv'
<1>1. /\ case' = case /\ latest' = latest /\ will_install' = will_install /\ rest' = rest
      /\ unnoticed' = unnoticed
      OBVIOUS
<1>2. /\ case \in Cases /\ entries \subseteq Involved(case) /\ active \subseteq entries
      /\ \A e, f \in active : e.name = f.name => e = f
      /\ rest \in Seq(Range(case.list))
      BY DEF UpgradeInv, CaseInv
<1>3. tree \in Involved(case) /\ SameText(tree, tree)
      BY <1>2, CaseFacts
<1>4. Ordered' = Ordered /\ Replaced' = Replaced /\ tree' = tree /\ Involved(case)' = Involved(case)
      /\ opts' = opts
      BY <1>1, CaseFixed
<1>5. CaseInv'
      BY <1>1, <1>2, <1>3, <1>4 DEF CaseInv
<1>6. ScanInv' /\ PlanInv' /\ will_install
      BY ActingKeepsPlan DEF Acting
<1>7. ReadyInv'
  <2>1. step' = "remove" => ready'
        OBVIOUS
  <2>2. Ordered /\ step \in Acting \ {"remove"} => ready \/ Registered # {}
        BY DEF UpgradeInv, ReadyInv, Acting
  <2>3. Registered # {} => ready' \/ Registered' # {}
        BY <1>1, RegisteredIs
  <2>4. Ordered /\ step' # "remove" => ready' \/ Registered' # {}
        BY <2>2, <2>3 DEF Acting
  <2> QED BY <2>1, <2>4, <1>4 DEF ReadyInv
<1>8. EndInv'
  <2> SUFFICES ASSUME Ordered, ~unnoticed, ~Replaced, "processall" \notin opts,
                      NEW e \in entries'
               PROVE  SameText(e, tree) \/ e \in Range(rest)
      BY <1>1, <1>4 DEF EndInv, SameText, SameKey
  <2>1. step \notin {"scan", "failed"}
        BY DEF Acting
  <2>2. e \in entries => SameText(e, tree) \/ e \in Range(rest)
        BY <2>1, <1>6 DEF UpgradeInv, EndInv
  <2> QED BY <2>2, <1>3
<1> QED BY <1>5, <1>6, <1>7, <1>8 DEF UpgradeInv

(* The steps that register, uninstall or deactivate before the activation. *)
LEMMA ActingSteps ==
    ASSUME UpgradeInv,
           \/ Install \/ DeactivateExisting \/ UninstallExisting
           \/ Replace \/ InstallReady \/ DeactivateOther
    PROVE  UpgradeInv'
<1>1. /\ active \subseteq entries
      /\ step = "remove" => ready
      /\ case \in Cases
      BY DEF UpgradeInv, CaseInv, ReadyInv
<1>2. tree \in Involved(case) /\ SameKey(tree, tree)
      BY <1>1, CaseFacts
<1>3. CASE Install
  <2>1. /\ step = "build" /\ step' = "replace" /\ entries' = entries \cup {tree}
        /\ active' = active /\ ready' = ready
        /\ UNCHANGED <<case, latest, will_install, rest, unnoticed>>
        BY <1>3 DEF Install, scanned, plan
  <2>2. Registered' # {}
    <3>1. tree \in entries' /\ SameKey(tree, tree)' /\ tree' = tree
          BY <2>1, <1>2 DEF SameKey, tree
    <3> QED BY <3>1 DEF Registered
  <2> QED BY <2>1, <2>2, <1>1, ActingKeeps
<1>4. CASE DeactivateExisting
  <2>1. /\ step = "remove" /\ step' = "remove" /\ entries' = entries /\ active' \subseteq active
        /\ ready' = ready
        /\ UNCHANGED <<case, latest, will_install, rest, unnoticed>>
        BY <1>4 DEF DeactivateExisting, Deactivate, scanned, plan
  <2> QED BY <2>1, <1>1, ActingKeeps DEF Acting
<1>5. CASE UninstallExisting
  <2>1. /\ step = "remove" /\ step' = "replace" /\ active' = active /\ ready' = ready
        /\ UNCHANGED <<case, latest, will_install, rest, unnoticed>>
        /\ \E e \in Registered \ active : entries' = entries \ {e}
        BY <1>5 DEF UninstallExisting, plan
  <2> QED BY <2>1, <1>1, ActingKeeps DEF Acting
<1>6. CASE Replace
  <2>1. /\ step = "replace" /\ step' = "activate" /\ entries' = entries /\ active' \subseteq active
        /\ ready' = ready
        /\ UNCHANGED <<case, latest, will_install, rest, unnoticed>>
        BY <1>6 DEF Replace, plan
  <2> QED BY <2>1, <1>1, ActingKeeps DEF Acting
<1>7. CASE InstallReady
  <2>1. /\ step = "activate" /\ step' = "activate" /\ entries' = entries \cup {tree}
        /\ active' = active /\ ready' = ready
        /\ UNCHANGED <<case, latest, will_install, rest, unnoticed>>
        BY <1>7 DEF InstallReady, scanned, plan
  <2> QED BY <2>1, <1>1, ActingKeeps DEF Acting
<1>8. CASE DeactivateOther
  <2>1. /\ step = "activate" /\ step' = "activate" /\ entries' = entries /\ active' \subseteq active
        /\ ready' = ready
        /\ UNCHANGED <<case, latest, will_install, rest, unnoticed>>
        BY <1>8 DEF DeactivateOther, Deactivate, scanned, plan
  <2> QED BY <2>1, <1>1, ActingKeeps DEF Acting
<1> QED BY <1>3, <1>4, <1>5, <1>6, <1>7, <1>8

(* The activation: the entry activated is the tree's, and of its port no   *)
(* other one is active.                                                    *)
LEMMA ActivateStep ==
    ASSUME VersionsAgree, UpgradeInv, Activate
    PROVE  UpgradeInv'
<1>1. /\ step = "activate" /\ step' \in {"dependents", "old"} /\ entries' = entries
      /\ Registered # {} /\ ready' = ready
      /\ ActiveEntry(tree.name) = None \/ Registered \cap active # {}
      /\ UNCHANGED <<case, latest, will_install, rest, unnoticed>>
      BY DEF Activate, Activated, scanned, plan
<1>2. PICK r \in Registered :
         active' = IF Registered \cap active = {} THEN active \cup {r} ELSE active
      BY DEF Activate
<1>3. /\ case \in Cases /\ entries \subseteq Involved(case) /\ active \subseteq entries
      /\ \A e, f \in active : e.name = f.name => e = f
      /\ rest \in Seq(Range(case.list))
      BY DEF UpgradeInv, CaseInv
<1>4. tree \in Involved(case) /\ None \notin Involved(case)
      BY <1>3, CaseFacts
<1>5. Ordered' = Ordered /\ Replaced' = Replaced /\ tree' = tree /\ Involved(case)' = Involved(case)
      /\ opts' = opts
      BY <1>1, CaseFixed
<1>6. r \in entries /\ SameKey(r, tree) /\ r.name = tree.name
      BY <1>2 DEF Registered, SameKey
<1>7. Registered \cap active = {} => \A e \in active : e.name # tree.name
  <2> SUFFICES ASSUME Registered \cap active = {}, NEW e \in active, e.name = tree.name PROVE FALSE
      OBVIOUS
  <2>1. ActiveEntry(tree.name) \in active
        BY DEF ActiveEntry
  <2> QED BY <2>1, <1>1, <1>3, <1>4
<1>8. CaseInv'
  <2>1. active' \subseteq entries'
        BY <1>1, <1>2, <1>3, <1>6
  <2>2. \A e, f \in active' : e.name = f.name => e = f
        BY <1>2, <1>3, <1>6, <1>7
  <2> QED BY <2>1, <2>2, <1>1, <1>3, <1>5 DEF CaseInv
<1>9. ScanInv' /\ PlanInv' /\ will_install
      BY <1>1, ActingKeepsPlan DEF Acting
<1>10. ReadyInv'
      BY <1>1, RegisteredIs DEF ReadyInv
<1>11. EndInv'
  <2>1. ASSUME Ordered PROVE \E e \in active' : SameText(e, tree)
    <3>1. PICK e \in active' : e \in Registered
          BY <1>2
    <3>2. e \in Involved(case) /\ SameKey(e, tree)
          BY <3>1, <1>3 DEF Registered
    <3> QED BY <3>2, <2>1, <1>3, <1>4, SameKeySameText
  <2>2. Ordered /\ ~unnoticed /\ ~Replaced /\ "processall" \notin opts =>
           \A e \in entries : SameText(e, tree) \/ e \in Range(rest)
        BY <1>1, <1>9 DEF UpgradeInv, EndInv
  <2> QED BY <2>1, <2>2, <1>1, <1>5 DEF EndInv, SameText, SameKey
<1> QED BY <1>8, <1>9, <1>10, <1>11 DEF UpgradeInv

(* The uninstallation of the other versions passes over the tree's, and    *)
(* without -p never over another one, since the tree's is active.          *)
LEMMA UninstallOldStep ==
    ASSUME VersionsAgree, UpgradeInv, UninstallOld
    PROVE  UpgradeInv'
<1> DEFINE i == Head(rest)
           gone == {e \in entries : SameKey(e, i) /\ e.epoch = i.epoch}
<1>1. /\ step = "old" /\ step' = "old" /\ ~Replaced /\ rest # <<>> /\ rest' = Tail(rest)
      /\ ready' = ready
      /\ UNCHANGED <<case, latest, will_install, unnoticed>>
      BY DEF UninstallOld, scanned, plan
<1>2. \/ /\ Spared(i) \/ (gone # {} /\ Needed(gone))
         /\ entries' = entries /\ active' = active
      \/ /\ ~Spared(i) /\ entries' = entries \ gone /\ active' = active \ gone
      \/ /\ ~Spared(i) /\ "processall" \in opts
         /\ entries' = entries /\ (active' = active \/ active' = active \ gone)
      BY DEF UninstallOld
<1>3. /\ case \in Cases /\ entries \subseteq Involved(case) /\ active \subseteq entries
      /\ \A e, f \in active : e.name = f.name => e = f
      /\ rest \in Seq(Range(case.list))
      BY DEF UpgradeInv, CaseInv
<1>4. /\ i \in Range(case.list) /\ Tail(rest) \in Seq(Range(case.list))
      /\ Range(rest) = {i} \cup Range(Tail(rest))
      BY <1>1, <1>3, HeadAndTail
<1>5. /\ tree \in Involved(case) /\ tree.name = Port /\ i.name = Port
      /\ i \in Involved(case)
      BY <1>1, <1>3, <1>4, CaseFacts DEF Replaced
<1>6. Ordered' = Ordered /\ Replaced' = Replaced /\ tree' = tree /\ Involved(case)' = Involved(case)
      /\ opts' = opts
      BY <1>1, CaseFixed
<1> HIDE DEF i
<1>7. CaseInv'
      BY <1>1, <1>2, <1>3, <1>4, <1>6 DEF CaseInv
<1>8. ScanInv' /\ PlanInv' /\ will_install
      BY <1>1, ActingKeepsPlan DEF Acting
<1>9. ASSUME Ordered, ~Spared(i), NEW e \in entries, SameKey(e, tree) PROVE e \notin gone
  <2> SUFFICES ASSUME SameKey(e, i) PROVE FALSE
      OBVIOUS
  <2>1. SameText(e, tree) /\ SameText(e, i)
        BY <1>3, <1>5, <1>9, SameKeySameText
  <2> QED BY <2>1, <1>1, <1>9 DEF SameText, SameKey, Spared
<1> HIDE DEF gone
<1>10. ReadyInv'
  <2>1. ASSUME Ordered, Registered # {} PROVE Registered' # {}
    <3>1. PICK e \in entries : SameKey(e, tree)
          BY <2>1 DEF Registered
    <3>2. e \in entries'
          BY <3>1, <2>1, <1>2, <1>9
    <3>3. SameKey(e, tree)'  = SameKey(e, tree)
          BY <1>6 DEF SameKey
    <3> QED BY <3>1, <3>2, <3>3 DEF Registered
  <2> QED BY <2>1, <1>1, <1>6 DEF ReadyInv, UpgradeInv
<1>11. EndInv'
  <2> SUFFICES ASSUME Ordered, ~unnoticed
               PROVE  /\ \E e \in active' : SameText(e, tree)
                      /\ "processall" \notin opts =>
                            \A e \in entries' : SameText(e, tree) \/ e \in Range(rest')
      BY <1>1, <1>6 DEF EndInv, SameText, SameKey
  <2>1. PICK t \in active : SameText(t, tree)
        BY <1>1, <1>8 DEF UpgradeInv, EndInv
  <2>2. "processall" \notin opts => \A e \in entries : SameText(e, tree) \/ e \in Range(rest)
        BY <1>1, <1>8 DEF UpgradeInv, EndInv
  <2>3. SameKey(t, tree) /\ t.name = Port /\ t \in entries
        BY <2>1, <1>3, <1>5 DEF SameText, SameKey
  <2>4. ~Spared(i) => t \notin gone
        BY <2>3, <1>9
  <2>5. t \in active'
        BY <2>1, <2>4, <1>2
  <2>6. ASSUME "processall" \notin opts, i \in entries' PROVE SameText(i, tree)
    <3>1. CASE Spared(i)
          BY <3>1, <1>3, <1>5, CaseNumbers DEF Spared, SameText, SameKey
    <3>2. CASE ~Spared(i)
      <4>1. i \in entries
            BY <2>6, <1>2
      <4>2. i \in gone
            BY <4>1, <1>3, <1>5, CaseNumbers DEF gone, SameKey
      <4>3. Needed(gone)
            BY <3>2, <4>2, <2>6, <1>2
      <4>4. t \in {e \in entries : e.name = Port} \ gone
            BY <2>3, <2>4, <3>2
      <4>5. PICK g \in gone : g \in active
            BY <4>3, <4>4 DEF Needed
      <4>6. g.name = Port
            BY <4>5, <1>5 DEF gone, SameKey
      <4>7. g = t
            BY <4>5, <4>6, <2>1, <2>3, <1>3
      <4> QED BY <4>5, <4>7, <2>4, <3>2
    <3> QED BY <3>1, <3>2
  <2>7. entries' \subseteq entries
        BY <1>2
  <2> QED BY <2>1, <2>2, <2>5, <2>6, <2>7, <1>1, <1>4 DEF i
<1> QED BY <1>7, <1>8, <1>10, <1>11 DEF UpgradeInv

(* Every step keeps the invariant.                                         *)
LEMMA UpgradeStepInv ==
    ASSUME VersionsAgree, UpgradeInv, [UpgradeNext]_progress
    PROVE  UpgradeInv'
<1>1. CASE UNCHANGED progress
  <2>1. /\ case' = case /\ entries' = entries /\ active' = active /\ ready' = ready
        /\ latest' = latest /\ will_install' = will_install /\ already' = already
        /\ rest' = rest /\ unnoticed' = unnoticed /\ step' = step
        BY <1>1 DEF progress, scanned, plan
  <2>2. Ordered' = Ordered /\ Plain' = Plain /\ Replaced' = Replaced /\ tree' = tree
        /\ opts' = opts /\ Involved(case)' = Involved(case)
        BY <2>1, CaseFixed
  <2>3. Registered' = Registered
        BY <2>1, RegisteredIs
  <2>4. UpToDate' = UpToDate /\ EpochOverride' = EpochOverride /\ Untouched' = Untouched
        BY <2>1 DEF UpToDate, EpochOverride, tree, Untouched
  <2>5. CaseInv'
        BY <2>1, <2>2 DEF UpgradeInv, CaseInv
  <2>6. ScanInv'
        BY <2>1, <2>2 DEF UpgradeInv, ScanInv, NewerEntry
  <2>7. PlanInv'
        BY <2>1, <2>2, <2>3, <2>4 DEF UpgradeInv, PlanInv
  <2>8. ReadyInv'
        BY <2>1, <2>2, <2>3 DEF UpgradeInv, ReadyInv
  <2>9. EndInv'
        BY <2>1, <2>2 DEF UpgradeInv, EndInv, SameText, SameKey
  <2> QED BY <2>5, <2>6, <2>7, <2>8, <2>9 DEF UpgradeInv
<1>2. CASE Scan
      BY <1>2, ScanStep
<1>3. CASE Decide
      BY <1>3, DecideStep
<1>4. CASE Activate
      BY <1>4, ActivateStep
<1>5. CASE UninstallOld
      BY <1>5, UninstallOldStep
<1>6. CASE \/ Install \/ DeactivateExisting \/ UninstallExisting
           \/ Replace \/ InstallReady \/ DeactivateOther
      BY <1>6, ActingSteps
<1>7. CASE \/ Dependencies \/ Proceed \/ Nothing \/ Build \/ ActivateFails
           \/ Dependents \/ Finish \/ Fail
      BY <1>7, QuietSteps
<1> QED BY <1>1, <1>2, <1>3, <1>4, <1>5, <1>6, <1>7 DEF UpgradeNext

(* The invariant holds always.                                             *)
THEOREM UpgradeInvariance == VersionsAgree => (UpgradeSpec => []UpgradeInv)
<1> SUFFICES ASSUME VersionsAgree PROVE UpgradeSpec => []UpgradeInv
    OBVIOUS
<1>1. UpgradeInv /\ [UpgradeNext]_progress => UpgradeInv'
      BY UpgradeStepInv
<1> QED BY <1>1, UpgradeInitInv, PTL DEF UpgradeSpec

(* The loop finds the latest version, in whatever order the entries come   *)
(* ("find latest version installed").                                      *)
THEOREM LatestIsNewest == VersionsAgree => (UpgradeSpec => []NewestChosen)
<1> SUFFICES ASSUME VersionsAgree PROVE UpgradeSpec => []NewestChosen
    OBVIOUS
<1>1. UpgradeInv => NewestChosen
  <2> SUFFICES ASSUME UpgradeInv, step = "decided", Ordered
               PROVE  /\ \A e \in Range(case.list) : ~NewerEntry(e, latest)
                      /\ Agree(latest.version, tree.version)
                      /\ Agree(tree.version, latest.version)
      BY DEF NewestChosen
  <2>1. /\ latest \in Range(case.list) /\ \A e \in Range(case.list) : ~NewerEntry(e, latest)
        /\ case \in Cases
        BY DEF UpgradeInv, ScanInv, CaseInv
  <2>2. latest \in Involved(case) /\ tree \in Involved(case)
        BY <2>1, CaseFacts
  <2> QED BY <2>1, <2>2, VersionOrder
<1> QED BY <1>1, UpgradeInvariance, PTL

(* An upgrade that had something to do and succeeds leaves the tree's      *)
(* version active, and with -u but not -p no other one.                    *)
THEOREM UpgradesEndCurrent == VersionsAgree => (UpgradeSpec => []EndsCurrent)
<1>1. UpgradeInv => EndsCurrent
  <2> SUFFICES ASSUME UpgradeInv, step = "done", will_install, ~unnoticed, Ordered
               PROVE  /\ \E e \in active : SameText(e, tree)
                      /\ "uninstall_old" \in opts /\ "processall" \notin opts /\ ~Replaced =>
                            \A e \in entries : SameText(e, tree)
      BY DEF EndsCurrent
  <2>1. /\ \E e \in active : SameText(e, tree)
        /\ ~Replaced /\ "processall" \notin opts =>
              \A e \in entries : SameText(e, tree) \/ e \in Range(rest)
        /\ "uninstall_old" \in opts /\ ~Replaced => rest = <<>>
        BY DEF UpgradeInv, EndInv
  <2>2. Range(<<>>) = {}
        BY DEF Range
  <2> QED BY <2>1, <2>2
<1> QED BY <1>1, UpgradeInvariance, PTL

(* Without a further reason, the tree's version is activated if it is      *)
(* newer than all that is installed, and otherwise nothing changes.        *)
THEOREM UpgradesWhatIsNewer == VersionsAgree => (UpgradeSpec => []UpgradesWhenNewer)
<1> SUFFICES ASSUME VersionsAgree PROVE UpgradeSpec => []UpgradesWhenNewer
    OBVIOUS
<1>1. UpgradeInv => UpgradesWhenNewer
  <2> DEFINE newer == \A e \in Range(case.list) : NewerEntry(tree, e)
  <2> SUFFICES ASSUME UpgradeInv, step = "done", ~unnoticed, Plain, Ordered,
                      \A e \in Range(case.list) : tree.epoch >= e.epoch
               PROVE  IF newer THEN active = {tree}
                      ELSE entries = Range(case.list) /\ active = case.active
      BY DEF UpgradesWhenNewer, Plain
  <2>1. /\ case \in Cases /\ entries \subseteq Involved(case) /\ active \subseteq entries
        /\ \A e, f \in active : e.name = f.name => e = f
        BY DEF UpgradeInv, CaseInv
  <2>2. /\ latest \in Range(case.list) /\ \A e \in Range(case.list) : ~NewerEntry(e, latest)
        BY DEF UpgradeInv, ScanInv
  <2>3. /\ Range(case.list) \subseteq Involved(case) /\ tree \in Involved(case)
        /\ \A e \in Range(case.list) : e.name = Port
        /\ case.others = {} /\ tree.name = Port
        BY <2>1, CaseFacts DEF Plain, Replaced
  <2>4. latest \in Involved(case)
        BY <2>2, <2>3
  <2>5. (will_install <=> ~UpToDate \/ EpochOverride)
        BY DEF UpgradeInv, PlanInv
  <2>6. /\ latest.epoch \in Nat /\ tree.epoch \in Nat /\ tree.epoch >= latest.epoch
        /\ latest.revision \in Nat /\ tree.revision \in Nat
        BY <2>2, <2>3, <2>4, <2>1, CaseNumbers
  <2>7. /\ vercmp(latest.version, tree.version) > 0 <=> NewerThan(latest.version, tree.version)
        /\ vercmp(latest.version, tree.version) = 0 <=> SameAs(latest.version, tree.version)
        /\ SameAs(latest.version, tree.version) <=>
              ~NewerThan(latest.version, tree.version) /\ ~NewerThan(tree.version, latest.version)
        /\ SameAs(tree.version, latest.version) <=> SameAs(latest.version, tree.version)
        /\ ~(NewerThan(latest.version, tree.version) /\ NewerThan(tree.version, latest.version))
        /\ SameAs(latest.version, tree.version) <=> latest.version = tree.version
        /\ latest.version = tree.version => latest.epoch = tree.epoch
        BY <2>1, <2>3, <2>4, VersionOrder DEF Agree
  <2>8. will_install <=> NewerEntry(tree, latest)
    <3>1. EpochOverride <=> tree.epoch > latest.epoch
          BY <2>6, <2>7 DEF EpochOverride
    <3>2. CASE tree.epoch = latest.epoch
      <4>1. UpToDate <=> ~NewerEntry(tree, latest)
            BY <3>2, <2>6, <2>7 DEF UpToDate, NewerEntry
      <4> QED BY <4>1, <3>1, <3>2, <2>5, <2>6
    <3>3. CASE tree.epoch > latest.epoch
      <4>1. NewerEntry(tree, latest)
            BY <3>3 DEF NewerEntry
      <4> QED BY <4>1, <3>1, <3>3, <2>5
    <3> QED BY <3>2, <3>3, <2>6
  <2>9. CASE newer
    <3>1. will_install
          BY <2>9, <2>8, <2>2
    <3>2. PICK e \in active : SameText(e, tree)
          BY <3>1 DEF UpgradeInv, EndInv
    <3>3. e \in Range(case.list) \cup {tree}
          BY <2>1, <2>3 DEF Involved, tree
    <3>4. e \notin Range(case.list)
      <4> SUFFICES ASSUME e \in Range(case.list) PROVE FALSE
          OBVIOUS
      <4>1. e.version = tree.version /\ e.revision = tree.revision /\ SameKey(e, tree)
            BY <3>2 DEF SameText, SameKey
      <4>2. e.epoch = tree.epoch /\ SameAs(e.version, tree.version)
            /\ ~NewerThan(tree.version, e.version)
            BY <4>1, <2>1, <2>3, VersionOrder
      <4>3. NewerEntry(tree, e)
            BY <2>9
      <4> QED BY <4>1, <4>2, <4>3, <2>6 DEF NewerEntry
    <3>5. e = tree
          BY <3>3, <3>4
    <3>6. \A f \in active : f.name = Port
          BY <2>1, <2>3 DEF Involved, tree
    <3>7. active = {tree}
          BY <3>5, <3>6, <2>1, <2>3
    <3> QED BY <3>7, <2>9
  <2>10. CASE ~newer
    <3>1. PICK e \in Range(case.list) : ~NewerEntry(tree, e)
          BY <2>10
    <3>2. ~NewerEntry(tree, latest)
          BY <3>1, <2>1, <2>2, <2>3, <2>4, NewerIsOrder
    <3>3. Untouched
          BY <3>2, <2>8 DEF UpgradeInv, PlanInv
    <3> QED BY <3>3, <2>3, <2>10 DEF Untouched
  <2> QED BY <2>9, <2>10
<1> QED BY <1>1, UpgradeInvariance, PTL

(* An action property: no active version is given up before what takes its *)
(* place is built or registered, wherever the upgrade fails.               *)
THEOREM ReplacementIsReady == VersionsAgree => (UpgradeSpec => ReplacementReady)
<1>1. ASSUME UpgradeInv, UpgradeNext, ~(active \subseteq active'), Ordered
      PROVE  ready \/ Registered # {}
  <2>1. /\ step = "remove" => ready
        /\ step \in {"replace", "activate", "dependents", "old"} => ready \/ Registered # {}
        BY <1>1 DEF UpgradeInv, ReadyInv
  <2>2. \/ active' = active
        \/ step \in {"remove", "replace", "activate", "old"}
    <3>1. CASE \/ Scan \/ Decide \/ Dependencies \/ Proceed \/ Nothing \/ Build \/ Install
               \/ Dependents \/ Finish \/ Fail
          BY <3>1 DEF Scan, Decide, Dependencies, Proceed, Nothing, Build, Install,
                      Dependents, Finish, Fail
    <3>2. CASE \/ DeactivateExisting \/ UninstallExisting \/ Replace \/ InstallReady
               \/ DeactivateOther \/ Activate \/ ActivateFails \/ UninstallOld
          BY <3>2 DEF DeactivateExisting, UninstallExisting, Replace, InstallReady,
                      DeactivateOther, Activate, ActivateFails, UninstallOld
    <3> QED BY <3>1, <3>2, <1>1 DEF UpgradeNext
  <2> QED BY <2>1, <2>2, <1>1
<1>2. UpgradeInv /\ [UpgradeNext]_progress =>
        [~(active \subseteq active') /\ Ordered => ready \/ Registered # {}]_active
      BY <1>1 DEF progress
<1> QED BY <1>2, UpgradeInvariance, PTL DEF UpgradeSpec, ReplacementReady
=============================================================================
