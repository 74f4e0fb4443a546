------------------------- MODULE PortImage_proofs -------------------------
(***************************************************************************)
(* Proof that activation and deactivation, with every fault at every step, *)
(* implement ActivePorts: each commit of the registry is one step of it.   *)
(*                                                                         *)
(* Only three actions commit, and what they commit was decided many steps  *)
(* earlier. The invariant therefore relates the open transaction to the    *)
(* committed registry at every step of an operation (WorkSound), and the   *)
(* lists an operation works through to what is active (ListsSound). Both   *)
(* stop being claimed in a process whose commit failed, until the          *)
(* transaction it left open is gone.                                       *)
(*                                                                         *)
(* The second part is about the disk, the third about the rollback: see    *)
(* the comments there.                                                     *)
(***************************************************************************)
EXTENDS PortImage, TLAPS

PathOf(f) == {NoPath} \cup {<<f, s>> : s \in 0 .. MaxStamp}

IsRegistry(r) ==
    /\ r \in [state : [Entry -> {"imaged", "installed"}],
              actual : [Entry -> [File -> Path \cup {NoPath}]]]
    /\ \A e \in Entry, f \in File : r.actual[e][f] \in PathOf(f)

Pcs == {"idle", "deact", "others", "check", "renamed", "replaced", "move", "moved",
        "committed", "unmove", "react"}

Operation ==
    [pc : Pcs, port : Entry \cup {None}, stamp : 0 .. MaxStamp,
     todo : SUBSET File, cur : SUBSET File, others : SUBSET Entry, replaced : SUBSET Entry,
     backups : SUBSET File, moved : SUBSET File, reacting : BOOLEAN, react : SUBSET Entry,
     via : {"target", "direct"}, retry : BOOLEAN, victim : Entry \cup {None},
     paths : SUBSET (Path \cup {NoPath}), back : {"idle", "others", "replaced"}]

Types ==
    /\ scene \in Scenes
    /\ IsRegistry(db) /\ IsRegistry(work)
    /\ open \in BOOLEAN
    /\ clock \in 0 .. MaxStamp
    /\ op \in Operation

(* The steps of an activation, and those before its second commit.         *)
Nested == op.pc = "deact" /\ op.back # "idle"
Preparing == op.pc \in {"others", "check", "renamed", "replaced", "move", "moved"} \/ Nested

(* An activation has a port, and only an activation can be a nested one.   *)
PortKnown ==
    /\ op.pc \notin {"idle", "deact"} \/ Nested => op.port \in Entry /\ op.stamp \in 1 .. MaxStamp
    /\ op.pc = "idle" \/ (op.pc = "deact" /\ op.back = "idle") => ~op.reacting
    /\ Preparing => db.state[op.port] = "imaged"

(* What the operation has still to deactivate is active, and includes      *)
(* every other version of the port until it deals with the replaced ones.  *)
SameName == {x \in Installed(db) : NameOf[x] = NameOf[op.port]}
ListsSound ==
    /\ Nested \/ (op.pc \in {"others", "replaced"} /\ ~open) => op.others \subseteq Installed(db)
    /\ op.pc = "others" \/ (Nested /\ op.back = "others") => op.replaced = {}
    /\ op.pc \in {"check", "renamed"} => op.replaced \subseteq Installed(db)
    /\ op.pc = "renamed" => op.cur \subseteq op.todo
    /\ (op.pc = "others" /\ ~open) \/ (Nested /\ op.back = "others") => SameName \subseteq op.others
    /\ \/ op.pc = "replaced" /\ ~open
       \/ Nested /\ op.back = "replaced"
       \/ op.pc \in {"check", "renamed", "move", "moved"}
       => SameName = {}

(* What the open transaction has changed so far.                           *)
Relinquished ==
    \A e \in Entry, f \in File :
        work.actual[e][f] = IF e = op.victim THEN NoPath ELSE db.actual[e][f]
MovedFiles(F) ==
    /\ \A f \in F : \A e \in Entry : db.actual[e][f] # <<f, op.stamp>>
    /\ \A e \in Entry, f \in File :
          work.actual[e][f] = IF f \in F /\ db.actual[e][f] = Place(f)
                                THEN <<f, op.stamp>> ELSE db.actual[e][f]
Claimed ==
    /\ \A f \in Image[op.port] : \A e \in Entry : db.actual[e][f] # Place(f)
    /\ \A e \in Entry, f \in File :
          work.actual[e][f] = IF e # op.port THEN db.actual[e][f]
                              ELSE IF f \in Image[e] THEN Place(f) ELSE NoPath

WorkSound ==
    /\ ~open => work = db
    /\ op.pc \in {"deact", "check", "renamed", "move", "moved"} => open /\ work.state = db.state
    /\ op.pc = "deact" => /\ op.victim \in Installed(db)
                          /\ Nested => op.victim \in op.others
                          /\ Relinquished
    /\ op.pc \in {"check", "renamed"} => \E F \in SUBSET (File \ op.todo) : MovedFiles(F)
    /\ op.pc \in {"move", "moved"} => Claimed

(* The committed registry: one owner of a path, one active version.        *)
Owned ==
    \A d, e \in Entry, f \in File :
        db.actual[d][f] # NoPath /\ db.actual[d][f] = db.actual[e][f] => d = e

IInv == Types /\ PortKnown /\ ListsSound /\ WorkSound /\ Owned /\ StateMatchesFiles

-----------------------------------------------------------------------------
(* Paths are told apart by their file and their suffix.                    *)
LEMMA PathsDiffer ==
    /\ 0 \in 0 .. MaxStamp
    /\ \A f \in File, s \in 0 .. MaxStamp : <<f, s>> # NoPath /\ <<f, s>> \in Path
    /\ \A f, g \in File, s, t \in 0 .. MaxStamp : <<f, s>> = <<g, t>> => f = g /\ s = t
    /\ \A f, g \in File : Place(f) \in PathOf(g) => f = g
<1>1. 0 \in 0 .. MaxStamp
    BY ConstantsOK DEF ConstantsOK
<1>2. \A f \in File, s \in 0 .. MaxStamp : <<f, s>> # NoPath
    BY DEF NoPath
<1>3. \A f \in File, s \in 0 .. MaxStamp : <<f, s>> \in Path
    BY DEF Path
<1>4. \A f, g \in File, s, t \in 0 .. MaxStamp : <<f, s>> = <<g, t>> => f = g /\ s = t
    OBVIOUS
<1>5. \A f, g \in File : Place(f) \in PathOf(g) => f = g
    BY <1>1, <1>2, <1>4 DEF Place, PathOf
<1> QED BY <1>1, <1>2, <1>3, <1>4, <1>5

(* What the operators on registries return.                                *)
LEMMA RegistryIs ==
    ASSUME NEW r, IsRegistry(r), NEW e \in Entry, NEW b \in [File -> Path \cup {NoPath}],
           \A f \in File : b[f] \in PathOf(f)
    PROVE  LET n == [r EXCEPT !.actual[e] = b]
           IN  /\ IsRegistry(n) /\ n.state = r.state
               /\ \A d \in Entry, f \in File :
                     n.actual[d][f] = IF d = e THEN b[f] ELSE r.actual[d][f]
<1> DEFINE n == [r EXCEPT !.actual[e] = b]
<1>1. /\ n \in [state : [Entry -> {"imaged", "installed"}],
                actual : [Entry -> [File -> Path \cup {NoPath}]]]
      /\ n.state = r.state
      /\ n.actual = [r.actual EXCEPT ![e] = b]
    BY DEF IsRegistry
<1>2. \A d \in Entry : n.actual[d] = IF d = e THEN b ELSE r.actual[d]
    BY <1>1 DEF IsRegistry
<1> HIDE DEF n
<1>3. \A d \in Entry, f \in File : n.actual[d][f] = IF d = e THEN b[f] ELSE r.actual[d][f]
    BY <1>2
<1>4. \A d \in Entry, f \in File : n.actual[d][f] \in PathOf(f)
    BY <1>3 DEF IsRegistry
<1>5. IsRegistry(n)
    BY <1>1, <1>4 DEF IsRegistry
<1> QED BY <1>1, <1>3, <1>5 DEF n

LEMMA DeactivatedIs ==
    ASSUME NEW r, IsRegistry(r), NEW e \in Entry, NEW P
    PROVE  /\ IsRegistry(Deactivated(r, e, P))
           /\ Deactivated(r, e, P).state = r.state
           /\ \A d \in Entry, f \in File :
                 Deactivated(r, e, P).actual[d][f] =
                     IF d = e /\ r.actual[d][f] \in P THEN NoPath ELSE r.actual[d][f]
<1> DEFINE b == [f \in File |-> IF r.actual[e][f] \in P THEN NoPath ELSE r.actual[e][f]]
<1>1. Deactivated(r, e, P) = [r EXCEPT !.actual[e] = b]
    BY DEF Deactivated
<1>2. b \in [File -> Path \cup {NoPath}] /\ \A f \in File : b[f] \in PathOf(f)
    BY DEF IsRegistry, PathOf
<1>3. \A f \in File : b[f] = IF r.actual[e][f] \in P THEN NoPath ELSE r.actual[e][f]
    OBVIOUS
<1> HIDE DEF b
<1> QED BY <1>1, <1>2, <1>3, RegistryIs

LEMMA MovedAsideIs ==
    ASSUME NEW r, IsRegistry(r), NEW e \in Entry, NEW f \in File, NEW s \in 0 .. MaxStamp
    PROVE  /\ IsRegistry(MovedAside(r, e, Place(f), <<f, s>>))
           /\ MovedAside(r, e, Place(f), <<f, s>>).state = r.state
           /\ \A d \in Entry, g \in File :
                 MovedAside(r, e, Place(f), <<f, s>>).actual[d][g] =
                     IF d = e /\ g = f /\ r.actual[d][g] = Place(f) THEN <<f, s>> ELSE r.actual[d][g]
<1> DEFINE b == [g \in File |-> IF r.actual[e][g] = Place(f) THEN <<f, s>> ELSE r.actual[e][g]]
<1>1. MovedAside(r, e, Place(f), <<f, s>>) = [r EXCEPT !.actual[e] = b]
    BY DEF MovedAside
<1>2. \A g \in File : r.actual[e][g] = Place(f) => g = f
    BY PathsDiffer DEF IsRegistry
<1>3. \A g \in File :
          b[g] = IF g = f /\ r.actual[e][g] = Place(f) THEN <<f, s>> ELSE r.actual[e][g]
    BY <1>2
<1>4. b \in [File -> Path \cup {NoPath}]
    BY PathsDiffer DEF IsRegistry
<1>5. \A g \in File : b[g] \in PathOf(g)
    BY <1>3 DEF IsRegistry, PathOf
<1> HIDE DEF b
<1>6. LET n == [r EXCEPT !.actual[e] = b]
      IN  /\ IsRegistry(n) /\ n.state = r.state
          /\ \A d \in Entry, g \in File :
                n.actual[d][g] = IF d = e THEN b[g] ELSE r.actual[d][g]
    BY <1>4, <1>5, RegistryIs
<1> QED BY <1>1, <1>3, <1>6, ZenonT(60)

LEMMA ActivatedIs ==
    ASSUME NEW r, IsRegistry(r), NEW e \in Entry
    PROVE  /\ IsRegistry(Activated(r, e))
           /\ Activated(r, e).state = r.state
           /\ \A d \in Entry, f \in File :
                 Activated(r, e).actual[d][f] =
                     IF d # e THEN r.actual[d][f]
                     ELSE IF f \in Image[e] THEN Place(f) ELSE NoPath
<1> DEFINE b == [f \in File |-> IF f \in Image[e] THEN Place(f) ELSE NoPath]
<1>1. Activated(r, e) = [r EXCEPT !.actual[e] = b]
    BY DEF Activated
<1>2. b \in [File -> Path \cup {NoPath}] /\ \A f \in File : b[f] \in PathOf(f)
    BY PathsDiffer DEF PathOf, Place
<1>3. \A f \in File : b[f] = IF f \in Image[e] THEN Place(f) ELSE NoPath
    OBVIOUS
<1> HIDE DEF b
<1> QED BY <1>1, <1>2, <1>3, RegistryIs

LEMMA StateChangeIs ==
    ASSUME NEW r, IsRegistry(r), NEW e \in Entry, NEW v \in {"imaged", "installed"}
    PROVE  LET n == [r EXCEPT !.state[e] = v]
           IN  /\ IsRegistry(n) /\ n.actual = r.actual
               /\ \A d \in Entry : n.state[d] = IF d = e THEN v ELSE r.state[d]
<1> DEFINE n == [r EXCEPT !.state[e] = v]
<1>1. /\ n.actual = r.actual
      /\ n.state = [r.state EXCEPT ![e] = v]
      /\ n \in [state : [Entry -> {"imaged", "installed"}],
                actual : [Entry -> [File -> Path \cup {NoPath}]]]
    BY DEF IsRegistry
<1>2. \A d \in Entry : n.state[d] = IF d = e THEN v ELSE r.state[d]
    BY <1>1 DEF IsRegistry
<1> HIDE DEF n
<1>3. IsRegistry(n)
    BY <1>1 DEF IsRegistry
<1> QED BY <1>1, <1>2, <1>3 DEF n

LEMMA ActivePathsType ==
    ASSUME NEW r, IsRegistry(r), NEW e \in Entry
    PROVE  /\ ActivePaths(r, e) \subseteq Path \cup {NoPath}
           /\ \A f \in File : r.actual[e][f] # NoPath => r.actual[e][f] \in ActivePaths(r, e)
BY DEF IsRegistry, ActivePaths

LEMMA IdleType == Idle \in Operation
BY ConstantsOK DEF Idle, Operation, Pcs, ConstantsOK

LEMMA InitInv == Init => IInv
<1> SUFFICES ASSUME Init PROVE IInv
    OBVIOUS
<1>1. \A e \in Entry, f \in File : Empty.actual[e][f] = NoPath /\ Empty.state[e] = "imaged"
    BY DEF Empty
<1>2. IsRegistry(Empty)
    <2>1. Empty \in [state : [Entry -> {"imaged", "installed"}],
                     actual : [Entry -> [File -> Path \cup {NoPath}]]]
        BY DEF Empty
    <2> QED BY <1>1, <2>1 DEF IsRegistry, PathOf
<1>3. Types
    BY <1>2, IdleType, PathsDiffer DEF Init, Types
<1>4. op.pc = "idle" /\ ~op.reacting /\ ~open /\ work = db
    BY DEF Init, Idle
<1>5. \A e \in Entry, f \in File : db.actual[e][f] = NoPath /\ db.state[e] = "imaged"
    BY <1>1 DEF Init
<1> QED BY <1>3, <1>4, <1>5 DEF IInv, PortKnown, ListsSound, WorkSound, Owned, StateMatchesFiles,
        Nested, Preparing

-----------------------------------------------------------------------------
(* Many steps only leave the part of an operation that prepares a commit:  *)
(* they end the operation, or enter its rollback.                          *)
Leaves ==
    /\ scene' = scene /\ db' = db /\ clock' = clock /\ open' \in BOOLEAN
    /\ IsRegistry(work') /\ (~open' => work' = db)
    /\ op' \in Operation
    /\ \/ op' = Idle
       \/ /\ op'.pc \in {"committed", "unmove", "react"}
          /\ op'.port = op.port /\ op'.stamp = op.stamp
          /\ op.pc \notin {"idle", "deact"} \/ Nested

LEMMA LeavingInv == IInv /\ Leaves => IInv'
<1> SUFFICES ASSUME IInv, Leaves PROVE IInv'
    OBVIOUS
<1>1. Types'
    BY DEF IInv, Types, Leaves
<1>2. Owned' /\ StateMatchesFiles'
    BY DEF IInv, Leaves, Owned, StateMatchesFiles
<1>3. CASE op' = Idle
    <2>1. op'.pc = "idle" /\ ~op'.reacting
        BY <1>3 DEF Idle
    <2> QED BY <1>1, <1>2, <2>1 DEF IInv, Leaves, PortKnown, ListsSound, WorkSound, Nested, Preparing
<1>4. CASE op' # Idle
    <2>1. /\ op'.pc \in {"committed", "unmove", "react"}
          /\ op'.port \in Entry /\ op'.stamp \in 1 .. MaxStamp
        BY <1>4 DEF IInv, Leaves, PortKnown
    <2> QED BY <1>1, <1>2, <2>1 DEF IInv, Leaves, PortKnown, ListsSound, WorkSound, Nested, Preparing
<1> QED BY <1>3, <1>4

LEMMA FailedOpIs ==
    ASSUME IInv
    PROVE  /\ FailedOp \in Operation
           /\ \/ FailedOp = Idle
              \/ /\ FailedOp.pc = "react"
                 /\ FailedOp.port = op.port /\ FailedOp.stamp = op.stamp
                 /\ op.pc \notin {"idle", "deact"} \/ Nested
<1>1. op \in Operation /\ PortKnown
    BY DEF IInv, Types
<1>2. CASE op.reacting /\ op.via = "target"
    <2> DEFINE n == [op EXCEPT !.pc = "react", !.react = @ \cup {op.port},
                               !.reacting = FALSE, !.retry = TRUE]
    <2>1. FailedOp = n
        BY <1>2 DEF FailedOp
    <2>2. op.pc \notin {"idle", "deact"} \/ Nested
        BY <1>1, <1>2 DEF PortKnown, Nested, Operation
    <2>3. op.port \in Entry
        BY <1>1, <2>2 DEF PortKnown
    <2>4. n \in Operation /\ n.pc = "react" /\ n.port = op.port /\ n.stamp = op.stamp
        BY <1>1, <2>3 DEF Operation, Pcs
    <2> QED BY <2>1, <2>2, <2>4
<1>3. CASE ~(op.reacting /\ op.via = "target")
    BY <1>3, IdleType DEF FailedOp
<1> QED BY <1>2, <1>3

(* A step that only changes the lists nothing is claimed of.               *)
Stays ==
    /\ scene' = scene /\ db' = db /\ work' = work /\ open' = open /\ clock' = clock
    /\ op' \in Operation
    /\ op'.pc = op.pc /\ op'.port = op.port /\ op'.stamp = op.stamp
    /\ op'.todo = op.todo /\ op'.cur = op.cur /\ op'.others = op.others
    /\ op'.replaced = op.replaced /\ op'.reacting = op.reacting
    /\ op'.victim = op.victim /\ op'.back = op.back

LEMMA StayingInv == IInv /\ Stays => IInv'
<1> SUFFICES ASSUME IInv, Stays PROVE IInv'
    OBVIOUS
<1>1. Types'
    BY DEF IInv, Types, Stays
<1>2. Owned' /\ StateMatchesFiles'
    BY DEF IInv, Stays, Owned, StateMatchesFiles
<1>3. PortKnown'
    BY DEF IInv, Stays, PortKnown, Nested, Preparing
<1>4. ListsSound'
    BY DEF IInv, Stays, ListsSound, Nested, SameName, Installed
<1>5. WorkSound'
    BY SMTT(60) DEF IInv, Stays, WorkSound, Nested, Relinquished, MovedFiles, Claimed, Installed
<1> QED BY <1>1, <1>2, <1>3, <1>4, <1>5 DEF IInv

-----------------------------------------------------------------------------
(* Each action keeps the invariant. First those that start and end         *)
(* operations.                                                             *)
LEMMA ActivateInv ==
    ASSUME IInv, NEW e \in Entry, NEW f \in Forces, Activate(e, f)
    PROVE  IInv'
<1> PICK s \in 1 .. MaxStamp : clock' = s /\ op' = StartsActivating(e, s)
    BY DEF Activate
<1>1. /\ op \in Operation /\ op.pc = "idle" /\ ~op.reacting /\ ~open /\ work = db
      /\ db.state[e] = "imaged"
      /\ UNCHANGED <<scene, db, work, open>>
    BY DEF Activate, IInv, Types, PortKnown, WorkSound
<1>2. /\ op' \in Operation
      /\ op'.pc = "others" /\ op'.port = e /\ op'.stamp = s /\ op'.reacting = op.reacting
      /\ op'.replaced = {}
      /\ op'.others = {x \in Installed(work) : NameOf[x] = NameOf[e]}
    <2>1. s \in 0 .. MaxStamp
        OBVIOUS
    <2> QED BY <1>1, <2>1 DEF StartsActivating, Operation, Pcs, Installed
<1>3. Types'
    BY <1>1, <1>2 DEF IInv, Types
<1>4. Owned' /\ StateMatchesFiles'
    BY <1>1 DEF IInv, Owned, StateMatchesFiles
<1>5. PortKnown'
    BY <1>1, <1>2 DEF PortKnown, Nested, Preparing
<1>6. ListsSound'
    BY <1>1, <1>2 DEF ListsSound, Nested, SameName, Installed
<1>7. WorkSound'
    BY <1>1, <1>2 DEF WorkSound
<1> QED BY <1>3, <1>4, <1>5, <1>6, <1>7 DEF IInv

LEMMA ReactivateInv ==
    ASSUME IInv, NEW e \in Entry, Reactivate(e)
    PROVE  IInv'
<1> PICK s \in 1 .. MaxStamp, v \in Ways :
        /\ clock' = s
        /\ op' = [StartsActivating(e, s) EXCEPT !.reacting = TRUE, !.via = v,
                                                !.retry = FALSE,
                                                !.react = @ \ {e}]
    BY DEF Reactivate
<1>1. /\ op \in Operation /\ op.pc = "react" /\ ~open /\ work = db
      /\ db.state[e] = "imaged"
      /\ UNCHANGED <<scene, db, work, open>>
    BY DEF Reactivate, IInv, Types, WorkSound
<1>2. /\ op' \in Operation
      /\ op'.pc = "others" /\ op'.port = e /\ op'.stamp = s /\ op'.replaced = {}
      /\ op'.others = {x \in Installed(work) : NameOf[x] = NameOf[e]}
    <2>1. s \in 0 .. MaxStamp /\ v \in {"target", "direct"}
        BY DEF Ways
    <2>2. /\ StartsActivating(e, s) \in Operation
          /\ StartsActivating(e, s).pc = "others" /\ StartsActivating(e, s).port = e
          /\ StartsActivating(e, s).stamp = s /\ StartsActivating(e, s).replaced = {}
          /\ StartsActivating(e, s).others = {x \in Installed(work) : NameOf[x] = NameOf[e]}
        BY <1>1, <2>1 DEF StartsActivating, Operation, Pcs, Installed
    <2> QED BY <2>1, <2>2 DEF Operation
<1>3. Types'
    BY <1>1, <1>2 DEF IInv, Types
<1>4. Owned' /\ StateMatchesFiles'
    BY <1>1 DEF IInv, Owned, StateMatchesFiles
<1>5. PortKnown'
    BY <1>1, <1>2 DEF PortKnown, Nested, Preparing
<1>6. ListsSound'
    BY <1>1, <1>2 DEF ListsSound, Nested, SameName, Installed
<1>7. WorkSound'
    BY <1>1, <1>2 DEF WorkSound
<1> QED BY <1>3, <1>4, <1>5, <1>6, <1>7 DEF IInv

(* A deactivation lets go of every path of its victim.                     *)
LEMMA RelinquishedIs ==
    ASSUME IInv, NEW e \in Entry, ~open, work' = Deactivated(work, e, ActivePaths(work, e)),
           db' = db, op'.victim = e
    PROVE  IsRegistry(work') /\ work'.state = db'.state /\ Relinquished'
<1>1. IsRegistry(db) /\ work = db
    BY DEF IInv, Types, WorkSound
<1>2. /\ IsRegistry(work') /\ work'.state = db.state
      /\ \A d \in Entry, f \in File :
            work'.actual[d][f] = IF d = e /\ db.actual[d][f] \in ActivePaths(db, e)
                                   THEN NoPath ELSE db.actual[d][f]
    BY <1>1, DeactivatedIs
<1>3. \A f \in File : db.actual[e][f] \notin ActivePaths(db, e) => db.actual[e][f] = NoPath
    BY <1>1, ActivePathsType
<1> QED BY <1>2, <1>3 DEF Relinquished

LEMMA DeactivateInv ==
    ASSUME IInv, NEW e \in Entry, Deactivate(e)
    PROVE  IInv'
<1>1. /\ op \in Operation /\ op.pc = "idle" /\ ~op.reacting /\ ~open /\ work = db /\ IsRegistry(work)
      /\ db.state[e] = "installed"
      /\ op' = [op EXCEPT !.pc = "deact", !.victim = e, !.back = "idle",
                          !.paths = ActivePaths(work, e)]
      /\ work' = Deactivated(work, e, ActivePaths(work, e)) /\ open' = TRUE
      /\ UNCHANGED <<scene, db, clock>>
    BY DEF Deactivate, StartsDeactivating, IInv, Types, PortKnown, WorkSound
<1>2. /\ op' \in Operation
      /\ op'.pc = "deact" /\ op'.victim = e /\ op'.back = "idle" /\ op'.reacting = op.reacting
    BY <1>1, ActivePathsType DEF Operation, Pcs
<1>3. IsRegistry(work') /\ work'.state = db'.state /\ Relinquished'
    BY <1>1, <1>2, RelinquishedIs
<1>4. Types'
    BY <1>1, <1>2, <1>3 DEF IInv, Types
<1>5. Owned' /\ StateMatchesFiles'
    BY <1>1 DEF IInv, Owned, StateMatchesFiles
<1>6. PortKnown' /\ ListsSound'
    BY <1>1, <1>2 DEF PortKnown, ListsSound, Nested, Preparing
<1>7. WorkSound'
    BY <1>1, <1>2, <1>3 DEF WorkSound, Nested, Installed
<1> QED BY <1>4, <1>5, <1>6, <1>7 DEF IInv

LEMMA DeactivateOtherInv ==
    ASSUME IInv, NEW e \in Entry, DeactivateOther(e)
    PROVE  IInv'
<1> PICK v \in Ways :
        op' = [op EXCEPT !.pc = "deact", !.victim = e, !.back = op.pc,
                         !.paths = ActivePaths(work, e), !.via = v, !.retry = FALSE]
    BY DEF DeactivateOther
<1>1. /\ op \in Operation /\ op.pc \in {"others", "replaced"} /\ ~open /\ work = db
      /\ IsRegistry(work) /\ e \in op.others
      /\ work' = Deactivated(work, e, ActivePaths(work, e)) /\ open' = TRUE
      /\ UNCHANGED <<scene, db, clock>>
    BY DEF DeactivateOther, StartsDeactivating, IInv, Types, WorkSound
<1>2. /\ op' \in Operation
      /\ op'.pc = "deact" /\ op'.victim = e /\ op'.back = op.pc /\ op'.reacting = op.reacting
      /\ op'.port = op.port /\ op'.stamp = op.stamp /\ op'.others = op.others
      /\ op'.replaced = op.replaced
    <2>1. v \in {"target", "direct"}
        BY DEF Ways
    <2> QED BY <1>1, <2>1, ActivePathsType, ZenonT(60) DEF Operation, Pcs
<1>3. IsRegistry(work') /\ work'.state = db'.state /\ Relinquished'
    BY <1>1, <1>2, RelinquishedIs
<1>4. Types'
    BY <1>1, <1>2, <1>3 DEF IInv, Types
<1>5. Owned' /\ StateMatchesFiles'
    BY <1>1 DEF IInv, Owned, StateMatchesFiles
<1>6. PortKnown'
    BY <1>1, <1>2 DEF IInv, PortKnown, Nested, Preparing
<1>7. ListsSound'
    BY <1>1, <1>2 DEF IInv, ListsSound, Nested, SameName, Installed
<1>8. WorkSound'
    BY <1>1, <1>2, <1>3 DEF IInv, ListsSound, WorkSound, Nested, Installed
<1> QED BY <1>4, <1>5, <1>6, <1>7, <1>8 DEF IInv

LEMMA DeleteFileInv ==
    ASSUME IInv, NEW p \in Path, DeleteFile(p)
    PROVE  IInv'
<1>1. op \in Operation
    BY DEF IInv, Types
<1>2. Stays
    BY <1>1 DEF DeleteFile, Stays, Operation
<1> QED BY <1>2, StayingInv

(* A deactivation that is tried again finds the lists as they were.        *)
Retries ==
    /\ op.pc = "deact" /\ Nested
    /\ scene' = scene /\ db' = db /\ clock' = clock /\ open' \in BOOLEAN
    /\ IsRegistry(work') /\ (~open' => work' = db)
    /\ op' \in Operation
    /\ op'.pc = op.back /\ op'.port = op.port /\ op'.stamp = op.stamp
    /\ op'.reacting = op.reacting /\ op'.replaced = op.replaced
    /\ open' \/ op'.others = op.others

LEMMA RetryingInv == IInv /\ Retries => IInv'
<1> SUFFICES ASSUME IInv, Retries PROVE IInv'
    OBVIOUS
<1>1. op'.pc \in {"others", "replaced"}
    BY DEF Retries, Nested, IInv, Types, Operation
<1>2. Types'
    BY DEF IInv, Types, Retries
<1>3. Owned' /\ StateMatchesFiles'
    BY DEF IInv, Retries, Owned, StateMatchesFiles
<1>4. PortKnown'
    BY <1>1 DEF IInv, Retries, PortKnown, Nested, Preparing
<1>5. ListsSound'
    BY <1>1 DEF IInv, Retries, ListsSound, Nested, SameName, Installed
<1>6. WorkSound'
    BY <1>1 DEF Retries, WorkSound
<1> QED BY <1>2, <1>3, <1>4, <1>5, <1>6 DEF IInv

LEMMA DeactivationFailsInv ==
    ASSUME IInv, op.pc = "deact", DeactivationFails,
           scene' = scene, db' = db, clock' = clock, open' \in BOOLEAN,
           IsRegistry(work'), ~open' => work' = db
    PROVE  IInv'
<1>1. op \in Operation
    BY DEF IInv, Types
<1>2. CASE op.back # "idle" /\ op.via = "target"
    <2>1. op' = [op EXCEPT !.pc = op.back, !.retry = TRUE]
        BY <1>2 DEF DeactivationFails
    <2>2. Retries
        BY <1>1, <1>2, <2>1 DEF Retries, Nested, Operation, Pcs
    <2> QED BY <2>2, RetryingInv
<1>3. CASE op.back = "replaced" /\ op.via = "direct"
    <2>1. op' = [op EXCEPT !.pc = "unmove", !.moved = {}]
        BY <1>3 DEF DeactivationFails
    <2>2. Leaves
        BY <1>1, <1>3, <2>1 DEF Leaves, Nested, Operation, Pcs
    <2> QED BY <2>2, LeavingInv
<1>4. CASE /\ ~(op.back # "idle" /\ op.via = "target")
           /\ ~(op.back = "replaced" /\ op.via = "direct")
    <2>1. op' = FailedOp
        BY <1>4 DEF DeactivationFails
    <2>2. Leaves
        BY <2>1, FailedOpIs DEF Leaves
    <2> QED BY <2>2, LeavingInv
<1> QED BY <1>2, <1>3, <1>4

LEMMA CannotDeleteInv == IInv /\ CannotDelete => IInv'
<1> SUFFICES ASSUME IInv, CannotDelete PROVE IInv'
    OBVIOUS
<1>1. IsRegistry(db)
    BY DEF IInv, Types
<1> QED BY <1>1, DeactivationFailsInv DEF CannotDelete, Rollback

(* What a deactivation commits: its victim has lost its files and its      *)
(* state, nothing else has changed.                                        *)
LEMMA DeactivationCommits ==
    ASSUME IInv, FinishDeactivating
    PROVE  /\ op.victim \in Entry /\ db.state[op.victim] = "installed"
           /\ IsRegistry(db') /\ work' = db' /\ ~open'
           /\ \A d \in Entry : db'.state[d] = IF d = op.victim THEN "imaged" ELSE db.state[d]
           /\ \A d \in Entry, f \in File :
                 db'.actual[d][f] = IF d = op.victim THEN NoPath ELSE db.actual[d][f]
<1>1. /\ op.victim \in Installed(db) /\ work.state = db.state /\ Relinquished
      /\ IsRegistry(work)
      /\ db' = [work EXCEPT !.state[op.victim] = "imaged"]
      /\ work' = db' /\ ~open'
    BY DEF FinishDeactivating, Commit, IInv, Types, WorkSound
<1>2. op.victim \in Entry /\ db.state[op.victim] = "installed"
    BY <1>1 DEF Installed
<1>3. /\ IsRegistry(db') /\ db'.actual = work.actual
      /\ \A d \in Entry : db'.state[d] = IF d = op.victim THEN "imaged" ELSE work.state[d]
    BY <1>1, <1>2, StateChangeIs
<1> QED BY <1>1, <1>2, <1>3 DEF Relinquished

LEMMA FinishDeactivatingInv == IInv /\ FinishDeactivating => IInv'
<1> SUFFICES ASSUME IInv, FinishDeactivating PROVE IInv'
    OBVIOUS
<1> DEFINE v == op.victim
<1>1. /\ v \in Entry /\ db.state[v] = "installed"
      /\ IsRegistry(db') /\ work' = db' /\ ~open'
      /\ \A d \in Entry : db'.state[d] = IF d = v THEN "imaged" ELSE db.state[d]
      /\ \A d \in Entry, f \in File :
            db'.actual[d][f] = IF d = v THEN NoPath ELSE db.actual[d][f]
    BY DeactivationCommits
<1>2. /\ op \in Operation /\ op.pc = "deact"
      /\ op' = [op EXCEPT !.pc = op.back, !.others = @ \ {v}, !.victim = None]
      /\ UNCHANGED <<scene, clock>>
    BY DEF FinishDeactivating, IInv, Types
<1>3. /\ op' \in Operation
      /\ op'.pc = op.back /\ op'.port = op.port /\ op'.stamp = op.stamp
      /\ op'.others = op.others \ {v} /\ op'.reacting = op.reacting
      /\ op'.replaced = op.replaced
      /\ op.back \in {"idle", "others", "replaced"}
    BY <1>2 DEF Operation, Pcs
<1> HIDE DEF v
<1>4. Types'
    <2>1. open' \in BOOLEAN
        BY DEF FinishDeactivating, Commit
    <2> QED BY <1>1, <1>2, <1>3, <2>1 DEF IInv, Types
<1>5. Owned'
    BY <1>1 DEF IInv, Owned
<1>6. StateMatchesFiles'
    BY <1>1 DEF IInv, StateMatchesFiles
<1>7. PortKnown'
    BY <1>1, <1>2, <1>3 DEF IInv, PortKnown, Nested, Preparing
<1>8. ListsSound'
    <2>1. \A x \in Entry : x \in Installed(db)' <=> x \in Installed(db) \ {v}
        BY <1>1 DEF Installed
    <2>2. Installed(db)' = Installed(db) \ {v} /\ SameName' = SameName \ {v}
        BY <1>3, <2>1 DEF Installed, SameName
    <2> QED BY <1>1, <1>2, <1>3, <2>2 DEF IInv, ListsSound, Nested
<1>9. WorkSound'
    BY <1>1, <1>3 DEF WorkSound
<1> QED BY <1>4, <1>5, <1>6, <1>7, <1>8, <1>9 DEF IInv

-----------------------------------------------------------------------------
(* The first transaction of an activation.                                 *)
LEMMA StartCheckingInv == IInv /\ StartChecking => IInv'
<1> SUFFICES ASSUME IInv, StartChecking PROVE IInv'
    OBVIOUS
<1>1. /\ op \in Operation /\ op.pc = "others" /\ op.others = {} /\ ~open /\ open' = TRUE
      /\ op.port \in Entry /\ work = db
      /\ op' = [op EXCEPT !.pc = "check", !.todo = Image[op.port]]
      /\ UNCHANGED <<scene, db, work, clock>>
    BY DEF StartChecking, IInv, Types, PortKnown, WorkSound
<1>2. Image[op.port] \in SUBSET File
    BY <1>1, ConstantsOK DEF ConstantsOK
<1>3. /\ op' \in Operation
      /\ op'.pc = "check" /\ op'.port = op.port /\ op'.stamp = op.stamp
      /\ op'.replaced = op.replaced
    BY <1>1, <1>2 DEF Operation, Pcs
<1>4. Types'
    BY <1>1, <1>3 DEF IInv, Types
<1>5. Owned' /\ StateMatchesFiles'
    BY <1>1 DEF IInv, Owned, StateMatchesFiles
<1>6. PortKnown'
    BY <1>1, <1>3 DEF IInv, PortKnown, Nested, Preparing
<1>7. ListsSound'
    BY <1>1, <1>3 DEF IInv, ListsSound, Nested, SameName, Installed
<1>8. WorkSound'
    <2>1. MovedFiles({})'
        BY <1>1 DEF MovedFiles
    <2> QED BY <1>1, <1>3, <2>1 DEF WorkSound
<1> QED BY <1>4, <1>5, <1>6, <1>7, <1>8 DEF IInv

LEMMA CannotExtractInv == IInv /\ CannotExtract => IInv'
<1> SUFFICES ASSUME IInv, CannotExtract PROVE IInv'
    OBVIOUS
<1>1. Leaves
    BY FailedOpIs DEF CannotExtract, Leaves, IInv, Types, WorkSound
<1> QED BY <1>1, LeavingInv

LEMMA OwnersAre ==
    ASSUME NEW r, IsRegistry(r), NEW f \in File, NEW s \in 0 .. MaxStamp
    PROVE  \A e \in Entry : e \in Owners(r, <<f, s>>) <=> r.actual[e][f] = <<f, s>>
<1>1. ASSUME NEW e \in Entry, NEW g \in File, r.actual[e][g] = <<f, s>>
      PROVE  g = f
    <2>1. r.actual[e][g] \in PathOf(g) /\ <<f, s>> # NoPath
        BY PathsDiffer DEF IsRegistry
    <2>2. PICK t \in 0 .. MaxStamp : <<f, s>> = <<g, t>>
        BY <1>1, <2>1 DEF PathOf
    <2> QED BY <2>2
<1>2. <<f, s>> # NoPath
    BY PathsDiffer
<1> QED BY <1>1, <1>2 DEF Owners, ActivePaths

(* The first transaction goes on: it has moved aside the files in F.       *)
Checks(F) ==
    /\ op.pc \in {"check", "renamed"}
    /\ scene' = scene /\ db' = db /\ clock' = clock /\ open' = open
    /\ IsRegistry(work') /\ work'.state = work.state
    /\ op' \in Operation
    /\ op'.pc \in {"check", "renamed"} /\ op'.port = op.port /\ op'.stamp = op.stamp
    /\ op'.reacting = op.reacting
    /\ op'.replaced \subseteq Installed(db)
    /\ op'.todo \subseteq op.todo
    /\ op'.pc = "renamed" => op'.cur \subseteq op'.todo
    /\ F \in SUBSET (File \ op'.todo)
    /\ MovedFiles(F)'

LEMMA CheckingInv ==
    ASSUME IInv, NEW F, Checks(F)
    PROVE  IInv'
<1>1. Types'
    BY DEF IInv, Types, Checks
<1>2. Owned' /\ StateMatchesFiles'
    BY DEF IInv, Checks, Owned, StateMatchesFiles
<1>3. PortKnown'
    BY DEF IInv, Checks, PortKnown, Nested, Preparing
<1>4. ListsSound'
    BY DEF IInv, Checks, ListsSound, Nested, SameName, Installed
<1>5. WorkSound'
    BY DEF IInv, Checks, WorkSound
<1> QED BY <1>1, <1>2, <1>3, <1>4, <1>5 DEF IInv

(* What holds while files are checked.                                     *)
LEMMA CheckFacts ==
    ASSUME IInv, op.pc \in {"check", "renamed"}
    PROVE  /\ op \in Operation /\ op.port \in Entry /\ op.stamp \in 1 .. MaxStamp
           /\ op.stamp \in 0 .. MaxStamp
           /\ IsRegistry(db) /\ IsRegistry(work) /\ open /\ work.state = db.state
           /\ op.replaced \subseteq Installed(db)
           /\ \E F \in SUBSET (File \ op.todo) : MovedFiles(F)
           /\ \A e \in Entry, f \in File :
                 /\ work.actual[e][f] = Place(f) => db.actual[e][f] = Place(f)
                 /\ work.actual[e][f] = Place(f) => e \in Installed(db)
<1>1. /\ op \in Operation /\ op.port \in Entry /\ op.stamp \in 1 .. MaxStamp
      /\ IsRegistry(db) /\ IsRegistry(work) /\ open /\ work.state = db.state
      /\ op.replaced \subseteq Installed(db)
      /\ \E F \in SUBSET (File \ op.todo) : MovedFiles(F)
    BY DEF IInv, Types, PortKnown, ListsSound, WorkSound
<1>2. op.stamp \in 0 .. MaxStamp /\ op.stamp # 0
    BY <1>1, ConstantsOK DEF ConstantsOK
<1>3. PICK F \in SUBSET (File \ op.todo) : MovedFiles(F)
    BY <1>1
<1>4. ASSUME NEW e \in Entry, NEW f \in File, work.actual[e][f] = Place(f)
      PROVE  db.actual[e][f] = Place(f) /\ e \in Installed(db)
    <2>1. <<f, op.stamp>> # Place(f)
        BY <1>2 DEF Place
    <2>2. db.actual[e][f] = Place(f)
        BY <1>3, <1>4, <2>1 DEF MovedFiles
    <2>3. Place(f) # NoPath
        BY PathsDiffer DEF Place
    <2> QED BY <2>2, <2>3 DEF IInv, StateMatchesFiles, Installed
<1> QED BY <1>1, <1>2, <1>4

LEMMA CheckReplacedInv ==
    ASSUME IInv, NEW f \in File, CheckReplaced(f)
    PROVE  IInv'
<1>1. /\ op.pc = "check" /\ f \in op.todo
      /\ op' = [op EXCEPT !.todo = @ \ {f}, !.replaced = @ \cup Replaceable(f)]
      /\ UNCHANGED <<scene, db, work, open, clock>>
    BY DEF CheckReplaced
<1>2. op \in Operation /\ IsRegistry(work) /\ op.replaced \subseteq Installed(db)
    BY <1>1, CheckFacts
<1>3. Replaceable(f) \subseteq Installed(db)
    <2>1. \A e \in Replaceable(f) : e \in Entry /\ e \in Owners(work, <<f, 0>>)
        BY DEF Replaceable, Owners, Place
    <2>2. \A e \in Replaceable(f) : e \in Entry /\ work.actual[e][f] = Place(f)
        BY <1>2, <2>1, OwnersAre, PathsDiffer DEF Place
    <2> QED BY <1>1, <2>2, CheckFacts
<1>4. /\ op' \in Operation
      /\ op'.pc = op.pc /\ op'.port = op.port /\ op'.stamp = op.stamp
      /\ op'.reacting = op.reacting
      /\ op'.replaced \subseteq Installed(db)
      /\ op'.todo = op.todo \ {f}
    <2>1. Replaceable(f) \subseteq Entry
        BY DEF Replaceable, Owners
    <2> QED BY <1>1, <1>2, <1>3, <2>1 DEF Operation, Pcs
<1>5. PICK F \in SUBSET (File \ op.todo) : MovedFiles(F)
    BY <1>1, CheckFacts
<1>6. MovedFiles(F)'
    BY <1>1, <1>4, <1>5 DEF MovedFiles
<1>7. Checks(F)
    BY <1>1, <1>2, <1>4, <1>5, <1>6 DEF Checks
<1> QED BY <1>7, CheckingInv

LEMMA CheckFreeInv ==
    ASSUME IInv, NEW f \in File, CheckFree(f)
    PROVE  IInv'
<1>1. /\ op.pc = "check" /\ op' = [op EXCEPT !.todo = @ \ {f}]
      /\ UNCHANGED <<scene, db, work, open, clock>>
    BY DEF CheckFree
<1>2. op \in Operation /\ IsRegistry(work) /\ op.replaced \subseteq Installed(db)
    BY <1>1, CheckFacts
<1>3. /\ op' \in Operation
      /\ op'.pc = op.pc /\ op'.port = op.port /\ op'.stamp = op.stamp
      /\ op'.reacting = op.reacting /\ op'.replaced = op.replaced
      /\ op'.todo = op.todo \ {f}
    BY <1>1, <1>2 DEF Operation
<1>4. PICK F \in SUBSET (File \ op.todo) : MovedFiles(F)
    BY <1>1, CheckFacts
<1>5. MovedFiles(F)'
    BY <1>1, <1>3, <1>4 DEF MovedFiles
<1>6. Checks(F)
    BY <1>1, <1>2, <1>3, <1>4, <1>5 DEF Checks
<1> QED BY <1>6, CheckingInv

LEMMA RenameAwayInv ==
    ASSUME IInv, NEW f \in File, RenameAway(f)
    PROVE  IInv'
<1>1. /\ op.pc = "check" /\ f \in op.todo
      /\ op' = [op EXCEPT !.pc = "renamed", !.cur = {f}]
      /\ UNCHANGED <<scene, db, work, open, clock>>
    BY DEF RenameAway
<1>2. op \in Operation /\ IsRegistry(work) /\ op.replaced \subseteq Installed(db)
    BY <1>1, CheckFacts
<1>3. /\ op' \in Operation
      /\ op'.pc = "renamed" /\ op'.port = op.port /\ op'.stamp = op.stamp
      /\ op'.reacting = op.reacting /\ op'.replaced = op.replaced
      /\ op'.todo = op.todo /\ op'.cur = {f}
    BY <1>1, <1>2 DEF Operation, Pcs
<1>4. PICK F \in SUBSET (File \ op.todo) : MovedFiles(F)
    BY <1>1, CheckFacts
<1>5. MovedFiles(F)'
    BY <1>1, <1>3, <1>4 DEF MovedFiles
<1>6. Checks(F)
    BY <1>1, <1>2, <1>3, <1>4, <1>5 DEF Checks
<1> QED BY <1>6, CheckingInv

LEMMA TakeOverInv ==
    ASSUME IInv, NEW f \in File, NEW b \in BOOLEAN, TakeOver(f, b),
           op.pc \in {"check", "renamed"}, f \in op.todo,
           scene' = scene, clock' = clock
    PROVE  IInv'
<1> DEFINE after == IF b THEN op.backups \cup {f} ELSE op.backups
           bak   == <<f, op.stamp>>
           moves == [op EXCEPT !.pc = "check", !.todo = @ \ {f}, !.backups = after]
<1>1. /\ op \in Operation /\ op.port \in Entry /\ op.stamp \in 1 .. MaxStamp
      /\ op.stamp \in 0 .. MaxStamp
      /\ IsRegistry(db) /\ IsRegistry(work) /\ open /\ work.state = db.state
      /\ op.replaced \subseteq Installed(db)
    BY CheckFacts
<1>2. /\ moves \in Operation
      /\ moves.pc = "check" /\ moves.port = op.port /\ moves.stamp = op.stamp
      /\ moves.reacting = op.reacting /\ moves.replaced = op.replaced
      /\ moves.todo = op.todo \ {f}
    BY <1>1 DEF Operation, Pcs
<1>3. PICK F \in SUBSET (File \ op.todo) : MovedFiles(F)
    BY CheckFacts
<1>4. CASE Rivals(f) = {} /\ op' = moves /\ UNCHANGED <<db, work, open>>
    <2>1. MovedFiles(F)'
        BY <1>2, <1>3, <1>4 DEF MovedFiles
    <2>2. Checks(F)
        BY <1>1, <1>2, <1>3, <1>4, <2>1 DEF Checks
    <2> QED BY <2>2, CheckingInv
<1>5. CASE \E o \in Rivals(f) :
             /\ Owners(work, bak) = {}
             /\ work' = MovedAside(work, o, Place(f), bak)
             /\ op' = moves
             /\ UNCHANGED <<db, open>>
    <2> PICK o \in Rivals(f) : Owners(work, bak) = {} /\ work' = MovedAside(work, o, Place(f), bak)
        BY <1>5
    <2>1. op' = moves /\ UNCHANGED <<db, open>>
        BY <1>5
    <2>2. o \in Entry /\ db.actual[o][f] = Place(f)
        <3>1. o \in Entry /\ o \in Owners(work, <<f, 0>>)
            BY DEF Rivals, Owners, Place
        <3>2. work.actual[o][f] = Place(f)
            BY <1>1, <3>1, OwnersAre, PathsDiffer DEF Place
        <3> QED BY <3>1, <3>2, CheckFacts
    <2>3. \A e \in Entry : work.actual[e][f] # bak
        BY <1>1, OwnersAre
    <2>4. /\ IsRegistry(work') /\ work'.state = work.state
          /\ \A d \in Entry, g \in File :
                work'.actual[d][g] =
                    IF d = o /\ g = f /\ work.actual[d][g] = Place(f) THEN bak ELSE work.actual[d][g]
        BY <1>1, <2>2, MovedAsideIs, SMTT(60)
    <2>5. \A e \in Entry : db.actual[e][f] = Place(f) => e = o
        BY <2>2, PathsDiffer DEF IInv, Owned, Place
    <2>6. \A g \in F : g # f
        BY <1>3
    <2>7. \A e \in Entry : work.actual[e][f] = db.actual[e][f]
        BY <1>3, <2>6 DEF MovedFiles
    <2>8. MovedFiles(F \cup {f})'
        <3>1. \A g \in F \cup {f}, e \in Entry : db.actual[e][g] # <<g, op.stamp>>
            BY <1>3, <2>3, <2>7 DEF MovedFiles
        <3>2. ASSUME NEW e \in Entry, NEW g \in File
              PROVE  work'.actual[e][g] = IF g \in F \cup {f} /\ db.actual[e][g] = Place(g)
                                            THEN <<g, op.stamp>> ELSE db.actual[e][g]
            <4>1. CASE g = f
                BY <2>2, <2>4, <2>5, <2>7, <4>1
            <4>2. CASE g # f
                BY <1>3, <2>4, <4>2 DEF MovedFiles
            <4> QED BY <4>1, <4>2
        <3> QED BY <1>2, <2>1, <3>1, <3>2 DEF MovedFiles
    <2>9. Checks(F \cup {f})
        BY <1>1, <1>2, <1>3, <2>1, <2>4, <2>8 DEF Checks
    <2> QED BY <2>9, CheckingInv
<1>6. CASE /\ Rollback
           /\ op' = [op EXCEPT !.pc = "unmove", !.moved = {}, !.backups = after]
    <2>1. Leaves
        BY <1>1, <1>6 DEF Leaves, Rollback, Operation, Pcs
    <2> QED BY <2>1, LeavingInv
<1> QED BY <1>4, <1>5, <1>6 DEF TakeOver

LEMMA NoteBackupInv ==
    ASSUME IInv, NEW f \in File, NoteBackup(f)
    PROVE  IInv'
<1>1. f \in op.todo
    BY DEF NoteBackup, IInv, ListsSound
<1> QED BY <1>1, TakeOverInv DEF NoteBackup

LEMMA CheckForcedInv ==
    ASSUME IInv, NEW f \in File, CheckForced(f)
    PROVE  IInv'
BY TakeOverInv DEF CheckForced

(* An error after which the open transaction is rolled back.               *)
LEMMA ThrowInv ==
    ASSUME IInv, NEW b \in BOOLEAN, Throw(b), scene' = scene, clock' = clock,
           op.pc \notin {"idle", "deact"}
    PROVE  IInv'
<1>1. op \in Operation /\ IsRegistry(db)
    BY DEF IInv, Types
<1>2. Leaves
    BY <1>1 DEF Throw, Rollback, Leaves, Operation, Pcs
<1> QED BY <1>2, LeavingInv

LEMMA CheckFailsInv ==
    ASSUME IInv, NEW f \in File, CheckFails(f)
    PROVE  IInv'
BY ThrowInv DEF CheckFails

(* What the first transaction commits: files of other ports are active     *)
(* under the suffix of this activation.                                    *)
LEMMA CheckingCommits ==
    ASSUME IInv, FinishChecking
    PROVE  /\ IsRegistry(db') /\ work' = db' /\ ~open' /\ db'.state = db.state
           /\ \E F \in SUBSET File :
                 /\ \A f \in F : \A e \in Entry : db.actual[e][f] # <<f, op.stamp>>
                 /\ \A e \in Entry, f \in File :
                       db'.actual[e][f] = IF f \in F /\ db.actual[e][f] = Place(f)
                                            THEN <<f, op.stamp>> ELSE db.actual[e][f]
<1>1. db' = work /\ work' = db' /\ ~open' /\ op.pc = "check"
    BY DEF FinishChecking, Commit
<1>2. IsRegistry(work) /\ work.state = db.state
    BY <1>1, CheckFacts
<1>3. PICK G \in SUBSET (File \ op.todo) : MovedFiles(G)
    BY <1>1, CheckFacts
<1>4. /\ \A f \in G : \A e \in Entry : db.actual[e][f] # <<f, op.stamp>>
      /\ \A e \in Entry, f \in File :
            db'.actual[e][f] = IF f \in G /\ db.actual[e][f] = Place(f)
                                 THEN <<f, op.stamp>> ELSE db.actual[e][f]
    BY <1>1, <1>3 DEF MovedFiles
<1>5. G \in SUBSET File
    OBVIOUS
<1> QED BY <1>1, <1>2, <1>4, <1>5

LEMMA FinishCheckingInv == IInv /\ FinishChecking => IInv'
<1> SUFFICES ASSUME IInv, FinishChecking PROVE IInv'
    OBVIOUS
<1>1. /\ op.pc = "check" /\ op' = [op EXCEPT !.pc = "replaced", !.others = op.replaced]
      /\ UNCHANGED <<scene, clock>>
    BY DEF FinishChecking
<1>2. /\ op \in Operation /\ op.stamp \in 1 .. MaxStamp /\ op.stamp \in 0 .. MaxStamp
      /\ op.replaced \subseteq Installed(db) /\ IsRegistry(db)
    BY <1>1, CheckFacts
<1>3. IsRegistry(db') /\ work' = db' /\ ~open' /\ db'.state = db.state
    BY CheckingCommits
<1>4. PICK F \in SUBSET File :
         /\ \A f \in F : \A e \in Entry : db.actual[e][f] # <<f, op.stamp>>
         /\ \A e \in Entry, f \in File :
               db'.actual[e][f] = IF f \in F /\ db.actual[e][f] = Place(f)
                                    THEN <<f, op.stamp>> ELSE db.actual[e][f]
    BY CheckingCommits
<1>5. /\ op' \in Operation
      /\ op'.pc = "replaced" /\ op'.port = op.port /\ op'.stamp = op.stamp
      /\ op'.others = op.replaced
    BY <1>1, <1>2 DEF Operation, Pcs
<1>6. Types'
    <2>1. open' \in BOOLEAN
        BY DEF FinishChecking, Commit
    <2> QED BY <1>1, <1>3, <1>5, <2>1 DEF IInv, Types
<1>7. ASSUME NEW e \in Entry, NEW f \in File
      PROVE  db'.actual[e][f] = NoPath <=> db.actual[e][f] = NoPath
    <2>1. <<f, op.stamp>> # NoPath /\ Place(f) # NoPath
        BY <1>2, PathsDiffer DEF Place
    <2> QED BY <1>4, <2>1
<1>8. StateMatchesFiles'
    BY <1>3, <1>7 DEF IInv, StateMatchesFiles
<1>9. Owned'
    <2> SUFFICES ASSUME NEW d \in Entry, NEW e \in Entry, NEW f \in File,
                        db'.actual[d][f] # NoPath, db'.actual[d][f] = db'.actual[e][f]
                 PROVE  d = e
        BY DEF Owned
    <2>1. db.actual[d][f] # NoPath
        BY <1>7
    <2>2. db.actual[d][f] = db.actual[e][f]
        BY <1>4
    <2> QED BY <2>1, <2>2 DEF IInv, Owned
<1>10. PortKnown'
    BY <1>1, <1>3, <1>5 DEF IInv, PortKnown, Nested, Preparing
<1>11. ListsSound'
    BY <1>1, <1>2, <1>3, <1>5 DEF IInv, ListsSound, Nested, SameName, Installed
<1>12. WorkSound'
    BY <1>3, <1>5 DEF WorkSound
<1> QED BY <1>6, <1>8, <1>9, <1>10, <1>11, <1>12 DEF IInv

-----------------------------------------------------------------------------
(* The second transaction of an activation.                                *)
LEMMA StartMovingInv == IInv /\ StartMoving => IInv'
<1> SUFFICES ASSUME IInv, StartMoving PROVE IInv'
    OBVIOUS
<1>1. /\ op \in Operation /\ op.pc = "replaced" /\ ~open /\ op.port \in Entry
      /\ IsRegistry(db) /\ IsRegistry(work) /\ work = db
      /\ UNCHANGED <<scene, clock>>
    BY DEF StartMoving, IInv, Types, PortKnown, WorkSound
<1>2. CASE Throw(TRUE)
    BY <1>1, <1>2, ThrowInv
<1>3. CASE /\ \A f \in Image[op.port] : Owners(work, Place(f)) = {}
           /\ open' = TRUE
           /\ work' = Activated(work, op.port)
           /\ op' = [op EXCEPT !.pc = "move", !.todo = Image[op.port]]
           /\ db' = db
    <2>1. Image[op.port] \in SUBSET File
        BY <1>1, ConstantsOK DEF ConstantsOK
    <2>2. /\ op' \in Operation
          /\ op'.pc = "move" /\ op'.port = op.port /\ op'.stamp = op.stamp
        BY <1>1, <1>3, <2>1 DEF Operation, Pcs
    <2>3. /\ IsRegistry(work') /\ work'.state = db.state
          /\ \A d \in Entry, f \in File :
                work'.actual[d][f] = IF d # op.port THEN db.actual[d][f]
                                     ELSE IF f \in Image[d] THEN Place(f) ELSE NoPath
        BY <1>1, <1>3, ActivatedIs
    <2>4. ASSUME NEW f \in Image[op.port], NEW e \in Entry
          PROVE  db.actual[e][f] # Place(f)
        <3>1. f \in File /\ e \notin Owners(db, <<f, 0>>)
            BY <1>1, <1>3, <2>1 DEF Place
        <3> QED BY <1>1, <3>1, OwnersAre, PathsDiffer DEF Place
    <2>5. Claimed'
        BY <1>3, <2>2, <2>3, <2>4 DEF Claimed
    <2>6. Types'
        BY <1>1, <1>3, <2>2, <2>3 DEF IInv, Types
    <2>7. Owned' /\ StateMatchesFiles'
        BY <1>3 DEF IInv, Owned, StateMatchesFiles
    <2>8. PortKnown'
        BY <1>1, <1>3, <2>2 DEF IInv, PortKnown, Nested, Preparing
    <2>9. ListsSound'
        BY <1>1, <1>3, <2>2 DEF IInv, ListsSound, Nested, SameName, Installed
    <2>10. WorkSound'
        BY <1>3, <2>2, <2>3, <2>5 DEF WorkSound
    <2> QED BY <2>6, <2>7, <2>8, <2>9, <2>10 DEF IInv
<1> QED BY <1>2, <1>3 DEF StartMoving

(* The second transaction goes on.                                         *)
Moves ==
    /\ op.pc \in {"move", "moved"}
    /\ scene' = scene /\ db' = db /\ work' = work /\ open' = open /\ clock' = clock
    /\ op' \in Operation
    /\ op'.pc \in {"move", "moved"} /\ op'.port = op.port /\ op'.stamp = op.stamp

LEMMA MovingInv == IInv /\ Moves => IInv'
<1> SUFFICES ASSUME IInv, Moves PROVE IInv'
    OBVIOUS
<1>1. Types'
    BY DEF IInv, Types, Moves
<1>2. Owned' /\ StateMatchesFiles'
    BY DEF IInv, Moves, Owned, StateMatchesFiles
<1>3. PortKnown'
    BY DEF IInv, Moves, PortKnown, Nested, Preparing
<1>4. ListsSound'
    BY DEF IInv, Moves, ListsSound, Nested, SameName, Installed
<1>5. WorkSound'
    BY DEF IInv, Moves, WorkSound, Claimed
<1> QED BY <1>1, <1>2, <1>3, <1>4, <1>5 DEF IInv

LEMMA MoveFileInv ==
    ASSUME IInv, NEW f \in File, MoveFile(f)
    PROVE  IInv'
<1>1. op \in Operation
    BY DEF IInv, Types
<1>2. Moves
    BY <1>1 DEF MoveFile, Moves, Operation, Pcs
<1> QED BY <1>2, MovingInv

LEMMA NoteMovedInv == IInv /\ NoteMoved => IInv'
<1> SUFFICES ASSUME IInv, NoteMoved PROVE IInv'
    OBVIOUS
<1>1. op \in Operation
    BY DEF IInv, Types
<1>2. Moves
    BY <1>1 DEF NoteMoved, Moves, Operation, Pcs
<1> QED BY <1>2, MovingInv

LEMMA CannotMoveInv ==
    ASSUME IInv, NEW f \in File, CannotMove(f)
    PROVE  IInv'
BY ThrowInv DEF CannotMove

(* What the second transaction commits: the port is active with all its    *)
(* files, where no other entry has one, and no other version of it is.     *)
LEMMA MovingCommits ==
    ASSUME IInv, FinishMoving
    PROVE  /\ op.port \in Entry /\ op.stamp \in 1 .. MaxStamp
           /\ db.state[op.port] = "imaged" /\ SameName = {}
           /\ \A f \in Image[op.port] : \A e \in Entry : db.actual[e][f] # Place(f)
           /\ IsRegistry(db') /\ work' = db' /\ ~open'
           /\ \A d \in Entry : db'.state[d] = IF d = op.port THEN "installed" ELSE db.state[d]
           /\ \A d \in Entry, f \in File :
                 db'.actual[d][f] = IF d # op.port THEN db.actual[d][f]
                                    ELSE IF f \in Image[d] THEN Place(f) ELSE NoPath
<1>1. /\ op.pc = "move" /\ db' = [work EXCEPT !.state[op.port] = "installed"]
      /\ work' = db' /\ ~open'
    BY DEF FinishMoving, Commit
<1>2. /\ op.port \in Entry /\ op.stamp \in 1 .. MaxStamp /\ db.state[op.port] = "imaged"
      /\ IsRegistry(work) /\ work.state = db.state /\ SameName = {} /\ Claimed
    BY <1>1 DEF IInv, Types, PortKnown, Preparing, ListsSound, WorkSound
<1>3. /\ IsRegistry(db') /\ db'.actual = work.actual
      /\ \A d \in Entry : db'.state[d] = IF d = op.port THEN "installed" ELSE work.state[d]
    BY <1>1, <1>2, StateChangeIs
<1> QED BY <1>1, <1>2, <1>3 DEF Claimed

LEMMA FinishMovingInv == IInv /\ FinishMoving => IInv'
<1> SUFFICES ASSUME IInv, FinishMoving PROVE IInv'
    OBVIOUS
<1> DEFINE p == op.port
<1>1. /\ p \in Entry /\ op.stamp \in 1 .. MaxStamp
      /\ \A f \in Image[p] : \A e \in Entry : db.actual[e][f] # Place(f)
      /\ IsRegistry(db') /\ work' = db' /\ ~open'
      /\ \A d \in Entry : db'.state[d] = IF d = p THEN "installed" ELSE db.state[d]
      /\ \A d \in Entry, f \in File :
            db'.actual[d][f] = IF d # p THEN db.actual[d][f]
                               ELSE IF f \in Image[d] THEN Place(f) ELSE NoPath
    BY MovingCommits
<1>2. /\ op \in Operation /\ op' = [op EXCEPT !.pc = "committed"] /\ open' = FALSE
      /\ UNCHANGED <<scene, clock>>
    BY DEF FinishMoving, Commit, IInv, Types
<1>3. /\ op' \in Operation
      /\ op'.pc = "committed" /\ op'.port = p /\ op'.stamp = op.stamp
    BY <1>2 DEF Operation, Pcs
<1> HIDE DEF p
<1>4. Types'
    BY <1>1, <1>2, <1>3 DEF IInv, Types
<1>5. Owned'
    <2> SUFFICES ASSUME NEW d \in Entry, NEW e \in Entry, NEW f \in File,
                        db'.actual[d][f] # NoPath, db'.actual[d][f] = db'.actual[e][f]
                 PROVE  d = e
        BY DEF Owned
    <2>1. CASE d # p /\ e # p
        BY <1>1, <2>1 DEF IInv, Owned
    <2>2. CASE d # p /\ e = p
        BY <1>1, <2>2
    <2>3. CASE d = p /\ e # p
        BY <1>1, <2>3
    <2> QED BY <2>1, <2>2, <2>3
<1>6. StateMatchesFiles'
    <2>1. \A f \in File : Place(f) # NoPath
        BY PathsDiffer DEF Place
    <2> QED BY <1>1, <2>1 DEF IInv, StateMatchesFiles
<1>7. PortKnown' /\ ListsSound' /\ WorkSound'
    BY <1>1, <1>3 DEF PortKnown, ListsSound, WorkSound, Nested, Preparing
<1> QED BY <1>4, <1>5, <1>6, <1>7 DEF IInv

-----------------------------------------------------------------------------
(* Faults, the rollback and the end of an operation.                       *)
LEMMA CannotCommitInv == IInv /\ CannotCommit => IInv'
<1> SUFFICES ASSUME IInv, CannotCommit PROVE IInv'
    OBVIOUS
<1>1. /\ op \in Operation /\ IsRegistry(db) /\ IsRegistry(work)
      /\ UNCHANGED <<scene, db, open, clock>>
    BY DEF CannotCommit, IInv, Types
<1> PICK kept \in BOOLEAN :
       \/ /\ op.pc = "deact" /\ op.paths = {}
          /\ work' = IF kept THEN [work EXCEPT !.state[op.victim] = "imaged"] ELSE db
          /\ IF kept /\ op.back # "idle" /\ op.via = "target"
               THEN op' = [op EXCEPT !.pc = op.back, !.others = @ \ {op.victim}]
               ELSE DeactivationFails
       \/ /\ op.pc = "check" /\ op.todo = {}
          /\ work' = IF kept THEN work ELSE db
          /\ op' = [op EXCEPT !.pc = "unmove", !.moved = {}]
       \/ /\ op.pc = "move" /\ op.todo = {}
          /\ work' = IF kept THEN [work EXCEPT !.state[op.port] = "installed"] ELSE db
          /\ op' = [op EXCEPT !.pc = "unmove", !.moved = {}]
    BY DEF CannotCommit
<1>2. CASE /\ op.pc = "deact"
           /\ work' = IF kept THEN [work EXCEPT !.state[op.victim] = "imaged"] ELSE db
           /\ IF kept /\ op.back # "idle" /\ op.via = "target"
                THEN op' = [op EXCEPT !.pc = op.back, !.others = @ \ {op.victim}]
                ELSE DeactivationFails
    <2>1. open /\ op.victim \in Entry
        BY <1>2 DEF IInv, WorkSound, Installed
    <2>2. IsRegistry(work')
        BY <1>1, <1>2, <2>1, StateChangeIs
    <2>3. CASE kept /\ op.back # "idle" /\ op.via = "target"
        <3>1. op' = [op EXCEPT !.pc = op.back, !.others = @ \ {op.victim}]
            BY <1>2, <2>3
        <3>2. /\ op' \in Operation
              /\ op'.pc = op.back /\ op'.port = op.port /\ op'.stamp = op.stamp
              /\ op'.reacting = op.reacting /\ op'.replaced = op.replaced
            BY <1>1, <3>1 DEF Operation, Pcs
        <3>3. open' \in BOOLEAN /\ open'
            BY <1>1, <2>1 DEF IInv, Types
        <3>4. Retries
            BY <1>1, <1>2, <2>2, <2>3, <3>2, <3>3 DEF Retries, Nested
        <3> QED BY <3>4, RetryingInv
    <2>4. CASE ~(kept /\ op.back # "idle" /\ op.via = "target")
        BY <1>1, <1>2, <2>1, <2>2, <2>4, DeactivationFailsInv DEF IInv, Types
    <2> QED BY <2>3, <2>4
<1>3. CASE /\ op.pc = "check"
           /\ work' = IF kept THEN work ELSE db
           /\ op' = [op EXCEPT !.pc = "unmove", !.moved = {}]
    <2>1. open /\ IsRegistry(work')
        BY <1>1, <1>3 DEF IInv, WorkSound
    <2>2. Leaves
        BY <1>1, <1>3, <2>1 DEF Leaves, Operation, Pcs, IInv, Types
    <2> QED BY <2>2, LeavingInv
<1>4. CASE /\ op.pc = "move"
           /\ work' = IF kept THEN [work EXCEPT !.state[op.port] = "installed"] ELSE db
           /\ op' = [op EXCEPT !.pc = "unmove", !.moved = {}]
    <2>1. open /\ op.port \in Entry
        BY <1>4 DEF IInv, WorkSound, PortKnown
    <2>2. IsRegistry(work')
        BY <1>1, <1>4, <2>1, StateChangeIs
    <2>3. Leaves
        BY <1>1, <1>4, <2>1, <2>2 DEF Leaves, Operation, Pcs, IInv, Types
    <2> QED BY <2>3, LeavingInv
<1> QED BY <1>2, <1>3, <1>4

LEMMA CannotBeginInv == IInv /\ CannotBegin => IInv'
<1> SUFFICES ASSUME IInv, CannotBegin PROVE IInv'
    OBVIOUS
<1>1. /\ op \in Operation /\ IsRegistry(work) /\ open
      /\ UNCHANGED <<scene, db, work, open, clock>> /\ op.pc \in {"others", "replaced"}
      /\ op' = FailedOp \/ op' = [op EXCEPT !.pc = "unmove", !.moved = {}]
    BY DEF CannotBegin, IInv, Types
<1>2. Leaves
    <2>1. CASE op' = FailedOp
        BY <1>1, <2>1, FailedOpIs DEF Leaves, IInv, Types
    <2>2. CASE op' = [op EXCEPT !.pc = "unmove", !.moved = {}]
        BY <1>1, <2>2 DEF Leaves, Operation, Pcs, IInv, Types
    <2> QED BY <1>1, <2>1, <2>2
<1> QED BY <1>2, LeavingInv

(* Steps of the rollback, and the ends of an operation, change only where  *)
(* the process stands.                                                     *)
LEMMA ElsewhereInv ==
    ASSUME IInv, UNCHANGED <<scene, db, work, open, clock>>,
           op.pc \notin {"idle", "deact"}, op' \in Operation,
           \/ op' = Idle
           \/ /\ op'.pc \in {"committed", "unmove", "react"}
              /\ op'.port = op.port /\ op'.stamp = op.stamp
    PROVE  IInv'
<1>1. Leaves
    BY DEF Leaves, IInv, Types, WorkSound
<1> QED BY <1>1, LeavingInv

LEMMA FinishActivatingInv == IInv /\ FinishActivating => IInv'
<1> SUFFICES ASSUME IInv, FinishActivating PROVE IInv'
    OBVIOUS
<1>1. op \in Operation /\ op.pc = "committed" /\ UNCHANGED <<scene, db, work, open, clock>>
    BY DEF FinishActivating, IInv, Types
<1>2. CASE op' = Idle
    BY <1>1, <1>2, IdleType, ElsewhereInv
<1>3. CASE op' = [op EXCEPT !.pc = "react", !.reacting = FALSE]
    <2>1. op' \in Operation /\ op'.pc = "react" /\ op'.port = op.port /\ op'.stamp = op.stamp
        BY <1>1, <1>3 DEF Operation, Pcs
    <2> QED BY <1>1, <2>1, ElsewhereInv
<1> QED BY <1>2, <1>3 DEF FinishActivating

LEMMA DeleteMovedInv ==
    ASSUME IInv, NEW f \in File, DeleteMoved(f)
    PROVE  IInv'
<1>1. op \in Operation
    BY DEF IInv, Types
<1>2. op' \in Operation /\ op'.pc = "unmove" /\ op'.port = op.port /\ op'.stamp = op.stamp
    BY <1>1 DEF DeleteMoved, Operation
<1> QED BY <1>2, ElsewhereInv DEF DeleteMoved

LEMMA RestoreBackupInv ==
    ASSUME IInv, NEW f \in File, RestoreBackup(f)
    PROVE  IInv'
<1>1. op \in Operation
    BY DEF IInv, Types
<1>2. op' \in Operation /\ op'.pc = "unmove" /\ op'.port = op.port /\ op'.stamp = op.stamp
    BY <1>1 DEF RestoreBackup, Operation
<1> QED BY <1>2, ElsewhereInv DEF RestoreBackup

LEMMA RollbackFailsInv == IInv /\ RollbackFails => IInv'
BY FailedOpIs, ElsewhereInv DEF RollbackFails

LEMMA FinishRestoringInv == IInv /\ FinishRestoring => IInv'
<1> SUFFICES ASSUME IInv, FinishRestoring PROVE IInv'
    OBVIOUS
<1>1. op \in Operation /\ op.pc = "unmove" /\ UNCHANGED <<scene, db, work, open, clock>>
    BY DEF FinishRestoring, IInv, Types
<1>2. CASE op' = FailedOp
    BY <1>1, <1>2, FailedOpIs, ElsewhereInv
<1>3. CASE op' = [op EXCEPT !.pc = "react", !.react = op.replaced, !.retry = FALSE]
    <2>1. op' \in Operation /\ op'.pc = "react" /\ op'.port = op.port /\ op'.stamp = op.stamp
        BY <1>1, <1>3 DEF Operation, Pcs
    <2> QED BY <1>1, <2>1, ElsewhereInv
<1> QED BY <1>2, <1>3 DEF FinishRestoring

LEMMA RethrowInv == IInv /\ Rethrow => IInv'
BY IdleType, ElsewhereInv DEF Rethrow

LEMMA SignalInv == IInv /\ Signal => IInv'
<1> SUFFICES ASSUME IInv, Signal PROVE IInv'
    OBVIOUS
<1>1. UNCHANGED <<scene, clock>>
    BY DEF Signal
<1>2. CASE op.pc = "others" /\ op' = FailedOp /\ UNCHANGED <<db, work, open>>
    BY <1>1, <1>2, FailedOpIs, ElsewhereInv
<1>3. CASE op.pc \in {"check", "renamed", "replaced", "committed"} /\ Throw(FALSE)
    BY <1>1, <1>3, ThrowInv
<1>4. CASE op.pc \in {"move", "moved"} /\ Throw(TRUE)
    BY <1>1, <1>4, ThrowInv
<1> QED BY <1>2, <1>3, <1>4 DEF Signal

LEMMA RestartInv == IInv /\ Restart => IInv'
<1> SUFFICES ASSUME IInv, Restart PROVE IInv'
    OBVIOUS
<1>1. Leaves
    BY IdleType DEF Restart, Rollback, Leaves, IInv, Types
<1> QED BY <1>1, LeavingInv

LEMMA UserCreatesInv ==
    ASSUME IInv, NEW f \in File, UserCreates(f)
    PROVE  IInv'
<1>1. Stays
    BY DEF UserCreates, Stays, IInv, Types
<1> QED BY <1>1, StayingInv

LEMMA NextInv == IInv /\ [Next]_vars => IInv'
<1> SUFFICES ASSUME IInv, [Next]_vars PROVE IInv'
    OBVIOUS
<1>1. CASE UNCHANGED vars
    BY <1>1, StayingInv DEF vars, Stays, IInv, Types
<1>2. CASE \E e \in Entry : \/ \E f \in Forces : Activate(e, f)
                            \/ Deactivate(e) \/ DeactivateOther(e) \/ Reactivate(e)
    BY <1>2, ActivateInv, DeactivateInv, DeactivateOtherInv, ReactivateInv
<1>3. CASE \E p \in Path : DeleteFile(p)
    BY <1>3, DeleteFileInv
<1>4. CASE \E f \in File : \/ CheckReplaced(f) \/ CheckFree(f) \/ RenameAway(f)
                           \/ NoteBackup(f) \/ CheckForced(f) \/ CheckFails(f)
    BY <1>4, CheckReplacedInv, CheckFreeInv, RenameAwayInv, NoteBackupInv, CheckForcedInv,
       CheckFailsInv
<1>5. CASE \E f \in File : \/ MoveFile(f) \/ CannotMove(f) \/ DeleteMoved(f)
                           \/ RestoreBackup(f) \/ UserCreates(f)
    BY <1>5, MoveFileInv, CannotMoveInv, DeleteMovedInv, RestoreBackupInv, UserCreatesInv
<1>6. CASE \/ FinishDeactivating \/ CannotDelete \/ StartChecking \/ CannotExtract
           \/ FinishChecking \/ StartMoving \/ NoteMoved \/ FinishMoving
    BY <1>6, FinishDeactivatingInv, CannotDeleteInv, StartCheckingInv, CannotExtractInv,
       FinishCheckingInv, StartMovingInv, NoteMovedInv, FinishMovingInv
<1>7. CASE \/ CannotCommit \/ CannotBegin \/ FinishActivating \/ RollbackFails
           \/ FinishRestoring \/ Rethrow \/ Signal \/ Restart
    BY <1>7, CannotCommitInv, CannotBeginInv, FinishActivatingInv, RollbackFailsInv,
       FinishRestoringInv, RethrowInv, SignalInv, RestartInv
<1> QED BY <1>1, <1>2, <1>3, <1>4, <1>5, <1>6, <1>7 DEF Next

(* In every reachable state, whatever fails: the registry is well formed,  *)
(* and what the operation in progress will commit is sound.                *)
THEOREM Invariance == Spec => []IInv
<1>1. Init => IInv
    BY InitInv
<1>2. IInv /\ [Next]_vars => IInv'
    BY NextInv
<1> QED BY <1>1, <1>2, PTL DEF Spec

(* An entry is installed exactly when all files of its image are active,   *)
(* and imaged exactly when none is, at every step, with every fault.       *)
THEOREM StatesMatch == Spec => []StateMatchesFiles
<1>1. IInv => StateMatchesFiles
    BY DEF IInv
<1> QED BY <1>1, Invariance, PTL

-----------------------------------------------------------------------------
(* The refinement. A commit is a step of ActivePorts, any other step is    *)
(* none.                                                                   *)
LEMMA InitRefines == Init => Abstract!Init
<1> SUFFICES ASSUME Init PROVE Abstract!Init
    OBVIOUS
<1>1. Installed(db) = {}
    BY DEF Init, Empty, Installed
<1>2. db.actual = [e \in Entry |-> [f \in File |-> NoPath]]
    BY DEF Init, Empty
<1> QED BY <1>1, <1>2 DEF Abstract!Init, Abstract!NoPath, NoPath

LEMMA DeactivationRefines == IInv /\ FinishDeactivating => Abstract!Next
<1> SUFFICES ASSUME IInv, FinishDeactivating PROVE Abstract!Next
    OBVIOUS
<1> DEFINE v == op.victim
<1>1. /\ v \in Entry /\ db.state[v] = "installed" /\ IsRegistry(db')
      /\ \A d \in Entry : db'.state[d] = IF d = v THEN "imaged" ELSE db.state[d]
      /\ \A d \in Entry, f \in File :
            db'.actual[d][f] = IF d = v THEN NoPath ELSE db.actual[d][f]
    BY DeactivationCommits
<1>2. IsRegistry(db)
    BY DEF IInv, Types
<1> HIDE DEF v
<1>3. v \in Installed(db) /\ Installed(db)' = Installed(db) \ {v}
    BY <1>1 DEF Installed
<1>4. db'.actual = [db.actual EXCEPT ![v] = [f \in File |-> NoPath]]
    BY <1>1, <1>2 DEF IsRegistry
<1>5. Abstract!Deactivate(v)
    BY <1>3, <1>4 DEF Abstract!Deactivate, Abstract!NoPath, NoPath
<1> QED BY <1>1, <1>5 DEF Abstract!Next

LEMMA CheckingRefines == IInv /\ FinishChecking => Abstract!Next
<1> SUFFICES ASSUME IInv, FinishChecking PROVE Abstract!Next
    OBVIOUS
<1> DEFINE s == op.stamp
<1>1. IsRegistry(db') /\ db'.state = db.state
    BY CheckingCommits
<1>2. PICK F \in SUBSET File :
         /\ \A f \in F : \A e \in Entry : db.actual[e][f] # <<f, s>>
         /\ \A e \in Entry, f \in File :
               db'.actual[e][f] = IF f \in F /\ db.actual[e][f] = Place(f)
                                    THEN <<f, s>> ELSE db.actual[e][f]
    BY CheckingCommits
<1>3. IsRegistry(db) /\ s \in 1 .. MaxStamp /\ s \in 0 .. MaxStamp
    BY CheckFacts DEF FinishChecking
<1> HIDE DEF s
<1>4. \A f \in F : <<f, s>> \notin Abstract!InUse
    <2>1. ASSUME NEW f \in F, NEW e \in Entry, NEW g \in File, db.actual[e][g] = <<f, s>>
          PROVE  FALSE
        <3>1. e \in Owners(db, <<f, s>>)
            BY <1>3, <2>1, PathsDiffer DEF Owners, ActivePaths
        <3>2. db.actual[e][f] = <<f, s>>
            BY <1>3, <3>1, OwnersAre
        <3> QED BY <1>2, <3>2
    <2> QED BY <2>1 DEF Abstract!InUse
<1>5. db'.actual = [e \in Entry |-> [f \in File |->
                       IF f \in F /\ db.actual[e][f] = <<f, 0>> THEN <<f, s>> ELSE db.actual[e][f]]]
    BY <1>1, <1>2 DEF IsRegistry, Place
<1>6. Installed(db)' = Installed(db)
    BY <1>1 DEF Installed
<1>7. Abstract!MoveAside(F, s)
    BY <1>4, <1>5, <1>6 DEF Abstract!MoveAside
<1> QED BY <1>3, <1>7 DEF Abstract!Next

LEMMA MovingRefines == IInv /\ FinishMoving => Abstract!Next
<1> SUFFICES ASSUME IInv, FinishMoving PROVE Abstract!Next
    OBVIOUS
<1> DEFINE p == op.port
<1>1. /\ p \in Entry /\ db.state[p] = "imaged" /\ SameName = {}
      /\ \A f \in Image[p] : \A e \in Entry : db.actual[e][f] # Place(f)
      /\ IsRegistry(db')
      /\ \A d \in Entry : db'.state[d] = IF d = p THEN "installed" ELSE db.state[d]
      /\ \A d \in Entry, f \in File :
            db'.actual[d][f] = IF d # p THEN db.actual[d][f]
                               ELSE IF f \in Image[d] THEN Place(f) ELSE NoPath
    BY MovingCommits
<1>2. IsRegistry(db) /\ Image[p] \in SUBSET File
    BY <1>1, ConstantsOK DEF IInv, Types, ConstantsOK
<1>3. \A x \in Installed(db) : NameOf[x] # NameOf[p]
    BY <1>1 DEF SameName
<1> HIDE DEF p
<1>4. p \notin Installed(db) /\ Installed(db)' = Installed(db) \cup {p}
    BY <1>1 DEF Installed
<1>5. \A f \in Image[p] : <<f, 0>> \notin Abstract!InUse
    <2>1. ASSUME NEW f \in Image[p], NEW e \in Entry, NEW g \in File, db.actual[e][g] = <<f, 0>>
          PROVE  FALSE
        <3>1. f \in File
            BY <1>2
        <3>2. e \in Owners(db, <<f, 0>>)
            BY <2>1, <3>1, PathsDiffer DEF Owners, ActivePaths
        <3>3. db.actual[e][f] = Place(f)
            BY <1>2, <3>1, <3>2, OwnersAre, PathsDiffer DEF Place
        <3> QED BY <1>1, <3>3
    <2> QED BY <2>1 DEF Abstract!InUse
<1>6. db'.actual = [db.actual EXCEPT ![p] =
                       [f \in File |-> IF f \in Image[p] THEN <<f, 0>> ELSE NoPath]]
    <2>1. db.actual \in [Entry -> [File -> Path \cup {NoPath}]]
          /\ db'.actual \in [Entry -> [File -> Path \cup {NoPath}]]
        BY <1>1, <1>2 DEF IsRegistry
    <2>2. db'.actual[p] = [f \in File |-> IF f \in Image[p] THEN <<f, 0>> ELSE NoPath]
        BY <1>1, <2>1 DEF Place
    <2>3. \A e \in Entry \ {p} : db'.actual[e] = db.actual[e]
        BY <1>1, <2>1
    <2> QED BY <2>1, <2>2, <2>3
<1>7. Abstract!Activate(p)
    BY <1>3, <1>4, <1>5, <1>6 DEF Abstract!Activate, Abstract!NoPath, NoPath
<1> QED BY <1>1, <1>7 DEF Abstract!Next

(* No other action changes the committed registry.                         *)
LEMMA OthersStutter ==
    [Next]_vars => FinishDeactivating \/ FinishChecking \/ FinishMoving \/ db' = db
BY DEF Next, vars, Activate, Deactivate, DeactivateOther, Reactivate, StartsDeactivating,
       DeleteFile, CheckReplaced, CheckFree, RenameAway, NoteBackup, CheckForced, TakeOver,
       CheckFails, MoveFile, CannotMove, DeleteMoved, RestoreBackup, UserCreates, CannotDelete,
       StartChecking, CannotExtract, StartMoving, NoteMoved, CannotCommit, CannotBegin,
       FinishActivating, RollbackFails, FinishRestoring, Rethrow, Signal, Restart, Throw, Rollback

(* portimage.tcl implements ActivePorts: every commit, whatever failed     *)
(* before it, activates one entry completely, deactivates one completely,  *)
(* or moves files of others aside; no path gets a second owner and no port *)
(* a second active version.                                                *)
THEOREM Refinement == Spec => RefinesActivePorts
<1>1. Init => Abstract!Init
    BY InitRefines
<1>2. IInv /\ [Next]_vars => [Abstract!Next]_<<Installed(db), db.actual>>
    <2> SUFFICES ASSUME IInv, [Next]_vars
                 PROVE  Abstract!Next \/ UNCHANGED <<Installed(db), db.actual>>
        OBVIOUS
    <2>1. CASE db' = db
        BY <2>1 DEF Installed
    <2> QED BY <2>1, OthersStutter, DeactivationRefines, CheckingRefines, MovingRefines
<1> QED BY <1>1, <1>2, Invariance, PTL DEF Spec, RefinesActivePorts, Abstract!Spec
-----------------------------------------------------------------------------
(***************************************************************************)
(* What follows from ActivePorts: two versions of a port are never active  *)
(* together, a path has one owner, and an active port owns all of its      *)
(* image. Every step of ActivePorts keeps it, so every commit does.        *)
(***************************************************************************)
(* No port has two active versions.                                        *)
OneActiveVersion == \A d, e \in Installed(db) : NameOf[d] = NameOf[e] => d = e

(* No path belongs to two entries, nor to two files of one.                *)
OneOwner ==
    \A d, e \in Entry, f, g \in File :
        db.actual[d][f] # NoPath /\ db.actual[d][f] = db.actual[e][g] => d = e /\ f = g

(* An active entry has every file of its image somewhere; no other entry   *)
(* has any.                                                                *)
Complete ==
    \A e \in Entry, f \in File :
        db.actual[e][f] # NoPath <=> f \in Image[e] /\ e \in Installed(db)

(* A file keeps its name; only its suffix may change. With it, two entries *)
(* can only meet at the same file of both.                                 *)
ActiveInv ==
    /\ Installed(db) \subseteq Entry
    /\ DOMAIN db.actual = Entry
    /\ \A e \in Entry, f \in File : db.actual[e][f] \in PathOf(f)
    /\ OneActiveVersion
    /\ OneOwner
    /\ Complete

LEMMA PathsApart == \A f, g \in File : \A x \in PathOf(f) : x \in PathOf(g) /\ x # NoPath => f = g
BY PathsDiffer DEF PathOf

LEMMA InitActive == Abstract!Init => ActiveInv
<1> SUFFICES ASSUME Abstract!Init PROVE ActiveInv
    OBVIOUS
<1>1. \A e \in Entry, f \in File : db.actual[e][f] = NoPath
    BY DEF Abstract!Init, Abstract!NoPath, NoPath
<1> QED BY <1>1 DEF Abstract!Init, Abstract!NoPath, NoPath, ActiveInv, OneActiveVersion, OneOwner, Complete, PathOf

LEMMA ActivateSound ==
    ASSUME ActiveInv, NEW e \in Entry, Abstract!Activate(e), Image[e] \subseteq File
    PROVE  ActiveInv'
<1>1. \A d \in Entry, f \in File :
          db'.actual[d][f] = IF d # e THEN db.actual[d][f] ELSE IF f \in Image[e] THEN <<f, 0>> ELSE NoPath
    BY ZenonT(60) DEF Abstract!Activate, Abstract!NoPath, NoPath, ActiveInv
<1>2. \A f \in File : <<f, 0>> # NoPath /\ <<f, 0>> \in PathOf(f) /\ 0 \in 0 .. MaxStamp
    BY PathsDiffer DEF PathOf
<1>3. \A d \in Entry, f \in File : db'.actual[d][f] \in PathOf(f)
    BY <1>1, <1>2 DEF ActiveInv, PathOf
<1>4. \A d \in Entry, f \in Image[e], g \in File : db.actual[d][g] # <<f, 0>>
    BY <1>2 DEF Abstract!Activate, Abstract!NoPath, NoPath, Abstract!InUse
<1>5. OneOwner'
    <2> SUFFICES ASSUME NEW c \in Entry, NEW d \in Entry, NEW f \in File, NEW g \in File,
                        db'.actual[c][f] # NoPath, db'.actual[c][f] = db'.actual[d][g]
                 PROVE  c = d /\ f = g
        BY DEF OneOwner
    <2>1. f = g
        BY <1>3, PathsApart
    <2>2. CASE c # e /\ d # e
        <3>1. db'.actual[c][f] = db.actual[c][f] /\ db'.actual[d][g] = db.actual[d][g]
            BY <1>1, <2>2
        <3>2. db.actual[c][f] # NoPath /\ db.actual[c][f] = db.actual[d][g]
            BY <3>1
        <3>3. OneOwner
            BY DEF ActiveInv
        <3> QED BY <3>2, <3>3 DEF OneOwner
    <2>3. CASE c = e /\ d # e
        BY <1>1, <1>4, <2>1, <2>3, ZenonT(60)
    <2>4. CASE c # e /\ d = e
        BY <1>1, <1>4, <2>1, <2>4, ZenonT(60)
    <2> QED BY <2>1, <2>2, <2>3, <2>4
<1>6. Complete'
    BY <1>1, <1>2 DEF Abstract!Activate, Abstract!NoPath, NoPath, ActiveInv, Complete
<1>7. OneActiveVersion'
    BY DEF Abstract!Activate, Abstract!NoPath, NoPath, ActiveInv, OneActiveVersion
<1> QED BY <1>3, <1>5, <1>6, <1>7 DEF Abstract!Activate, Abstract!NoPath, NoPath, ActiveInv

LEMMA DeactivateSound ==
    ASSUME ActiveInv, NEW e \in Entry, Abstract!Deactivate(e)
    PROVE  ActiveInv'
<1>1. \A d \in Entry, f \in File : db'.actual[d][f] = IF d # e THEN db.actual[d][f] ELSE NoPath
    BY DEF Abstract!Deactivate, Abstract!NoPath, NoPath, ActiveInv
<1>2. \A d \in Entry, f \in File : db'.actual[d][f] \in PathOf(f)
    BY <1>1 DEF ActiveInv, PathOf
<1>3. OneOwner'
    BY <1>1 DEF ActiveInv, OneOwner
<1>4. Complete'
    BY <1>1 DEF Abstract!Deactivate, Abstract!NoPath, NoPath, ActiveInv, Complete
<1>5. OneActiveVersion'
    BY DEF Abstract!Deactivate, Abstract!NoPath, NoPath, ActiveInv, OneActiveVersion
<1> QED BY <1>2, <1>3, <1>4, <1>5 DEF Abstract!Deactivate, Abstract!NoPath, NoPath, ActiveInv

LEMMA MoveAsideSound ==
    ASSUME ActiveInv, NEW F \in SUBSET File, NEW s \in 1 .. MaxStamp, Abstract!MoveAside(F, s)
    PROVE  ActiveInv'
<1>1. \A d \in Entry, f \in File :
          db'.actual[d][f] = IF f \in F /\ db.actual[d][f] = <<f, 0>> THEN <<f, s>> ELSE db.actual[d][f]
    BY DEF Abstract!MoveAside, Abstract!NoPath, NoPath
<1>2. \A f \in File : /\ <<f, 0>> # NoPath /\ <<f, s>> # NoPath
                      /\ <<f, s>> \in PathOf(f)
    BY PathsDiffer DEF PathOf
<1>3. \A d \in Entry, f \in File : db'.actual[d][f] \in PathOf(f)
    BY <1>1, <1>2 DEF ActiveInv
<1>4. \A d \in Entry, f \in F, g \in File : db.actual[d][g] # <<f, s>>
    BY <1>2 DEF Abstract!MoveAside, Abstract!NoPath, NoPath, Abstract!InUse
<1>5. \A d \in Entry, f \in File : db'.actual[d][f] # NoPath <=> db.actual[d][f] # NoPath
    BY <1>1, <1>2
<1>6. OneOwner'
    <2> SUFFICES ASSUME NEW c \in Entry, NEW d \in Entry, NEW f \in File, NEW g \in File,
                        db'.actual[c][f] # NoPath, db'.actual[c][f] = db'.actual[d][g]
                 PROVE  c = d /\ f = g
        BY DEF OneOwner
    <2>1. f = g
        BY <1>3, PathsApart
    <2>2. db.actual[c][f] # NoPath
        BY <1>5
    <2>3. db.actual[c][f] = db.actual[d][f]
        <3>1. db'.actual[c][f] = db'.actual[d][f]
            BY <2>1
        <3>2. CASE f \in F /\ db.actual[c][f] = <<f, 0>>
            <4>1. db'.actual[d][f] = <<f, s>>
                BY <1>1, <3>1, <3>2
            <4>2. db.actual[d][f] # <<f, s>>
                BY <1>4, <3>2
            <4>3. db.actual[d][f] = <<f, 0>>
                BY <1>1, <4>1, <4>2
            <4> QED BY <3>2, <4>3
        <3>3. CASE ~(f \in F /\ db.actual[c][f] = <<f, 0>>)
            <4>1. db'.actual[d][f] = db.actual[c][f]
                BY <1>1, <3>1, <3>3
            <4>2. f \in F => db.actual[c][f] # <<f, s>>
                BY <1>4
            <4>3. db'.actual[d][f] = db.actual[d][f]
                BY <1>1, <4>1, <4>2
            <4> QED BY <4>1, <4>3
        <3> QED BY <3>2, <3>3
    <2> QED BY <2>1, <2>2, <2>3 DEF ActiveInv, OneOwner
<1>7. Complete'
    BY <1>5 DEF Abstract!MoveAside, Abstract!NoPath, NoPath, ActiveInv, Complete
<1>8. OneActiveVersion'
    BY DEF Abstract!MoveAside, Abstract!NoPath, NoPath, ActiveInv, OneActiveVersion
<1> QED BY <1>3, <1>6, <1>7, <1>8 DEF Abstract!MoveAside, Abstract!NoPath, NoPath, ActiveInv

(* Two versions of a port are never active together, no path has two       *)
(* owners, and an active entry owns its whole image: what the code relies  *)
(* on wherever it asks the registry for the owner of a path.               *)
THEOREM ActiveSound == Spec => [](OneActiveVersion /\ OneOwner /\ Complete)
<1>1. Abstract!Init => ActiveInv
    BY InitActive
<1>2. ActiveInv /\ [Abstract!Next]_<<Installed(db), db.actual>> => ActiveInv'
    <2> SUFFICES ASSUME ActiveInv, [Abstract!Next]_<<Installed(db), db.actual>> PROVE ActiveInv'
        OBVIOUS
    <2>1. CASE UNCHANGED <<Installed(db), db.actual>>
        BY <2>1 DEF ActiveInv, OneActiveVersion, OneOwner, Complete
    <2>2. CASE Abstract!Next
        <3>1. \A e \in Entry : Image[e] \subseteq File
            BY ConstantsOK DEF ConstantsOK
        <3> QED BY <2>2, <3>1, ActivateSound, DeactivateSound, MoveAsideSound DEF Abstract!Next
    <2> QED BY <2>1, <2>2
<1>3. ActiveInv => OneActiveVersion /\ OneOwner /\ Complete
    BY DEF ActiveInv
<1> QED BY <1>1, <1>2, <1>3, Refinement, PTL DEF RefinesActivePorts, Abstract!Spec

-----------------------------------------------------------------------------
(***************************************************************************)
(* The files on the disk. KInv says that nothing disappears that a user or *)
(* an installed port has put there: the disk may hold less than the        *)
(* registry says only for the entry that is being deactivated (PortsKept). *)
(* XInv says more, but only as long as nothing has happened that the       *)
(* catch clauses of the code do not provide for: which entry's file every  *)
(* path holds at every step of an operation (Ahead), in terms of the       *)
(* registry the operation started from and of what it has done since.      *)
(* Both need that a backup's name is fresh (BackupsFree). It is, as the    *)
(* suffix of an activation is the current second, unless another           *)
(* activation began in that second.                                        *)
(***************************************************************************)
(* No two activations begin in the same second.                            *)
Ticking == ~scene.sameSecond

Stamps == 0 .. MaxStamp
On(f, s) == disk[<<f, s>>]
Somewhere(f, x) == \E s \in Stamps : On(f, s) = x
Has(r, e, f, s) == r.actual[e][f] = <<f, s>>

(* The phase of an operation: a deactivation is part of the phase that     *)
(* waits for it.                                                           *)
Phase == IF op.pc = "deact" THEN op.back ELSE op.pc

DiskType == disk \in [Path -> Content] /\ made \subseteq File

(* The suffix of an activation is the current second, and no path bears    *)
(* a later one.                                                            *)
StampsPast ==
    /\ Phase # "idle" => op.stamp = clock
    /\ \A f \in File, s \in Stamps :
          s > clock => On(f, s) = None /\ \A e \in Entry : ~Has(db, e, f, s)

(* A backup's path is unused until the file is renamed to it.              *)
BackupsFree ==
    /\ Phase = "others" =>
          /\ op.backups = {} /\ op.moved = {}
          /\ \A f \in File : On(f, op.stamp) = None /\ \A e \in Entry : ~Has(db, e, f, op.stamp)
    /\ Phase \in {"check", "renamed"} =>
          /\ op.moved = {} /\ op.backups \cap op.todo = {}
          /\ \A f \in op.todo :
                /\ \A e \in Entry : ~Has(db, e, f, op.stamp)
                /\ Phase = "check" \/ f \notin op.cur => On(f, op.stamp) = None
    /\ Phase = "replaced" => op.moved = {}
    /\ Phase = "renamed" => \E f \in op.todo : op.cur = {f} /\ On(f, 0) = None /\ Replaceable(f) = {}

(* What the second transaction has moved so far, and what the rollback has *)
(* still to delete, are files of the port.                                 *)
MovesOwn ==
    /\ Phase = "move" => op.todo \subseteq Image[op.port] /\ op.moved = Image[op.port] \ op.todo
    /\ Phase = "moved" => /\ op.todo \subseteq Image[op.port]
                          /\ op.moved \cup op.cur = Image[op.port] \ op.todo
    /\ Phase \in {"move", "moved"} => \A f \in Image[op.port] \ op.todo : On(f, 0) = op.port
    /\ Phase = "unmove" => \A f \in op.moved : /\ f \in Image[op.port] /\ On(f, 0) = op.port
                                               /\ db.state[op.port] = "imaged"

DeletesOwn == op.pc = "deact" => \A p \in op.paths : \E f \in File : p = db.actual[op.victim][f]

(* A file that was renamed has no owner any more at its place.             *)
PlacesFree ==
    /\ Phase \in {"check", "renamed"} =>
          \A f \in op.backups, e \in Entry : ~Has(work, e, f, 0)
    /\ Phase \in {"replaced", "move", "moved"} =>
          \A f \in op.backups, e \in Entry : ~Has(db, e, f, 0)

Layout == DiskType /\ StampsPast /\ BackupsFree /\ MovesOwn /\ DeletesOwn /\ PlacesFree

(* A signal right after a commit makes the rollback undo what has been     *)
(* committed; until then:                                                  *)
Sound == "signal" \notin scene.faults \/ "fault" \notin met

(* An active path holds the file of its owner, if anything.                *)
OwnFiles(r) == \A e \in Entry, f \in File, s \in Stamps : Has(r, e, f, s) => On(f, s) \in {e, None}

(* A backup is the file of the port that had it, and only the port being   *)
(* activated has a file where it was.                                      *)
BackupIs(f) == \A e \in Entry : Has(db, e, f, 0) => On(f, op.stamp) \in {e, None}
BackupsHold == \A f \in op.backups : BackupIs(f) /\ On(f, 0) \in {None, op.port}

Registered ==
    Sound =>
        /\ OwnFiles(db)
        /\ Phase \in {"check", "renamed"} => OwnFiles(work)
        /\ Phase = "renamed" => \A f \in op.cur : BackupIs(f)
        /\ Phase \in {"check", "renamed", "replaced", "move", "moved", "unmove"} => BackupsHold
        /\ Phase = "unmove" => db.state[op.port] = "imaged"

UserKept == "signal" \notin scene.faults => \A f \in made : Somewhere(f, "user")
PortsKept ==
    "fault" \notin met =>
        \A e \in Installed(db) : op.pc # "deact" \/ e # op.victim =>
            \A f \in Image[e] : Somewhere(f, e)

KInv == Layout /\ Registered /\ UserKept /\ PortsKept

(* What every step keeps.                                                  *)
Goes ==
    /\ scene' = scene /\ met \subseteq met'
    /\ op \in Operation /\ op' \in Operation

QuietDisk == db' = db /\ disk' = disk /\ clock' = clock /\ made' = made

LEMMA SoundBefore == Goes /\ Sound' => Sound
BY DEF Goes, Sound

(* Steps that end an operation, or go on with the rollback that started it.*)
LEMMA EndKeeps ==
    ASSUME IInv, KInv, Goes, QuietDisk,
           op'.pc \in {"idle", "react", "committed"},
           op'.pc # "idle" => Phase # "idle" /\ op'.stamp = op.stamp,
           op.pc = "deact" => "fault" \in met'
    PROVE  KInv'
<1>1. Phase' = op'.pc
    BY DEF Phase
<1>2. DiskType' /\ StampsPast'
    BY <1>1 DEF KInv, Layout, DiskType, StampsPast, QuietDisk, On, Has
<1>3. BackupsFree' /\ MovesOwn' /\ DeletesOwn' /\ PlacesFree'
    BY <1>1 DEF BackupsFree, MovesOwn, DeletesOwn, PlacesFree
<1>4. Registered'
    BY <1>1, SoundBefore DEF KInv, Registered, OwnFiles, On, Has, QuietDisk
<1>5. UserKept' /\ PortsKept'
    BY DEF KInv, UserKept, PortsKept, Somewhere, On, Installed, QuietDisk, Goes
<1> QED BY <1>2, <1>3, <1>4, <1>5 DEF KInv, Layout

(* Steps that enter the rollback.                                          *)
LEMMA UndoKeeps ==
    ASSUME IInv, KInv, Goes, QuietDisk,
           op'.pc = "unmove", op'.port = op.port, op'.stamp = op.stamp,
           op'.backups = op.backups,
           \/ op'.moved = {}
           \/ op'.moved = op.moved /\ op.pc \in {"replaced", "move", "moved"},
           Phase \in {"others", "check", "renamed", "replaced", "move", "moved", "committed"},
           Phase \in {"renamed", "committed"} => ~Sound',
           op.pc = "deact" => "fault" \in met'
    PROVE  KInv'
<1>1. Phase' = "unmove"
    BY DEF Phase
<1>2. DiskType' /\ StampsPast'
    BY <1>1 DEF KInv, Layout, DiskType, StampsPast, QuietDisk, On, Has
<1>3. BackupsFree' /\ DeletesOwn' /\ PlacesFree'
    BY <1>1 DEF BackupsFree, DeletesOwn, PlacesFree
<1>4. MovesOwn'
    <2>1. CASE op'.moved = {}
        BY <1>1, <2>1 DEF MovesOwn
    <2>2. CASE op'.moved = op.moved /\ op.pc = "replaced"
        BY <1>1, <2>2 DEF MovesOwn, KInv, Layout, BackupsFree, Phase
    <2>3. CASE op'.moved = op.moved /\ op.pc \in {"move", "moved"}
        <3>1. db.state[op.port] = "imaged"
            BY <2>3 DEF IInv, PortKnown, Preparing
        <3> QED BY <1>1, <2>3, <3>1 DEF MovesOwn, KInv, Layout, Phase, QuietDisk, On
    <2> QED BY <2>1, <2>2, <2>3
<1>5. Registered'
    <2> SUFFICES ASSUME Sound' PROVE Registered'
        BY DEF Registered
    <2>1. Sound /\ Phase \in {"others", "check", "replaced", "move", "moved"}
        BY SoundBefore
    <2>2. db.state[op.port] = "imaged"
        BY <2>1 DEF IInv, PortKnown, Preparing, Phase, Nested
    <2>3. BackupsHold
        BY <2>1 DEF KInv, Layout, BackupsFree, Registered, BackupsHold
    <2>4. BackupsHold'
        BY <2>3 DEF BackupsHold, BackupIs, QuietDisk, On, Has
    <2> QED BY <1>1, <2>1, <2>2, <2>4 DEF KInv, Registered, OwnFiles, On, Has, QuietDisk
<1>6. UserKept' /\ PortsKept'
    BY DEF KInv, UserKept, PortsKept, Somewhere, On, Installed, QuietDisk, Goes
<1> QED BY <1>2, <1>3, <1>4, <1>5, <1>6 DEF KInv, Layout

(* A deactivation that is tried again.                                     *)
LEMMA RetryKeeps ==
    ASSUME IInv, KInv, Goes, QuietDisk,
           op.pc = "deact", op.back # "idle", op'.pc = op.back, op'.port = op.port,
           op'.stamp = op.stamp, op'.backups = op.backups, op'.moved = op.moved,
           "fault" \in met'
    PROVE  KInv'
<1>1. Phase' = Phase /\ Phase \in {"others", "replaced"} /\ op'.pc # "deact"
    BY DEF Phase, Goes, Operation
<1>2. DiskType' /\ StampsPast'
    BY <1>1 DEF KInv, Layout, DiskType, StampsPast, QuietDisk, On, Has
<1>3. BackupsFree' /\ MovesOwn' /\ DeletesOwn' /\ PlacesFree'
    BY <1>1 DEF KInv, Layout, BackupsFree, MovesOwn, DeletesOwn, PlacesFree, QuietDisk, On, Has
<1>4. Registered'
    BY <1>1, SoundBefore
       DEF KInv, Registered, BackupsHold, BackupIs, OwnFiles, On, Has, QuietDisk
<1>5. UserKept' /\ PortsKept'
    BY DEF KInv, UserKept, PortsKept, Somewhere, On, QuietDisk, Goes
<1> QED BY <1>2, <1>3, <1>4, <1>5 DEF KInv, Layout

(* An activation begins in a second that no path bears yet.                *)
LEMMA StartKeeps ==
    ASSUME IInv, KInv, Goes, db' = db, disk' = disk, made' = made,
           clock' \in Stamps, clock' > clock, op.pc # "deact",
           op'.pc = "others", op'.stamp = clock', op'.backups = {}, op'.moved = {}
    PROVE  KInv'
<1>1. Phase' = "others" /\ clock \in Stamps
    BY DEF Phase, IInv, Types, Stamps
<1>2. DiskType'
    BY DEF KInv, Layout, DiskType
<1>3. StampsPast'
    <2> SUFFICES ASSUME NEW f \in File, NEW s \in Stamps, s > clock'
                 PROVE  On(f, s)' = None /\ \A e \in Entry : ~Has(db, e, f, s)'
        BY <1>1 DEF StampsPast
    <2>1. s > clock
        BY <1>1 DEF Stamps
    <2> QED BY <2>1 DEF KInv, Layout, StampsPast, On, Has
<1>4. BackupsFree'
    BY <1>1 DEF KInv, Layout, BackupsFree, StampsPast, On, Has
<1>5. MovesOwn' /\ DeletesOwn' /\ PlacesFree'
    BY <1>1 DEF MovesOwn, DeletesOwn, PlacesFree
<1>6. Registered'
    BY <1>1, SoundBefore DEF KInv, Registered, OwnFiles, On, Has
<1>7. UserKept' /\ PortsKept'
    BY DEF KInv, UserKept, PortsKept, Somewhere, On, Installed, Goes
<1> QED BY <1>2, <1>3, <1>4, <1>5, <1>6, <1>7 DEF KInv, Layout

LEMMA IdleIs == Idle \in Operation /\ Idle.pc = "idle"
BY IdleType DEF Idle

LEMMA FailedOpEnds ==
    ASSUME IInv
    PROVE  /\ FailedOp \in Operation /\ FailedOp.pc \in {"idle", "react"}
           /\ FailedOp.pc # "idle" => Phase # "idle" /\ FailedOp.stamp = op.stamp
BY FailedOpIs, IdleIs DEF Phase, Nested

LEMMA ActivateKeeps ==
    ASSUME Ticking, IInv, KInv, NEW e \in Entry, NEW f \in Forces, Activate(e, f)
    PROVE  KInv'
<1> PICK s \in 1 .. MaxStamp : clock' = s /\ op' = StartsActivating(e, s) /\ Ticks(s)
    BY DEF Activate
<1>1. /\ op \in Operation /\ op.pc = "idle" /\ scene \in Scenes
      /\ UNCHANGED <<scene, db, disk, made, met>>
    BY DEF Activate, IInv, Types
<1>2. /\ op' \in Operation /\ op'.pc = "others" /\ op'.stamp = s
      /\ op'.backups = {} /\ op'.moved = {}
    <2>1. s \in 0 .. MaxStamp
        OBVIOUS
    <2> QED BY <1>1, <2>1 DEF StartsActivating, Operation, Pcs, Installed
<1>3. clock' \in Stamps /\ clock' > clock
    <2>1. s = clock + 1 /\ clock \in Stamps
        BY <1>1 DEF Ticks, Ticking, IInv, Types, Stamps
    <2> QED BY <2>1 DEF Stamps
<1> QED BY <1>1, <1>2, <1>3, StartKeeps DEF Goes

LEMMA ReactivateKeeps ==
    ASSUME Ticking, IInv, KInv, NEW e \in Entry, Reactivate(e)
    PROVE  KInv'
<1> PICK s \in 1 .. MaxStamp, v \in Ways :
        /\ clock' = s /\ Ticks(s)
        /\ op' = [StartsActivating(e, s) EXCEPT !.reacting = TRUE, !.via = v,
                                                !.retry = FALSE, !.react = @ \ {e}]
    BY DEF Reactivate
<1>1. /\ op \in Operation /\ op.pc = "react" /\ scene \in Scenes
      /\ UNCHANGED <<scene, db, disk, made, met>>
    BY DEF Reactivate, IInv, Types
<1>2. /\ op' \in Operation /\ op'.pc = "others" /\ op'.stamp = s
      /\ op'.backups = {} /\ op'.moved = {}
    <2>1. s \in 0 .. MaxStamp /\ v \in {"target", "direct"}
        BY DEF Ways
    <2>2. /\ StartsActivating(e, s) \in Operation
          /\ StartsActivating(e, s).pc = "others" /\ StartsActivating(e, s).stamp = s
          /\ StartsActivating(e, s).backups = {} /\ StartsActivating(e, s).moved = {}
        BY <1>1, <2>1 DEF StartsActivating, Operation, Pcs, Installed
    <2> QED BY <2>1, <2>2 DEF Operation
<1>3. clock' \in Stamps /\ clock' > clock
    <2>1. s = clock + 1 /\ clock \in Stamps
        BY <1>1 DEF Ticks, Ticking, IInv, Types, Stamps
    <2> QED BY <2>1 DEF Stamps
<1> QED BY <1>1, <1>2, <1>3, StartKeeps DEF Goes

(* A deactivation begins, or goes on to its next file.                     *)
LEMMA DeactivatingKeeps ==
    ASSUME IInv, KInv, Goes, db' = db, clock' = clock, made' = made, work' = work \/ op.pc # "deact",
           op'.pc = "deact", Phase' = Phase, op'.port = op.port, op'.stamp = op.stamp,
           op'.backups = op.backups, op'.moved = op.moved, op'.victim \in Entry,
           op.pc = "deact" => op'.victim = op.victim,
           \A p \in op'.paths : \E f \in File : p = db.actual[op'.victim][f],
           \/ disk' = disk
           \/ /\ op.pc = "deact"
              /\ \E p \in op.paths : p \in Path /\ disk' = [disk EXCEPT ![p] = None]
    PROVE  KInv'
<1>1. Phase \in {"idle", "others", "replaced"}
    BY DEF Phase, Goes, Operation
<1>2. disk \in [Path -> Content] /\ IsRegistry(db)
    BY DEF KInv, Layout, DiskType, IInv, Types
<1>3. DiskType' /\ \A f \in File, s \in Stamps : On(f, s)' \in {On(f, s), None}
    <2>1. \A f \in File, s \in Stamps : <<f, s>> \in Path
        BY PathsDiffer DEF Stamps
    <2> QED BY <1>2, <2>1 DEF On, DiskType, Content, KInv, Layout
<1>4. \A f \in File, s \in Stamps :
         On(f, s)' # On(f, s) => /\ op.pc = "deact"
                                 /\ Has(db, op.victim, f, s)
    <2> SUFFICES ASSUME NEW f \in File, NEW s \in Stamps, On(f, s)' # On(f, s)
                 PROVE  op.pc = "deact" /\ Has(db, op.victim, f, s)
        OBVIOUS
    <2>1. <<f, s>> \in Path
        BY PathsDiffer DEF Stamps
    <2>2. op.pc = "deact" /\ <<f, s>> \in op.paths
        BY <1>2, <2>1 DEF On
    <2>3. PICK g \in File : <<f, s>> = db.actual[op.victim][g]
        BY <2>2 DEF KInv, Layout, DeletesOwn
    <2>4. g = f
        <3>1. <<f, s>> \in PathOf(g) /\ <<f, s>> # NoPath
            <4>1. op.victim \in Entry
                BY <2>2 DEF IInv, WorkSound, Installed
            <4>2. db.actual[op.victim][g] \in PathOf(g)
                BY <1>2, <4>1 DEF IsRegistry
            <4>3. <<f, s>> # NoPath
                BY PathsDiffer DEF Stamps
            <4> QED BY <2>3, <4>2, <4>3
        <3>2. PICK t \in 0 .. MaxStamp : <<f, s>> = <<g, t>>
            BY <3>1 DEF PathOf
        <3> QED BY <3>2
    <2> QED BY <2>2, <2>3, <2>4 DEF Has
<1>5. StampsPast' /\ BackupsFree' /\ MovesOwn' /\ DeletesOwn' /\ PlacesFree'
    <2>1. StampsPast'
        BY <1>1, <1>3 DEF KInv, Layout, StampsPast, Has
    <2>2. op.stamp \in Stamps
        BY DEF Stamps, Goes, Operation
    <2>3. BackupsFree'
        BY <1>1, <1>3, <2>2 DEF KInv, Layout, BackupsFree, Has
    <2>4. MovesOwn' /\ DeletesOwn' /\ PlacesFree'
        BY <1>1 DEF KInv, Layout, MovesOwn, DeletesOwn, PlacesFree, Has
    <2> QED BY <2>1, <2>3, <2>4
<1>6. Registered'
    <2> SUFFICES ASSUME Sound' PROVE Registered'
        BY DEF Registered
    <2>1. Sound
        BY SoundBefore
    <2>2. op.stamp \in Stamps /\ 0 \in Stamps
        BY PathsDiffer DEF Stamps, Goes, Operation
    <2>3. OwnFiles(db)'
        BY <1>3, <2>1 DEF KInv, Registered, OwnFiles, Has
    <2>4. Phase = "replaced" => BackupsHold'
        BY <1>3, <2>1, <2>2 DEF KInv, Registered, BackupsHold, BackupIs, Has, Goes, Operation
    <2> QED BY <1>1, <2>3, <2>4 DEF Registered
<1>7. UserKept'
    <2> SUFFICES ASSUME "signal" \notin scene.faults, NEW f \in made PROVE Somewhere(f, "user")'
        BY DEF UserKept, Goes
    <2>1. f \in File
        BY DEF KInv, Layout, DiskType
    <2>2. PICK s \in Stamps : On(f, s) = "user"
        BY DEF KInv, UserKept, Somewhere
    <2>3. On(f, s)' = On(f, s)
        <3>1. Has(db, op.victim, f, s) => op.victim \notin Entry
            BY <2>1, <2>2, ConstantsOK DEF KInv, Registered, Sound, OwnFiles, ConstantsOK
        <3> QED BY <1>4, <2>1, <3>1 DEF IInv, WorkSound, Installed
    <2> QED BY <2>2, <2>3 DEF Somewhere
<1>8. PortsKept'
    <2> SUFFICES ASSUME "fault" \notin met', NEW e \in Installed(db), e # op'.victim,
                        NEW f \in Image[e]
                 PROVE  Somewhere(f, e)'
        BY DEF PortsKept, Installed
    <2>1. f \in File /\ e \in Entry
        BY ConstantsOK DEF ConstantsOK, Installed
    <2>2. PICK s \in Stamps : On(f, s) = e
        BY DEF KInv, PortsKept, Somewhere, Goes
    <2>3. On(f, s)' = On(f, s)
        <3>1. Has(db, op.victim, f, s) => op.victim \notin Entry \/ op.victim = e
            BY <2>1, <2>2, ConstantsOK DEF KInv, Registered, Sound, OwnFiles, ConstantsOK, Goes
        <3> QED BY <1>4, <2>1, <3>1 DEF IInv, WorkSound, Installed
    <2> QED BY <2>2, <2>3 DEF Somewhere
<1> QED BY <1>3, <1>5, <1>6, <1>7, <1>8 DEF KInv, Layout

LEMMA ActivePathsAre ==
    ASSUME NEW r, NEW e
    PROVE  \A p \in ActivePaths(r, e) : \E f \in File : p = r.actual[e][f]
BY DEF ActivePaths

LEMMA DeactivateKeeps ==
    ASSUME IInv, KInv, NEW e \in Entry, Deactivate(e)
    PROVE  KInv'
<1>1. /\ op \in Operation /\ op.pc = "idle" /\ work = db /\ IsRegistry(work)
      /\ op' = [op EXCEPT !.pc = "deact", !.victim = e, !.back = "idle",
                          !.paths = ActivePaths(work, e)]
      /\ UNCHANGED <<scene, db, disk, clock, made, met>>
    BY DEF Deactivate, StartsDeactivating, IInv, Types, PortKnown, WorkSound
<1>2. /\ op' \in Operation
      /\ op'.pc = "deact" /\ op'.victim = e /\ op'.back = "idle" /\ op'.port = op.port
      /\ op'.stamp = op.stamp /\ op'.backups = op.backups /\ op'.moved = op.moved
      /\ op'.paths = ActivePaths(db, e)
    BY <1>1, ActivePathsType DEF Operation, Pcs
<1>3. Phase' = Phase
    BY <1>1, <1>2 DEF Phase
<1> QED BY <1>1, <1>2, <1>3, ActivePathsAre, DeactivatingKeeps DEF Goes

LEMMA DeactivateOtherKeeps ==
    ASSUME IInv, KInv, NEW e \in Entry, DeactivateOther(e)
    PROVE  KInv'
<1> PICK v \in Ways :
        op' = [op EXCEPT !.pc = "deact", !.victim = e, !.back = op.pc,
                         !.paths = ActivePaths(work, e), !.via = v, !.retry = FALSE]
    BY DEF DeactivateOther
<1>1. /\ op \in Operation /\ op.pc \in {"others", "replaced"} /\ work = db /\ IsRegistry(work)
      /\ UNCHANGED <<scene, db, disk, clock, made, met>>
    BY DEF DeactivateOther, StartsDeactivating, IInv, Types, WorkSound
<1>2. /\ op' \in Operation
      /\ op'.pc = "deact" /\ op'.victim = e /\ op'.back = op.pc /\ op'.port = op.port
      /\ op'.stamp = op.stamp /\ op'.backups = op.backups /\ op'.moved = op.moved
      /\ op'.paths = ActivePaths(db, e)
    <2>1. v \in {"target", "direct"}
        BY DEF Ways
    <2> QED BY <1>1, <2>1, ActivePathsType, ZenonT(60) DEF Operation, Pcs
<1>3. Phase' = Phase
    BY <1>1, <1>2 DEF Phase
<1> QED BY <1>1, <1>2, <1>3, ActivePathsAre, DeactivatingKeeps DEF Goes

LEMMA DeleteFileKeeps ==
    ASSUME IInv, KInv, NEW p \in Path, DeleteFile(p)
    PROVE  KInv'
<1>1. /\ op \in Operation /\ op.pc = "deact" /\ p \in op.paths
      /\ op' = [op EXCEPT !.paths = @ \ {p}] /\ disk' = [disk EXCEPT ![p] = None]
      /\ UNCHANGED <<scene, db, work, clock, made, met>>
    BY DEF DeleteFile, IInv, Types
<1>2. /\ op' \in Operation
      /\ op'.pc = "deact" /\ op'.victim = op.victim /\ op'.back = op.back /\ op'.port = op.port
      /\ op'.stamp = op.stamp /\ op'.backups = op.backups /\ op'.moved = op.moved
      /\ op'.paths \subseteq op.paths
    BY <1>1 DEF Operation
<1>3. Phase' = Phase /\ op.victim \in Entry
    BY <1>1, <1>2 DEF Phase, IInv, WorkSound, Installed
<1>4. \A q \in op'.paths : \E f \in File : q = db.actual[op'.victim][f]
    BY <1>1, <1>2 DEF KInv, Layout, DeletesOwn
<1> QED BY <1>1, <1>2, <1>3, <1>4, DeactivatingKeeps DEF Goes

LEMMA FinishDeactivatingKeeps == IInv /\ KInv /\ FinishDeactivating => KInv'
<1> SUFFICES ASSUME IInv, KInv, FinishDeactivating PROVE KInv'
    OBVIOUS
<1> DEFINE v == op.victim
<1>1. /\ v \in Entry
      /\ \A d \in Entry : db'.state[d] = IF d = v THEN "imaged" ELSE db.state[d]
      /\ \A d \in Entry, f \in File :
            db'.actual[d][f] = IF d = v THEN NoPath ELSE db.actual[d][f]
    BY DeactivationCommits
<1>2. /\ op \in Operation /\ op.pc = "deact"
      /\ op' = [op EXCEPT !.pc = op.back, !.others = @ \ {v}, !.victim = None]
      /\ UNCHANGED <<scene, disk, clock, made, met>>
    BY DEF FinishDeactivating, IInv, Types
<1>3. /\ op' \in Operation
      /\ op'.pc = op.back /\ op'.port = op.port /\ op'.stamp = op.stamp
      /\ op'.backups = op.backups /\ op'.moved = op.moved
      /\ op.back \in {"idle", "others", "replaced"}
    BY <1>2 DEF Operation, Pcs
<1>4. Phase' = Phase /\ Phase \in {"idle", "others", "replaced"} /\ op'.pc # "deact" /\ Goes
    BY <1>2, <1>3 DEF Phase, Goes
<1>5. \A d \in Entry, f \in File, s \in Stamps : Has(db, d, f, s)' => d # v /\ Has(db, d, f, s)
    <2> SUFFICES ASSUME NEW d \in Entry, NEW f \in File, NEW s \in Stamps, Has(db, d, f, s)'
                 PROVE  d # v /\ Has(db, d, f, s)
        OBVIOUS
    <2>1. <<f, s>> # NoPath
        BY PathsDiffer DEF Stamps
    <2>2. db'.actual[d][f] = <<f, s>>
        BY DEF Has
    <2>3. db'.actual[d][f] = IF d = v THEN NoPath ELSE db.actual[d][f]
        BY <1>1
    <2> QED BY <2>1, <2>2, <2>3 DEF Has
<1>6. op.stamp \in Stamps /\ 0 \in Stamps /\ op.backups \subseteq File
    BY <1>2, PathsDiffer DEF Stamps, Operation
<1> HIDE DEF v
<1>7. DiskType' /\ StampsPast'
    BY <1>2, <1>3, <1>4, <1>5 DEF KInv, Layout, DiskType, StampsPast, On
<1>8. BackupsFree'
    BY <1>2, <1>3, <1>4, <1>5, <1>6 DEF KInv, Layout, BackupsFree, On
<1>9. MovesOwn' /\ DeletesOwn' /\ PlacesFree'
    <2>1. MovesOwn' /\ DeletesOwn'
        BY <1>3, <1>4 DEF MovesOwn, DeletesOwn
    <2>2. PlacesFree'
        BY <1>3, <1>4, <1>5, <1>6 DEF KInv, Layout, PlacesFree
    <2> QED BY <2>1, <2>2
<1>10. Registered'
    <2> SUFFICES ASSUME Sound' PROVE Registered'
        BY DEF Registered
    <2>1. Sound
        BY <1>4, SoundBefore
    <2>2. OwnFiles(db)'
        BY <1>2, <1>5, <2>1 DEF KInv, Registered, OwnFiles, On
    <2>3. Phase = "replaced" => BackupsHold'
        BY <1>2, <1>3, <1>5, <1>6, <2>1 DEF KInv, Registered, BackupsHold, BackupIs, On
    <2> QED BY <1>4, <2>2, <2>3 DEF Registered
<1>11. UserKept'
    BY <1>2 DEF KInv, UserKept, Somewhere, On
<1>12. PortsKept'
    <2>1. \A e \in Installed(db)' : e \in Installed(db) /\ e # v
        BY <1>1 DEF Installed
    <2> QED BY <1>2, <2>1 DEF v, KInv, PortsKept, Somewhere, On
<1> QED BY <1>7, <1>8, <1>9, <1>10, <1>11, <1>12 DEF KInv, Layout

LEMMA DeactivationFailsKeeps ==
    ASSUME IInv, KInv, op.pc = "deact", DeactivationFails, QuietDisk, scene' = scene,
           met' = met \cup {"fault"}
    PROVE  KInv'
<1>1. op \in Operation
    BY DEF IInv, Types
<1>2. CASE op.back # "idle" /\ op.via = "target"
    <2>1. op' = [op EXCEPT !.pc = op.back, !.retry = TRUE]
        BY <1>2 DEF DeactivationFails
    <2>2. /\ op' \in Operation /\ op'.pc = op.back /\ op'.port = op.port /\ op'.stamp = op.stamp
          /\ op'.backups = op.backups /\ op'.moved = op.moved
        BY <1>1, <2>1 DEF Operation, Pcs
    <2> QED BY <1>1, <1>2, <2>2, RetryKeeps DEF Goes
<1>3. CASE op.back = "replaced" /\ op.via = "direct"
    <2>1. op' = [op EXCEPT !.pc = "unmove", !.moved = {}]
        BY <1>3 DEF DeactivationFails
    <2>2. /\ op' \in Operation /\ op'.pc = "unmove" /\ op'.port = op.port /\ op'.stamp = op.stamp
          /\ op'.backups = op.backups /\ op'.moved = {}
        BY <1>1, <2>1 DEF Operation, Pcs
    <2>3. Phase = "replaced"
        BY <1>3 DEF Phase
    <2> QED BY <1>1, <2>2, <2>3, UndoKeeps DEF Goes
<1>4. CASE /\ ~(op.back # "idle" /\ op.via = "target")
           /\ ~(op.back = "replaced" /\ op.via = "direct")
    <2>1. op' = FailedOp
        BY <1>4 DEF DeactivationFails
    <2>2. "fault" \in met' /\ met \subseteq met'
        OBVIOUS
    <2>3. FailedOp.pc \in {"idle", "react", "committed"}
        BY FailedOpEnds
    <2> QED BY <1>1, <2>1, <2>2, <2>3, FailedOpEnds, EndKeeps DEF Goes
<1> QED BY <1>2, <1>3, <1>4

LEMMA CannotDeleteKeeps == IInv /\ KInv /\ CannotDelete => KInv'
BY DeactivationFailsKeeps DEF CannotDelete, Rollback, QuietDisk

-----------------------------------------------------------------------------
(* The first transaction.                                                  *)
LEMMA CannotExtractKeeps == IInv /\ KInv /\ CannotExtract => KInv'
<1> SUFFICES ASSUME IInv, KInv, CannotExtract PROVE KInv'
    OBVIOUS
<1>1. /\ op \in Operation /\ op.pc = "others" /\ op' = FailedOp
      /\ UNCHANGED <<scene, db, disk, clock, made, met>>
    BY DEF CannotExtract, IInv, Types
<1> QED BY <1>1, FailedOpEnds, EndKeeps DEF Goes, QuietDisk

LEMMA StartCheckingKeeps == IInv /\ KInv /\ StartChecking => KInv'
<1> SUFFICES ASSUME IInv, KInv, StartChecking PROVE KInv'
    OBVIOUS
<1>1. /\ op \in Operation /\ op.pc = "others" /\ work = db /\ op.port \in Entry
      /\ op' = [op EXCEPT !.pc = "check", !.todo = Image[op.port]]
      /\ UNCHANGED <<scene, db, work, disk, clock, made, met>>
    BY DEF StartChecking, IInv, Types, PortKnown, WorkSound
<1>2. Image[op.port] \in SUBSET File
    BY <1>1, ConstantsOK DEF ConstantsOK
<1>3. /\ op' \in Operation /\ op'.pc = "check" /\ op'.port = op.port /\ op'.stamp = op.stamp
      /\ op'.todo = Image[op.port] /\ op'.backups = op.backups /\ op'.moved = op.moved
    BY <1>1, <1>2 DEF Operation, Pcs
<1>4. Phase = "others" /\ Phase' = "check" /\ Goes
    BY <1>1, <1>3 DEF Phase, Goes
<1>5. op.backups = {} /\ op.moved = {}
    BY <1>4 DEF KInv, Layout, BackupsFree
<1>6. DiskType' /\ StampsPast'
    BY <1>1, <1>3, <1>4 DEF KInv, Layout, DiskType, StampsPast, On, Has
<1>7. BackupsFree'
    BY <1>1, <1>2, <1>3, <1>4, <1>5 DEF KInv, Layout, BackupsFree, On, Has
<1>8. MovesOwn' /\ DeletesOwn' /\ PlacesFree'
    BY <1>3, <1>4, <1>5 DEF MovesOwn, DeletesOwn, PlacesFree
<1>9. Registered'
    BY <1>1, <1>3, <1>4, <1>5, SoundBefore DEF KInv, Registered, OwnFiles, BackupsHold, On, Has
<1>10. UserKept' /\ PortsKept'
    BY <1>1, <1>3 DEF KInv, UserKept, PortsKept, Somewhere, On, Installed
<1> QED BY <1>6, <1>7, <1>8, <1>9, <1>10 DEF KInv, Layout

(* A file has been checked, and nothing done about it yet.                 *)
LEMMA CheckedKeeps ==
    ASSUME IInv, KInv, Goes, QuietDisk, work' = work,
           op.pc = "check", op'.pc = "check", op'.port = op.port, op'.stamp = op.stamp,
           op'.todo \subseteq op.todo, op'.backups = op.backups, op'.moved = op.moved
    PROVE  KInv'
<1>1. Phase = "check" /\ Phase' = "check"
    BY DEF Phase
<1>2. DiskType' /\ StampsPast'
    BY <1>1 DEF KInv, Layout, DiskType, StampsPast, On, Has, QuietDisk
<1>3. BackupsFree'
    BY <1>1 DEF KInv, Layout, BackupsFree, On, Has, QuietDisk
<1>4. MovesOwn' /\ DeletesOwn' /\ PlacesFree'
    BY <1>1 DEF KInv, Layout, MovesOwn, DeletesOwn, PlacesFree, Has
<1>5. Registered'
    BY <1>1, SoundBefore DEF KInv, Registered, OwnFiles, BackupsHold, BackupIs, On, Has, QuietDisk
<1>6. UserKept' /\ PortsKept'
    BY DEF KInv, UserKept, PortsKept, Somewhere, On, Installed, QuietDisk, Goes
<1> QED BY <1>2, <1>3, <1>4, <1>5, <1>6 DEF KInv, Layout

LEMMA CheckReplacedKeeps ==
    ASSUME IInv, KInv, NEW f \in File, CheckReplaced(f)
    PROVE  KInv'
<1>1. /\ op \in Operation /\ op.pc = "check"
      /\ op' = [op EXCEPT !.todo = @ \ {f}, !.replaced = @ \cup Replaceable(f)]
      /\ UNCHANGED <<scene, db, work, disk, clock, made, met>>
    BY DEF CheckReplaced, IInv, Types
<1>2. /\ op' \in Operation /\ op'.pc = "check" /\ op'.port = op.port /\ op'.stamp = op.stamp
      /\ op'.todo \subseteq op.todo /\ op'.backups = op.backups /\ op'.moved = op.moved
    <2>1. Replaceable(f) \subseteq Entry
        BY DEF Replaceable, Owners
    <2> QED BY <1>1, <2>1 DEF Operation
<1> QED BY <1>1, <1>2, CheckedKeeps DEF Goes, QuietDisk

LEMMA CheckFreeKeeps ==
    ASSUME IInv, KInv, NEW f \in File, CheckFree(f)
    PROVE  KInv'
<1>1. /\ op \in Operation /\ op.pc = "check" /\ op' = [op EXCEPT !.todo = @ \ {f}]
      /\ UNCHANGED <<scene, db, work, disk, clock, made, met>>
    BY DEF CheckFree, IInv, Types
<1>2. /\ op' \in Operation /\ op'.pc = "check" /\ op'.port = op.port /\ op'.stamp = op.stamp
      /\ op'.todo \subseteq op.todo /\ op'.backups = op.backups /\ op'.moved = op.moved
    BY <1>1 DEF Operation
<1> QED BY <1>1, <1>2, CheckedKeeps DEF Goes, QuietDisk

(* The transaction has not touched the files still to be checked.          *)
LEMMA TodoUntouched ==
    ASSUME IInv, op.pc \in {"check", "renamed"}
    PROVE  /\ \A e \in Entry, f \in op.todo : work.actual[e][f] = db.actual[e][f]
           /\ \A d, e \in Entry, f \in File : Has(work, d, f, 0) /\ Has(work, e, f, 0) => d = e
           /\ \A e \in Entry, f \in File : Has(work, e, f, 0) => Has(db, e, f, 0) /\ e # op.port
           /\ op.todo \subseteq File /\ op.backups \subseteq File /\ op.stamp \in Stamps /\ 0 \in Stamps
           /\ op.stamp # 0
<1>1. PICK F \in SUBSET (File \ op.todo) : MovedFiles(F)
    BY CheckFacts
<1>2. op.todo \subseteq File /\ op.backups \subseteq File /\ op.stamp \in Stamps /\ 0 \in Stamps
    BY CheckFacts, PathsDiffer DEF Operation, Stamps
<1>3. op.stamp # 0
    BY CheckFacts
<1>4. ASSUME NEW e \in Entry, NEW f \in File, Has(work, e, f, 0)
      PROVE  Has(db, e, f, 0) /\ e # op.port
    <2>1. Has(db, e, f, 0) /\ e \in Installed(db)
        BY <1>4, CheckFacts DEF Has, Place
    <2>2. db.state[op.port] = "imaged"
        BY DEF IInv, PortKnown, Preparing
    <2> QED BY <2>1, <2>2 DEF Installed
<1>5. ASSUME NEW d \in Entry, NEW e \in Entry, NEW f \in File, Has(work, d, f, 0), Has(work, e, f, 0)
      PROVE  d = e
    <2>1. db.actual[d][f] = <<f, 0>> /\ db.actual[e][f] = <<f, 0>> /\ <<f, 0>> # NoPath
        BY <1>4, <1>5, PathsDiffer DEF Has
    <2> QED BY <2>1 DEF IInv, Owned
<1>6. \A e \in Entry, f \in op.todo : work.actual[e][f] = db.actual[e][f]
    BY <1>1, <1>2 DEF MovedFiles
<1> QED BY <1>2, <1>3, <1>4, <1>5, <1>6

LEMMA RenameAwayKeeps ==
    ASSUME IInv, KInv, NEW f \in File, RenameAway(f)
    PROVE  KInv'
<1>1. /\ op \in Operation /\ op.pc = "check" /\ f \in op.todo
      /\ disk' = [disk EXCEPT ![<<f, op.stamp>>] = disk[<<f, 0>>], ![<<f, 0>>] = None]
      /\ op' = [op EXCEPT !.pc = "renamed", !.cur = {f}]
      /\ UNCHANGED <<scene, db, work, open, clock, made, met>>
    BY DEF RenameAway, IInv, Types, Place
<1>2. /\ op' \in Operation /\ op'.pc = "renamed" /\ op'.port = op.port /\ op'.stamp = op.stamp
      /\ op'.todo = op.todo /\ op'.backups = op.backups /\ op'.moved = op.moved
      /\ op'.cur = {f}
    BY <1>1 DEF Operation, Pcs
<1>3. Phase = "check" /\ Phase' = "renamed" /\ Goes
    BY <1>1, <1>2 DEF Phase, Goes
<1> DEFINE t == op.stamp
<1>4. t \in Stamps /\ 0 \in Stamps /\ t # 0 /\ op.backups \subseteq File /\ op.todo \subseteq File
      /\ \A e \in Entry : work.actual[e][f] = db.actual[e][f]
    BY <1>1, TodoUntouched
<1>5. disk \in [Path -> Content]
    BY DEF KInv, Layout, DiskType
<1>6. /\ DiskType'
      /\ \A g \in File, s \in Stamps :
            On(g, s)' = IF g = f /\ s = t THEN On(f, 0) ELSE IF g = f /\ s = 0 THEN None ELSE On(g, s)
    <2>1. \A g \in File, s \in Stamps : <<g, s>> \in Path
        BY PathsDiffer DEF Stamps
    <2>2. disk[<<f, 0>>] \in Content /\ None \in Content
        BY <1>4, <1>5, <2>1 DEF Content
    <2>3. DiskType'
        BY <1>1, <1>5, <2>2 DEF DiskType, KInv, Layout
    <2>4. ASSUME NEW g \in File, NEW s \in Stamps
          PROVE  On(g, s)' = IF g = f /\ s = t THEN On(f, 0)
                             ELSE IF g = f /\ s = 0 THEN None ELSE On(g, s)
        BY <1>1, <1>4, <1>5, <2>1 DEF On
    <2> QED BY <2>3, <2>4
<1>7. t = clock /\ On(f, t) = None /\ \A e \in Entry : ~Has(db, e, f, t) /\ ~Has(work, e, f, t)
    BY <1>1, <1>3, <1>4 DEF KInv, Layout, StampsPast, BackupsFree, Has
<1>8. t' = t
    BY <1>2
<1> HIDE DEF t
<1>9. StampsPast'
    <2> SUFFICES ASSUME NEW g \in File, NEW s \in Stamps, s > clock PROVE On(g, s)' = None
        BY <1>1, <1>2, <1>3, <1>7 DEF KInv, Layout, StampsPast, Has, t
    <2>1. s # t /\ On(g, s) = None
        BY <1>4, <1>7 DEF KInv, Layout, StampsPast, Stamps
    <2> QED BY <1>6, <2>1
<1>10. BackupsFree'
    <2>1. \A g \in op.todo : \A e \in Entry : ~Has(db, e, g, t)
        BY <1>3 DEF KInv, Layout, BackupsFree, t
    <2>2. \A g \in op.todo : g # f => On(g, t)' = None
        BY <1>3, <1>4, <1>6, <1>8 DEF KInv, Layout, BackupsFree, t
    <2>3. On(f, 0)' = None
        BY <1>4, <1>6
    <2>4. op.moved = {} /\ op.backups \cap op.todo = {}
        BY <1>3 DEF KInv, Layout, BackupsFree
    <2>5. Replaceable(f)' = {}
        BY <1>1, <1>2 DEF RenameAway, Replaceable, Owners
    <2> QED BY <1>1, <1>2, <1>3, <2>1, <2>2, <2>3, <2>4, <2>5, ZenonT(60)
            DEF BackupsFree, Has, t, On
<1>11. MovesOwn' /\ DeletesOwn' /\ PlacesFree'
    BY <1>1, <1>2, <1>3 DEF KInv, Layout, MovesOwn, DeletesOwn, PlacesFree, Has
<1>12. Registered'
    <2> SUFFICES ASSUME Sound' PROVE Registered'
        BY DEF Registered
    <2>1. Sound /\ OwnFiles(db) /\ OwnFiles(work) /\ BackupsHold
        BY <1>3, SoundBefore DEF KInv, Registered
    <2>2. OwnFiles(db)' /\ OwnFiles(work)'
        BY <1>1, <1>4, <1>6, <1>7, <2>1 DEF OwnFiles, Has
    <2>3. BackupIs(f)'
        BY <1>1, <1>2, <1>4, <1>6, <2>1 DEF BackupIs, OwnFiles, Has, t
    <2>4. f \notin op.backups
        BY <1>1, <1>3 DEF KInv, Layout, BackupsFree
    <2>5. BackupsHold'
        BY <1>1, <1>2, <1>4, <1>6, <2>1, <2>4 DEF BackupsHold, BackupIs, Has, t
    <2> QED BY <1>2, <1>3, <2>2, <2>3, <2>5 DEF Registered
<1>13. \A g \in File, x \in Entry \cup {"user"} : Somewhere(g, x) => Somewhere(g, x)'
    <2> SUFFICES ASSUME NEW g \in File, NEW x \in Entry \cup {"user"}, NEW s \in Stamps, On(g, s) = x
                 PROVE  \E r \in Stamps : On(g, r)' = x
        BY DEF Somewhere
    <2>1. x # None
        BY ConstantsOK DEF ConstantsOK
    <2>2. CASE g = f /\ s = 0
        <3>1. On(g, t)' = x
            BY <1>4, <1>6, <1>8, <2>2
        <3> QED BY <1>4, <1>8, <3>1
    <2>3. CASE ~(g = f /\ s = 0)
        <3>1. On(g, s)' = x
            BY <1>6, <1>7, <2>1, <2>3
        <3> QED BY <3>1
    <2> QED BY <2>2, <2>3
<1>14. UserKept' /\ PortsKept'
    BY <1>1, <1>3, <1>13, ConstantsOK
       DEF KInv, Layout, DiskType, UserKept, PortsKept, Installed, ConstantsOK, Goes
<1> QED BY <1>6, <1>9, <1>10, <1>11, <1>12, <1>14 DEF KInv, Layout

(* The owner's entry follows the file: in the transaction nobody is left   *)
(* at its place, and the backup has at most that owner.                    *)
LEMMA TakeOverIs ==
    ASSUME IInv, KInv, NEW f \in File, NEW b \in BOOLEAN, TakeOver(f, b),
           op.pc \in {"check", "renamed"}, f \in op.todo, Replaceable(f) = {}
    PROVE  /\ op' = [op EXCEPT !.pc = "check", !.todo = @ \ {f},
                               !.backups = IF b THEN op.backups \cup {f} ELSE op.backups]
           /\ db' = db
           /\ \A e \in Entry, g \in File :
                 work'.actual[e][g] = IF g = f /\ Has(work, e, f, 0) THEN <<f, op.stamp>>
                                      ELSE work.actual[e][g]
           /\ \A e \in Entry : ~Has(work, e, f, 0)'
<1> DEFINE bak == <<f, op.stamp>>
           moves == [op EXCEPT !.pc = "check", !.todo = @ \ {f},
                               !.backups = IF b THEN op.backups \cup {f} ELSE op.backups]
           Follows == \A e \in Entry, g \in File :
                         work'.actual[e][g] = IF g = f /\ Has(work, e, f, 0) THEN bak
                                              ELSE work.actual[e][g]
<1>1. /\ op \in Operation /\ op.stamp \in 0 .. MaxStamp /\ IsRegistry(work)
      /\ op.stamp # 0 /\ 0 \in 0 .. MaxStamp
    BY CheckFacts, TodoUntouched, PathsDiffer
<1>2. Owners(work, bak) = {}
    <2>1. Phase \in {"check", "renamed"}
        BY DEF Phase
    <2>2. \A e \in Entry : ~Has(work, e, f, op.stamp)
        BY <2>1, TodoUntouched DEF KInv, Layout, BackupsFree, Has
    <2>3. \A e \in Entry : e \notin Owners(work, bak)
        BY <1>1, <2>2, OwnersAre DEF Has
    <2> QED BY <2>3 DEF Owners
<1>3. \A e \in Entry : e \in Rivals(f) <=> Has(work, e, f, 0)
    <2>1. \A e \in Entry : e \in Owners(work, Place(f)) <=> Has(work, e, f, 0)
        BY <1>1, OwnersAre DEF Has, Place
    <2>2. \A e \in Entry : Has(work, e, f, 0) => e # op.port
        BY TodoUntouched
    <2> QED BY <2>1, <2>2 DEF Rivals
<1>4. CASE Rivals(f) = {} /\ op' = moves /\ UNCHANGED <<db, work, open>>
    <2>1. op' = moves /\ db' = db /\ Follows
        BY <1>3, <1>4
    <2> QED BY <1>3, <1>4, <2>1 DEF Has
<1>5. ASSUME NEW o \in Rivals(f), work' = MovedAside(work, o, Place(f), bak)
      PROVE  Follows
    <2>1. o \in Entry /\ Has(work, o, f, 0)
        BY <1>3 DEF Rivals, Owners
    <2>2. \A d \in Entry, g \in File :
             work'.actual[d][g] =
                 IF d = o /\ g = f /\ work.actual[d][g] = Place(f) THEN bak ELSE work.actual[d][g]
        BY <1>1, <1>5, <2>1, MovedAsideIs
    <2>3. \A e \in Entry : Has(work, e, f, 0) => e = o
        BY <2>1, TodoUntouched
    <2> QED BY <2>1, <2>2, <2>3 DEF Has, Place
<1>6. ASSUME Follows, NEW e \in Entry PROVE ~Has(work, e, f, 0)'
    <2>1. bak # <<f, 0>>
        BY <1>1
    <2>2. work'.actual[e][f] # <<f, 0>>
        BY <1>6, <2>1 DEF Has
    <2> QED BY <2>2 DEF Has
<1>7. op' = moves /\ db' = db /\ Follows
    BY <1>2, <1>3, <1>4, <1>5 DEF TakeOver
<1> QED BY <1>6, <1>7

LEMMA TakeOverKeeps ==
    ASSUME IInv, KInv, NEW f \in File, NEW b \in BOOLEAN, TakeOver(f, b),
           f \in op.todo, Replaceable(f) = {},
           IF b THEN op.pc = "renamed" /\ op.cur = {f} ELSE op.pc = "check",
           UNCHANGED <<scene, disk, clock, made, met>>
    PROVE  KInv'
<1> DEFINE t == op.stamp
<1>1. /\ op \in Operation /\ Phase = op.pc /\ op.pc \in {"check", "renamed"}
      /\ op' = [op EXCEPT !.pc = "check", !.todo = @ \ {f},
                          !.backups = IF b THEN op.backups \cup {f} ELSE op.backups]
      /\ db' = db
    BY TakeOverIs DEF IInv, Types, Phase
<1>2. /\ op' \in Operation /\ op'.pc = "check" /\ op'.port = op.port /\ op'.stamp = t
      /\ op'.todo = op.todo \ {f} /\ op'.moved = op.moved
      /\ op'.backups = IF b THEN op.backups \cup {f} ELSE op.backups
    BY <1>1 DEF Operation, Pcs
<1>3. Phase' = "check" /\ Goes
    BY <1>1, <1>2 DEF Phase, Goes
<1>4. /\ op.todo \subseteq File /\ op.backups \subseteq File /\ t \in Stamps /\ 0 \in Stamps
      /\ \A e \in Entry : Has(work, e, f, 0) => Has(db, e, f, 0)
    BY <1>1, TodoUntouched
<1>5. /\ \A e \in Entry : ~Has(work, e, f, 0)'
      /\ \A e \in Entry, g \in File, s \in Stamps :
            Has(work, e, g, s)' => Has(work, e, g, s) \/ (g = f /\ s = t /\ Has(work, e, f, 0))
    <2>1. \A e \in Entry : ~Has(work, e, f, 0)'
        BY <1>1, TakeOverIs
    <2>2. \A e \in Entry, g \in File :
             work'.actual[e][g] = IF g = f /\ Has(work, e, f, 0) THEN <<f, t>> ELSE work.actual[e][g]
        BY <1>1, TakeOverIs
    <2>3. \A s \in Stamps : <<f, t>> = <<f, s>> => s = t
        OBVIOUS
    <2>4. ASSUME NEW e \in Entry, NEW g \in File, NEW s \in Stamps, Has(work, e, g, s)'
          PROVE  Has(work, e, g, s) \/ (g = f /\ s = t /\ Has(work, e, f, 0))
        BY <2>2, <2>3, <2>4 DEF Has
    <2> QED BY <2>1, <2>4
<1>6. DiskType' /\ StampsPast'
    BY <1>1, <1>2, <1>3 DEF KInv, Layout, DiskType, StampsPast, On, Has
<1>7. BackupsFree'
    <2>1. op.moved = {} /\ op.backups \cap op.todo = {}
        BY <1>1 DEF KInv, Layout, BackupsFree
    <2>2. \A g \in op.todo \ {f} : On(g, t) = None /\ \A e \in Entry : ~Has(db, e, g, t)
        BY <1>1 DEF KInv, Layout, BackupsFree
    <2> QED BY <1>1, <1>2, <1>3, <2>1, <2>2 DEF BackupsFree, On, Has
<1>8. MovesOwn' /\ DeletesOwn'
    BY <1>2, <1>3 DEF MovesOwn, DeletesOwn
<1>9. PlacesFree'
    <2>1. \A g \in op.backups, e \in Entry : ~Has(work, e, g, 0)
        BY <1>1 DEF KInv, Layout, PlacesFree
    <2>2. t # 0
        BY <1>1, TodoUntouched
    <2>3. \A g \in op.backups \cup {f}, e \in Entry : ~Has(work, e, g, 0)'
        BY <1>4, <1>5, <2>1, <2>2
    <2> QED BY <1>2, <1>3, <2>3 DEF PlacesFree
<1>10. Registered'
    <2> SUFFICES ASSUME Sound' PROVE Registered'
        BY DEF Registered
    <2>1. Sound /\ OwnFiles(db) /\ OwnFiles(work) /\ BackupsHold
        BY <1>1, <1>3, SoundBefore DEF KInv, Registered
    <2>2. BackupIs(f)
        <3>1. CASE b
            BY <1>1, <2>1, <3>1 DEF KInv, Registered
        <3>2. CASE ~b
            BY <1>1, <3>2 DEF BackupIs, KInv, Layout, BackupsFree
        <3> QED BY <3>1, <3>2
    <2>3. OwnFiles(db)'
        BY <1>1, <2>1 DEF OwnFiles, Has, On
    <2>4. OwnFiles(work)'
        <3> SUFFICES ASSUME NEW e \in Entry, NEW g \in File, NEW s \in Stamps, Has(work, e, g, s)'
                     PROVE  On(g, s)' \in {e, None}
            BY DEF OwnFiles
        <3>1. On(g, s)' = On(g, s)
            BY DEF On
        <3>2. CASE Has(work, e, g, s)
            BY <2>1, <3>1, <3>2 DEF OwnFiles
        <3>3. CASE g = f /\ s = t /\ Has(work, e, f, 0)
            BY <1>4, <2>2, <3>1, <3>3 DEF BackupIs
        <3> QED BY <1>5, <3>2, <3>3
    <2>5. b => On(f, 0) = None
        BY <1>1 DEF KInv, Layout, BackupsFree
    <2>6. \A g \in File : BackupIs(g) => BackupIs(g)'
        BY <1>1, <1>2 DEF BackupIs, On, Has
    <2>7. \A g \in op'.backups : /\ g \in File /\ BackupIs(g)
                                 /\ On(g, 0) \in {None, op.port}
        BY <1>2, <1>4, <2>1, <2>2, <2>5 DEF BackupsHold
    <2>8. BackupsHold'
        BY <1>1, <1>2, <2>6, <2>7 DEF BackupsHold, On
    <2> QED BY <1>3, <2>3, <2>4, <2>8 DEF Registered
<1>11. UserKept' /\ PortsKept'
    BY <1>1, <1>2, SMTT(60) DEF KInv, UserKept, PortsKept, Somewhere, On, Installed
<1> QED BY <1>6, <1>7, <1>8, <1>9, <1>10, <1>11 DEF KInv, Layout

LEMMA NoteBackupKeeps ==
    ASSUME IInv, KInv, NEW f \in File, NoteBackup(f)
    PROVE  KInv'
<1>1. /\ op.pc = "renamed" /\ op.cur = {f} /\ TakeOver(f, TRUE)
      /\ UNCHANGED <<scene, disk, clock, made, met>>
    BY DEF NoteBackup
<1>2. f \in op.todo /\ Replaceable(f) = {}
    BY <1>1 DEF KInv, Layout, BackupsFree, Phase
<1> QED BY <1>1, <1>2, TakeOverKeeps

LEMMA CheckForcedKeeps ==
    ASSUME IInv, KInv, NEW f \in File, CheckForced(f)
    PROVE  KInv'
BY TakeOverKeeps DEF CheckForced

(* An error inside the try block.                                          *)
LEMMA ThrowKeeps ==
    ASSUME IInv, KInv, NEW b \in BOOLEAN, Throw(b), UNCHANGED <<scene, disk, clock, made>>,
           met \subseteq met',
           op.pc \in {"check", "renamed", "replaced", "move", "moved", "committed"},
           b => op.pc \in {"replaced", "move", "moved"},
           op.pc \in {"renamed", "committed"} => ~Sound'
    PROVE  KInv'
<1>1. op \in Operation /\ db' = db /\ Phase = op.pc
      /\ op' = [op EXCEPT !.pc = "unmove", !.moved = IF b THEN @ ELSE {}]
    BY DEF IInv, Types, Throw, Rollback, Phase
<1>2. /\ op' \in Operation /\ op'.pc = "unmove" /\ op'.port = op.port /\ op'.stamp = op.stamp
      /\ op'.backups = op.backups /\ op'.moved = IF b THEN op.moved ELSE {}
    BY <1>1 DEF Operation, Pcs
<1> QED BY <1>1, <1>2, UndoKeeps DEF Goes, QuietDisk

LEMMA CheckFailsKeeps ==
    ASSUME IInv, KInv, NEW f \in File, CheckFails(f)
    PROVE  KInv'
BY ThrowKeeps DEF CheckFails

(* Whatever the transaction has moved aside becomes the committed registry.*)
LEMMA FinishCheckingKeeps == IInv /\ KInv /\ FinishChecking => KInv'
<1> SUFFICES ASSUME IInv, KInv, FinishChecking PROVE KInv'
    OBVIOUS
<1>1. /\ op \in Operation /\ op.pc = "check" /\ op.todo = {} /\ db' = work
      /\ op' = [op EXCEPT !.pc = "replaced", !.others = op.replaced]
      /\ UNCHANGED <<scene, disk, clock, made, met>>
    BY DEF FinishChecking, Commit, IInv, Types
<1>2. /\ op' \in Operation /\ op'.pc = "replaced" /\ op'.port = op.port /\ op'.stamp = op.stamp
      /\ op'.backups = op.backups /\ op'.moved = op.moved
    BY <1>1 DEF Operation, Pcs
<1>3. Phase = "check" /\ Phase' = "replaced" /\ Goes
    BY <1>1, <1>2 DEF Phase, Goes
<1>4. op.backups \subseteq File /\ op.stamp \in Stamps /\ db'.state = db.state
    BY <1>1, TodoUntouched, CheckFacts
<1>5. DiskType'
    BY <1>1 DEF KInv, Layout, DiskType
<1>6. StampsPast'
    <2> SUFFICES ASSUME NEW f \in File, NEW s \in Stamps, s > clock
                 PROVE  On(f, s)' = None /\ \A e \in Entry : ~Has(db, e, f, s)'
        BY <1>1, <1>2, <1>3 DEF KInv, Layout, StampsPast
    <2>1. On(f, s) = None /\ \A e \in Entry : ~Has(db, e, f, s)
        BY DEF KInv, Layout, StampsPast
    <2>2. op.stamp = clock /\ s # op.stamp
        BY <1>3, <1>4 DEF KInv, Layout, StampsPast, Stamps
    <2>3. PICK F \in SUBSET (File \ op.todo) : MovedFiles(F)
        BY <1>1, CheckFacts
    <2>4. <<f, s>> # <<f, op.stamp>>
        BY <2>2
    <2>5. \A e \in Entry : ~Has(work, e, f, s)
        BY <2>1, <2>3, <2>4 DEF Has, MovedFiles
    <2> QED BY <1>1, <2>1, <2>5 DEF On, Has
<1>7. BackupsFree' /\ MovesOwn' /\ DeletesOwn'
    BY <1>2, <1>3 DEF KInv, Layout, BackupsFree, MovesOwn, DeletesOwn
<1>8. PlacesFree'
    BY <1>1, <1>2, <1>3 DEF KInv, Layout, PlacesFree, Has
<1>9. Registered'
    <2> SUFFICES ASSUME Sound' PROVE Registered'
        BY DEF Registered
    <2>1. Sound /\ OwnFiles(work) /\ BackupsHold
        BY <1>3, SoundBefore DEF KInv, Registered
    <2>2. OwnFiles(db)'
        BY <1>1, <2>1 DEF OwnFiles, Has, On
    <2>3. BackupsHold'
        BY <1>1, <1>2, <1>3, <2>1 DEF BackupsHold, BackupIs, On, Has, KInv, Layout, PlacesFree
    <2> QED BY <1>3, <2>2, <2>3 DEF Registered
<1>10. UserKept' /\ PortsKept'
    BY <1>1, <1>2, <1>4 DEF KInv, UserKept, PortsKept, Somewhere, On, Installed
<1> QED BY <1>5, <1>6, <1>7, <1>8, <1>9, <1>10 DEF KInv, Layout

-----------------------------------------------------------------------------
(* The second transaction.                                                 *)
LEMMA StartMovingKeeps == IInv /\ KInv /\ StartMoving => KInv'
<1> SUFFICES ASSUME IInv, KInv, StartMoving PROVE KInv'
    OBVIOUS
<1>1. /\ op \in Operation /\ op.pc = "replaced" /\ op.port \in Entry
      /\ UNCHANGED <<scene, disk, clock, made>>
    BY DEF StartMoving, IInv, Types, PortKnown
<1>2. CASE Throw(TRUE) /\ NoteUndone
    <2>1. met \subseteq met'
        BY <1>2 DEF NoteUndone
    <2> QED BY <1>1, <1>2, <2>1, ThrowKeeps
<1>3. CASE /\ op' = [op EXCEPT !.pc = "move", !.todo = Image[op.port]]
           /\ UNCHANGED <<db, met>>
    <2>1. Image[op.port] \in SUBSET File
        BY <1>1, ConstantsOK DEF ConstantsOK
    <2>2. /\ op' \in Operation /\ op'.pc = "move" /\ op'.port = op.port /\ op'.stamp = op.stamp
          /\ op'.todo = Image[op.port] /\ op'.backups = op.backups /\ op'.moved = op.moved
        BY <1>1, <1>3, <2>1 DEF Operation, Pcs
    <2>3. Phase = "replaced" /\ Phase' = "move" /\ Goes
        BY <1>1, <1>3, <2>2 DEF Phase, Goes
    <2>4. DiskType' /\ StampsPast'
        BY <1>1, <1>3, <2>2, <2>3 DEF KInv, Layout, DiskType, StampsPast, On, Has
    <2>5. MovesOwn'
        <3>1. op.moved = {}
            BY <2>3 DEF KInv, Layout, BackupsFree
        <3> QED BY <2>2, <2>3, <3>1 DEF MovesOwn
    <2>6. BackupsFree' /\ DeletesOwn'
        BY <2>2, <2>3 DEF BackupsFree, DeletesOwn
    <2>7. PlacesFree'
        BY <1>3, <2>2, <2>3 DEF KInv, Layout, PlacesFree, Has
    <2>8. Registered'
        BY <1>1, <1>3, <2>2, <2>3, SoundBefore
           DEF KInv, Registered, OwnFiles, BackupsHold, BackupIs, On, Has
    <2>9. UserKept' /\ PortsKept'
        BY <1>1, <1>3, <2>2 DEF KInv, UserKept, PortsKept, Somewhere, On, Installed
    <2> QED BY <2>4, <2>5, <2>6, <2>7, <2>8, <2>9 DEF KInv, Layout
<1> QED BY <1>2, <1>3 DEF StartMoving

(* What a write at the place of a file does to the disk.                   *)
LEMMA PutIs ==
    ASSUME KInv, NEW f \in File, NEW x \in Content, disk' = [disk EXCEPT ![Place(f)] = x],
           made' \subseteq File
    PROVE  /\ DiskType'
           /\ \A g \in File, s \in Stamps : On(g, s)' = IF g = f /\ s = 0 THEN x ELSE On(g, s)
<1>1. disk \in [Path -> Content]
    BY DEF KInv, Layout, DiskType
<1>2. \A g \in File, s \in Stamps : <<g, s>> \in Path
    BY PathsDiffer DEF Stamps
<1>3. disk' = [disk EXCEPT ![<<f, 0>>] = x]
    BY DEF Place
<1>4. 0 \in Stamps
    BY PathsDiffer DEF Stamps
<1>5. disk' \in [Path -> Content]
    BY <1>1, <1>3
<1>6. ASSUME NEW g \in File, NEW s \in Stamps
      PROVE  On(g, s)' = IF g = f /\ s = 0 THEN x ELSE On(g, s)
    BY <1>1, <1>2, <1>3, <1>4 DEF On
<1> QED BY <1>5, <1>6 DEF DiskType

LEMMA MoveFileKeeps ==
    ASSUME IInv, KInv, NEW f \in File, MoveFile(f)
    PROVE  KInv'
<1> DEFINE p == op.port
<1>1. /\ op \in Operation /\ op.pc = "move" /\ f \in op.todo /\ p \in Entry
      /\ disk[Place(f)] = None
      /\ disk' = [disk EXCEPT ![Place(f)] = p]
      /\ op' = [op EXCEPT !.pc = "moved", !.cur = {f}, !.todo = @ \ {f}]
      /\ UNCHANGED <<scene, db, work, clock, made, met>>
    BY DEF MoveFile, IInv, Types, PortKnown
<1>2. /\ op' \in Operation /\ op'.pc = "moved" /\ op'.port = p /\ op'.stamp = op.stamp
      /\ op'.todo = op.todo \ {f} /\ op'.backups = op.backups /\ op'.moved = op.moved
      /\ op'.cur = {f}
    BY <1>1, ZenonT(60) DEF Operation, Pcs
<1>3. Phase = "move" /\ Phase' = "moved" /\ Goes
    BY <1>1, <1>2 DEF Phase, Goes
<1>4. op.todo \subseteq Image[p] /\ op.moved = Image[p] \ op.todo
    BY <1>3 DEF KInv, Layout, MovesOwn
<1>5. /\ op.backups \subseteq File /\ op.stamp \in Stamps /\ 0 \in Stamps /\ op.stamp # 0
      /\ Image[p] \subseteq File /\ clock \in Stamps
    <2>1. op.stamp \in 1 .. MaxStamp
        BY <1>1 DEF IInv, PortKnown
    <2>2. op.backups \subseteq File /\ op.stamp \in Stamps /\ 0 \in Stamps /\ clock \in Stamps
        BY <1>1, PathsDiffer DEF Operation, Stamps, IInv, Types
    <2> QED BY <1>1, <2>1, <2>2, ConstantsOK DEF ConstantsOK
<1>6. p \in Content /\ made' \subseteq File
    BY <1>1 DEF Content, KInv, Layout, DiskType
<1>7. /\ DiskType'
      /\ \A g \in File, s \in Stamps : On(g, s)' = IF g = f /\ s = 0 THEN p ELSE On(g, s)
    BY <1>1, <1>6, PutIs
<1>8. On(f, 0) = None /\ \A e \in Entry : ~Has(db, e, f, 0)
    <2>1. Claimed
        BY <1>1 DEF IInv, WorkSound
    <2> QED BY <1>1, <1>4, <2>1 DEF Claimed, On, Has, Place
<1> HIDE DEF p
<1>9. StampsPast'
    BY <1>1, <1>2, <1>3, <1>5, <1>7 DEF KInv, Layout, StampsPast, Has, Stamps
<1>10. BackupsFree' /\ DeletesOwn'
    BY <1>2, <1>3 DEF BackupsFree, DeletesOwn
<1>11. MovesOwn'
    <2>1. op'.todo \subseteq Image[p] /\ op'.moved \cup op'.cur = Image[p] \ op'.todo
        BY <1>1, <1>2, <1>4
    <2>2. \A g \in Image[p] \ op'.todo : On(g, 0)' = p
        BY <1>2, <1>3, <1>5, <1>7 DEF KInv, Layout, MovesOwn, p
    <2> QED BY <1>2, <1>3, <2>1, <2>2 DEF MovesOwn, On
<1>12. PlacesFree'
    BY <1>1, <1>2, <1>3 DEF KInv, Layout, PlacesFree, Has
<1>13. Registered'
    <2> SUFFICES ASSUME Sound' PROVE Registered'
        BY DEF Registered
    <2>1. Sound /\ OwnFiles(db) /\ BackupsHold
        BY <1>3, SoundBefore DEF KInv, Registered
    <2>2. OwnFiles(db)'
        BY <1>1, <1>7, <1>8, <2>1 DEF OwnFiles, Has
    <2>3. \A g \in op.backups : BackupIs(g)'
        BY <1>1, <1>2, <1>5, <1>7, <2>1 DEF BackupsHold, BackupIs, Has
    <2>4. \A g \in op.backups : On(g, 0)' \in {None, p}
        BY <1>5, <1>7, <2>1 DEF BackupsHold, p
    <2>5. BackupsHold'
        BY <1>2, <2>3, <2>4 DEF BackupsHold, On
    <2> QED BY <1>3, <2>2, <2>5 DEF Registered
<1>14. \A g \in File, x \in Entry \cup {"user"} : Somewhere(g, x) => Somewhere(g, x)'
    <2> SUFFICES ASSUME NEW g \in File, NEW x \in Entry \cup {"user"}, NEW s \in Stamps, On(g, s) = x
                 PROVE  \E r \in Stamps : On(g, r)' = x
        BY DEF Somewhere
    <2>1. x # None
        BY ConstantsOK DEF ConstantsOK
    <2>2. On(g, s)' = x
        BY <1>7, <1>8, <2>1
    <2> QED BY <2>2
<1>15. UserKept' /\ PortsKept'
    BY <1>1, <1>2, <1>14, ConstantsOK
       DEF KInv, Layout, DiskType, UserKept, PortsKept, Installed, ConstantsOK
<1> QED BY <1>7, <1>9, <1>10, <1>11, <1>12, <1>13, <1>15 DEF KInv, Layout

LEMMA NoteMovedKeeps == IInv /\ KInv /\ NoteMoved => KInv'
<1> SUFFICES ASSUME IInv, KInv, NoteMoved PROVE KInv'
    OBVIOUS
<1>1. /\ op \in Operation /\ op.pc = "moved"
      /\ op' = [op EXCEPT !.pc = "move", !.moved = @ \cup op.cur, !.cur = {}]
      /\ UNCHANGED <<scene, db, work, disk, clock, made, met>>
    BY DEF NoteMoved, IInv, Types
<1>2. /\ op' \in Operation /\ op'.pc = "move" /\ op'.port = op.port /\ op'.stamp = op.stamp
      /\ op'.todo = op.todo /\ op'.backups = op.backups /\ op'.moved = op.moved \cup op.cur
    BY <1>1 DEF Operation, Pcs
<1>3. Phase = "moved" /\ Phase' = "move" /\ Goes
    BY <1>1, <1>2 DEF Phase, Goes
<1>4. DiskType' /\ StampsPast'
    BY <1>1, <1>2, <1>3 DEF KInv, Layout, DiskType, StampsPast, On, Has
<1>5. BackupsFree' /\ DeletesOwn'
    BY <1>2, <1>3 DEF BackupsFree, DeletesOwn
<1>6. MovesOwn' /\ PlacesFree'
    BY <1>1, <1>2, <1>3 DEF KInv, Layout, MovesOwn, PlacesFree, On, Has
<1>7. Registered'
    BY <1>1, <1>2, <1>3, SoundBefore
       DEF KInv, Registered, OwnFiles, BackupsHold, BackupIs, On, Has
<1>8. UserKept' /\ PortsKept'
    BY <1>1, <1>2 DEF KInv, UserKept, PortsKept, Somewhere, On, Installed
<1> QED BY <1>4, <1>5, <1>6, <1>7, <1>8 DEF KInv, Layout

LEMMA CannotMoveKeeps ==
    ASSUME IInv, KInv, NEW f \in File, CannotMove(f)
    PROVE  KInv'
<1>1. met \subseteq met'
    BY DEF CannotMove, NoteUndone
<1> QED BY <1>1, ThrowKeeps DEF CannotMove

(* The port is active, and all its files are in place.                     *)
LEMMA FinishMovingKeeps == IInv /\ KInv /\ FinishMoving => KInv'
<1> SUFFICES ASSUME IInv, KInv, FinishMoving PROVE KInv'
    OBVIOUS
<1> DEFINE p == op.port
<1>1. /\ p \in Entry /\ op.stamp \in 1 .. MaxStamp
      /\ \A d \in Entry : db'.state[d] = IF d = p THEN "installed" ELSE db.state[d]
      /\ \A d \in Entry, f \in File :
            db'.actual[d][f] = IF d # p THEN db.actual[d][f]
                               ELSE IF f \in Image[d] THEN Place(f) ELSE NoPath
    BY MovingCommits
<1>2. /\ op \in Operation /\ op.pc = "move" /\ op.todo = {}
      /\ op' = [op EXCEPT !.pc = "committed"]
      /\ UNCHANGED <<scene, disk, clock, made, met>>
    BY DEF FinishMoving, IInv, Types
<1>3. op' \in Operation /\ op'.pc = "committed" /\ op'.stamp = op.stamp
    BY <1>2 DEF Operation, Pcs
<1>4. Phase = "move" /\ Phase' = "committed" /\ Goes
    BY <1>2, <1>3 DEF Phase, Goes
<1>5. /\ Image[p] \subseteq File /\ clock = op.stamp /\ clock \in Stamps /\ 0 \in Stamps
      /\ \A f \in Image[p] : On(f, 0) = p
    BY <1>1, <1>2, <1>4, PathsDiffer, ConstantsOK
       DEF KInv, Layout, StampsPast, MovesOwn, ConstantsOK, Stamps
<1>6. \A d \in Entry, f \in File, s \in Stamps :
         Has(db, d, f, s)' => Has(db, d, f, s) \/ (d = p /\ f \in Image[p] /\ s = 0)
    <2> SUFFICES ASSUME NEW d \in Entry, NEW f \in File, NEW s \in Stamps, Has(db, d, f, s)'
                 PROVE  Has(db, d, f, s) \/ (d = p /\ f \in Image[p] /\ s = 0)
        OBVIOUS
    <2>1. <<f, s>> # NoPath /\ db'.actual[d][f] = <<f, s>>
        BY PathsDiffer DEF Has, Stamps
    <2>2. <<f, 0>> = <<f, s>> => s = 0
        OBVIOUS
    <2>3. db'.actual[d][f] = IF d # p THEN db.actual[d][f]
                             ELSE IF f \in Image[d] THEN <<f, 0>> ELSE NoPath
        BY <1>1 DEF Place
    <2> QED BY <2>1, <2>2, <2>3 DEF Has
<1> HIDE DEF p
<1>7. DiskType'
    BY <1>2 DEF KInv, Layout, DiskType
<1>8. StampsPast'
    <2>1. \A s \in Stamps : s > clock => s # 0
        BY <1>5 DEF Stamps
    <2> QED BY <1>2, <1>3, <1>4, <1>5, <1>6, <2>1 DEF KInv, Layout, StampsPast, On
<1>9. BackupsFree' /\ MovesOwn' /\ DeletesOwn' /\ PlacesFree'
    BY <1>3, <1>4 DEF BackupsFree, MovesOwn, DeletesOwn, PlacesFree
<1>10. Registered'
    <2> SUFFICES ASSUME Sound' PROVE Registered'
        BY DEF Registered
    <2>1. OwnFiles(db)
        BY <1>4, SoundBefore DEF KInv, Registered
    <2>2. OwnFiles(db)'
        BY <1>2, <1>5, <1>6, <2>1 DEF OwnFiles, On
    <2> QED BY <1>4, <2>2 DEF Registered
<1>11. UserKept'
    BY <1>2 DEF KInv, UserKept, Somewhere, On
<1>12. PortsKept'
    <2>1. \A e \in Installed(db)' : e \in Installed(db) \/ e = p
        BY <1>1 DEF Installed, p
    <2>2. \A f \in Image[p] : Somewhere(f, p)
        BY <1>5 DEF Somewhere
    <2> QED BY <1>2, <2>1, <2>2 DEF KInv, PortsKept, Somewhere, On
<1> QED BY <1>7, <1>8, <1>9, <1>10, <1>11, <1>12 DEF KInv, Layout

-----------------------------------------------------------------------------
(* Faults, the rollback and the end of an operation.                       *)
LEMMA CannotCommitKeeps == IInv /\ KInv /\ CannotCommit => KInv'
<1> SUFFICES ASSUME IInv, KInv, CannotCommit PROVE KInv'
    OBVIOUS
<1>1. /\ op \in Operation /\ UNCHANGED <<scene, db, disk, clock, made>>
      /\ met' = met \cup {"fault"}
    BY DEF CannotCommit, IInv, Types
<1>2. CASE op.pc = "deact" /\ op.back # "idle"
           /\ op' = [op EXCEPT !.pc = op.back, !.others = @ \ {op.victim}]
    <2>1. /\ op' \in Operation /\ op'.pc = op.back /\ op'.port = op.port /\ op'.stamp = op.stamp
          /\ op'.backups = op.backups /\ op'.moved = op.moved
        BY <1>1, <1>2 DEF Operation, Pcs
    <2> QED BY <1>1, <1>2, <2>1, RetryKeeps DEF Goes, QuietDisk
<1>3. CASE op.pc = "deact" /\ DeactivationFails
    BY <1>1, <1>3, DeactivationFailsKeeps DEF QuietDisk
<1>4. CASE op.pc \in {"check", "move"} /\ op' = [op EXCEPT !.pc = "unmove", !.moved = {}]
    <2>1. /\ op' \in Operation /\ op'.pc = "unmove" /\ op'.port = op.port /\ op'.stamp = op.stamp
          /\ op'.backups = op.backups /\ op'.moved = {}
        BY <1>1, <1>4 DEF Operation, Pcs
    <2>2. Phase = op.pc
        BY <1>4 DEF Phase
    <2> QED BY <1>1, <1>4, <2>1, <2>2, UndoKeeps DEF Goes, QuietDisk
<1> QED BY <1>2, <1>3, <1>4 DEF CannotCommit

LEMMA CannotBeginKeeps == IInv /\ KInv /\ CannotBegin => KInv'
<1> SUFFICES ASSUME IInv, KInv, CannotBegin PROVE KInv'
    OBVIOUS
<1>1. /\ op \in Operation /\ op.pc \in {"others", "replaced"} /\ Phase = op.pc
      /\ UNCHANGED <<scene, db, disk, clock, made, met>>
      /\ op' = FailedOp \/ op' = [op EXCEPT !.pc = "unmove", !.moved = {}]
    BY DEF CannotBegin, IInv, Types, Phase
<1>2. CASE op' = FailedOp
    BY <1>1, <1>2, FailedOpEnds, EndKeeps DEF Goes, QuietDisk
<1>3. CASE op' = [op EXCEPT !.pc = "unmove", !.moved = {}]
    <2>1. /\ op' \in Operation /\ op'.pc = "unmove" /\ op'.port = op.port /\ op'.stamp = op.stamp
          /\ op'.backups = op.backups /\ op'.moved = {}
        BY <1>1, <1>3 DEF Operation, Pcs
    <2> QED BY <1>1, <2>1, UndoKeeps DEF Goes, QuietDisk
<1> QED BY <1>1, <1>2, <1>3

(* Steps after the activation proper that change no path.                  *)
LEMMA AfterwardsKeeps ==
    ASSUME IInv, KInv, UNCHANGED <<scene, db, disk, clock, made>>, met \subseteq met',
           op.pc \in {"committed", "unmove", "react"}, op' \in Operation,
           \/ op' = Idle \/ op' = FailedOp
           \/ op'.pc = "react" /\ op'.stamp = op.stamp
    PROVE  KInv'
<1>1. op \in Operation /\ Phase = op.pc
    BY DEF IInv, Types, Phase
<1>2. op'.pc \in {"idle", "react", "committed"}
    BY IdleIs, FailedOpEnds
<1>3. op'.pc # "idle" => op'.stamp = op.stamp
    BY IdleIs, FailedOpEnds
<1> QED BY <1>1, <1>2, <1>3, EndKeeps DEF Goes, QuietDisk

LEMMA FinishActivatingKeeps == IInv /\ KInv /\ FinishActivating => KInv'
<1> SUFFICES ASSUME IInv, KInv, FinishActivating PROVE KInv'
    OBVIOUS
<1>1. op \in Operation
    BY DEF IInv, Types
<1>2. \/ op' = Idle
      \/ op' \in Operation /\ op'.pc = "react" /\ op'.stamp = op.stamp
    BY <1>1 DEF FinishActivating, Operation, Pcs
<1> QED BY <1>2, IdleIs, AfterwardsKeeps DEF FinishActivating

LEMMA RollbackFailsKeeps == IInv /\ KInv /\ RollbackFails => KInv'
<1> SUFFICES ASSUME IInv, KInv, RollbackFails PROVE KInv'
    OBVIOUS
<1>1. met \subseteq met'
    BY DEF RollbackFails
<1> QED BY <1>1, FailedOpEnds, AfterwardsKeeps DEF RollbackFails

LEMMA FinishRestoringKeeps == IInv /\ KInv /\ FinishRestoring => KInv'
<1> SUFFICES ASSUME IInv, KInv, FinishRestoring PROVE KInv'
    OBVIOUS
<1>1. op \in Operation
    BY DEF IInv, Types
<1>2. \/ op' = FailedOp
      \/ op' \in Operation /\ op'.pc = "react" /\ op'.stamp = op.stamp
    BY <1>1 DEF FinishRestoring, Operation, Pcs
<1> QED BY <1>2, FailedOpEnds, AfterwardsKeeps DEF FinishRestoring

LEMMA RethrowKeeps == IInv /\ KInv /\ Rethrow => KInv'
BY IdleIs, AfterwardsKeeps DEF Rethrow

(* What stays where the rollback changes a path.                           *)
LEMMA UndoingKeeps ==
    ASSUME IInv, KInv, NEW f \in File, op.pc = "unmove",
           UNCHANGED <<scene, db, clock, made, met>>,
           op' \in Operation, op'.pc = "unmove", op'.port = op.port, op'.stamp = op.stamp,
           op'.moved \subseteq op.moved, op'.backups \subseteq op.backups,
           DiskType',
           \A g \in File, s \in Stamps : g # f => On(g, s)' = On(g, s),
           \A s \in Stamps : s \notin {0, op.stamp} => On(f, s)' = On(f, s),
           On(f, op.stamp)' \in {On(f, op.stamp), None},
           f \notin op'.moved,
           Sound => /\ \A e \in Entry : Has(db, e, f, 0) => On(f, 0)' \in {e, None}
                    /\ f \in op'.backups => On(f, 0)' = None /\ On(f, op.stamp)' = On(f, op.stamp)
                    /\ \A x \in Installed(db) \cup {"user"} : Somewhere(f, x) => Somewhere(f, x)'
    PROVE  KInv'
<1> DEFINE t == op.stamp
<1>1. /\ op \in Operation /\ Phase = "unmove" /\ Phase' = "unmove" /\ Goes
      /\ op.backups \subseteq File /\ op.moved \subseteq File /\ clock = t
    BY DEF IInv, Types, Phase, Goes, Operation, KInv, Layout, StampsPast
<1>2. t \in Stamps /\ 0 \in Stamps /\ t # 0 /\ clock \in Stamps
    <2>1. t \in 1 .. MaxStamp
        BY DEF IInv, PortKnown
    <2> QED BY <1>1, <2>1, PathsDiffer DEF Stamps
<1>3. StampsPast'
    <2> SUFFICES ASSUME NEW g \in File, NEW s \in Stamps, s > clock PROVE disk'[<<g, s>>] = None
        BY <1>1 DEF KInv, Layout, StampsPast, Has, On
    <2>1. s \notin {0, t}
        BY <1>1, <1>2 DEF Stamps
    <2>2. disk'[<<g, s>>] = On(g, s)
        BY <2>1 DEF On
    <2> QED BY <2>2 DEF KInv, Layout, StampsPast
<1>4. BackupsFree' /\ DeletesOwn' /\ PlacesFree'
    BY <1>1 DEF BackupsFree, DeletesOwn, PlacesFree
<1>5. MovesOwn'
    <2>1. \A g \in op'.moved : g # f /\ g \in File /\ On(g, 0)' = On(g, 0)
        BY <1>1, <1>2
    <2> QED BY <1>1, <2>1 DEF KInv, Layout, MovesOwn
<1>6. Registered'
    <2> SUFFICES ASSUME Sound' PROVE Registered'
        BY DEF Registered
    <2>1. Sound /\ OwnFiles(db) /\ BackupsHold /\ db.state[op.port] = "imaged"
        BY <1>1, SoundBefore DEF KInv, Registered
    <2>2. OwnFiles(db)'
        <3> SUFFICES ASSUME NEW e \in Entry, NEW g \in File, NEW s \in Stamps, Has(db, e, g, s)
                     PROVE  disk'[<<g, s>>] \in {e, None}
            BY DEF OwnFiles, Has, On
        <3>1. On(g, s) \in {e, None}
            BY <2>1 DEF OwnFiles
        <3>2. CASE g # f \/ s \notin {0, t}
            BY <3>1, <3>2 DEF On
        <3>3. CASE g = f /\ s = 0
            BY <2>1, <3>3 DEF On
        <3>4. CASE g = f /\ s = t
            BY <3>1, <3>4 DEF On
        <3> QED BY <3>2, <3>3, <3>4
    <2>3. ASSUME NEW g \in op'.backups
          PROVE  /\ disk'[<<g, 0>>] \in {None, op.port}
                 /\ disk'[<<g, t>>] = disk[<<g, t>>] /\ BackupIs(g)
        <3>1. CASE g = f
            BY <2>1, <2>3, <3>1 DEF On, BackupsHold
        <3>2. CASE g # f
            BY <1>1, <1>2, <2>1, <2>3, <3>2 DEF On, BackupsHold
        <3> QED BY <3>1, <3>2
    <2>4. BackupsHold'
        BY <2>3 DEF BackupsHold, BackupIs, On, Has
    <2> QED BY <1>1, <2>1, <2>2, <2>4 DEF Registered
<1>7. \A g \in File, x \in Entry \cup {"user"} : g # f /\ Somewhere(g, x) => Somewhere(g, x)'
    <2> SUFFICES ASSUME NEW g \in File, NEW x \in Entry \cup {"user"}, NEW s \in Stamps,
                        On(g, s) = x, g # f
                 PROVE  Somewhere(g, x)'
        BY DEF Somewhere
    <2>1. On(g, s)' = x
        OBVIOUS
    <2> QED BY <2>1 DEF Somewhere
<1>8. UserKept'
    BY <1>7, ConstantsOK DEF KInv, Layout, DiskType, UserKept, Sound, ConstantsOK
<1>9. PortsKept'
    BY <1>7, ConstantsOK DEF KInv, PortsKept, Sound, Installed, ConstantsOK
<1> QED BY <1>3, <1>4, <1>5, <1>6, <1>8, <1>9 DEF KInv, Layout

LEMMA DeleteMovedKeeps ==
    ASSUME IInv, KInv, NEW f \in File, DeleteMoved(f)
    PROVE  KInv'
<1>1. /\ op \in Operation /\ op.pc = "unmove" /\ f \in op.moved
      /\ disk' = [disk EXCEPT ![Place(f)] = None]
      /\ op' = [op EXCEPT !.moved = @ \ {f}]
      /\ UNCHANGED <<scene, db, clock, made, met>>
    BY DEF DeleteMoved, IInv, Types
<1>2. /\ op' \in Operation /\ op'.pc = "unmove" /\ op'.port = op.port /\ op'.stamp = op.stamp
      /\ op'.moved = op.moved \ {f} /\ op'.backups = op.backups
    BY <1>1 DEF Operation
<1>3. None \in Content /\ made' \subseteq File
    BY <1>1 DEF Content, KInv, Layout, DiskType
<1>4. DiskType' /\ \A g \in File, s \in Stamps : On(g, s)' = IF g = f /\ s = 0 THEN None ELSE On(g, s)
    BY <1>1, <1>3, PutIs
<1>5. On(f, 0) = op.port /\ db.state[op.port] = "imaged"
    BY <1>1 DEF KInv, Layout, MovesOwn, Phase
<1>6. op.stamp \in Stamps /\ 0 \in Stamps /\ op.stamp # 0 /\ op.port \in Entry
    BY <1>1, PathsDiffer DEF IInv, PortKnown, Operation, Stamps
<1>7. \A x \in Installed(db) \cup {"user"} : Somewhere(f, x) => Somewhere(f, x)'
    <2> SUFFICES ASSUME NEW x \in Installed(db) \cup {"user"}, NEW s \in Stamps, On(f, s) = x
                 PROVE  \E r \in Stamps : On(f, r)' = x
        BY DEF Somewhere
    <2>1. x # op.port
        BY <1>5, <1>6, ConstantsOK DEF Installed, ConstantsOK
    <2>2. On(f, s)' = x
        BY <1>4, <1>5, <2>1
    <2> QED BY <2>2
<1>8. On(f, 0)' = None /\ disk'[<<f, op.stamp>>] = disk[<<f, op.stamp>>]
    BY <1>4, <1>6 DEF On
<1>9. /\ \A g \in File, s \in Stamps : g # f => On(g, s)' = On(g, s)
      /\ \A s \in Stamps : s \notin {0, op.stamp} => On(f, s)' = On(f, s)
      /\ On(f, op.stamp)' = On(f, op.stamp)
    BY <1>2, <1>4, <1>8 DEF On
<1> QED BY <1>1, <1>2, <1>4, <1>7, <1>8, <1>9, UndoingKeeps

LEMMA RestoreBackupKeeps ==
    ASSUME IInv, KInv, NEW f \in File, RestoreBackup(f)
    PROVE  KInv'
<1> DEFINE t == op.stamp
<1>1. /\ op \in Operation /\ op.pc = "unmove" /\ op.moved = {} /\ f \in op.backups
      /\ disk' = [disk EXCEPT ![<<f, 0>>] = disk[<<f, t>>], ![<<f, t>>] = None]
      /\ op' = [op EXCEPT !.backups = @ \ {f}]
      /\ UNCHANGED <<scene, db, clock, made, met>>
    BY DEF RestoreBackup, IInv, Types, Place
<1>2. /\ op' \in Operation /\ op'.pc = "unmove" /\ op'.port = op.port /\ op'.stamp = t
      /\ op'.moved = {} /\ op'.backups = op.backups \ {f}
    BY <1>1 DEF Operation
<1>3. t \in Stamps /\ 0 \in Stamps /\ t # 0 /\ op.port \in Entry
    BY <1>1, PathsDiffer DEF IInv, PortKnown, Operation, Stamps
<1>4. /\ DiskType'
      /\ \A g \in File, s \in Stamps :
            disk'[<<g, s>>] = IF g = f /\ s = t THEN None ELSE IF g = f /\ s = 0 THEN On(f, t) ELSE On(g, s)
    <2>1. \A g \in File, s \in Stamps : <<g, s>> \in Path
        BY PathsDiffer DEF Stamps
    <2>2. disk \in [Path -> Content] /\ made \subseteq File
        BY DEF KInv, Layout, DiskType
    <2>3. disk[<<f, t>>] \in Content /\ None \in Content
        BY <1>3, <2>1, <2>2 DEF Content
    <2>4. DiskType'
        BY <1>1, <2>2, <2>3 DEF DiskType
    <2>5. ASSUME NEW g \in File, NEW s \in Stamps
          PROVE  disk'[<<g, s>>] = IF g = f /\ s = t THEN None
                                   ELSE IF g = f /\ s = 0 THEN On(f, t) ELSE On(g, s)
        BY <1>1, <1>3, <2>1, <2>2 DEF On
    <2> QED BY <2>4, <2>5
<1> HIDE DEF t
<1>5. On(f, t)' = None /\ On(f, 0)' = On(f, t)
    BY <1>2, <1>3, <1>4 DEF On, t
<1>6. Sound => /\ On(f, 0) \in {None, op.port} /\ db.state[op.port] = "imaged"
               /\ \A e \in Entry : Has(db, e, f, 0) => On(f, t) \in {e, None}
    BY <1>1 DEF KInv, Registered, BackupsHold, BackupIs, Phase, t
<1>7. ASSUME Sound, NEW x \in Installed(db) \cup {"user"}, Somewhere(f, x)
      PROVE  Somewhere(f, x)'
    <2>1. x # op.port /\ x # None
        BY <1>3, <1>6, <1>7, ConstantsOK DEF Installed, ConstantsOK
    <2>2. PICK s \in Stamps : On(f, s) = x
        BY <1>7 DEF Somewhere
    <2>3. s # 0
        BY <1>6, <1>7, <2>1, <2>2
    <2>4. disk'[<<f, IF s = t THEN 0 ELSE s>>] = x
        <3>1. CASE s = t
            BY <1>3, <1>4, <2>2, <3>1
        <3>2. CASE s # t
            BY <1>4, <2>2, <2>3, <3>2
        <3> QED BY <3>1, <3>2
    <2>5. (IF s = t THEN 0 ELSE s) \in Stamps
        BY <1>3
    <2> QED BY <2>4, <2>5 DEF Somewhere, On
<1>8. /\ \A g \in File, s \in Stamps : g # f => On(g, s)' = On(g, s)
      /\ \A s \in Stamps : s \notin {0, op.stamp} => On(f, s)' = On(f, s)
      /\ On(f, op.stamp)' = None
    BY <1>2, <1>4, <1>5 DEF On, t
<1> QED BY <1>1, <1>2, <1>4, <1>5, <1>6, <1>7, <1>8, UndoingKeeps DEF t

LEMMA SignalKeeps == IInv /\ KInv /\ Signal => KInv'
<1> SUFFICES ASSUME IInv, KInv, Signal PROVE KInv'
    OBVIOUS
<1>1. /\ op \in Operation /\ UNCHANGED <<scene, disk, clock, made>>
      /\ met' = met \cup {"fault"} /\ ~Sound'
    BY DEF Signal, IInv, Types, Sound
<1>2. CASE op.pc = "others" /\ op' = FailedOp /\ UNCHANGED <<db, work, open>>
    BY <1>1, <1>2, FailedOpEnds, EndKeeps DEF Goes, QuietDisk
<1>3. CASE op.pc \in {"check", "renamed", "replaced", "committed"} /\ Throw(FALSE)
    BY <1>1, <1>3, ThrowKeeps
<1>4. CASE op.pc \in {"move", "moved"} /\ Throw(TRUE)
    BY <1>1, <1>4, ThrowKeeps
<1> QED BY <1>2, <1>3, <1>4 DEF Signal

LEMMA RestartKeeps == IInv /\ KInv /\ Restart => KInv'
<1> SUFFICES ASSUME IInv, KInv, Restart PROVE KInv'
    OBVIOUS
<1>1. /\ op \in Operation /\ op' = Idle /\ UNCHANGED <<scene, db, disk, clock, made>>
      /\ met \subseteq met' /\ (op.pc = "deact" => "fault" \in met')
    BY DEF Restart, Rollback, IInv, Types
<1> QED BY <1>1, IdleIs, EndKeeps DEF Goes, QuietDisk

LEMMA UserCreatesKeeps ==
    ASSUME IInv, KInv, NEW f \in File, UserCreates(f)
    PROVE  KInv'
<1>1. /\ op.pc = "idle" /\ f \in File /\ disk[Place(f)] = None /\ Owners(db, Place(f)) = {}
      /\ disk' = [disk EXCEPT ![Place(f)] = "user"] /\ made' = made \cup {f}
      /\ UNCHANGED <<scene, db, work, clock, op, met>>
    BY DEF UserCreates
<1>2. Phase = "idle" /\ Phase' = "idle" /\ op'.pc = "idle"
    BY <1>1 DEF Phase
<1>3. "user" \in Content /\ made' \subseteq File
    BY <1>1 DEF Content, KInv, Layout, DiskType
<1>4. DiskType' /\ \A g \in File, s \in Stamps : On(g, s)' = IF g = f /\ s = 0 THEN "user" ELSE On(g, s)
    BY <1>1, <1>3, PutIs
<1>5. 0 \in Stamps /\ clock \in Stamps
    BY PathsDiffer DEF IInv, Types, Stamps
<1>6. On(f, 0) = None /\ \A e \in Entry : ~Has(db, e, f, 0)
    <2>1. \A e \in Entry : e \in Owners(db, <<f, 0>>) <=> db.actual[e][f] = <<f, 0>>
        BY <1>5, OwnersAre DEF IInv, Types, Stamps
    <2> QED BY <1>1, <2>1 DEF On, Has, Place
<1>7. StampsPast'
    BY <1>1, <1>2, <1>4, <1>5 DEF KInv, Layout, StampsPast, Has, Stamps
<1>8. BackupsFree' /\ MovesOwn' /\ DeletesOwn' /\ PlacesFree'
    BY <1>2 DEF BackupsFree, MovesOwn, DeletesOwn, PlacesFree
<1>9. Registered'
    <2>1. ASSUME Sound' PROVE OwnFiles(db)'
        BY <1>1, <1>4, <1>6, <2>1 DEF KInv, Registered, Sound, OwnFiles, Has
    <2> QED BY <1>2, <2>1 DEF Registered
<1>10. \A g \in File, x \in Entry \cup {"user"} : Somewhere(g, x) => Somewhere(g, x)'
    <2> SUFFICES ASSUME NEW g \in File, NEW x \in Entry \cup {"user"}, NEW s \in Stamps, On(g, s) = x
                 PROVE  \E r \in Stamps : On(g, r)' = x
        BY DEF Somewhere
    <2>1. On(g, s)' = x
        BY <1>4, <1>6, ConstantsOK DEF ConstantsOK
    <2> QED BY <2>1
<1>11. Somewhere(f, "user")'
    BY <1>4, <1>5 DEF Somewhere
<1>12. UserKept' /\ PortsKept'
    BY <1>1, <1>10, <1>11, ConstantsOK
       DEF KInv, Layout, DiskType, UserKept, PortsKept, Installed, ConstantsOK
<1> QED BY <1>4, <1>7, <1>8, <1>9, <1>12 DEF KInv, Layout

LEMMA StutterKeeps == KInv /\ UNCHANGED vars => KInv'
<1> SUFFICES ASSUME KInv, UNCHANGED vars PROVE KInv'
    OBVIOUS
<1>1. UNCHANGED <<scene, db, work, open, disk, clock, op, made, met>>
    BY DEF vars
<1>2. Layout'
    <2>1. /\ DiskType' /\ StampsPast'
        BY <1>1 DEF KInv, Layout, DiskType, StampsPast, Phase, On, Has
    <2>2. BackupsFree'
        BY <1>1 DEF KInv, Layout, BackupsFree, Phase, On, Has, Replaceable, Owners
    <2>3. MovesOwn' /\ DeletesOwn' /\ PlacesFree'
        BY <1>1 DEF KInv, Layout, MovesOwn, DeletesOwn, PlacesFree, Phase, On, Has, Replaceable,
                    Owners
    <2> QED BY <1>1, <2>1, <2>2, <2>3 DEF KInv, Layout, Phase, On, Has
<1>3. Registered' /\ UserKept' /\ PortsKept'
    BY <1>1 DEF KInv, Registered, OwnFiles, BackupsHold, BackupIs, Sound, UserKept, PortsKept,
                Phase, On, Has, Somewhere, Installed
<1> QED BY <1>2, <1>3 DEF KInv

LEMMA InitKeeps == Init => KInv
<1> SUFFICES ASSUME Init PROVE KInv
    OBVIOUS
<1>1. /\ db = Empty /\ disk = [p \in Path |-> None] /\ op = Idle /\ made = {} /\ clock = 0
    BY DEF Init
<1>2. Phase = "idle" /\ op.pc = "idle"
    BY <1>1 DEF Phase, Idle
<1>3. ASSUME NEW f \in File, NEW s \in Stamps
      PROVE  On(f, s) = None /\ \A e \in Entry : ~Has(db, e, f, s)
    <2>1. <<f, s>> \in Path /\ <<f, s>> # NoPath
        BY PathsDiffer DEF Stamps
    <2> QED BY <1>1, <2>1 DEF On, Has, Empty
<1>4. Installed(db) = {}
    BY <1>1 DEF Installed, Empty
<1>5. DiskType
    BY <1>1 DEF DiskType, Content
<1>6. Layout
    BY <1>2, <1>3, <1>5 DEF Layout, StampsPast, BackupsFree, MovesOwn, DeletesOwn, PlacesFree
<1>7. Registered /\ UserKept /\ PortsKept
    BY <1>1, <1>2, <1>3, <1>4 DEF Registered, OwnFiles, UserKept, PortsKept
<1> QED BY <1>6, <1>7 DEF KInv

LEMMA NextKeeps == Ticking /\ IInv /\ KInv /\ [Next]_vars => KInv'
<1> SUFFICES ASSUME Ticking, IInv, KInv, [Next]_vars PROVE KInv'
    OBVIOUS
<1>1. CASE UNCHANGED vars
    BY <1>1, StutterKeeps
<1>2. CASE \E e \in Entry : \/ \E f \in Forces : Activate(e, f)
                            \/ Deactivate(e) \/ DeactivateOther(e) \/ Reactivate(e)
    BY <1>2, ActivateKeeps, DeactivateKeeps, DeactivateOtherKeeps, ReactivateKeeps
<1>3. CASE \E p \in Path : DeleteFile(p)
    BY <1>3, DeleteFileKeeps
<1>4. CASE \E f \in File : \/ CheckReplaced(f) \/ CheckFree(f) \/ RenameAway(f)
                           \/ NoteBackup(f) \/ CheckForced(f) \/ CheckFails(f)
    BY <1>4, CheckReplacedKeeps, CheckFreeKeeps, RenameAwayKeeps, NoteBackupKeeps,
       CheckForcedKeeps, CheckFailsKeeps
<1>5. CASE \E f \in File : \/ MoveFile(f) \/ CannotMove(f) \/ DeleteMoved(f)
                           \/ RestoreBackup(f) \/ UserCreates(f)
    BY <1>5, MoveFileKeeps, CannotMoveKeeps, DeleteMovedKeeps, RestoreBackupKeeps,
       UserCreatesKeeps
<1>6. CASE \/ FinishDeactivating \/ CannotDelete \/ StartChecking \/ CannotExtract
           \/ FinishChecking \/ StartMoving \/ NoteMoved \/ FinishMoving
    BY <1>6, FinishDeactivatingKeeps, CannotDeleteKeeps, StartCheckingKeeps, CannotExtractKeeps,
       FinishCheckingKeeps, StartMovingKeeps, NoteMovedKeeps, FinishMovingKeeps
<1>7. CASE \/ CannotCommit \/ CannotBegin \/ FinishActivating \/ RollbackFails
           \/ FinishRestoring \/ Rethrow \/ Signal \/ Restart
    BY <1>7, CannotCommitKeeps, CannotBeginKeeps, FinishActivatingKeeps, RollbackFailsKeeps,
       FinishRestoringKeeps, RethrowKeeps, SignalKeeps, RestartKeeps
<1> QED BY <1>1, <1>2, <1>3, <1>4, <1>5, <1>6, <1>7 DEF Next

(* The user only puts files where the scene says.                          *)
MadeKnown == made \subseteq scene.userFiles

LEMMA MadeStays == [Next]_vars => scene' = scene /\ (made' = made \/ \E f \in File : UserCreates(f))
BY DEF Next, vars, Activate, Deactivate, DeactivateOther, Reactivate, StartsDeactivating,
       DeleteFile, CheckReplaced, CheckFree, RenameAway, NoteBackup, CheckForced,
       CheckFails, MoveFile, CannotMove, DeleteMoved, RestoreBackup, UserCreates,
       FinishDeactivating, CannotDelete, StartChecking, CannotExtract, FinishChecking,
       StartMoving, NoteMoved, FinishMoving, CannotCommit, CannotBegin,
       FinishActivating, RollbackFails, FinishRestoring, Rethrow, Signal, Restart

LEMMA MadeInvariance == Spec => []MadeKnown
<1>1. Init => MadeKnown
    BY DEF Init, MadeKnown
<1>2. MadeKnown /\ [Next]_vars => MadeKnown'
    BY MadeStays DEF MadeKnown, UserCreates
<1> QED BY <1>1, <1>2, PTL DEF Spec

LEMMA KInvariance == Spec => [](Ticking => KInv)
<1>1. Init => (Ticking => KInv)
    BY InitKeeps
<1>2. IInv /\ (Ticking => KInv) /\ [Next]_vars => (Ticking => KInv)'
    BY NextKeeps, MadeStays DEF Ticking
<1> QED BY <1>1, <1>2, Invariance, PTL DEF Spec

(* No signal is raised where the user has files in the way.                *)
SignalsSpareUsers == "signal" \notin scene.faults \/ scene.userFiles = {}

(* Whatever the user put into the prefix is there under some name at every *)
(* step, and each file of an installed port between operations, however    *)
(* activations fail and whatever they are forced over, provided no two     *)
(* begin in the same second and no signal meets a user's file.             *)
THEOREM NothingLost == Spec => [](Ticking /\ SignalsSpareUsers => FilesKept)
<1>1. IInv /\ KInv /\ MadeKnown /\ SignalsSpareUsers => FilesKept
    <2> SUFFICES ASSUME IInv, KInv, MadeKnown, SignalsSpareUsers PROVE FilesKept
        OBVIOUS
    <2>1. ASSUME NEW f \in made PROVE \E s \in 0 .. MaxStamp : disk[<<f, s>>] = "user"
        <3>1. "signal" \notin scene.faults
            BY <2>1 DEF SignalsSpareUsers, MadeKnown
        <3> QED BY <2>1, <3>1 DEF KInv, UserKept, Somewhere, On, Stamps
    <2>2. ASSUME op.pc = "idle", "fault" \notin met, NEW e \in Installed(db), NEW f \in Image[e]
          PROVE  \E s \in 0 .. MaxStamp : disk[<<f, s>>] = e
        BY <2>2 DEF KInv, PortsKept, Somewhere, On, Stamps
    <2> QED BY <2>1, <2>2 DEF FilesKept
<1> QED BY <1>1, KInvariance, Invariance, MadeInvariance, PTL

-----------------------------------------------------------------------------
(* Without a fault, the registry says exactly what is where.               *)
InPlace(r) ==
    \A e \in Entry, f \in File, s \in Stamps : On(f, s) = e <=> Has(r, e, f, s)

Settled == {"idle", "others", "replaced", "react", "committed"}

(* What each phase has changed on the disk ahead of the registry, or in    *)
(* the registry ahead of the disk.                                         *)
Ahead ==
    /\ op.pc \in Settled => InPlace(db) /\ ~open
    /\ op.pc = "deact" => \A e \in Entry, f \in File, s \in Stamps :
          On(f, s) = e <=> Has(db, e, f, s) /\ (e = op.victim => <<f, s>> \in op.paths)
    /\ op.pc = "check" => InPlace(work)
    /\ op.pc = "renamed" => \A e \in Entry, f \in File, s \in Stamps :
          On(f, s) = e <=> IF f \in op.cur /\ s = op.stamp THEN Has(work, e, f, 0)
                           ELSE ~(f \in op.cur /\ s = 0) /\ Has(work, e, f, s)
    /\ op.pc \in {"move", "moved"} => \A e \in Entry, f \in File, s \in Stamps :
          On(f, s) = e <=> \/ Has(db, e, f, s)
                           \/ e = op.port /\ s = 0 /\ f \in Image[op.port] \ op.todo
    /\ op.pc = "unmove" => \A e \in Entry, f \in File, s \in Stamps :
          On(f, s) = e <=> IF f \in op.backups /\ s = op.stamp THEN Has(db, e, f, 0)
                           ELSE /\ ~(f \in op.backups /\ s = 0)
                                /\ Has(db, e, f, s) \/ (e = op.port /\ s = 0 /\ f \in op.moved)

(* What the first transaction, or the rollback after it, still knows of    *)
(* the backups.                                                            *)
BackupsKnown ==
    /\ op.pc \in {"check", "renamed", "unmove"} =>
          \A f \in op.backups, e \in Entry : ~Has(db, e, f, op.stamp)
    /\ op.pc \in {"check", "renamed"} =>
          \A e \in Entry, f \in File :
              work.actual[e][f] = IF f \in op.backups /\ Has(db, e, f, 0)
                                    THEN <<f, op.stamp>> ELSE db.actual[e][f]
    /\ op.pc = "unmove" => ~open /\ (op.backups = {} \/ op.moved = {})

XInv == met = {} => Ahead /\ BackupsKnown

LEMMA SettledExact ==
    ASSUME XInv, met' = met, db' = db, disk' = disk, open' = open \/ ~open',
           op.pc \in Settled, op'.pc \in Settled
    PROVE  XInv'
BY DEF XInv, Ahead, BackupsKnown, Settled, InPlace, On, Has

LEMMA DeactivatingExact ==
    ASSUME IInv, XInv, met' = met, db' = db, disk' = disk, op.pc \in Settled,
           NEW e \in Entry, op'.pc = "deact", op'.victim = e, op'.paths = ActivePaths(db, e)
    PROVE  XInv'
<1> SUFFICES ASSUME met = {} PROVE XInv'
    BY DEF XInv
<1>1. \A f \in File, s \in Stamps : Has(db, e, f, s) => <<f, s>> \in ActivePaths(db, e)
    BY PathsDiffer DEF ActivePaths, Has, Stamps
<1>2. InPlace(db)
    BY DEF XInv, Ahead
<1> QED BY <1>1, <1>2 DEF XInv, Ahead, BackupsKnown, InPlace, On, Has, Settled

LEMMA DeleteFileExact ==
    ASSUME IInv, KInv, XInv, NEW p \in Path, DeleteFile(p)
    PROVE  XInv'
<1> SUFFICES ASSUME met = {} PROVE XInv'
    BY DEF XInv, DeleteFile
<1>1. /\ op \in Operation /\ op.pc = "deact" /\ p \in op.paths
      /\ disk' = [disk EXCEPT ![p] = None]
      /\ op' = [op EXCEPT !.paths = @ \ {p}]
      /\ db' = db
    BY DEF DeleteFile, IInv, Types
<1>2. op'.pc = "deact" /\ op'.victim = op.victim /\ op'.paths = op.paths \ {p}
    BY <1>1 DEF Operation
<1>3. op.victim \in Entry /\ disk \in [Path -> Content] /\ IsRegistry(db)
    BY <1>1 DEF IInv, Types, WorkSound, Installed, KInv, Layout, DiskType
<1>4. PICK h \in File : p = db.actual[op.victim][h]
    BY <1>1 DEF KInv, Layout, DeletesOwn
<1>5. PICK r \in Stamps : p = <<h, r>>
    <2>1. p \in PathOf(h)
        BY <1>3, <1>4 DEF IsRegistry
    <2>2. p # NoPath
        BY DEF Path, NoPath
    <2> QED BY <2>1, <2>2 DEF PathOf, Stamps
<1>6. \A e \in Entry : Has(db, e, h, r) => e = op.victim
    <2>1. p # NoPath
        BY DEF Path, NoPath
    <2> QED BY <1>3, <1>4, <1>5, <2>1, ZenonT(60) DEF IInv, Owned, Has
<1>7. \A f \in File, s \in Stamps : <<f, s>> \in Path /\ (<<f, s>> = p <=> f = h /\ s = r)
    BY <1>5, PathsDiffer DEF Stamps
<1>8. \A f \in File, s \in Stamps : On(f, s)' = IF f = h /\ s = r THEN None ELSE On(f, s)
    BY <1>1, <1>3, <1>7 DEF On
<1>9. ASSUME NEW e \in Entry, NEW f \in File, NEW s \in Stamps
      PROVE  On(f, s)' = e <=> Has(db, e, f, s) /\ (e = op.victim => <<f, s>> \in op.paths \ {p})
    <2>1. CASE f = h /\ s = r
        <3>1. None # e
            BY ConstantsOK DEF ConstantsOK
        <3> QED BY <1>6, <1>7, <1>8, <2>1, <3>1
    <2>2. CASE ~(f = h /\ s = r)
        BY <1>1, <1>7, <1>8, <2>2 DEF XInv, Ahead
    <2> QED BY <2>1, <2>2
<1> QED BY <1>1, <1>2, <1>9 DEF XInv, Ahead, BackupsKnown, Settled, Has

LEMMA FinishDeactivatingExact == IInv /\ XInv /\ FinishDeactivating => XInv'
<1> SUFFICES ASSUME IInv, XInv, FinishDeactivating, met = {} PROVE XInv'
    BY DEF XInv, FinishDeactivating
<1> DEFINE v == op.victim
<1>1. /\ v \in Entry /\ ~open'
      /\ \A d \in Entry, f \in File :
            db'.actual[d][f] = IF d = v THEN NoPath ELSE db.actual[d][f]
    BY DeactivationCommits
<1>2. /\ op \in Operation /\ op.pc = "deact" /\ op.paths = {} /\ disk' = disk
      /\ op' = [op EXCEPT !.pc = op.back, !.others = @ \ {v}, !.victim = None]
    BY DEF FinishDeactivating, IInv, Types
<1>3. op'.pc \in {"idle", "others", "replaced"}
    BY <1>2 DEF Operation, Pcs
<1>4. \A d \in Entry, f \in File, s \in Stamps : Has(db, d, f, s)' <=> d # v /\ Has(db, d, f, s)
    <2>1. \A f \in File, s \in Stamps : <<f, s>> # NoPath
        BY PathsDiffer DEF Stamps
    <2> QED BY <1>1, <2>1, ZenonT(60) DEF Has
<1>5. \A d \in Entry, f \in File, s \in Stamps : On(f, s) = d <=> Has(db, d, f, s) /\ d # v
    BY <1>2 DEF XInv, Ahead
<1> HIDE DEF v
<1>6. InPlace(db)'
    <2> SUFFICES ASSUME NEW d \in Entry, NEW f \in File, NEW s \in Stamps
                 PROVE  disk'[<<f, s>>] = d <=> Has(db, d, f, s)'
        BY DEF InPlace, On
    <2>1. disk'[<<f, s>>] = On(f, s)
        BY <1>2 DEF On
    <2> QED BY <1>4, <1>5, <2>1
<1> QED BY <1>1, <1>3, <1>6 DEF XInv, Ahead, BackupsKnown, Settled

LEMMA StartCheckingExact == IInv /\ KInv /\ XInv /\ StartChecking => XInv'
<1> SUFFICES ASSUME IInv, KInv, XInv, StartChecking, met = {} PROVE XInv'
    BY DEF XInv, StartChecking
<1>1. /\ op \in Operation /\ op.pc = "others" /\ work = db
      /\ op' = [op EXCEPT !.pc = "check", !.todo = Image[op.port]]
      /\ UNCHANGED <<db, work, disk>>
    BY DEF StartChecking, IInv, Types, WorkSound
<1>2. op'.pc = "check" /\ op'.backups = op.backups
    BY <1>1 DEF Operation, Pcs
<1>3. op.backups = {} /\ InPlace(db)
    BY <1>1 DEF KInv, Layout, BackupsFree, Phase, XInv, Ahead, Settled
<1> QED BY <1>1, <1>2, <1>3 DEF XInv, Ahead, BackupsKnown, Settled, InPlace, On, Has

LEMMA CheckedExact ==
    ASSUME XInv, UNCHANGED <<met, db, work, disk>>,
           op.pc = "check", op'.pc = "check", op'.stamp = op.stamp, op'.backups = op.backups
    PROVE  XInv'
BY DEF XInv, Ahead, BackupsKnown, Settled, InPlace, On, Has

LEMMA RenameAwayExact ==
    ASSUME IInv, KInv, XInv, NEW f \in File, RenameAway(f)
    PROVE  XInv'
<1> SUFFICES ASSUME met = {} PROVE XInv'
    BY DEF XInv, RenameAway
<1> DEFINE t == op.stamp
<1>1. /\ op \in Operation /\ op.pc = "check" /\ f \in op.todo
      /\ disk' = [disk EXCEPT ![<<f, t>>] = disk[<<f, 0>>], ![<<f, 0>>] = None]
      /\ op' = [op EXCEPT !.pc = "renamed", !.cur = {f}]
      /\ UNCHANGED <<db, work>>
    BY DEF RenameAway, IInv, Types, Place
<1>2. /\ op'.pc = "renamed" /\ op'.stamp = t /\ op'.backups = op.backups /\ op'.cur = {f}
    BY <1>1 DEF Operation, Pcs
<1>3. t \in Stamps /\ 0 \in Stamps /\ t # 0 /\ disk \in [Path -> Content]
    BY <1>1, TodoUntouched DEF KInv, Layout, DiskType
<1>4. \A g \in File, s \in Stamps : <<g, s>> \in Path
    BY PathsDiffer DEF Stamps
<1>5. ASSUME NEW g \in File, NEW s \in Stamps
      PROVE  disk'[<<g, s>>] = IF g = f /\ s = 0 THEN None
                               ELSE IF g = f /\ s = t THEN On(f, 0) ELSE On(g, s)
    BY <1>1, <1>3, <1>4 DEF On
<1> HIDE DEF t
<1>6. ASSUME NEW e \in Entry, NEW g \in File, NEW s \in Stamps
      PROVE  disk'[<<g, s>>] = e <=> IF g = f /\ s = t THEN Has(work, e, g, 0)
                                     ELSE ~(g = f /\ s = 0) /\ Has(work, e, g, s)
    <2>1. None # e
        BY ConstantsOK DEF ConstantsOK
    <2>2. \A h \in File, r \in Stamps : On(h, r) = e <=> Has(work, e, h, r)
        BY <1>1 DEF XInv, Ahead, InPlace
    <2> QED BY <1>3, <1>5, <2>1, <2>2
<1>7. Ahead'
    <2>1. ASSUME NEW e \in Entry, NEW g \in File, NEW s \in Stamps
          PROVE  disk'[<<g, s>>] = e <=>
                     IF g \in op'.cur /\ s = op'.stamp THEN work'.actual[e][g] = <<g, 0>>
                     ELSE ~(g \in op'.cur /\ s = 0) /\ work'.actual[e][g] = <<g, s>>
        <3>1. g \in op'.cur <=> g = f
            BY <1>2
        <3>2. work' = work
            BY <1>1
        <3> QED BY <1>2, <1>6, <3>1, <3>2 DEF Has
    <2> QED BY <1>2, <2>1 DEF Ahead, Settled, On, Has
<1>8. BackupsKnown'
    BY <1>1, <1>2 DEF XInv, BackupsKnown, Has, t
<1> QED BY <1>7, <1>8 DEF XInv

(* While files are checked, none that is free has an owner.                *)
LEMMA TakeOverExact ==
    ASSUME IInv, KInv, XInv, NEW f \in File, NEW b \in BOOLEAN, TakeOver(f, b),
           f \in op.todo, Replaceable(f) = {},
           IF b THEN op.pc = "renamed" /\ op.cur = {f}
                ELSE op.pc = "check" /\ On(f, 0) = None,
           UNCHANGED <<disk, met>>
    PROVE  XInv'
<1> SUFFICES ASSUME met = {} PROVE XInv'
    BY DEF XInv
<1> DEFINE t == op.stamp
           after == IF b THEN op.backups \cup {f} ELSE op.backups
<1>1. /\ op \in Operation /\ op.pc \in {"check", "renamed"} /\ Phase = op.pc
      /\ op' = [op EXCEPT !.pc = "check", !.todo = @ \ {f}, !.backups = after]
      /\ db' = db
      /\ \A e \in Entry, g \in File :
            work'.actual[e][g] = IF g = f /\ Has(work, e, f, 0) THEN <<f, t>> ELSE work.actual[e][g]
    BY TakeOverIs DEF IInv, Types, Phase
<1>2. op'.pc = "check" /\ op'.stamp = t /\ op'.backups = after
    BY <1>1 DEF Operation, Pcs
<1>3. /\ t \in Stamps /\ 0 \in Stamps /\ t # 0 /\ op.backups \subseteq File
      /\ \A e \in Entry : work.actual[e][f] = db.actual[e][f]
    BY <1>1, TodoUntouched
<1>4. /\ \A e \in Entry : ~Has(db, e, f, t)
      /\ f \notin op.backups
    BY <1>1 DEF KInv, Layout, BackupsFree
<1>5. ASSUME ~b PROVE \A e \in Entry : ~Has(work, e, f, 0)
    <2>1. InPlace(work) /\ On(f, 0) = None
        BY <1>5 DEF XInv, Ahead
    <2> QED BY <1>3, <2>1, ConstantsOK DEF InPlace, ConstantsOK
<1> HIDE DEF t, after
<1>6. \A e \in Entry, g \in File, s \in Stamps :
         work'.actual[e][g] = <<g, s>> <=> IF g = f /\ Has(work, e, f, 0) THEN s = t ELSE Has(work, e, g, s)
    <2> SUFFICES ASSUME NEW e \in Entry, NEW g \in File, NEW s \in Stamps
                 PROVE  work'.actual[e][g] = <<g, s>> <=>
                            IF g = f /\ Has(work, e, f, 0) THEN s = t ELSE Has(work, e, g, s)
        OBVIOUS
    <2>1. <<f, t>> = <<f, s>> <=> s = t
        OBVIOUS
    <2> QED BY <1>1, <2>1 DEF Has
<1>7. InPlace(work)'
    <2> SUFFICES ASSUME NEW e \in Entry, NEW g \in File, NEW s \in Stamps
                 PROVE  disk'[<<g, s>>] = e <=> work'.actual[e][g] = <<g, s>>
        BY DEF InPlace, On, Has
    <2>1. disk'[<<g, s>>] = On(g, s)
        BY DEF On
    <2>2. Has(work, e, f, 0) => \A r \in Stamps : Has(work, e, f, r) => r = 0
        BY <1>3 DEF Has
    <2>3. ~Has(work, e, f, t)
        BY <1>3, <1>4 DEF Has
    <2>4. CASE b
        <3>1. On(g, s) = e <=> IF g = f /\ s = t THEN Has(work, e, g, 0)
                               ELSE ~(g = f /\ s = 0) /\ Has(work, e, g, s)
            BY <2>4 DEF XInv, Ahead, t
        <3> QED BY <1>3, <1>6, <2>1, <2>2, <2>3, <3>1
    <2>5. CASE ~b
        BY <1>5, <1>6, <2>1, <2>5 DEF XInv, Ahead, InPlace
    <2> QED BY <2>4, <2>5
<1>8. BackupsKnown'
    <2>1. \A g \in after, e \in Entry : ~Has(db, e, g, t)
        BY <1>1, <1>4 DEF XInv, BackupsKnown, t, after
    <2>2. ASSUME NEW e \in Entry, NEW g \in File
          PROVE  work'.actual[e][g] = IF g \in after /\ Has(db, e, g, 0) THEN <<g, t>> ELSE db.actual[e][g]
        <3>1. work.actual[e][g] = IF g \in op.backups /\ Has(db, e, g, 0) THEN <<g, t>> ELSE db.actual[e][g]
            BY <1>1 DEF XInv, BackupsKnown, t
        <3>2. CASE g # f
            BY <1>1, <3>1, <3>2 DEF after
        <3>3. CASE g = f
            <4>1. Has(work, e, f, 0) <=> Has(db, e, f, 0)
                BY <1>3 DEF Has
            <4> QED BY <1>1, <1>3, <1>5, <3>3, <4>1 DEF after
        <3> QED BY <3>2, <3>3
    <2> QED BY <1>1, <1>2, <2>1, <2>2 DEF BackupsKnown, Has
<1> QED BY <1>2, <1>7, <1>8 DEF XInv, Ahead, Settled

LEMMA FinishCheckingExact == IInv /\ XInv /\ FinishChecking => XInv'
<1> SUFFICES ASSUME IInv, XInv, FinishChecking, met = {} PROVE XInv'
    BY DEF XInv, FinishChecking
<1>1. /\ op \in Operation /\ op.pc = "check" /\ db' = work /\ ~open' /\ disk' = disk
      /\ op' = [op EXCEPT !.pc = "replaced", !.others = op.replaced]
    BY DEF FinishChecking, Commit, IInv, Types
<1>2. op'.pc = "replaced"
    BY <1>1 DEF Operation, Pcs
<1> QED BY <1>1, <1>2 DEF XInv, Ahead, BackupsKnown, Settled, InPlace, On, Has

(* A check that fails leaves the backups made so far to the rollback.      *)
LEMMA CheckFailsExact ==
    ASSUME IInv, KInv, XInv, NEW f \in File, CheckFails(f)
    PROVE  XInv'
<1> SUFFICES ASSUME met = {} PROVE XInv'
    BY DEF XInv, CheckFails
<1> DEFINE t == op.stamp
<1>1. /\ op \in Operation /\ op.pc = "check" /\ db' = db /\ ~open' /\ disk' = disk
      /\ op' = [op EXCEPT !.pc = "unmove", !.moved = {}]
    BY DEF CheckFails, Throw, Rollback, IInv, Types
<1>2. op'.pc = "unmove" /\ op'.stamp = t /\ op'.moved = {} /\ op'.backups = op.backups
    BY <1>1 DEF Operation, Pcs
<1>3. t \in Stamps /\ 0 \in Stamps /\ t # 0 /\ op.backups \subseteq File
    BY <1>1, TodoUntouched
<1> HIDE DEF t
<1>4. ASSUME NEW e \in Entry, NEW g \in File, NEW s \in Stamps
      PROVE  On(g, s) = e <=> IF g \in op.backups /\ s = t THEN Has(db, e, g, 0)
                              ELSE ~(g \in op.backups /\ s = 0) /\ Has(db, e, g, s)
    <2>1. On(g, s) = e <=> work.actual[e][g] = <<g, s>>
        BY <1>1 DEF XInv, Ahead, InPlace, Has
    <2>2. work.actual[e][g] = IF g \in op.backups /\ Has(db, e, g, 0) THEN <<g, t>> ELSE db.actual[e][g]
        BY <1>1 DEF XInv, BackupsKnown, t
    <2>3. g \in op.backups => ~Has(db, e, g, t) /\ ~Has(work, e, g, 0)
        BY <1>1 DEF XInv, BackupsKnown, KInv, Layout, PlacesFree, Phase, t
    <2>4. \A r, q \in Stamps : <<g, r>> = <<g, q>> => r = q
        OBVIOUS
    <2> QED BY <1>3, <2>1, <2>2, <2>3, <2>4 DEF Has
<1>5. Ahead'
    <2>1. ASSUME NEW e \in Entry, NEW g \in File, NEW s \in Stamps
          PROVE  disk'[<<g, s>>] = e <=>
                     IF g \in op'.backups /\ s = op'.stamp THEN db'.actual[e][g] = <<g, 0>>
                     ELSE ~(g \in op'.backups /\ s = 0) /\ db'.actual[e][g] = <<g, s>>
        BY <1>1, <1>2, <1>4 DEF On, Has
    <2>2. \A g : g \notin op'.moved
        BY <1>2
    <2> QED BY <1>2, <2>1, <2>2 DEF Ahead, Settled, On, Has
<1>6. BackupsKnown'
    BY <1>1, <1>2 DEF XInv, BackupsKnown, Has, t
<1> QED BY <1>5, <1>6 DEF XInv

LEMMA PortHasNone ==
    ASSUME IInv, op.port \in Entry, db.state[op.port] = "imaged"
    PROVE  \A f \in File, s \in Stamps : ~Has(db, op.port, f, s)
<1>1. \A f \in File, s \in Stamps : <<f, s>> # NoPath
    BY PathsDiffer DEF Stamps
<1> QED BY <1>1 DEF IInv, StateMatchesFiles, Has

(* An error of the second transaction, unless there are backups.           *)
LEMMA LateThrowExact ==
    ASSUME IInv, KInv, XInv, Throw(TRUE), NoteUndone, disk' = disk,
           op.pc \in {"replaced", "move"}
    PROVE  XInv'
<1> SUFFICES ASSUME met' = {} PROVE XInv'
    BY DEF XInv
<1>1. met = {} /\ op.backups = {}
    BY DEF NoteUndone
<1>2. /\ op \in Operation /\ db' = db /\ ~open'
      /\ op' = [op EXCEPT !.pc = "unmove"]
    BY DEF Throw, Rollback, IInv, Types, Operation
<1>3. /\ op'.pc = "unmove" /\ op'.moved = op.moved /\ op'.backups = {} /\ op'.port = op.port
    BY <1>1, <1>2 DEF Operation, Pcs
<1>4. \A e \in Entry, f \in File, s \in Stamps :
         On(f, s) = e <=> Has(db, e, f, s) \/ (e = op.port /\ s = 0 /\ f \in op.moved)
    <2>1. CASE op.pc = "replaced"
        <3>1. op.moved = {} /\ InPlace(db)
            BY <1>1, <2>1 DEF KInv, Layout, BackupsFree, Phase, XInv, Ahead, Settled
        <3> QED BY <3>1 DEF InPlace
    <2>2. CASE op.pc = "move"
        <3>1. op.moved = Image[op.port] \ op.todo
            BY <2>2 DEF KInv, Layout, MovesOwn, Phase
        <3> QED BY <1>1, <2>2, <3>1 DEF XInv, Ahead
    <2> QED BY <2>1, <2>2
<1>5. Ahead'
    BY <1>2, <1>3, <1>4 DEF Ahead, Settled, On, Has
<1> QED BY <1>2, <1>3, <1>5 DEF XInv, BackupsKnown

LEMMA StartMovingExact == IInv /\ KInv /\ XInv /\ StartMoving => XInv'
<1> SUFFICES ASSUME IInv, KInv, XInv, StartMoving PROVE XInv'
    OBVIOUS
<1>1. /\ op \in Operation /\ op.pc = "replaced" /\ disk' = disk
    BY DEF StartMoving, IInv, Types
<1>2. CASE Throw(TRUE) /\ NoteUndone
    BY <1>1, <1>2, LateThrowExact
<1>3. CASE /\ op' = [op EXCEPT !.pc = "move", !.todo = Image[op.port]]
           /\ UNCHANGED <<db, met>>
    <2>1. op'.pc = "move" /\ op'.port = op.port /\ op'.todo = Image[op.port]
        BY <1>1, <1>3 DEF Operation, Pcs
    <2>2. met = {} => InPlace(db)
        BY <1>1 DEF XInv, Ahead, Settled
    <2> QED BY <1>1, <1>3, <2>1, <2>2 DEF XInv, Ahead, BackupsKnown, Settled, InPlace, On, Has
<1> QED BY <1>2, <1>3 DEF StartMoving

LEMMA CannotMoveExact ==
    ASSUME IInv, KInv, XInv, NEW f \in File, CannotMove(f)
    PROVE  XInv'
BY LateThrowExact DEF CannotMove

LEMMA MoveFileExact ==
    ASSUME IInv, KInv, XInv, NEW f \in File, MoveFile(f)
    PROVE  XInv'
<1> SUFFICES ASSUME met = {} PROVE XInv'
    BY DEF XInv, MoveFile
<1> DEFINE p == op.port
<1>1. /\ op \in Operation /\ op.pc = "move" /\ f \in op.todo /\ p \in Entry
      /\ disk' = [disk EXCEPT ![Place(f)] = p]
      /\ op' = [op EXCEPT !.pc = "moved", !.cur = {f}, !.todo = @ \ {f}]
      /\ UNCHANGED <<db, made>>
    BY DEF MoveFile, IInv, Types, PortKnown
<1>2. op'.pc = "moved" /\ op'.port = p /\ op'.todo = op.todo \ {f}
    BY <1>1 DEF Operation, Pcs
<1>3. op.todo \subseteq Image[p] /\ Claimed
    BY <1>1 DEF KInv, Layout, MovesOwn, Phase, IInv, WorkSound
<1>4. \A e \in Entry : ~Has(db, e, f, 0)
    BY <1>1, <1>3 DEF Claimed, Has, Place
<1>5. \A g \in File, s \in Stamps : On(g, s)' = IF g = f /\ s = 0 THEN p ELSE On(g, s)
    BY <1>1, PutIs DEF Content, KInv, Layout, DiskType
<1> HIDE DEF p
<1>6. ASSUME NEW e \in Entry, NEW g \in File, NEW s \in Stamps
      PROVE  On(g, s)' = e <=> Has(db, e, g, s) \/ (e = p /\ s = 0 /\ g \in Image[p] \ (op.todo \ {f}))
    <2>1. On(g, s) = e <=> Has(db, e, g, s) \/ (e = p /\ s = 0 /\ g \in Image[p] \ op.todo)
        BY <1>1 DEF XInv, Ahead, p
    <2> QED BY <1>1, <1>3, <1>4, <1>5, <2>1
<1>7. Ahead'
    BY <1>1, <1>2, <1>6 DEF Ahead, Settled, Has
<1> QED BY <1>2, <1>7 DEF XInv, BackupsKnown

LEMMA NoteMovedExact == IInv /\ XInv /\ NoteMoved => XInv'
<1> SUFFICES ASSUME IInv, XInv, NoteMoved PROVE XInv'
    OBVIOUS
<1>1. /\ op \in Operation /\ op.pc = "moved"
      /\ op' = [op EXCEPT !.pc = "move", !.moved = @ \cup op.cur, !.cur = {}]
      /\ UNCHANGED <<db, work, disk, met>>
    BY DEF NoteMoved, IInv, Types
<1>2. op'.pc = "move" /\ op'.port = op.port /\ op'.todo = op.todo
    BY <1>1 DEF Operation, Pcs
<1> QED BY <1>1, <1>2 DEF XInv, Ahead, BackupsKnown, Settled, On, Has

LEMMA FinishMovingExact == IInv /\ XInv /\ FinishMoving => XInv'
<1> SUFFICES ASSUME IInv, XInv, FinishMoving, met = {} PROVE XInv'
    BY DEF XInv, FinishMoving
<1> DEFINE p == op.port
<1>1. /\ p \in Entry /\ db.state[p] = "imaged" /\ ~open'
      /\ \A d \in Entry, f \in File :
            db'.actual[d][f] = IF d # p THEN db.actual[d][f]
                               ELSE IF f \in Image[d] THEN Place(f) ELSE NoPath
    BY MovingCommits
<1>2. /\ op \in Operation /\ op.pc = "move" /\ op.todo = {} /\ disk' = disk
      /\ op' = [op EXCEPT !.pc = "committed"]
    BY DEF FinishMoving, IInv, Types
<1>3. op'.pc = "committed"
    BY <1>2 DEF Operation, Pcs
<1>4. \A f \in File, s \in Stamps : ~Has(db, p, f, s)
    BY <1>1, PortHasNone
<1> HIDE DEF p
<1>5. ASSUME NEW d \in Entry, NEW f \in File, NEW s \in Stamps
      PROVE  On(f, s) = d <=> db'.actual[d][f] = <<f, s>>
    <2>1. On(f, s) = d <=> Has(db, d, f, s) \/ (d = p /\ s = 0 /\ f \in Image[p])
        BY <1>2 DEF XInv, Ahead, p
    <2>2. <<f, s>> # NoPath /\ (<<f, 0>> = <<f, s>> <=> s = 0)
        BY PathsDiffer DEF Stamps
    <2>3. db'.actual[d][f] = IF d # p THEN db.actual[d][f]
                             ELSE IF f \in Image[d] THEN <<f, 0>> ELSE NoPath
        BY <1>1 DEF Place
    <2> QED BY <1>4, <2>1, <2>2, <2>3 DEF Has
<1>6. InPlace(db)'
    BY <1>2, <1>5 DEF InPlace, On, Has
<1> QED BY <1>1, <1>3, <1>6 DEF XInv, Ahead, BackupsKnown, Settled

LEMMA DeleteMovedExact ==
    ASSUME IInv, KInv, XInv, NEW f \in File, DeleteMoved(f)
    PROVE  XInv'
<1> SUFFICES ASSUME met = {} PROVE XInv'
    BY DEF XInv, DeleteMoved
<1> DEFINE p == op.port
<1>1. /\ op \in Operation /\ op.pc = "unmove" /\ f \in op.moved /\ p \in Entry
      /\ disk' = [disk EXCEPT ![Place(f)] = None]
      /\ op' = [op EXCEPT !.moved = @ \ {f}]
      /\ UNCHANGED <<db, open, made>>
    BY DEF DeleteMoved, IInv, Types, PortKnown
<1>2. /\ op'.pc = "unmove" /\ op'.port = p /\ op'.moved = op.moved \ {f}
      /\ op'.backups = op.backups
    BY <1>1 DEF Operation
<1>3. op.backups = {} /\ ~open
    BY <1>1 DEF XInv, BackupsKnown
<1>4. On(f, 0) = p /\ db.state[p] = "imaged"
    BY <1>1 DEF KInv, Layout, MovesOwn, Phase
<1>5. \A g \in File, s \in Stamps : On(g, s)' = IF g = f /\ s = 0 THEN None ELSE On(g, s)
    BY <1>1, PutIs DEF Content, KInv, Layout, DiskType
<1>6. 0 \in Stamps /\ \A s \in Stamps : ~Has(db, p, f, s)
    BY <1>1, <1>4, PortHasNone, PathsDiffer DEF Stamps
<1> HIDE DEF p
<1>7. \A e \in Entry, g \in File, s \in Stamps :
         On(g, s) = e <=> Has(db, e, g, s) \/ (e = p /\ s = 0 /\ g \in op.moved)
    BY <1>1, <1>3 DEF XInv, Ahead, p
<1>8. \A e \in Entry : ~Has(db, e, f, 0)
    BY <1>4, <1>6, <1>7
<1>9. ASSUME NEW e \in Entry, NEW g \in File, NEW s \in Stamps
      PROVE  On(g, s)' = e <=> Has(db, e, g, s) \/ (e = p /\ s = 0 /\ g \in op.moved \ {f})
    <2>1. None # e
        BY ConstantsOK DEF ConstantsOK
    <2> QED BY <1>5, <1>7, <1>8, <2>1
<1>10. Ahead'
    BY <1>1, <1>2, <1>3, <1>9 DEF Ahead, Settled, Has
<1> QED BY <1>1, <1>2, <1>3, <1>10 DEF XInv, BackupsKnown

LEMMA RestoreBackupExact ==
    ASSUME IInv, KInv, XInv, NEW f \in File, RestoreBackup(f)
    PROVE  XInv'
<1> SUFFICES ASSUME met = {} PROVE XInv'
    BY DEF XInv, RestoreBackup
<1> DEFINE t == op.stamp
<1>1. /\ op \in Operation /\ op.pc = "unmove" /\ op.moved = {} /\ f \in op.backups
      /\ disk' = [disk EXCEPT ![<<f, 0>>] = disk[<<f, t>>], ![<<f, t>>] = None]
      /\ op' = [op EXCEPT !.backups = @ \ {f}]
      /\ UNCHANGED <<db, open>>
    BY DEF RestoreBackup, IInv, Types, Place
<1>2. /\ op'.pc = "unmove" /\ op'.stamp = t /\ op'.moved = {} /\ op'.backups = op.backups \ {f}
    BY <1>1 DEF Operation
<1>3. t \in Stamps /\ 0 \in Stamps /\ t # 0 /\ disk \in [Path -> Content]
    BY <1>1, PathsDiffer DEF IInv, PortKnown, Operation, Stamps, KInv, Layout, DiskType
<1>4. \A g \in File, s \in Stamps : <<g, s>> \in Path
    BY PathsDiffer DEF Stamps
<1>5. ASSUME NEW g \in File, NEW s \in Stamps
      PROVE  disk'[<<g, s>>] = IF g = f /\ s = t THEN None
                               ELSE IF g = f /\ s = 0 THEN On(f, t) ELSE On(g, s)
    BY <1>1, <1>3, <1>4 DEF On
<1> HIDE DEF t
<1>6. \A e \in Entry, g \in File, s \in Stamps :
         On(g, s) = e <=> IF g \in op.backups /\ s = t THEN Has(db, e, g, 0)
                          ELSE ~(g \in op.backups /\ s = 0) /\ Has(db, e, g, s)
    BY <1>1 DEF XInv, Ahead, t
<1>7. \A e \in Entry : ~Has(db, e, f, t)
    BY <1>1 DEF XInv, BackupsKnown, t
<1>8. ASSUME NEW e \in Entry, NEW g \in File, NEW s \in Stamps
      PROVE  disk'[<<g, s>>] = e <=>
                 IF g # f /\ g \in op.backups /\ s = t THEN Has(db, e, g, 0)
                 ELSE ~(g # f /\ g \in op.backups /\ s = 0) /\ Has(db, e, g, s)
    <2>1. None # e
        BY ConstantsOK DEF ConstantsOK
    <2>2. ASSUME g = f PROVE disk'[<<g, s>>] = e <=> Has(db, e, g, s)
        <3>1. On(f, t) = e <=> Has(db, e, f, 0)
            BY <1>1, <1>3, <1>6
        <3>2. s # 0 /\ s # t => (On(f, s) = e <=> Has(db, e, f, s))
            BY <1>6
        <3> QED BY <1>3, <1>5, <1>7, <2>1, <2>2, <3>1, <3>2
    <2>3. ASSUME g # f PROVE disk'[<<g, s>>] = On(g, s)
        BY <1>5, <2>3
    <2> QED BY <1>6, <2>2, <2>3
<1>9. Ahead'
    <2>1. ASSUME NEW e \in Entry, NEW g \in File, NEW s \in Stamps
          PROVE  disk'[<<g, s>>] = e <=>
                     IF g \in op'.backups /\ s = op'.stamp THEN db'.actual[e][g] = <<g, 0>>
                     ELSE ~(g \in op'.backups /\ s = 0) /\ db'.actual[e][g] = <<g, s>>
        <3>1. g \in op'.backups <=> g # f /\ g \in op.backups
            BY <1>2
        <3>2. db' = db
            BY <1>1
        <3> QED BY <1>2, <1>8, <3>1, <3>2 DEF Has
    <2> QED BY <1>2, <2>1 DEF Ahead, Settled, On, Has
<1>10. BackupsKnown'
    BY <1>1, <1>2 DEF XInv, BackupsKnown, Has, t
<1> QED BY <1>9, <1>10 DEF XInv

LEMMA FinishRestoringExact == IInv /\ XInv /\ FinishRestoring => XInv'
<1> SUFFICES ASSUME IInv, XInv, FinishRestoring, met = {} PROVE XInv'
    BY DEF XInv, FinishRestoring
<1>1. /\ op \in Operation /\ op.pc = "unmove" /\ op.moved = {} /\ op.backups = {}
      /\ UNCHANGED <<db, work, open, disk>>
    BY DEF FinishRestoring, IInv, Types
<1>2. op'.pc \in {"idle", "react"}
    BY <1>1, FailedOpEnds DEF FinishRestoring, Operation, Pcs
<1>3. InPlace(db) /\ ~open
    BY <1>1 DEF XInv, Ahead, BackupsKnown, InPlace
<1> QED BY <1>1, <1>2, <1>3 DEF XInv, Ahead, BackupsKnown, Settled, InPlace, On, Has

LEMMA UserCreatesExact ==
    ASSUME IInv, KInv, XInv, NEW f \in File, UserCreates(f)
    PROVE  XInv'
<1> SUFFICES ASSUME met = {} PROVE XInv'
    BY DEF XInv, UserCreates
<1>1. /\ op.pc = "idle" /\ Owners(db, Place(f)) = {}
      /\ disk' = [disk EXCEPT ![Place(f)] = "user"] /\ made' = made \cup {f}
      /\ UNCHANGED <<db, open, op>>
    BY DEF UserCreates
<1>2. \A g \in File, s \in Stamps : On(g, s)' = IF g = f /\ s = 0 THEN "user" ELSE On(g, s)
    BY <1>1, PutIs DEF Content, KInv, Layout, DiskType
<1>3. \A e \in Entry : ~Has(db, e, f, 0)
    <2>1. \A e \in Entry : e \in Owners(db, <<f, 0>>) <=> db.actual[e][f] = <<f, 0>>
        BY OwnersAre, PathsDiffer DEF IInv, Types
    <2> QED BY <1>1, <2>1 DEF Has, Place
<1>4. InPlace(db) /\ ~open
    BY <1>1 DEF XInv, Ahead, Settled
<1>5. ASSUME NEW e \in Entry, NEW g \in File, NEW s \in Stamps
      PROVE  On(g, s)' = e <=> Has(db, e, g, s)
    <2>1. "user" # e
        BY ConstantsOK DEF ConstantsOK
    <2> QED BY <1>2, <1>3, <1>4, <2>1 DEF InPlace
<1>6. InPlace(db)'
    BY <1>1, <1>5 DEF InPlace, Has
<1> QED BY <1>1, <1>4, <1>6 DEF XInv, Ahead, BackupsKnown

(* A fault: nothing is claimed any more.                                   *)
LEMMA FaultExact == met' # {} => XInv'
BY DEF XInv

LEMMA NextExact == IInv /\ KInv /\ XInv /\ [Next]_vars => XInv'
<1> SUFFICES ASSUME IInv, KInv, XInv, [Next]_vars PROVE XInv'
    OBVIOUS
<1>1. op \in Operation
    BY DEF IInv, Types
<1>2. CASE UNCHANGED vars
    <2>1. UNCHANGED <<db, work, open, disk, op, met>>
        BY <1>2 DEF vars
    <2> QED BY <2>1, SMTT(60) DEF XInv, Ahead, BackupsKnown, Settled, InPlace, On, Has
<1>3. ASSUME NEW e \in Entry, NEW f \in Forces, Activate(e, f) PROVE XInv'
    <2>1. op'.pc = "others"
        BY <1>1, <1>3 DEF Activate, StartsActivating, Operation
    <2> QED BY <1>3, <2>1, SettledExact DEF Activate, Settled
<1>4. ASSUME NEW e \in Entry, Reactivate(e) PROVE XInv'
    <2>1. op'.pc = "others"
        BY <1>1, <1>4 DEF Reactivate, StartsActivating, Operation
    <2> QED BY <1>4, <2>1, SettledExact DEF Reactivate, Settled
<1>5. ASSUME NEW e \in Entry, Deactivate(e) PROVE XInv'
    <2>1. work = db
        BY <1>5 DEF Deactivate, StartsDeactivating, IInv, WorkSound
    <2>2. op'.pc = "deact" /\ op'.victim = e /\ op'.paths = ActivePaths(db, e)
        BY <1>1, <1>5, <2>1 DEF Deactivate, Operation
    <2> QED BY <1>5, <2>2, DeactivatingExact DEF Deactivate, StartsDeactivating, Settled
<1>6. ASSUME NEW e \in Entry, DeactivateOther(e) PROVE XInv'
    <2>1. work = db
        BY <1>6 DEF DeactivateOther, StartsDeactivating, IInv, WorkSound
    <2>2. op'.pc = "deact" /\ op'.victim = e /\ op'.paths = ActivePaths(db, e)
        BY <1>1, <1>6, <2>1 DEF DeactivateOther, Operation
    <2> QED BY <1>6, <2>2, DeactivatingExact DEF DeactivateOther, StartsDeactivating, Settled
<1>7. CASE \E p \in Path : DeleteFile(p)
    BY <1>7, DeleteFileExact
<1>8. ASSUME NEW f \in File, CheckReplaced(f) PROVE XInv'
    <2>1. op'.pc = "check" /\ op'.stamp = op.stamp /\ op'.backups = op.backups
        BY <1>1, <1>8 DEF CheckReplaced, Operation
    <2> QED BY <1>8, <2>1, CheckedExact DEF CheckReplaced
<1>9. ASSUME NEW f \in File, CheckFree(f) PROVE XInv'
    <2>1. op'.pc = "check" /\ op'.stamp = op.stamp /\ op'.backups = op.backups
        BY <1>1, <1>9 DEF CheckFree, Operation
    <2> QED BY <1>9, <2>1, CheckedExact DEF CheckFree
<1>10. ASSUME NEW f \in File, NoteBackup(f) PROVE XInv'
    <2>1. f \in op.todo /\ Replaceable(f) = {}
        BY <1>10 DEF NoteBackup, KInv, Layout, BackupsFree, Phase
    <2> QED BY <1>10, <2>1, TakeOverExact DEF NoteBackup
<1>11. ASSUME NEW f \in File, CheckForced(f) PROVE XInv'
    BY <1>11, TakeOverExact DEF CheckForced, On, Place
<1>12. CASE \E f \in File : RenameAway(f) \/ CheckFails(f) \/ MoveFile(f) \/ CannotMove(f)
                            \/ DeleteMoved(f) \/ RestoreBackup(f) \/ UserCreates(f)
    BY <1>12, RenameAwayExact, CheckFailsExact, MoveFileExact, CannotMoveExact,
       DeleteMovedExact, RestoreBackupExact, UserCreatesExact
<1>13. CASE FinishDeactivating \/ StartChecking \/ FinishChecking \/ StartMoving \/ NoteMoved
            \/ FinishMoving \/ FinishRestoring
    BY <1>13, FinishDeactivatingExact, StartCheckingExact, FinishCheckingExact,
       StartMovingExact, NoteMovedExact, FinishMovingExact, FinishRestoringExact
<1>14. CASE CannotExtract
    <2>1. op'.pc \in Settled
        BY <1>14, FailedOpEnds DEF CannotExtract, Settled
    <2> QED BY <1>14, <2>1, SettledExact DEF CannotExtract, Settled
<1>15. CASE CannotBegin
    <2>1. met # {}
        BY <1>15 DEF CannotBegin, XInv, Ahead, Settled
    <2> QED BY <1>15, <2>1, FaultExact DEF CannotBegin
<1>16. CASE FinishActivating
    <2>1. op'.pc \in Settled
        BY <1>1, <1>16, IdleIs DEF FinishActivating, Settled, Operation
    <2> QED BY <1>16, <2>1, SettledExact DEF FinishActivating, Settled
<1>17. CASE Rethrow
    BY <1>17, IdleIs, SettledExact DEF Rethrow, Settled
<1>18. CASE Restart
    <2>1. CASE op.pc = "idle"
        BY <1>18, <2>1, IdleIs, SettledExact DEF Restart, Rollback, Settled
    <2>2. CASE op.pc # "idle"
        BY <1>18, <2>2, FaultExact DEF Restart
    <2> QED BY <2>1, <2>2
<1>19. CASE CannotDelete \/ CannotCommit \/ RollbackFails \/ Signal
    BY <1>19, FaultExact DEF CannotDelete, CannotCommit, RollbackFails, Signal
<1> QED BY <1>2, <1>3, <1>4, <1>5, <1>6, <1>7, <1>8, <1>9, <1>10, <1>11, <1>12, <1>13, <1>14,
           <1>15, <1>16, <1>17, <1>18, <1>19 DEF Next

LEMMA InitExact == Init => XInv
<1> SUFFICES ASSUME Init PROVE XInv
    OBVIOUS
<1>1. db = Empty /\ disk = [p \in Path |-> None] /\ op.pc = "idle" /\ ~open
    BY IdleIs DEF Init
<1>2. ASSUME NEW f \in File, NEW s \in Stamps, NEW e \in Entry
      PROVE  On(f, s) # e /\ ~Has(db, e, f, s)
    <2>1. <<f, s>> \in Path /\ <<f, s>> # NoPath
        BY PathsDiffer DEF Stamps
    <2> QED BY <1>1, <2>1, ConstantsOK DEF On, Has, Empty, ConstantsOK
<1>3. InPlace(db)
    BY <1>2 DEF InPlace
<1> QED BY <1>1, <1>3 DEF XInv, Ahead, BackupsKnown

LEMMA XInvariance == Spec => [](Ticking => XInv)
<1>1. Init => (Ticking => XInv)
    BY InitExact
<1>2. /\ IInv /\ (Ticking => KInv) /\ (Ticking => XInv) /\ [Next]_vars
      => (Ticking => XInv)'
    BY NextExact, MadeStays DEF Ticking
<1> QED BY <1>1, <1>2, Invariance, KInvariance, PTL DEF Spec

(* Between operations every active path holds the file of its owner, and   *)
(* an entry's file lies nowhere else, through failed activations, forced   *)
(* takeovers and the rollbacks of both, as long as nothing happens that    *)
(* the rollback does not provide for and no two activations begin in the   *)
(* same second.                                                            *)
THEOREM RegistryIsRight == Spec => [](Ticking => DiskMatchesRegistry)
<1>1. IInv /\ XInv => DiskMatchesRegistry
    <2> SUFFICES ASSUME IInv, XInv, op.pc = "idle", met = {}, NEW p \in Path, NEW e \in Entry
                 PROVE  disk[p] = e <=> p \in ActivePaths(db, e)
        BY DEF DiskMatchesRegistry
    <2>1. PICK f \in File, s \in Stamps : p = <<f, s>>
        BY DEF Path, Stamps
    <2>2. p \in ActivePaths(db, e) <=> Has(db, e, f, s)
        <3>1. e \in Owners(db, <<f, s>>) <=> db.actual[e][f] = <<f, s>>
            BY OwnersAre DEF IInv, Types, Stamps
        <3> QED BY <2>1, <3>1 DEF Owners, Has
    <2>3. disk[p] = e <=> Has(db, e, f, s)
        BY <2>1 DEF XInv, Ahead, Settled, InPlace, On
    <2> QED BY <2>2, <2>3
<1> QED BY <1>1, XInvariance, Invariance, PTL

-----------------------------------------------------------------------------
(***************************************************************************)
(* The rollback. ZInv says, from the moment an activation has begun to     *)
(* check its files until its rollback has done all it does, what there     *)
(* still is to put back: the registry is what it was but for the replaced  *)
(* ports that were deactivated since (Missing, RegistryAsWas), each of     *)
(* which the lists of the operation still name (ListsName), and a file of  *)
(* the user is where it was or under the suffix of the activation          *)
(* (UsersAsWere). Where the files of ports are then follows from Ahead.    *)
(***************************************************************************)
(* A rollback may still restore what there was: no backup is committed.    *)
Undoable ==
    \/ op.reacting
    \/ Phase \in {"check", "renamed", "unmove", "react"}
    \/ Phase \in {"replaced", "move", "moved"} /\ op.backups = {}

Was == Installed(before.db)
Missing == Was \ Installed(db)
WasUser(f, s) == before.disk[<<f, s>>] = "user"

(* What was remembered of registry and disk agreed.                        *)
Snapshot ==
    /\ IsRegistry(before.db) /\ before.disk \in [Path -> Content]
    /\ \A d, e \in Was : NameOf[d] = NameOf[e] => d = e
    /\ \A d, e \in Entry, f \in File, s \in Stamps :
          Has(before.db, d, f, s) /\ Has(before.db, e, f, s) => d = e
    /\ \A e \in Entry, f \in File :
          before.db.actual[e][f] # NoPath <=> f \in Image[e] /\ e \in Was
    /\ \A e \in Entry, f \in File, s \in Stamps :
          before.disk[<<f, s>>] = e <=> Has(before.db, e, f, s)

RegistryAsWas ==
    /\ Installed(db) \subseteq Was
    /\ \A e \in Entry, f \in File :
          db.actual[e][f] = IF e \in Missing THEN NoPath ELSE before.db.actual[e][f]
    /\ \A e \in Missing : IsReplaced(e)

(* A reactivation finds everything as its port left it: there is nothing   *)
(* to deactivate, to replace or to rename.                                 *)
Reacts ==
    /\ op.pc \notin {"renamed", "deact"}
    /\ op.pc \in {"others", "replaced"} => op.others = {}
    /\ op.pc = "check" => op.todo \subseteq Image[op.port]
    /\ op.replaced = {} /\ op.backups = {}
    /\ op.pc # "committed" => op.port \in Missing
    /\ Missing \subseteq op.react \cup {op.port} /\ op.react \subseteq Was
    /\ op.pc = "committed" => op.port \notin Missing

Prepares ==
    /\ op.replaced \subseteq Was /\ \A e \in op.replaced : IsReplaced(e)
    /\ Phase \in {"check", "renamed"} => Missing = {}
    /\ Phase = "replaced" => op.others \subseteq op.replaced
    /\ Missing \subseteq op.replaced

ListsName ==
    /\ op.reacting => Reacts
    /\ op.pc = "react" => /\ ~op.reacting /\ op.backups = {}
                          /\ Missing \subseteq op.react /\ op.react \subseteq Was
    /\ ~op.reacting /\ op.pc # "react" => Prepares

(* The files that have been renamed and not yet renamed back.              *)
Renamed == IF op.pc = "renamed" THEN op.backups \cup op.cur ELSE op.backups

UsersAsWere ==
    /\ \A f \in Renamed : ~WasUser(f, op.stamp)
    /\ \A f \in File, s \in Stamps :
          On(f, s) = "user" <=> IF f \in Renamed /\ s = op.stamp THEN WasUser(f, 0)
                                ELSE ~(f \in Renamed /\ s = 0) /\ WasUser(f, s)

ZInv ==
    met = {} /\ ReplacedWhole /\ Undoable => Snapshot /\ RegistryAsWas /\ ListsName /\ UsersAsWere

(* A step that may fail, or after which there is nothing to undo.          *)
LEMMA GivenUp == met' # {} \/ ~Undoable' => ZInv'
BY DEF ZInv

LEMMA SnapshotKept == Snapshot /\ before' = before => Snapshot'
BY SMTT(60) DEF Snapshot, Was, Installed, Has

LEMMA Restoring ==
    ASSUME ZInv, before' = before, met' = {} => met = {},
           met' = {} /\ Undoable' => Undoable,
           /\ met' = {} /\ Undoable' /\ ReplacedWhole
           /\ Snapshot /\ RegistryAsWas /\ ListsName /\ UsersAsWere
           => RegistryAsWas' /\ ListsName' /\ UsersAsWere'
    PROVE  ZInv'
<1> SUFFICES ASSUME met' = {}, ReplacedWhole', Undoable'
             PROVE  Snapshot' /\ RegistryAsWas' /\ ListsName' /\ UsersAsWere'
    BY DEF ZInv
<1>1. ReplacedWhole
    BY DEF ReplacedWhole
<1>2. Snapshot /\ RegistryAsWas /\ ListsName /\ UsersAsWere
    BY <1>1 DEF ZInv
<1>3. Snapshot'
    BY <1>2, SnapshotKept
<1> QED BY <1>1, <1>2, <1>3

(* The user's files stay where they are.                                   *)
LEMMA UsersLeft ==
    ASSUME UsersAsWere, before' = before, Renamed' = Renamed,
           op'.stamp = op.stamp \/ Renamed = {},
           \A f \in File, s \in Stamps : On(f, s)' = "user" <=> On(f, s) = "user"
    PROVE  UsersAsWere'
<1>1. ASSUME NEW f \in Renamed PROVE before'.disk[<<f, op'.stamp>>] # "user"
    BY <1>1 DEF UsersAsWere, WasUser
<1>2. ASSUME NEW f \in File, NEW s \in Stamps
      PROVE  On(f, s)' = "user" <=>
                 IF f \in Renamed /\ s = op'.stamp THEN before'.disk[<<f, 0>>] = "user"
                 ELSE ~(f \in Renamed /\ s = 0) /\ before'.disk[<<f, s>>] = "user"
    BY <1>2 DEF UsersAsWere, WasUser
<1> QED BY <1>1, <1>2 DEF UsersAsWere, WasUser

(* A step of the operation alone.                                          *)
LEMMA QuietRestoring ==
    ASSUME ZInv, UNCHANGED <<db, disk, before>>, met' = {} => met = {},
           met' = {} /\ Undoable' => Undoable,
           /\ met' = {} /\ Undoable' /\ ReplacedWhole /\ Snapshot /\ RegistryAsWas /\ ListsName
           => /\ ListsName'
              /\ Renamed' = Renamed /\ (op'.stamp = op.stamp \/ Renamed = {})
    PROVE  ZInv'
<1> SUFFICES ASSUME met' = {}, Undoable', ReplacedWhole, Snapshot, RegistryAsWas, ListsName,
                    UsersAsWere
             PROVE  RegistryAsWas' /\ ListsName' /\ UsersAsWere'
    BY Restoring
<1>1. RegistryAsWas'
    BY DEF RegistryAsWas, Missing, Was, Installed, IsReplaced
<1>2. UsersAsWere'
    <2>1. \A f \in File, s \in Stamps : On(f, s)' = "user" <=> On(f, s) = "user"
        BY DEF On
    <2> QED BY <2>1, UsersLeft
<1> QED BY <1>1, <1>2

LEMMA MissingStays == UNCHANGED <<db, before>> => Missing' = Missing /\ Was' = Was
BY DEF Missing, Was, Installed

LEMMA IdleUndoesNothing == op' = Idle => ~Undoable'
BY DEF Idle, Undoable, Phase

LEMMA FailedOpRestores ==
    ASSUME IInv, ZInv, op' = FailedOp, UNCHANGED <<db, disk, before>>, met' = met,
           op.pc \notin {"committed", "renamed"}
    PROVE  ZInv'
<1>1. CASE op' = Idle
    BY <1>1, IdleUndoesNothing, GivenUp
<1>2. CASE op' # Idle
    <2>1. /\ op \in Operation /\ op.reacting
          /\ op' = [op EXCEPT !.pc = "react", !.react = @ \cup {op.port},
                              !.reacting = FALSE, !.retry = TRUE]
        BY <1>2 DEF FailedOp, IInv, Types
    <2>2. /\ op'.pc = "react" /\ ~op'.reacting /\ op'.react = op.react \cup {op.port}
          /\ op'.backups = op.backups
        BY <2>1 DEF Operation, Pcs
    <2>3. Undoable
        BY <2>1 DEF Undoable
    <2>4. ASSUME ListsName PROVE ListsName' /\ Renamed' = Renamed /\ Renamed = {}
        <3>1. Reacts
            BY <2>1, <2>4 DEF ListsName
        <3>2. op.port \in Missing /\ Missing \subseteq op.react \cup {op.port}
              /\ op.react \subseteq Was /\ op.port \in Was /\ op.backups = {}
            BY <3>1 DEF Reacts, Missing
        <3>3. ListsName'
            BY <2>2, <3>2, MissingStays DEF ListsName
        <3> QED BY <2>2, <3>2, <3>3 DEF Renamed
    <2> QED BY <2>3, <2>4, QuietRestoring
<1> QED BY <1>1, <1>2

(* Steps that deactivate other versions or replaced ports.                 *)
LEMMA DeactivateOtherRestores ==
    ASSUME IInv, ZInv, NEW e \in Entry, DeactivateOther(e)
    PROVE  ZInv'
<1>1. /\ op \in Operation /\ op.pc \in {"others", "replaced"} /\ e \in op.others
      /\ UNCHANGED <<db, disk, before, met>>
    BY DEF DeactivateOther, StartsDeactivating, IInv, Types
<1>2. PICK v \in Ways :
          op' = [op EXCEPT !.pc = "deact", !.victim = e, !.back = op.pc,
                           !.paths = ActivePaths(work, e),
                           !.via = v, !.retry = FALSE]
    BY DEF DeactivateOther
<1>3. /\ op'.pc = "deact" /\ op'.back = op.pc /\ op'.reacting = op.reacting
      /\ op'.others = op.others /\ op'.replaced = op.replaced /\ op'.backups = op.backups
      /\ op'.stamp = op.stamp
    BY <1>1, <1>2 DEF Operation, Pcs
<1>4. Phase' = Phase
    BY <1>1, <1>3 DEF Phase
<1>5. Undoable' => Undoable
    BY <1>3, <1>4 DEF Undoable
<1>6. ASSUME ListsName PROVE ListsName' /\ Renamed' = Renamed
    <2>1. ~op.reacting
        BY <1>1, <1>6 DEF ListsName, Reacts
    <2>2. Prepares'
        BY <1>1, <1>3, <1>4, <1>6, <2>1, MissingStays DEF ListsName, Prepares, IsReplaced
    <2> QED BY <1>1, <1>3, <2>1, <2>2 DEF ListsName, Renamed
<1> QED BY <1>1, <1>3, <1>5, <1>6, QuietRestoring

LEMMA ReactivateRestores ==
    ASSUME IInv, ZInv, NEW e \in Entry, Reactivate(e)
    PROVE  ZInv'
<1>1. /\ op \in Operation /\ op.pc = "react" /\ work = db /\ e \in op.react
      /\ db.state[e] = "imaged"
      /\ UNCHANGED <<db, disk, before, met>>
    BY DEF Reactivate, IInv, Types, WorkSound
<1>2. PICK s \in 1 .. MaxStamp, v \in Ways :
          op' = [StartsActivating(e, s) EXCEPT !.reacting = TRUE, !.via = v,
                                               !.retry = FALSE, !.react = @ \ {e}]
    BY DEF Reactivate
<1>3. /\ op'.pc = "others" /\ op'.reacting /\ op'.port = e /\ op'.react = op.react \ {e}
      /\ op'.others = {x \in Installed(db) : NameOf[x] = NameOf[e]}
      /\ op'.replaced = {} /\ op'.backups = {}
    <2>1. s \in 0 .. MaxStamp /\ v \in {"target", "direct"}
        BY DEF Ways
    <2>2. /\ StartsActivating(e, s) \in Operation
          /\ StartsActivating(e, s).pc = "others" /\ StartsActivating(e, s).port = e
          /\ StartsActivating(e, s).react = op.react
          /\ StartsActivating(e, s).others = {x \in Installed(db) : NameOf[x] = NameOf[e]}
          /\ StartsActivating(e, s).replaced = {} /\ StartsActivating(e, s).backups = {}
        BY <1>1, <2>1 DEF StartsActivating, Operation, Pcs, Installed
    <2> QED BY <1>2, <2>1, <2>2 DEF Operation
<1>4. Undoable
    BY <1>1 DEF Undoable, Phase
<1>5. ASSUME Snapshot, RegistryAsWas, ListsName
      PROVE  ListsName' /\ Renamed' = Renamed /\ Renamed = {}
    <2>1. op.backups = {} /\ Missing \subseteq op.react /\ op.react \subseteq Was
        BY <1>1, <1>5 DEF ListsName
    <2>2. e \in Missing
        BY <1>1, <2>1 DEF Missing, Installed
    <2>3. op'.others = {}
        <3>1. \A x \in Installed(db) : x \in Was /\ x # e
            BY <1>1, <1>5 DEF RegistryAsWas, Installed
        <3>2. \A d, x \in Was : NameOf[d] = NameOf[x] => d = x
            BY <1>5 DEF Snapshot
        <3>3. \A x \in Installed(db) : NameOf[x] # NameOf[e]
            BY <2>1, <1>1, <3>1, <3>2
        <3> QED BY <1>3, <3>3
    <2>4. Reacts'
        BY <1>1, <1>3, <2>1, <2>2, <2>3, MissingStays DEF Reacts
    <2> QED BY <1>1, <1>3, <2>1, <2>4 DEF ListsName, Renamed
<1> QED BY <1>1, <1>4, <1>5, QuietRestoring

(* The first transaction. A port that replaces another is not replaced, so *)
(* the files of one that is reactivated belong to none that could be.      *)
LEMMA CheckReplacedRestores ==
    ASSUME IInv, ZInv, NEW f \in File, CheckReplaced(f)
    PROVE  ZInv'
<1>1. /\ op \in Operation /\ op.pc = "check" /\ Replaceable(f) # {}
      /\ op' = [op EXCEPT !.todo = @ \ {f}, !.replaced = @ \cup Replaceable(f)]
      /\ UNCHANGED <<db, disk, before, met>>
    BY DEF CheckReplaced, IInv, Types
<1>2. /\ op'.pc = "check" /\ op'.reacting = op.reacting /\ op'.stamp = op.stamp
      /\ op'.backups = op.backups /\ op'.replaced = op.replaced \cup Replaceable(f)
    BY <1>1 DEF Operation, Owners, Replaceable
<1>3. Undoable
    BY <1>1 DEF Undoable, Phase
<1>4. op'.replaced \subseteq Installed(db)
    BY <1>1, <1>2, CheckReplacedInv DEF IInv, ListsSound
<1>5. op.port \in Entry
    BY <1>1, CheckFacts
<1>6. \A e \in Replaceable(f) : e \in Entry /\ <<NameOf[e], NameOf[op.port]>> \in ReplacedBy
    BY DEF Replaceable, Owners
<1>7. \A e \in Replaceable(f) : IsReplaced(e)
    BY <1>5, <1>6 DEF IsReplaced, Names
<1>8. ~IsReplaced(op.port)
    <2>1. PICK e \in Entry : <<NameOf[e], NameOf[op.port]>> \in ReplacedBy
        BY <1>1, <1>6
    <2>2. \A r, s \in ReplacedBy : r[2] # s[1]
        BY ConstantsOK DEF ConstantsOK
    <2>3. \A n : <<NameOf[op.port], n>> \in ReplacedBy => <<NameOf[e], NameOf[op.port]>>[2] # <<NameOf[op.port], n>>[1]
        BY <2>1, <2>2
    <2> QED BY <2>3 DEF IsReplaced
<1>9. ASSUME RegistryAsWas, ListsName PROVE ListsName' /\ Renamed' = Renamed
    <2>1. ~op.reacting
        BY <1>1, <1>8, <1>9 DEF ListsName, Reacts, RegistryAsWas
    <2>2. Prepares'
        <3>1. Prepares
            BY <1>1, <1>9, <2>1 DEF ListsName
        <3>2. \A e \in op'.replaced : IsReplaced(e)
            BY <1>2, <1>7, <3>1 DEF Prepares
        <3>3. op'.replaced \subseteq Was
            BY <1>4, <1>9 DEF RegistryAsWas
        <3>4. Missing = {} /\ Phase' = "check"
            BY <1>1, <1>2, <3>1 DEF Prepares, Phase
        <3> QED BY <1>1, <3>2, <3>3, <3>4, MissingStays DEF Prepares, IsReplaced
    <2> QED BY <1>1, <1>2, <2>1, <2>2 DEF ListsName, Renamed
<1> QED BY <1>1, <1>2, <1>3, <1>9, QuietRestoring

LEMMA CheckGoesOn ==
    ASSUME ZInv, op.pc \in {"check", "renamed"}, op'.pc \in {"check", "unmove"},
           op'.reacting = op.reacting, op'.port = op.port, op'.stamp = op.stamp,
           op'.todo \subseteq op.todo, op'.replaced = op.replaced, op'.react = op.react,
           op'.backups = Renamed, UNCHANGED <<db, disk, before, met>>
    PROVE  ZInv'
<1>1. Undoable
    BY DEF Undoable, Phase
<1>2. ASSUME ListsName PROVE ListsName'
    <2>1. CASE op.reacting
        <3>1. Reacts /\ op.pc = "check"
            BY <1>2, <2>1 DEF ListsName, Reacts
        <3>2. Reacts'
            BY <3>1, MissingStays DEF Reacts, Renamed
        <3> QED BY <2>1, <3>2 DEF ListsName
    <2>2. CASE ~op.reacting
        <3>1. Prepares /\ Missing = {} /\ Phase' \in {"check", "unmove"}
            BY <1>2, <2>2 DEF ListsName, Prepares, Phase
        <3>2. Prepares'
            BY <3>1, MissingStays DEF Prepares, IsReplaced
        <3> QED BY <2>2, <3>2 DEF ListsName
    <2> QED BY <2>1, <2>2
<1>3. Renamed' = Renamed
    BY DEF Renamed
<1> QED BY <1>1, <1>2, <1>3, QuietRestoring

LEMMA CheckFreeRestores ==
    ASSUME IInv, ZInv, NEW f \in File, CheckFree(f)
    PROVE  ZInv'
<1>1. /\ op \in Operation /\ op.pc = "check" /\ op' = [op EXCEPT !.todo = @ \ {f}]
      /\ UNCHANGED <<db, disk, before, met>>
    BY DEF CheckFree, IInv, Types
<1>2. /\ op'.pc = "check" /\ op'.reacting = op.reacting /\ op'.port = op.port
      /\ op'.stamp = op.stamp /\ op'.todo \subseteq op.todo /\ op'.replaced = op.replaced
      /\ op'.react = op.react /\ op'.backups = Renamed
    BY <1>1 DEF Operation, Renamed
<1> QED BY <1>1, <1>2, CheckGoesOn

LEMMA CheckFailsRestores ==
    ASSUME IInv, ZInv, NEW f \in File, CheckFails(f)
    PROVE  ZInv'
<1>1. /\ op \in Operation /\ op.pc = "check" /\ op' = [op EXCEPT !.pc = "unmove", !.moved = {}]
      /\ UNCHANGED <<db, disk, before, met>>
    BY DEF CheckFails, Throw, Rollback, IInv, Types
<1>2. /\ op'.pc = "unmove" /\ op'.reacting = op.reacting /\ op'.port = op.port
      /\ op'.stamp = op.stamp /\ op'.todo \subseteq op.todo /\ op'.replaced = op.replaced
      /\ op'.react = op.react /\ op'.backups = Renamed
    BY <1>1 DEF Operation, Pcs, Renamed
<1> QED BY <1>1, <1>2, CheckGoesOn

LEMMA TakeOverRestores ==
    ASSUME IInv, KInv, ZInv, NEW f \in File, NEW b \in BOOLEAN, TakeOver(f, b),
           f \in op.todo, Replaceable(f) = {},
           IF b THEN op.pc = "renamed" /\ op.cur = {f} ELSE op.pc = "check",
           UNCHANGED <<disk, before, met>>
    PROVE  ZInv'
<1>1. /\ op \in Operation /\ op.pc \in {"check", "renamed"}
      /\ op' = [op EXCEPT !.pc = "check", !.todo = @ \ {f},
                          !.backups = IF b THEN op.backups \cup {f} ELSE op.backups]
      /\ db' = db
    BY TakeOverIs DEF IInv, Types
<1>2. Renamed = IF b THEN op.backups \cup {f} ELSE op.backups
    BY DEF Renamed
<1>3. /\ op'.pc = "check" /\ op'.reacting = op.reacting /\ op'.port = op.port
      /\ op'.stamp = op.stamp /\ op'.todo \subseteq op.todo /\ op'.replaced = op.replaced
      /\ op'.react = op.react /\ op'.backups = Renamed
    BY <1>1, <1>2 DEF Operation, Pcs
<1> QED BY <1>1, <1>3, CheckGoesOn

LEMMA RenamedHere ==
    ASSUME ListsName, Undoable, op.pc \in {"replaced", "move", "moved"}
    PROVE  Renamed = {} /\ op.backups = {}
BY DEF ListsName, Reacts, Undoable, Phase, Renamed

(* The second transaction, and the errors it throws while nothing is lost. *)
LEMMA MoveGoesOn ==
    ASSUME ZInv, op.pc \in {"replaced", "move", "moved"}, op'.pc \in {"move", "moved", "unmove"},
           op.backups = {} \/ op'.pc # "unmove",
           op'.reacting = op.reacting, op'.port = op.port, op'.replaced = op.replaced,
           op'.react = op.react, op'.backups = op.backups,
           UNCHANGED <<db, before>>, met' = {} => met = {},
           \A f \in File, s \in Stamps : On(f, s)' = "user" <=> On(f, s) = "user"
    PROVE  ZInv'
<1>1. Undoable' => Undoable
    BY DEF Undoable, Phase
<1>2. ASSUME ListsName, Undoable' PROVE ListsName' /\ Renamed' = Renamed /\ Renamed = {}
    <2>1. op.backups = {} /\ Renamed = {} /\ Renamed' = {}
        BY <1>1, <1>2, RenamedHere DEF Renamed
    <2>2. CASE op.reacting
        <3>1. Reacts
            BY <1>2, <2>2 DEF ListsName
        <3>2. Reacts'
            BY <3>1, MissingStays DEF Reacts
        <3> QED BY <2>1, <2>2, <3>2 DEF ListsName
    <2>3. CASE ~op.reacting
        <3>1. Prepares
            BY <1>2, <2>3 DEF ListsName
        <3>2. Prepares'
            BY <3>1, MissingStays DEF Prepares, IsReplaced, Phase
        <3> QED BY <2>1, <2>3, <3>2 DEF ListsName
    <2> QED BY <2>1, <2>2, <2>3
<1>3. RegistryAsWas => RegistryAsWas'
    BY DEF RegistryAsWas, Missing, Was, Installed, IsReplaced
<1>4. UsersAsWere /\ Renamed' = Renamed /\ Renamed = {} => UsersAsWere'
    BY UsersLeft
<1> QED BY <1>1, <1>2, <1>3, <1>4, Restoring

LEMMA LateThrowRestores ==
    ASSUME IInv, ZInv, Throw(TRUE), NoteUndone, UNCHANGED <<disk, before>>,
           op.pc \in {"replaced", "move"}
    PROVE  ZInv'
<1>1. CASE met' # {}
    BY <1>1, GivenUp
<1>2. CASE met' = {}
    <2>1. op.backups = {} /\ met = {} /\ db' = db /\ op \in Operation
          /\ op' = [op EXCEPT !.pc = "unmove"]
        BY <1>2 DEF NoteUndone, Throw, Rollback, IInv, Types, Operation
    <2>2. /\ op'.pc = "unmove" /\ op'.reacting = op.reacting /\ op'.port = op.port
          /\ op'.replaced = op.replaced /\ op'.react = op.react /\ op'.backups = op.backups
        BY <2>1 DEF Operation, Pcs
    <2>3. \A f \in File, s \in Stamps : On(f, s)' = "user" <=> On(f, s) = "user"
        BY DEF On
    <2> QED BY <2>1, <2>2, <2>3, MoveGoesOn
<1> QED BY <1>1, <1>2

LEMMA StartMovingRestores == IInv /\ ZInv /\ StartMoving => ZInv'
<1> SUFFICES ASSUME IInv, ZInv, StartMoving PROVE ZInv'
    OBVIOUS
<1>1. op \in Operation /\ op.pc = "replaced" /\ UNCHANGED <<disk, before>>
    BY DEF StartMoving, IInv, Types
<1>2. CASE Throw(TRUE) /\ NoteUndone
    BY <1>1, <1>2, LateThrowRestores
<1>3. CASE /\ op' = [op EXCEPT !.pc = "move", !.todo = Image[op.port]]
           /\ UNCHANGED <<db, met>>
    <2>1. /\ op'.pc = "move" /\ op'.reacting = op.reacting /\ op'.port = op.port
          /\ op'.replaced = op.replaced /\ op'.react = op.react /\ op'.backups = op.backups
        BY <1>1, <1>3 DEF Operation, Pcs
    <2>2. \A f \in File, s \in Stamps : On(f, s)' = "user" <=> On(f, s) = "user"
        BY <1>1 DEF On
    <2> QED BY <1>1, <1>3, <2>1, <2>2, MoveGoesOn
<1> QED BY <1>2, <1>3 DEF StartMoving

LEMMA CannotMoveRestores ==
    ASSUME IInv, ZInv, NEW f \in File, CannotMove(f)
    PROVE  ZInv'
BY LateThrowRestores DEF CannotMove

LEMMA MoveFileRestores ==
    ASSUME IInv, KInv, ZInv, NEW f \in File, MoveFile(f)
    PROVE  ZInv'
<1>1. /\ op \in Operation /\ op.pc = "move" /\ op.port \in Entry /\ On(f, 0) = None
      /\ disk' = [disk EXCEPT ![Place(f)] = op.port]
      /\ op' = [op EXCEPT !.pc = "moved", !.cur = {f}, !.todo = @ \ {f}]
      /\ UNCHANGED <<db, made, before, met>>
    BY DEF MoveFile, IInv, Types, PortKnown, On, Place
<1>2. /\ op'.pc = "moved" /\ op'.reacting = op.reacting /\ op'.port = op.port
      /\ op'.replaced = op.replaced /\ op'.react = op.react /\ op'.backups = op.backups
    BY <1>1 DEF Operation, Pcs
<1>3. \A g \in File, s \in Stamps : On(g, s)' = IF g = f /\ s = 0 THEN op.port ELSE On(g, s)
    <2>1. op.port \in Content /\ made' \subseteq File
        BY <1>1 DEF Content, KInv, Layout, DiskType
    <2> QED BY <1>1, <2>1, PutIs
<1>4. op.port # "user" /\ None # "user"
    BY <1>1, ConstantsOK DEF ConstantsOK
<1>5. \A g \in File, s \in Stamps : On(g, s)' = "user" <=> On(g, s) = "user"
    BY <1>1, <1>3, <1>4
<1> QED BY <1>1, <1>2, <1>5, MoveGoesOn

LEMMA NoteMovedRestores == IInv /\ ZInv /\ NoteMoved => ZInv'
<1> SUFFICES ASSUME IInv, ZInv, NoteMoved PROVE ZInv'
    OBVIOUS
<1>1. /\ op \in Operation /\ op.pc = "moved"
      /\ op' = [op EXCEPT !.pc = "move", !.moved = @ \cup op.cur, !.cur = {}]
      /\ UNCHANGED <<db, disk, before, met>>
    BY DEF NoteMoved, IInv, Types
<1>2. /\ op'.pc = "move" /\ op'.reacting = op.reacting /\ op'.port = op.port
      /\ op'.replaced = op.replaced /\ op'.react = op.react /\ op'.backups = op.backups
    BY <1>1 DEF Operation, Pcs
<1>3. \A g \in File, s \in Stamps : On(g, s)' = "user" <=> On(g, s) = "user"
    BY <1>1 DEF On
<1> QED BY <1>1, <1>2, <1>3, MoveGoesOn

(* A port that is reactivated has its files where it had them.             *)
LEMMA FinishMovingRestores == IInv /\ ZInv /\ FinishMoving => ZInv'
<1> SUFFICES ASSUME IInv, ZInv, FinishMoving PROVE ZInv'
    OBVIOUS
<1> DEFINE p == op.port
<1>1. /\ p \in Entry /\ db.state[p] = "imaged"
      /\ \A d \in Entry : db'.state[d] = IF d = p THEN "installed" ELSE db.state[d]
      /\ \A d \in Entry, f \in File :
            db'.actual[d][f] = IF d # p THEN db.actual[d][f]
                               ELSE IF f \in Image[d] THEN Place(f) ELSE NoPath
    BY MovingCommits
<1>2. /\ op \in Operation /\ op.pc = "move" /\ UNCHANGED <<disk, before, met>>
      /\ op' = [op EXCEPT !.pc = "committed"]
    BY DEF FinishMoving, IInv, Types
<1>3. /\ op'.pc = "committed" /\ op'.reacting = op.reacting /\ op'.port = p
      /\ op'.replaced = op.replaced /\ op'.react = op.react /\ op'.backups = op.backups
    BY <1>2 DEF Operation, Pcs
<1>4. Undoable' => Undoable /\ op.reacting
    BY <1>3 DEF Undoable, Phase
<1> HIDE DEF p
<1>5. ASSUME op.reacting, ReplacedWhole, Snapshot, RegistryAsWas, ListsName, UsersAsWere
      PROVE  RegistryAsWas' /\ ListsName' /\ UsersAsWere'
    <2>1. Reacts
        BY <1>5 DEF ListsName
    <2>2. p \in Missing /\ p \in Was
        BY <1>2, <2>1 DEF Reacts, Missing, p
    <2>3. Installed(db)' = Installed(db) \cup {p} /\ Was' = Was
        BY <1>1, <1>2 DEF Installed, Was
    <2>4. Missing' = Missing \ {p}
        BY <2>3 DEF Missing
    <2>5. \A f \in File : before.db.actual[p][f] = IF f \in Image[p] THEN Place(f) ELSE NoPath
        <3>1. \A f \in File : before.db.actual[p][f] \in {NoPath, Place(f)}
            BY <1>1, <1>5, <2>2 DEF ReplacedWhole, RegistryAsWas
        <3>2. \A f \in File : before.db.actual[p][f] # NoPath <=> f \in Image[p] /\ p \in Was
            BY <1>1, <1>5 DEF Snapshot
        <3> QED BY <2>2, <3>1, <3>2
    <2>6. RegistryAsWas'
        <3>1. Installed(db)' \subseteq Was'
            BY <1>5, <2>2, <2>3 DEF RegistryAsWas
        <3>2. ASSUME NEW e \in Entry, NEW f \in File
              PROVE  db'.actual[e][f] = IF e \in Missing' THEN NoPath ELSE before'.db.actual[e][f]
            <4>1. CASE e = p
                BY <1>1, <1>2, <2>4, <2>5, <4>1
            <4>2. CASE e # p
                BY <1>1, <1>2, <1>5, <2>4, <4>2 DEF RegistryAsWas
            <4> QED BY <4>1, <4>2
        <3>3. \A e \in Missing' : IsReplaced(e)
            BY <1>5, <2>4 DEF RegistryAsWas
        <3> QED BY <3>1, <3>2, <3>3 DEF RegistryAsWas, IsReplaced
    <2>7. ListsName'
        <3>1. Reacts'
            BY <1>2, <1>3, <2>1, <2>3, <2>4 DEF Reacts, p
        <3> QED BY <1>3, <1>5, <3>1 DEF ListsName
    <2>8. UsersAsWere'
        <3>1. Renamed = {} /\ Renamed' = Renamed
            BY <1>2, <1>3, <2>1 DEF Renamed, Reacts
        <3>2. \A f \in File, s \in Stamps : On(f, s)' = "user" <=> On(f, s) = "user"
            BY <1>2 DEF On
        <3> QED BY <1>2, <1>5, <3>1, <3>2, UsersLeft
    <2> QED BY <2>6, <2>7, <2>8
<1> QED BY <1>2, <1>4, <1>5, Restoring

LEMMA FinishActivatingRestores == IInv /\ ZInv /\ FinishActivating => ZInv'
<1> SUFFICES ASSUME IInv, ZInv, FinishActivating PROVE ZInv'
    OBVIOUS
<1>1. /\ op \in Operation /\ op.pc = "committed" /\ UNCHANGED <<db, disk, before, met>>
    BY DEF FinishActivating, IInv, Types
<1>2. CASE op' = Idle
    BY <1>2, IdleUndoesNothing, GivenUp
<1>3. CASE op.reacting /\ op' = [op EXCEPT !.pc = "react", !.reacting = FALSE]
    <2>1. /\ op'.pc = "react" /\ ~op'.reacting /\ op'.react = op.react
          /\ op'.backups = op.backups
        BY <1>1, <1>3 DEF Operation, Pcs
    <2>2. Undoable
        BY <1>3 DEF Undoable
    <2>3. ASSUME ListsName PROVE ListsName' /\ Renamed' = Renamed /\ Renamed = {}
        <3>1. Reacts
            BY <1>3, <2>3 DEF ListsName
        <3>2. op.backups = {} /\ Missing \subseteq op.react /\ op.react \subseteq Was
            BY <1>1, <3>1 DEF Reacts
        <3> QED BY <1>1, <2>1, <3>2, MissingStays DEF ListsName, Renamed
    <2> QED BY <1>1, <2>2, <2>3, QuietRestoring
<1> QED BY <1>2, <1>3 DEF FinishActivating

(* The rollback.                                                           *)
LEMMA FinishRestoringRestores == IInv /\ ZInv /\ FinishRestoring => ZInv'
<1> SUFFICES ASSUME IInv, ZInv, FinishRestoring PROVE ZInv'
    OBVIOUS
<1>1. /\ op \in Operation /\ op.pc = "unmove" /\ op.backups = {}
      /\ UNCHANGED <<db, disk, before, met>>
    BY DEF FinishRestoring, IInv, Types
<1>2. CASE op' = FailedOp
    BY <1>1, <1>2, FailedOpRestores
<1>3. CASE ~op.reacting /\ op' = [op EXCEPT !.pc = "react", !.react = op.replaced, !.retry = FALSE]
    <2>1. /\ op'.pc = "react" /\ ~op'.reacting /\ op'.react = op.replaced /\ op'.backups = {}
        BY <1>1, <1>3 DEF Operation, Pcs
    <2>2. Undoable
        BY <1>1 DEF Undoable, Phase
    <2>3. ASSUME ListsName PROVE ListsName'
        <3>1. Prepares
            BY <1>1, <1>3, <2>3 DEF ListsName
        <3>2. Missing \subseteq op.replaced /\ op.replaced \subseteq Was
            BY <3>1 DEF Prepares
        <3> QED BY <1>1, <2>1, <3>2, MissingStays DEF ListsName
    <2>4. Renamed = {} /\ Renamed' = {}
        BY <1>1, <2>1 DEF Renamed
    <2> QED BY <1>1, <2>2, <2>3, <2>4, QuietRestoring
<1> QED BY <1>2, <1>3 DEF FinishRestoring

(* A replaced port is deactivated: the list of the operation names it.     *)
LEMMA DeleteFileRestores ==
    ASSUME IInv, KInv, XInv, ZInv, NEW p \in Path, DeleteFile(p)
    PROVE  ZInv'
<1>1. /\ op \in Operation /\ op.pc = "deact" /\ p \in op.paths
      /\ disk' = [disk EXCEPT ![p] = None]
      /\ op' = [op EXCEPT !.paths = @ \ {p}]
      /\ UNCHANGED <<db, before, met>>
    BY DEF DeleteFile, IInv, Types
<1>2. /\ op'.pc = "deact" /\ op'.back = op.back /\ op'.reacting = op.reacting
      /\ op'.others = op.others /\ op'.replaced = op.replaced /\ op'.backups = op.backups
      /\ op'.stamp = op.stamp
    BY <1>1 DEF Operation
<1>3. op.victim \in Entry /\ disk \in [Path -> Content] /\ IsRegistry(db)
    BY <1>1 DEF IInv, Types, WorkSound, Installed, KInv, Layout, DiskType
<1>4. PICK h \in File : p = db.actual[op.victim][h]
    BY <1>1 DEF KInv, Layout, DeletesOwn
<1>5. PICK r \in Stamps : p = <<h, r>>
    <2>1. p \in PathOf(h)
        BY <1>3, <1>4 DEF IsRegistry
    <2>2. p # NoPath
        BY PathsDiffer DEF Path
    <2> QED BY <2>1, <2>2 DEF PathOf, Stamps
<1>6. \A f \in File, s \in Stamps : <<f, s>> \in Path /\ (<<f, s>> = p <=> f = h /\ s = r)
    BY <1>5, PathsDiffer DEF Stamps
<1>7. \A f \in File, s \in Stamps : On(f, s)' = IF f = h /\ s = r THEN None ELSE On(f, s)
    BY <1>1, <1>3, <1>6 DEF On
<1>8. None # "user" /\ op.victim # "user"
    BY <1>3, ConstantsOK DEF ConstantsOK
<1>9. ASSUME met = {} PROVE \A f \in File, s \in Stamps : On(f, s)' = "user" <=> On(f, s) = "user"
    <2>1. On(h, r) = op.victim
        <3>1. Has(db, op.victim, h, r) /\ <<h, r>> \in op.paths
            BY <1>1, <1>4, <1>5 DEF Has
        <3> QED BY <1>1, <1>3, <1>9, <3>1 DEF XInv, Ahead
    <2> QED BY <1>7, <1>8, <2>1
<1>10. Phase' = Phase /\ Renamed' = Renamed
    BY <1>1, <1>2 DEF Phase, Renamed
<1>11. Undoable' => Undoable
    BY <1>2, <1>10 DEF Undoable
<1>12. RegistryAsWas => RegistryAsWas'
    BY <1>1 DEF RegistryAsWas, Missing, Was, Installed, IsReplaced
<1>13. ASSUME ListsName PROVE ListsName'
    <2>1. ~op.reacting /\ Prepares
        BY <1>1, <1>13 DEF ListsName, Reacts
    <2>2. Prepares'
        BY <1>1, <1>2, <1>10, <2>1, MissingStays DEF Prepares, IsReplaced
    <2> QED BY <1>1, <1>2, <2>1, <2>2 DEF ListsName
<1>14. UsersAsWere /\ met = {} => UsersAsWere'
    BY <1>1, <1>2, <1>9, <1>10, UsersLeft
<1> QED BY <1>1, <1>11, <1>12, <1>13, <1>14, Restoring

LEMMA FinishDeactivatingRestores == IInv /\ ZInv /\ FinishDeactivating => ZInv'
<1> SUFFICES ASSUME IInv, ZInv, FinishDeactivating PROVE ZInv'
    OBVIOUS
<1> DEFINE v == op.victim
<1>1. /\ v \in Entry /\ db.state[v] = "installed"
      /\ \A d \in Entry : db'.state[d] = IF d = v THEN "imaged" ELSE db.state[d]
      /\ \A d \in Entry, f \in File :
            db'.actual[d][f] = IF d = v THEN NoPath ELSE db.actual[d][f]
    BY DeactivationCommits
<1>2. /\ op \in Operation /\ op.pc = "deact" /\ UNCHANGED <<disk, before, met>>
      /\ op' = [op EXCEPT !.pc = op.back, !.others = @ \ {v}, !.victim = None]
    BY DEF FinishDeactivating, IInv, Types
<1>3. /\ op'.pc = op.back /\ op.back \in {"idle", "others", "replaced"}
      /\ op'.reacting = op.reacting /\ op'.others = op.others \ {v}
      /\ op'.replaced = op.replaced /\ op'.backups = op.backups /\ op'.stamp = op.stamp
    BY <1>2 DEF Operation, Pcs
<1>4. Phase' = Phase /\ Phase = op.back
    BY <1>2, <1>3 DEF Phase
<1>5. Undoable' => Undoable
    BY <1>3, <1>4 DEF Undoable
<1>6. op.back = "replaced" => v \in op.others
    BY <1>2 DEF IInv, WorkSound, Nested
<1> HIDE DEF v
<1>7. ASSUME Undoable, Snapshot, RegistryAsWas, ListsName, UsersAsWere
      PROVE  RegistryAsWas' /\ ListsName' /\ UsersAsWere'
    <2>1. ~op.reacting /\ Prepares
        BY <1>2, <1>7 DEF ListsName, Reacts
    <2>2. op.back = "replaced"
        BY <1>3, <1>4, <1>7, <2>1 DEF Undoable
    <2>3. v \in op.replaced /\ IsReplaced(v) /\ v \in Was
        BY <1>4, <1>6, <2>1, <2>2 DEF Prepares
    <2>4. Installed(db)' = Installed(db) \ {v} /\ Was' = Was
        BY <1>1, <1>2 DEF Installed, Was
    <2>5. Missing' = Missing \cup {v}
        BY <2>3, <2>4 DEF Missing
    <2>6. RegistryAsWas'
        <3>1. Installed(db)' \subseteq Was'
            BY <1>7, <2>4 DEF RegistryAsWas
        <3>2. ASSUME NEW e \in Entry, NEW f \in File
              PROVE  db'.actual[e][f] = IF e \in Missing' THEN NoPath ELSE before'.db.actual[e][f]
            BY <1>1, <1>2, <1>7, <2>5 DEF RegistryAsWas
        <3>3. \A e \in Missing' : IsReplaced(e)
            BY <1>7, <2>3, <2>5 DEF RegistryAsWas
        <3> QED BY <3>1, <3>2, <3>3 DEF RegistryAsWas, IsReplaced
    <2>7. ListsName'
        <3>1. Prepares'
            BY <1>3, <1>4, <2>1, <2>2, <2>3, <2>4, <2>5 DEF Prepares, IsReplaced
        <3> QED BY <1>3, <2>1, <2>2, <3>1 DEF ListsName
    <2>8. UsersAsWere'
        <3>1. Renamed' = Renamed
            BY <1>2, <1>3 DEF Renamed
        <3>2. \A f \in File, s \in Stamps : On(f, s)' = "user" <=> On(f, s) = "user"
            BY <1>2 DEF On
        <3> QED BY <1>2, <1>3, <1>7, <3>1, <3>2, UsersLeft
    <2> QED BY <2>6, <2>7, <2>8
<1> QED BY <1>2, <1>5, <1>7, Restoring

(* What is remembered when the user's activation begins: the registry is   *)
(* right about the disk.                                                   *)
LEMMA StartCheckingRestores ==
    IInv /\ KInv /\ XInv /\ ZInv /\ OneActiveVersion /\ OneOwner /\ StartChecking => ZInv'
<1> SUFFICES ASSUME IInv, KInv, XInv, ZInv, OneActiveVersion, OneOwner, StartChecking PROVE ZInv'
    OBVIOUS
<1>1. /\ op \in Operation /\ op.pc = "others" /\ UNCHANGED <<db, disk, met>>
      /\ op' = [op EXCEPT !.pc = "check", !.todo = Image[op.port]]
      /\ before' = IF op.reacting THEN before ELSE [db |-> db, disk |-> disk]
    BY DEF StartChecking, IInv, Types
<1>2. /\ op'.pc = "check" /\ op'.todo = Image[op.port] /\ op'.reacting = op.reacting
      /\ op'.port = op.port /\ op'.stamp = op.stamp /\ op'.replaced = op.replaced
      /\ op'.react = op.react /\ op'.backups = op.backups
    BY <1>1 DEF Operation, Pcs
<1>3. CASE op.reacting
    <2>1. Undoable
        BY <1>3 DEF Undoable
    <2>2. ASSUME ListsName PROVE ListsName'
        <3>1. Reacts
            BY <1>3, <2>2 DEF ListsName
        <3>2. Reacts'
            BY <1>1, <1>2, <1>3, <3>1, MissingStays DEF Reacts
        <3> QED BY <1>2, <1>3, <3>2 DEF ListsName
    <2>3. Renamed' = Renamed
        BY <1>1, <1>2 DEF Renamed
    <2> QED BY <1>1, <1>2, <1>3, <2>1, <2>2, <2>3, QuietRestoring
<1>4. CASE ~op.reacting
    <2> SUFFICES ASSUME met = {} PROVE Snapshot' /\ RegistryAsWas' /\ ListsName' /\ UsersAsWere'
        BY <1>1 DEF ZInv
    <2>1. before'.db = db /\ before'.disk = disk /\ db' = db /\ disk' = disk
        BY <1>1, <1>4
    <2>2. Missing' = {} /\ Was' = Installed(db) /\ Installed(db)' = Installed(db)
        BY <2>1 DEF Missing, Was, Installed
    <2>3. op.backups = {} /\ op.replaced = {} /\ InPlace(db)
        BY <1>1 DEF KInv, Layout, BackupsFree, Phase, XInv, Ahead, Settled, IInv, ListsSound
    <2>4. Snapshot'
        <3>1. IsRegistry(db) /\ disk \in [Path -> Content]
            BY DEF IInv, Types, KInv, Layout, DiskType
        <3>2. \A d, e \in Installed(db) : NameOf[d] = NameOf[e] => d = e
            BY DEF OneActiveVersion
        <3>3. \A d, e \in Entry, f \in File, s \in Stamps :
                 Has(db, d, f, s) /\ Has(db, e, f, s) => d = e
            <4>1. \A f \in File, s \in Stamps : <<f, s>> # NoPath
                BY PathsDiffer DEF Stamps
            <4> QED BY <4>1 DEF OneOwner, Has
        <3>4. \A e \in Entry, f \in File :
                 db.actual[e][f] # NoPath <=> f \in Image[e] /\ e \in Installed(db)
            BY DEF IInv, StateMatchesFiles, Installed
        <3>5. \A e \in Entry, f \in File, s \in Stamps : disk[<<f, s>>] = e <=> Has(db, e, f, s)
            BY <2>3 DEF InPlace, On
        <3> QED BY <2>1, <2>2, <3>1, <3>2, <3>3, <3>4, <3>5 DEF Snapshot, Has
    <2>5. RegistryAsWas'
        BY <2>1, <2>2 DEF RegistryAsWas
    <2>6. ListsName'
        <3>1. Prepares'
            BY <1>2, <2>2, <2>3 DEF Prepares, Phase
        <3> QED BY <1>2, <1>4, <3>1 DEF ListsName
    <2>7. UsersAsWere'
        <3>1. op'.backups = {} /\ Renamed' = {}
            BY <1>2, <2>3 DEF Renamed
        <3> QED BY <2>1, <3>1 DEF UsersAsWere, WasUser, On
    <2> QED BY <2>4, <2>5, <2>6, <2>7
<1> QED BY <1>3, <1>4

(* A file in the way is the user's, or that of a port which is not being   *)
(* reactivated.                                                            *)
LEMMA NothingInTheWay ==
    ASSUME IInv, KInv, XInv, met = {}, ReplacedWhole, Snapshot, RegistryAsWas, Reacts, UsersAsWere,
           op.pc = "check", NEW f \in op.todo
    PROVE  On(f, 0) = None
<1> DEFINE p == op.port
<1>1. /\ p \in Missing /\ p \in Entry /\ p \in Was /\ IsReplaced(p) /\ f \in Image[p] /\ op.backups = {}
    BY CheckFacts DEF Reacts, RegistryAsWas, Missing
<1>2. f \in File /\ 0 \in Stamps
    BY TodoUntouched
<1> HIDE DEF p
<1>3. Has(before.db, p, f, 0)
    <2>1. before.db.actual[p][f] \in {NoPath, Place(f)} /\ before.db.actual[p][f] # NoPath
        BY <1>1, <1>2 DEF ReplacedWhole, Snapshot
    <2> QED BY <2>1 DEF Has, Place
<1>4. On(f, 0) # "user"
    <2>1. before.disk[<<f, 0>>] = p
        BY <1>1, <1>2, <1>3 DEF Snapshot
    <2>2. ~WasUser(f, 0)
        BY <1>1, <2>1, ConstantsOK DEF WasUser, ConstantsOK
    <2>3. Renamed = {}
        BY <1>1 DEF Renamed
    <2> QED BY <1>2, <2>2, <2>3 DEF UsersAsWere
<1>5. ASSUME NEW e \in Entry, On(f, 0) = e PROVE FALSE
    <2>1. Has(work, e, f, 0)
        BY <1>2, <1>5 DEF XInv, Ahead, InPlace
    <2>2. Has(db, e, f, 0)
        BY <1>2, <2>1, TodoUntouched
    <2>3. <<f, 0>> # NoPath
        BY <1>2, PathsDiffer DEF Stamps
    <2>4. e \notin Missing /\ Has(before.db, e, f, 0)
        BY <1>2, <2>2, <2>3 DEF RegistryAsWas, Has
    <2>5. e = p
        BY <1>1, <1>2, <1>3, <2>4 DEF Snapshot
    <2> QED BY <1>1, <2>4, <2>5
<1>6. On(f, 0) \in Content
    <2>1. <<f, 0>> \in Path
        BY <1>2, PathsDiffer DEF Stamps
    <2> QED BY <2>1 DEF KInv, Layout, DiskType, On
<1> QED BY <1>4, <1>5, <1>6 DEF Content

LEMMA RenameAwayRestores ==
    ASSUME IInv, KInv, XInv, ZInv, NEW f \in File, RenameAway(f)
    PROVE  ZInv'
<1> DEFINE t == op.stamp
<1>1. /\ op \in Operation /\ op.pc = "check" /\ f \in op.todo /\ On(f, 0) # None
      /\ disk' = [disk EXCEPT ![<<f, t>>] = disk[<<f, 0>>], ![<<f, 0>>] = None]
      /\ op' = [op EXCEPT !.pc = "renamed", !.cur = {f}]
      /\ UNCHANGED <<db, before, met>>
    BY DEF RenameAway, IInv, Types, Place, On
<1>2. /\ op'.pc = "renamed" /\ op'.cur = {f} /\ op'.reacting = op.reacting
      /\ op'.stamp = t /\ op'.replaced = op.replaced /\ op'.backups = op.backups
    BY <1>1 DEF Operation, Pcs
<1>3. t \in Stamps /\ 0 \in Stamps /\ t # 0 /\ disk \in [Path -> Content] /\ op.backups \subseteq File
    BY <1>1, TodoUntouched DEF KInv, Layout, DiskType
<1>4. \A g \in File, s \in Stamps : <<g, s>> \in Path
    BY PathsDiffer DEF Stamps
<1>5. ASSUME NEW g \in File, NEW s \in Stamps
      PROVE  disk'[<<g, s>>] = IF g = f /\ s = 0 THEN None
                               ELSE IF g = f /\ s = t THEN On(f, 0) ELSE On(g, s)
    BY <1>1, <1>3, <1>4 DEF On
<1>6. f \notin op.backups /\ On(f, t) = None
    BY <1>1 DEF KInv, Layout, BackupsFree, Phase
<1>7. None # "user"
    BY ConstantsOK DEF ConstantsOK
<1>8. Undoable
    BY <1>1 DEF Undoable, Phase
<1> HIDE DEF t
<1>9. ASSUME met = {}, ReplacedWhole, Snapshot, RegistryAsWas, ListsName, UsersAsWere
      PROVE  RegistryAsWas' /\ ListsName' /\ UsersAsWere'
    <2>1. ~op.reacting /\ Prepares
        BY <1>1, <1>9, NothingInTheWay DEF ListsName
    <2>2. RegistryAsWas'
        BY <1>1, <1>9 DEF RegistryAsWas, Missing, Was, Installed, IsReplaced
    <2>3. ListsName'
        <3>1. Phase = "check" /\ Phase' = "renamed"
            BY <1>1, <1>2 DEF Phase
        <3>2. Prepares'
            BY <1>1, <1>2, <2>1, <3>1, MissingStays DEF Prepares, IsReplaced
        <3> QED BY <1>2, <2>1, <3>2 DEF ListsName
    <2>4. Renamed = op.backups /\ Renamed' = op.backups \cup {f}
        BY <1>1, <1>2 DEF Renamed
    <2>5. \A g \in File, s \in Stamps :
             On(g, s) = "user" <=> IF g \in op.backups /\ s = t THEN WasUser(g, 0)
                                   ELSE ~(g \in op.backups /\ s = 0) /\ WasUser(g, s)
        BY <1>9, <2>4 DEF UsersAsWere, t
    <2>6. ASSUME NEW g \in op.backups \cup {f} PROVE before'.disk[<<g, t>>] # "user"
        <3>1. g \in op.backups => ~WasUser(g, t)
            BY <1>9, <2>4 DEF UsersAsWere, t
        <3>2. ~WasUser(f, t)
            BY <1>3, <1>6, <1>7, <2>5
        <3> QED BY <1>1, <2>6, <3>1, <3>2 DEF WasUser
    <2>7. ASSUME NEW g \in File, NEW s \in Stamps
          PROVE  disk'[<<g, s>>] = "user" <=>
                     IF g \in op.backups \cup {f} /\ s = t THEN WasUser(g, 0)
                     ELSE ~(g \in op.backups \cup {f} /\ s = 0) /\ WasUser(g, s)
        <3>1. CASE g = f
            <4>1. \A r \in Stamps : On(f, r) = "user" <=> WasUser(f, r)
                BY <1>6, <2>5
            <4> QED BY <1>3, <1>5, <1>7, <3>1, <4>1
        <3>2. CASE g # f
            <4>1. disk'[<<g, s>>] = On(g, s)
                BY <1>5, <3>2
            <4> QED BY <2>5, <3>2, <4>1
        <3> QED BY <3>1, <3>2
    <2>8. UsersAsWere'
        <3>1. ASSUME NEW g \in Renamed' PROVE before'.disk[<<g, op'.stamp>>] # "user"
            BY <1>1, <1>2, <2>4, <2>6, <3>1 DEF WasUser
        <3>2. ASSUME NEW g \in File, NEW s \in Stamps
              PROVE  disk'[<<g, s>>] = "user" <=>
                         IF g \in Renamed' /\ s = op'.stamp THEN before'.disk[<<g, 0>>] = "user"
                         ELSE ~(g \in Renamed' /\ s = 0) /\ before'.disk[<<g, s>>] = "user"
            <4>1. g \in Renamed' <=> g \in op.backups \cup {f}
                BY <2>4
            <4>2. op'.stamp = t /\ before' = before
                BY <1>1, <1>2
            <4> QED BY <2>7, <4>1, <4>2 DEF WasUser
        <3> QED BY <3>1, <3>2 DEF UsersAsWere, WasUser, On
    <2> QED BY <2>2, <2>3, <2>8
<1> QED BY <1>1, <1>8, <1>9, Restoring

LEMMA RestoreBackupRestores ==
    ASSUME IInv, KInv, ZInv, NEW f \in File, RestoreBackup(f)
    PROVE  ZInv'
<1> DEFINE t == op.stamp
<1>1. /\ op \in Operation /\ op.pc = "unmove" /\ f \in op.backups
      /\ disk' = [disk EXCEPT ![<<f, 0>>] = disk[<<f, t>>], ![<<f, t>>] = None]
      /\ op' = [op EXCEPT !.backups = @ \ {f}]
      /\ UNCHANGED <<db, before, met>>
    BY DEF RestoreBackup, IInv, Types, Place
<1>2. /\ op'.pc = "unmove" /\ op'.reacting = op.reacting /\ op'.replaced = op.replaced
      /\ op'.stamp = t /\ op'.backups = op.backups \ {f}
    BY <1>1 DEF Operation
<1>3. t \in Stamps /\ 0 \in Stamps /\ t # 0 /\ disk \in [Path -> Content]
    BY <1>1, PathsDiffer DEF IInv, PortKnown, Operation, Stamps, KInv, Layout, DiskType
<1>4. \A g \in File, s \in Stamps : <<g, s>> \in Path
    BY PathsDiffer DEF Stamps
<1>5. ASSUME NEW g \in File, NEW s \in Stamps
      PROVE  disk'[<<g, s>>] = IF g = f /\ s = t THEN None
                               ELSE IF g = f /\ s = 0 THEN On(f, t) ELSE On(g, s)
    BY <1>1, <1>3, <1>4 DEF On
<1>6. None # "user"
    BY ConstantsOK DEF ConstantsOK
<1>7. Undoable
    BY <1>1 DEF Undoable, Phase
<1> HIDE DEF t
<1>8. ASSUME RegistryAsWas, ListsName, UsersAsWere
      PROVE  RegistryAsWas' /\ ListsName' /\ UsersAsWere'
    <2>1. ~op.reacting /\ Prepares
        BY <1>1, <1>8 DEF ListsName, Reacts
    <2>2. RegistryAsWas'
        BY <1>1, <1>8 DEF RegistryAsWas, Missing, Was, Installed, IsReplaced
    <2>3. ListsName'
        <3>1. Phase = "unmove" /\ Phase' = "unmove"
            BY <1>1, <1>2 DEF Phase
        <3>2. Prepares'
            BY <1>1, <1>2, <2>1, <3>1, MissingStays DEF Prepares, IsReplaced
        <3> QED BY <1>2, <2>1, <3>2 DEF ListsName
    <2>4. Renamed = op.backups /\ Renamed' = op.backups \ {f}
        BY <1>1, <1>2 DEF Renamed
    <2>5. \A g \in File, s \in Stamps :
             On(g, s) = "user" <=> IF g \in op.backups /\ s = t THEN WasUser(g, 0)
                                   ELSE ~(g \in op.backups /\ s = 0) /\ WasUser(g, s)
        BY <1>8, <2>4 DEF UsersAsWere, t
    <2>6. \A g \in op.backups : ~WasUser(g, t)
        BY <1>8, <2>4 DEF UsersAsWere, t
    <2>7. ASSUME NEW g \in File, NEW s \in Stamps
          PROVE  disk'[<<g, s>>] = "user" <=>
                     IF g \in op.backups \ {f} /\ s = t THEN WasUser(g, 0)
                     ELSE ~(g \in op.backups \ {f} /\ s = 0) /\ WasUser(g, s)
        <3>1. CASE g = f
            <4>1. On(f, t) = "user" <=> WasUser(f, 0)
                BY <1>1, <1>3, <2>5
            <4>2. s # 0 /\ s # t => (On(f, s) = "user" <=> WasUser(f, s))
                BY <2>5
            <4> QED BY <1>1, <1>3, <1>5, <1>6, <2>6, <3>1, <4>1, <4>2, ZenonT(60)
        <3>2. CASE g # f
            <4>1. disk'[<<g, s>>] = On(g, s)
                BY <1>5, <3>2
            <4> QED BY <2>5, <3>2, <4>1
        <3> QED BY <3>1, <3>2
    <2>8. UsersAsWere'
        <3>1. ASSUME NEW g \in Renamed' PROVE before'.disk[<<g, op'.stamp>>] # "user"
            BY <1>1, <1>2, <2>4, <2>6, <3>1 DEF WasUser
        <3>2. ASSUME NEW g \in File, NEW s \in Stamps
              PROVE  disk'[<<g, s>>] = "user" <=>
                         IF g \in Renamed' /\ s = op'.stamp THEN before'.disk[<<g, 0>>] = "user"
                         ELSE ~(g \in Renamed' /\ s = 0) /\ before'.disk[<<g, s>>] = "user"
            BY <1>1, <1>2, <2>4, <2>7, ZenonT(120) DEF WasUser
        <3> QED BY <3>1, <3>2 DEF UsersAsWere, WasUser, On
    <2> QED BY <2>2, <2>3, <2>8
<1> QED BY <1>1, <1>7, <1>8, Restoring

LEMMA DeleteMovedRestores ==
    ASSUME IInv, KInv, ZInv, NEW f \in File, DeleteMoved(f)
    PROVE  ZInv'
<1>1. /\ op \in Operation /\ op.pc = "unmove" /\ f \in op.moved /\ op.port \in Entry
      /\ disk' = [disk EXCEPT ![Place(f)] = None]
      /\ op' = [op EXCEPT !.moved = @ \ {f}]
      /\ UNCHANGED <<db, made, before, met>>
    BY DEF DeleteMoved, IInv, Types, PortKnown
<1>2. /\ op'.pc = "unmove" /\ op'.reacting = op.reacting /\ op'.port = op.port
      /\ op'.replaced = op.replaced /\ op'.react = op.react /\ op'.backups = op.backups
      /\ op'.stamp = op.stamp
    BY <1>1 DEF Operation
<1>3. On(f, 0) = op.port /\ 0 \in Stamps
    BY <1>1, PathsDiffer DEF KInv, Layout, MovesOwn, Phase, Stamps
<1>4. \A g \in File, s \in Stamps : On(g, s)' = IF g = f /\ s = 0 THEN None ELSE On(g, s)
    BY <1>1, PutIs DEF Content, KInv, Layout, DiskType
<1>5. None # "user" /\ op.port # "user"
    BY <1>1, ConstantsOK DEF ConstantsOK
<1>6. \A g \in File, s \in Stamps : On(g, s)' = "user" <=> On(g, s) = "user"
    BY <1>3, <1>4, <1>5
<1>7. Undoable /\ Phase = "unmove" /\ Phase' = "unmove" /\ Renamed' = Renamed
    BY <1>1, <1>2 DEF Undoable, Phase, Renamed
<1>8. RegistryAsWas => RegistryAsWas'
    BY <1>1 DEF RegistryAsWas, Missing, Was, Installed, IsReplaced
<1>9. ASSUME ListsName PROVE ListsName'
    <2>1. CASE op.reacting
        <3>1. Reacts
            BY <1>9, <2>1 DEF ListsName
        <3>2. Reacts'
            BY <1>1, <1>2, <3>1, MissingStays DEF Reacts
        <3> QED BY <1>2, <2>1, <3>2 DEF ListsName
    <2>2. CASE ~op.reacting
        <3>1. Prepares
            BY <1>1, <1>9, <2>2 DEF ListsName
        <3>2. Prepares'
            BY <1>1, <1>2, <1>7, <3>1, MissingStays DEF Prepares, IsReplaced
        <3> QED BY <1>2, <2>2, <3>2 DEF ListsName
    <2> QED BY <2>1, <2>2
<1>10. UsersAsWere => UsersAsWere'
    BY <1>1, <1>2, <1>6, <1>7, UsersLeft
<1> QED BY <1>1, <1>7, <1>8, <1>9, <1>10, Restoring

(* The first commit changes nothing when there are no backups.             *)
LEMMA FinishCheckingRestores == IInv /\ XInv /\ ZInv /\ FinishChecking => ZInv'
<1> SUFFICES ASSUME IInv, XInv, ZInv, FinishChecking PROVE ZInv'
    OBVIOUS
<1>1. /\ op \in Operation /\ op.pc = "check" /\ db' = work /\ UNCHANGED <<disk, before, met>>
      /\ op' = [op EXCEPT !.pc = "replaced", !.others = op.replaced]
    BY DEF FinishChecking, Commit, IInv, Types
<1>2. /\ op'.pc = "replaced" /\ op'.others = op.replaced /\ op'.reacting = op.reacting
      /\ op'.port = op.port /\ op'.stamp = op.stamp /\ op'.replaced = op.replaced
      /\ op'.react = op.react /\ op'.backups = op.backups
    BY <1>1 DEF Operation, Pcs
<1>3. Undoable /\ Phase = "check" /\ Phase' = "replaced" /\ Renamed' = Renamed
    BY <1>1, <1>2 DEF Undoable, Phase, Renamed
<1>4. work.state = db.state
    BY <1>1, CheckFacts
<1>5. ASSUME met = {}, Undoable', Snapshot, RegistryAsWas, ListsName, UsersAsWere
      PROVE  RegistryAsWas' /\ ListsName' /\ UsersAsWere'
    <2>1. op.backups = {}
        BY <1>2, <1>3, <1>5 DEF Undoable, ListsName, Reacts
    <2>2. \A e \in Entry, f \in File : work.actual[e][f] = db.actual[e][f]
        BY <1>1, <1>5, <2>1 DEF XInv, BackupsKnown
    <2>3. Missing' = Missing /\ Was' = Was /\ Installed(db)' = Installed(db)
        BY <1>1, <1>4 DEF Missing, Was, Installed
    <2>4. RegistryAsWas'
        BY <1>1, <1>5, <2>2, <2>3 DEF RegistryAsWas, IsReplaced
    <2>5. ListsName'
        <3>1. CASE op.reacting
            <4>1. Reacts
                BY <1>5, <3>1 DEF ListsName
            <4>2. Reacts'
                BY <1>1, <1>2, <2>3, <4>1 DEF Reacts
            <4> QED BY <1>2, <3>1, <4>2 DEF ListsName
        <3>2. CASE ~op.reacting
            <4>1. Prepares
                BY <1>1, <1>5, <3>2 DEF ListsName
            <4>2. Prepares'
                BY <1>1, <1>2, <1>3, <2>3, <4>1 DEF Prepares, IsReplaced
            <4> QED BY <1>2, <3>2, <4>2 DEF ListsName
        <3> QED BY <3>1, <3>2
    <2>6. UsersAsWere'
        <3>1. \A f \in File, s \in Stamps : On(f, s)' = "user" <=> On(f, s) = "user"
            BY <1>1 DEF On
        <3> QED BY <1>1, <1>2, <1>3, <1>5, <3>1, UsersLeft
    <2> QED BY <2>4, <2>5, <2>6
<1> QED BY <1>1, <1>3, <1>5, Restoring

LEMMA NextRestores ==
    IInv /\ KInv /\ XInv /\ ZInv /\ OneActiveVersion /\ OneOwner /\ [Next]_vars => ZInv'
<1> SUFFICES ASSUME IInv, KInv, XInv, ZInv, OneActiveVersion, OneOwner, [Next]_vars PROVE ZInv'
    OBVIOUS
<1>1. op \in Operation
    BY DEF IInv, Types
<1>2. CASE UNCHANGED vars
    <2>1. UNCHANGED <<db, disk, op, before, met>>
        BY <1>2 DEF vars
    <2>2. Undoable' = Undoable /\ Renamed' = Renamed
        BY <2>1 DEF Undoable, Phase, Renamed
    <2>3. ListsName => ListsName'
        BY <2>1 DEF ListsName, Reacts, Prepares, Phase, Missing, Was, Installed, IsReplaced
    <2> QED BY <2>1, <2>2, <2>3, QuietRestoring
<1>3. ASSUME NEW e \in Entry, NEW f \in Forces, Activate(e, f) PROVE ZInv'
    <2>1. ~op.reacting /\ op.pc = "idle"
        BY <1>3 DEF Activate, IInv, PortKnown
    <2>2. op'.pc = "others" /\ op'.reacting = op.reacting
        BY <1>1, <1>3 DEF Activate, StartsActivating, Operation
    <2> QED BY <2>1, <2>2, GivenUp DEF Undoable, Phase
<1>4. ASSUME NEW e \in Entry, Deactivate(e) PROVE ZInv'
    <2>1. ~op.reacting
        BY <1>4 DEF Deactivate, IInv, PortKnown
    <2>2. op'.pc = "deact" /\ op'.back = "idle" /\ op'.reacting = op.reacting
        BY <1>1, <1>4 DEF Deactivate, Operation
    <2> QED BY <2>1, <2>2, GivenUp DEF Undoable, Phase
<1>5. CASE \E e \in Entry : DeactivateOther(e) \/ Reactivate(e)
    BY <1>5, DeactivateOtherRestores, ReactivateRestores
<1>6. CASE \E p \in Path : DeleteFile(p)
    BY <1>6, DeleteFileRestores
<1>7. CASE \E f \in File : CheckReplaced(f) \/ CheckFree(f) \/ RenameAway(f) \/ CheckFails(f)
    BY <1>7, CheckReplacedRestores, CheckFreeRestores, RenameAwayRestores, CheckFailsRestores
<1>8. ASSUME NEW f \in File, NoteBackup(f) PROVE ZInv'
    <2>1. f \in op.todo /\ Replaceable(f) = {}
        BY <1>8 DEF NoteBackup, KInv, Layout, BackupsFree, Phase
    <2> QED BY <1>8, <2>1, TakeOverRestores DEF NoteBackup
<1>9. ASSUME NEW f \in File, CheckForced(f) PROVE ZInv'
    BY <1>9, TakeOverRestores DEF CheckForced
<1>10. CASE \E f \in File : MoveFile(f) \/ CannotMove(f) \/ DeleteMoved(f) \/ RestoreBackup(f)
    BY <1>10, MoveFileRestores, CannotMoveRestores, DeleteMovedRestores, RestoreBackupRestores
<1>11. ASSUME NEW f \in File, UserCreates(f) PROVE ZInv'
    <2>1. ~op.reacting /\ op.pc = "idle" /\ op' = op
        BY <1>11 DEF UserCreates, IInv, PortKnown
    <2> QED BY <2>1, GivenUp DEF Undoable, Phase
<1>12. CASE FinishDeactivating \/ StartChecking \/ FinishChecking \/ StartMoving \/ NoteMoved
            \/ FinishMoving \/ FinishActivating \/ FinishRestoring
    BY <1>12, FinishDeactivatingRestores, StartCheckingRestores, FinishCheckingRestores,
       StartMovingRestores, NoteMovedRestores, FinishMovingRestores, FinishActivatingRestores,
       FinishRestoringRestores
<1>13. CASE CannotExtract
    BY <1>13, FailedOpRestores DEF CannotExtract
<1>14. CASE CannotBegin
    <2>1. met # {}
        BY <1>14 DEF CannotBegin, XInv, Ahead, Settled
    <2> QED BY <1>14, <2>1, GivenUp DEF CannotBegin
<1>15. CASE Rethrow
    BY <1>15, IdleUndoesNothing, GivenUp DEF Rethrow
<1>16. CASE Restart
    BY <1>16, IdleUndoesNothing, GivenUp DEF Restart
<1>17. CASE CannotDelete \/ CannotCommit \/ RollbackFails \/ Signal
    <2>1. met' # {}
        BY <1>17 DEF CannotDelete, CannotCommit, RollbackFails, Signal
    <2> QED BY <2>1, GivenUp
<1> QED BY <1>2, <1>3, <1>4, <1>5, <1>6, <1>7, <1>8, <1>9, <1>10, <1>11, <1>12, <1>13, <1>14,
           <1>15, <1>16, <1>17 DEF Next

LEMMA ZInvariance == Spec => [](Ticking => ZInv)
<1>1. Init => (Ticking => ZInv)
    BY DEF Init, Idle, ZInv, Undoable, Phase
<1>2. /\ IInv /\ (Ticking => KInv) /\ (Ticking => XInv) /\ (Ticking => ZInv)
      /\ (OneActiveVersion /\ OneOwner /\ Complete) /\ [Next]_vars
      => (Ticking => ZInv)'
    BY NextRestores, MadeStays DEF Ticking
<1> QED BY <1>1, <1>2, Invariance, KInvariance, XInvariance, ActiveSound, PTL DEF Spec

(* When a rollback has done all it does, registry and disk are what they   *)
(* were before the contents of the port were touched, replaced ports that  *)
(* were deactivated and the user's files included: unless backups had been *)
(* committed, the rollback itself failed, or a port that may be replaced   *)
(* had lost a file to a forced activation; and no two activations began in *)
(* the same second.                                                        *)
THEOREM RollbackIsComplete == Spec => [](Ticking => RollbackComplete)
<1>1. IInv /\ KInv /\ XInv /\ ZInv => RollbackComplete
    <2> SUFFICES ASSUME IInv, KInv, XInv, ZInv, RolledBack, met = {}, ReplacedWhole
                 PROVE  db = before.db /\ disk = before.disk
        BY DEF RollbackComplete
    <2>1. op.pc = "react" /\ \A e \in op.react : db.state[e] = "installed"
        BY DEF RolledBack
    <2>2. Snapshot /\ RegistryAsWas /\ ListsName /\ UsersAsWere
        BY <2>1 DEF ZInv, Undoable, Phase
    <2>3. Missing = {}
        <3>1. Missing \subseteq op.react
            BY <2>1, <2>2 DEF ListsName
        <3> QED BY <2>1, <3>1 DEF Missing, Was, Installed
    <2>4. db = before.db
        <3>1. /\ db \in [state : [Entry -> {"imaged", "installed"}],
                         actual : [Entry -> [File -> Path \cup {NoPath}]]]
              /\ before.db \in [state : [Entry -> {"imaged", "installed"}],
                                actual : [Entry -> [File -> Path \cup {NoPath}]]]
            BY <2>2 DEF Snapshot, IsRegistry, IInv, Types
        <3>2. \A e \in Entry : db.state[e] = before.db.state[e]
            BY <2>2, <2>3, <3>1 DEF RegistryAsWas, Missing, Was, Installed
        <3>3. \A e \in Entry, f \in File : db.actual[e][f] = before.db.actual[e][f]
            BY <2>2, <2>3 DEF RegistryAsWas
        <3>4. db.state = before.db.state
            BY <3>1, <3>2
        <3>5. \A e \in Entry : db.actual[e] = before.db.actual[e]
            BY <3>1, <3>3
        <3>6. db.actual = before.db.actual
            BY <3>1, <3>5
        <3> QED BY <3>1, <3>4, <3>6
    <2>5. ASSUME NEW f \in File, NEW s \in Stamps
          PROVE  disk[<<f, s>>] = before.disk[<<f, s>>]
        <3>1. disk[<<f, s>>] \in Content /\ before.disk[<<f, s>>] \in Content
            <4>1. <<f, s>> \in Path
                BY PathsDiffer DEF Stamps
            <4> QED BY <2>2, <4>1 DEF KInv, Layout, DiskType, Snapshot
        <3>2. disk[<<f, s>>] = "user" <=> before.disk[<<f, s>>] = "user"
            <4>1. Renamed = {}
                BY <2>1, <2>2 DEF ListsName, Renamed
            <4> QED BY <2>2, <4>1 DEF UsersAsWere, WasUser, On
        <3>3. \A e \in Entry : disk[<<f, s>>] = e <=> before.disk[<<f, s>>] = e
            <4>1. InPlace(db)
                BY <2>1 DEF XInv, Ahead, Settled
            <4> QED BY <2>2, <2>4, <4>1 DEF InPlace, On, Snapshot
        <3> QED BY <3>1, <3>2, <3>3 DEF Content
    <2>6. disk = before.disk
        <3>1. disk \in [Path -> Content] /\ before.disk \in [Path -> Content]
            BY <2>2 DEF KInv, Layout, DiskType, Snapshot
        <3>2. \A p \in Path : disk[p] = before.disk[p]
            BY <2>5 DEF Path, Stamps
        <3> QED BY <3>1, <3>2
    <2> QED BY <2>4, <2>6
<1> QED BY <1>1, Invariance, KInvariance, XInvariance, ZInvariance, PTL
=============================================================================
