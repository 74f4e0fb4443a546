----------------------------- MODULE PortImage -----------------------------
(***************************************************************************)
(* Activation and deactivation of port images (portimage.tcl): the files   *)
(* of an installed image are moved into the prefix and recorded as active  *)
(* in the registry, in two registry transactions with file system changes  *)
(* in between and a hand-written rollback around both.                     *)
(*                                                                         *)
(* One process, which holds the registry lock (module RegistryLock), runs  *)
(* one operation at a time, step by step. A step that can fail may do so,  *)
(* a signal may be raised between two steps where signals are not blocked, *)
(* and the process may be killed anywhere: the scene says which of these   *)
(* happen.                                                                 *)
(*                                                                         *)
(* A path is <<f, 0>>, where file f of an image is activated, or <<f, s>>, *)
(* the backup of f made by the activation whose suffix .mp_<seconds> is s. *)
(* Directories are left out: they are shared and only removed when empty.  *)
(***************************************************************************)
EXTENDS Integers, FiniteSets

CONSTANTS
    Entry,      \* registry entries: the installed versions of ports
    NameOf,     \* the port name of each entry
    File,       \* the files of images
    Image,      \* the files of each entry's image
    ReplacedBy, \* <<old, new>>: port name old is replaced_by port name new
    Forces,     \* values of the -f option of activate
    Scenes,     \* what may happen in a behaviour, see Scene
    MaxStamp,   \* bound: the last second
    None        \* no entry

FaultKinds == {"source", "unlink", "commit", "signal", "crash"}

(* The entries the user activates, the paths where the user may put a      *)
(* file, the faults that happen, whether two activations may begin in the  *)
(* same second, and two bounds: the last second at which the user          *)
(* activates a port, and the last one, rollbacks included.                 *)
Scene == [entries : SUBSET Entry, userFiles : SUBSET File, faults : SUBSET FaultKinds,
          sameSecond : BOOLEAN, lastActivation : 1 .. MaxStamp, lastSecond : 1 .. MaxStamp]

Names == {NameOf[e] : e \in Entry}

(* A port that replaces another is not itself replaced: portimage reaches  *)
(* a nested activation only for a replaced port.                           *)
ASSUME ConstantsOK ==
    /\ None \notin Entry /\ "user" \notin Entry \cup {None}
    /\ Image \in [Entry -> SUBSET File]
    /\ ReplacedBy \subseteq Names \X Names
    /\ \A r, s \in ReplacedBy : r[2] # s[1]
    /\ Forces \subseteq BOOLEAN
    /\ MaxStamp \in Nat
    /\ Scenes \subseteq Scene

Path == File \X (0 .. MaxStamp)
NoPath == <<>>
Place(f) == <<f, 0>>

(* What a path may hold: nothing, a file of the user, a file of a port.    *)
Content == Entry \cup {None, "user"}

VARIABLES
    scene,  \* the circumstances of this behaviour
    db,     \* the committed registry: state and active paths of each entry
    work,   \* the registry as the open transaction sees it
    open,   \* a transaction is open, for registry_write
    disk,   \* what each path holds
    force,  \* the namespace variable portimage::force
    clock,  \* the current second
    op,     \* the operation in progress
    made,   \* history: where the user put a file
    before, \* history: registry and disk when the contents of the port the
            \* user asked for began to be activated
    met     \* history: "fault" after a step failed that the rollback does not
            \* provide for, or a signal, or a kill; "undone" after an
            \* activation failed whose backups were already committed

vars == <<scene, db, work, open, disk, force, clock, op, made, before, met>>

(* The local variables of activate, _activate_contents and                 *)
(* _deactivate_contents. stamp is baksuffix, moved is rollback_filelist,   *)
(* others the entries still to deactivate, replaced the todeactivate array *)
(* of _activate_contents, react those of them still to reactivate in the   *)
(* rollback; victim and paths are what a deactivation works on, and back   *)
(* where it returns to. via says whether a nested operation runs through   *)
(* registry::run_target, which hides its failure, or directly; retry that  *)
(* the first way failed and the second is next.                            *)
Idle == [pc |-> "idle", port |-> None, stamp |-> 0,
         todo |-> {}, cur |-> {}, others |-> {}, replaced |-> {},
         backups |-> {}, moved |-> {}, reacting |-> FALSE, react |-> {},
         via |-> "direct", retry |-> FALSE, victim |-> None,
         paths |-> {}, back |-> "idle"]

Empty == [state  |-> [e \in Entry |-> "imaged"],
          actual |-> [e \in Entry |-> [f \in File |-> NoPath]]]

Init ==
    /\ scene \in Scenes
    /\ db = Empty
    /\ work = Empty
    /\ open = FALSE
    /\ disk = [p \in Path |-> None]
    /\ force = FALSE
    /\ clock = 0
    /\ op = Idle
    /\ made = {}
    /\ before = [db |-> Empty, disk |-> disk]
    /\ met = {}

-----------------------------------------------------------------------------
(* The registry.                                                           *)
Installed(r) == {e \in Entry : r.state[e] = "installed"}

ActivePaths(r, e) == {r.actual[e][f] : f \in File} \ {NoPath}

(* registry::entry owner: the entries that have an active file at p.       *)
Owners(r, p) == {e \in Entry : p \in ActivePaths(r, e)}

(* $e activate: every file of the image at its own path.                   *)
Activated(r, e) ==
    [r EXCEPT !.actual[e] = [f \in File |-> IF f \in Image[e] THEN Place(f) ELSE NoPath]]

(* $e deactivate of the paths in P.                                        *)
Deactivated(r, e, P) ==
    [r EXCEPT !.actual[e] = [f \in File |-> IF @[f] \in P THEN NoPath ELSE @[f]]]

(* The owner's file at path p becomes active at path q instead.            *)
MovedAside(r, e, p, q) ==
    [r EXCEPT !.actual[e] = [f \in File |-> IF @[f] = p THEN q ELSE @[f]]]

Commit(r) == db' = r /\ work' = r /\ open' = FALSE
Rollback == work' = db /\ open' = FALSE /\ UNCHANGED db

-----------------------------------------------------------------------------
(* The operation ends with an error its caller sees. A nested activation   *)
(* that ran through run_target is tried again directly; one that ran       *)
(* directly also ends the activation whose rollback started it.            *)
FailedOp ==
    IF op.reacting /\ op.via = "target"
      THEN [op EXCEPT !.pc = "react", !.react = @ \cup {op.port},
                      !.reacting = FALSE, !.retry = TRUE]
      ELSE Idle

(* An error inside the try block of _activate_contents: the open           *)
(* transaction is rolled back and the catch clause runs. undo says whether *)
(* deactivate_this is set.                                                 *)
Throw(undo) ==
    /\ Rollback
    /\ op' = [op EXCEPT !.pc = "unmove", !.moved = IF undo THEN @ ELSE {}]

(* History: an activation fails after its backups were committed.          *)
NoteUndone == met' = IF op.backups = {} THEN met ELSE met \cup {"undone"}

(* The two ways of a nested operation, in their order.                     *)
Ways == IF op.retry THEN {"direct"} ELSE {"target", "direct"}

-----------------------------------------------------------------------------
(* activate, up to the deactivation of other versions. The namespace       *)
(* variable force is set by -f and never cleared.                          *)
StartsActivating(e, s) ==
    [op EXCEPT !.pc = "others", !.port = e, !.stamp = s,
               !.others = {x \in Installed(work) : NameOf[x] = NameOf[e]},
               !.replaced = {}, !.todo = {}, !.cur = {},
               !.backups = {}, !.moved = {}]

Ticks(s) ==
    /\ s \in 1 .. scene.lastSecond
    /\ s = clock + 1 \/ (scene.sameSecond /\ s = clock)

Activate(e, f) ==
    /\ e \in scene.entries
    /\ op.pc = "idle" /\ ~open
    /\ db.state[e] = "imaged"
    /\ clock < scene.lastActivation
    /\ \E s \in 1 .. MaxStamp :
          /\ Ticks(s)
          /\ clock' = s
          /\ op' = StartsActivating(e, s)
    /\ force' = (force \/ f)
    /\ UNCHANGED <<scene, db, work, open, disk, made, before, met>>

(* _deactivate_contents opens a transaction, in which the registry lets go *)
(* of the files before they are deleted.                                   *)
StartsDeactivating(e) ==
    /\ ~open
    /\ open' = TRUE
    /\ work' = Deactivated(work, e, ActivePaths(work, e))
    /\ UNCHANGED <<scene, db, disk, force, clock, made, before, met>>

(* deactivate, for the user.                                               *)
Deactivate(e) ==
    /\ op.pc = "idle"
    /\ db.state[e] = "installed"
    /\ op' = [op EXCEPT !.pc = "deact", !.victim = e, !.back = "idle",
                        !.paths = ActivePaths(work, e)]
    /\ StartsDeactivating(e)

(* Another version of the port, or a replaced port, is deactivated.        *)
DeactivateOther(e) ==
    /\ op.pc \in {"others", "replaced"}
    /\ e \in op.others
    /\ op.retry => e = op.victim
    /\ \E v \in Ways :
          op' = [op EXCEPT !.pc = "deact", !.victim = e, !.back = op.pc,
                           !.paths = ActivePaths(work, e),
                           !.via = v, !.retry = FALSE]
    /\ StartsDeactivating(e)

(* _deactivate_file, for one path; a path that is gone is skipped.         *)
DeleteFile(p) ==
    /\ op.pc = "deact"
    /\ p \in op.paths
    /\ disk' = [disk EXCEPT ![p] = None]
    /\ op' = [op EXCEPT !.paths = @ \ {p}]
    /\ UNCHANGED <<scene, db, work, open, force, clock, made, before, met>>

(* Mutant: the state is not changed.                                       *)
FinishDeactivatingStateless ==
    /\ op.pc = "deact"
    /\ op.paths = {}
    /\ Commit(work)
    /\ op' = [op EXCEPT !.pc = op.back, !.others = @ \ {op.victim}, !.victim = None]
    /\ UNCHANGED <<scene, disk, force, clock, made, before, met>>

(* All files are gone: the state changes and the transaction commits.      *)
FinishDeactivating ==
    /\ op.pc = "deact"
    /\ op.paths = {}
    /\ Commit([work EXCEPT !.state[op.victim] = "imaged"])
    /\ op' = [op EXCEPT !.pc = op.back, !.others = @ \ {op.victim}, !.victim = None]
    /\ UNCHANGED <<scene, disk, force, clock, made, before, met>>

(* The deactivation fails: a nested one that ran through run_target is     *)
(* tried again, any other raises its error where it was called.            *)
DeactivationFails ==
    CASE op.back # "idle" /\ op.via = "target" ->
            op' = [op EXCEPT !.pc = op.back, !.retry = TRUE]
      [] op.back = "replaced" /\ op.via = "direct" ->
            op' = [op EXCEPT !.pc = "unmove", !.moved = {}]
      [] OTHER -> op' = FailedOp

(* Mutant: the transaction commits although a file could not be deleted.   *)
CannotDeleteCommits ==
    /\ "unlink" \in scene.faults
    /\ op.pc = "deact"
    /\ op.paths # {}
    /\ Commit(work)
    /\ DeactivationFails
    /\ UNCHANGED <<scene, disk, force, clock, made, before>>
    /\ met' = met \cup {"fault"}

CannotDelete ==
    /\ "unlink" \in scene.faults
    /\ op.pc = "deact"
    /\ op.paths # {}
    /\ Rollback
    /\ DeactivationFails
    /\ UNCHANGED <<scene, disk, force, clock, made, before>>
    /\ met' = met \cup {"fault"}

-----------------------------------------------------------------------------
(* _activate_contents, first transaction: each file is checked against the *)
(* registry and the file system.                                           *)
StartChecking ==
    /\ op.pc = "others"
    /\ op.others = {} /\ ~open
    /\ open' = TRUE
    /\ op' = [op EXCEPT !.pc = "check", !.todo = Image[op.port]]
    /\ before' = IF op.reacting THEN before ELSE [db |-> db, disk |-> disk]
    /\ UNCHANGED <<scene, db, work, disk, force, clock, made, met>>

(* The archive cannot be extracted.                                        *)
CannotExtract ==
    /\ "source" \in scene.faults
    /\ op.pc = "others" /\ op.others = {}
    /\ op' = FailedOp
    /\ UNCHANGED <<scene, db, work, open, disk, force, clock, made, before, met>>

(* The active ports that own f and are replaced by the port being          *)
(* activated, and those that own it and are not.                           *)
Replaceable(f) ==
    {e \in Owners(work, Place(f)) : <<NameOf[e], NameOf[op.port]>> \in ReplacedBy}
Rivals(f) == Owners(work, Place(f)) \ (Replaceable(f) \cup {op.port})

(* The owner will be deactivated before the files are moved.               *)
CheckReplaced(f) ==
    /\ op.pc = "check" /\ f \in op.todo
    /\ Replaceable(f) # {}
    /\ op' = [op EXCEPT !.todo = @ \ {f}, !.replaced = @ \cup Replaceable(f)]
    /\ UNCHANGED <<scene, db, work, open, disk, force, clock, made, before, met>>

CheckFree(f) ==
    /\ op.pc = "check" /\ f \in op.todo
    /\ Replaceable(f) = {}
    /\ ~force
    /\ Rivals(f) = {} /\ disk[Place(f)] = None
    /\ op' = [op EXCEPT !.todo = @ \ {f}]
    /\ UNCHANGED <<scene, db, work, open, disk, force, clock, made, before, met>>

(* Mutant: the file in the way is clobbered.                               *)
RenameAwayClobbers(f) ==
    /\ op.pc = "check" /\ f \in op.todo
    /\ Replaceable(f) = {}
    /\ force
    /\ disk[Place(f)] # None
    /\ disk' = [disk EXCEPT ![Place(f)] = None]
    /\ op' = [op EXCEPT !.pc = "renamed", !.cur = {f}]
    /\ UNCHANGED <<scene, db, work, open, force, clock, made, before, met>>

(* Forced: the file in the way is renamed, then noted in backups and the   *)
(* registry.                                                               *)
RenameAway(f) ==
    /\ op.pc = "check" /\ f \in op.todo
    /\ Replaceable(f) = {}
    /\ force
    /\ disk[Place(f)] # None
    /\ disk' = [disk EXCEPT ![<<f, op.stamp>>] = disk[Place(f)], ![Place(f)] = None]
    /\ op' = [op EXCEPT !.pc = "renamed", !.cur = {f}]
    /\ UNCHANGED <<scene, db, work, open, force, clock, made, before, met>>

(* The owner's registry entry follows, unless the backup's path is active  *)
(* already (REG_ALREADY_ACTIVE).                                           *)
TakeOver(f, renamed) ==
    LET after == IF renamed THEN op.backups \cup {f} ELSE op.backups
        bak   == <<f, op.stamp>>
    IN  \/ /\ Rivals(f) = {}
           /\ op' = [op EXCEPT !.pc = "check", !.todo = @ \ {f}, !.backups = after]
           /\ UNCHANGED <<db, work, open>>
        \/ \E o \in Rivals(f) :
             /\ Owners(work, bak) = {}
             /\ work' = MovedAside(work, o, Place(f), bak)
             /\ op' = [op EXCEPT !.pc = "check", !.todo = @ \ {f}, !.backups = after]
             /\ UNCHANGED <<db, open>>
        \/ /\ Rivals(f) # {} /\ Owners(work, bak) # {}
           /\ Rollback
           /\ op' = [op EXCEPT !.pc = "unmove", !.moved = {}, !.backups = after]

NoteBackup(f) ==
    /\ op.pc = "renamed" /\ op.cur = {f}
    /\ TakeOver(f, TRUE)
    /\ UNCHANGED <<scene, disk, force, clock, made, before, met>>

CheckForced(f) ==
    /\ op.pc = "check" /\ f \in op.todo
    /\ Replaceable(f) = {}
    /\ force
    /\ disk[Place(f)] = None
    /\ TakeOver(f, FALSE)
    /\ UNCHANGED <<scene, disk, force, clock, made, before, met>>

(* Not forced, and the file belongs to another port or exists; or the      *)
(* source file is missing.                                                 *)
CheckFails(f) ==
    /\ op.pc = "check" /\ f \in op.todo
    /\ \/ "source" \in scene.faults
       \/ Replaceable(f) = {} /\ ~force /\ (Rivals(f) # {} \/ disk[Place(f)] # None)
    /\ Throw(FALSE)
    /\ UNCHANGED <<scene, disk, force, clock, made, before, met>>

(* The first transaction commits.                                          *)
FinishChecking ==
    /\ op.pc = "check" /\ op.todo = {}
    /\ Commit(work)
    /\ op' = [op EXCEPT !.pc = "replaced", !.others = op.replaced]
    /\ UNCHANGED <<scene, disk, force, clock, made, before, met>>

-----------------------------------------------------------------------------
(* Second transaction: the files become active in the registry (an error   *)
(* if one of the paths is active already) and are moved into place.        *)
StartMoving ==
    /\ op.pc = "replaced" /\ op.others = {} /\ ~open
    /\ \/ /\ \A f \in Image[op.port] : Owners(work, Place(f)) = {}
          /\ open' = TRUE
          /\ work' = Activated(work, op.port)
          /\ op' = [op EXCEPT !.pc = "move", !.todo = Image[op.port]]
          /\ UNCHANGED <<db, met>>
       \/ /\ \E f \in Image[op.port] : Owners(work, Place(f)) # {}
          /\ Throw(TRUE)
          /\ NoteUndone
    /\ UNCHANGED <<scene, disk, force, clock, made, before>>

(* _activate_file renames without -force; rollback_filelist is extended    *)
(* afterwards.                                                             *)
MoveFile(f) ==
    /\ op.pc = "move" /\ f \in op.todo
    /\ disk[Place(f)] = None
    /\ disk' = [disk EXCEPT ![Place(f)] = op.port]
    /\ op' = [op EXCEPT !.pc = "moved", !.cur = {f}, !.todo = @ \ {f}]
    /\ UNCHANGED <<scene, db, work, open, force, clock, made, before, met>>

(* Mutant: rollback_filelist is not extended.                              *)
NoteMovedForgets ==
    /\ op.pc = "moved"
    /\ op' = [op EXCEPT !.pc = "move", !.cur = {}]
    /\ UNCHANGED <<scene, db, work, open, disk, force, clock, made, before, met>>

NoteMoved ==
    /\ op.pc = "moved"
    /\ op' = [op EXCEPT !.pc = "move", !.moved = @ \cup op.cur, !.cur = {}]
    /\ UNCHANGED <<scene, db, work, open, disk, force, clock, made, before, met>>

CannotMove(f) ==
    /\ op.pc = "move" /\ f \in op.todo
    /\ "source" \in scene.faults \/ disk[Place(f)] # None
    /\ Throw(TRUE)
    /\ UNCHANGED <<scene, disk, force, clock, made, before>>
    /\ NoteUndone

FinishMoving ==
    /\ op.pc = "move" /\ op.todo = {}
    /\ Commit([work EXCEPT !.state[op.port] = "installed"])
    /\ op' = [op EXCEPT !.pc = "committed"]
    /\ UNCHANGED <<scene, disk, force, clock, made, before, met>>

(* A transaction cannot be committed: registry_write raises, outside the   *)
(* clause that sets deactivate_this, and reg_commit keeps the status of an *)
(* open transaction. sqlite either keeps it open or has rolled it back. If *)
(* it is kept, run_target finds in it the state it wanted and reports      *)
(* success.                                                                *)
CannotCommit ==
    /\ "commit" \in scene.faults
    /\ \E kept \in BOOLEAN :
       \/ /\ op.pc = "deact" /\ op.paths = {}
          /\ work' = IF kept THEN [work EXCEPT !.state[op.victim] = "imaged"] ELSE db
          /\ IF kept /\ op.back # "idle" /\ op.via = "target"
               THEN op' = [op EXCEPT !.pc = op.back, !.others = @ \ {op.victim}]
               ELSE DeactivationFails
       \/ /\ op.pc = "check" /\ op.todo = {}
          /\ work' = IF kept THEN work ELSE db
          /\ op' = [op EXCEPT !.pc = "unmove", !.moved = {}]
       \/ /\ op.pc = "move" /\ op.todo = {}
          /\ work' = IF kept THEN [work EXCEPT !.state[op.port] = "installed"] ELSE db
          /\ op' = [op EXCEPT !.pc = "unmove", !.moved = {}]
    /\ UNCHANGED <<scene, db, open, disk, force, clock, made, before>>
    /\ met' = met \cup {"fault"}

(* registry_write does not begin a transaction while one is open.          *)
CannotBegin ==
    /\ open
    /\ \/ op.pc = "others" /\ op.others # {} /\ op' = FailedOp
       \/ /\ (op.pc = "others" /\ op.others = {}) \/ op.pc = "replaced"
          /\ op' = [op EXCEPT !.pc = "unmove", !.moved = {}]
    /\ UNCHANGED <<scene, db, work, open, disk, force, clock, made, before, met>>

(* _activate_contents leaves its try block; a nested activation returns to *)
(* the rollback that started it.                                           *)
FinishActivating ==
    /\ op.pc = "committed"
    /\ op' = IF op.reacting THEN [op EXCEPT !.pc = "react", !.reacting = FALSE]
                            ELSE Idle
    /\ UNCHANGED <<scene, db, work, open, disk, force, clock, made, before, met>>

-----------------------------------------------------------------------------
(* The catch clause of _activate_contents, with signals blocked: the moved *)
(* files are deleted, the backups moved back, the replaced ports           *)
(* reactivated, and the error raised again.                                *)
DeleteMoved(f) ==
    /\ op.pc = "unmove" /\ f \in op.moved
    /\ disk' = [disk EXCEPT ![Place(f)] = None]
    /\ op' = [op EXCEPT !.moved = @ \ {f}]
    /\ UNCHANGED <<scene, db, work, open, force, clock, made, before, met>>

RestoreBackup(f) ==
    /\ op.pc = "unmove" /\ op.moved = {}
    /\ f \in op.backups
    /\ disk[<<f, op.stamp>>] # None
    /\ disk' = [disk EXCEPT ![Place(f)] = disk[<<f, op.stamp>>],
                            ![<<f, op.stamp>>] = None]
    /\ op' = [op EXCEPT !.backups = @ \ {f}]
    /\ UNCHANGED <<scene, db, work, open, force, clock, made, before, met>>

(* A file cannot be deleted or a backup is gone: the rest of the catch     *)
(* clause is skipped.                                                      *)
RollbackFails ==
    /\ op.pc = "unmove"
    /\ \/ "unlink" \in scene.faults /\ op.moved \cup op.backups # {}
       \/ op.moved = {} /\ \E f \in op.backups : disk[<<f, op.stamp>>] = None
    /\ op' = FailedOp
    /\ UNCHANGED <<scene, db, work, open, disk, force, clock, made, before>>
    /\ met' = met \cup {"fault"}

(* Mutant: the replaced ports stay deactivated.                            *)
FinishRestoringOnly ==
    /\ op.pc = "unmove" /\ op.moved = {} /\ op.backups = {}
    /\ op' = IF op.reacting THEN FailedOp
             ELSE [op EXCEPT !.pc = "react", !.react = {}, !.retry = FALSE]
    /\ UNCHANGED <<scene, db, work, open, disk, force, clock, made, before, met>>

(* A nested activation has nothing to reactivate (see ConstantsOK).        *)
FinishRestoring ==
    /\ op.pc = "unmove" /\ op.moved = {} /\ op.backups = {}
    /\ op' = IF op.reacting THEN FailedOp
             ELSE [op EXCEPT !.pc = "react", !.react = op.replaced, !.retry = FALSE]
    /\ UNCHANGED <<scene, db, work, open, disk, force, clock, made, before, met>>

(* Entries found imaged are activated, with whatever force now is.         *)
Reactivate(e) ==
    /\ op.pc = "react" /\ ~open
    /\ e \in op.react /\ work.state[e] = "imaged"
    /\ op.retry => e = op.port
    /\ \E s \in 1 .. MaxStamp, v \in Ways :
          /\ Ticks(s)
          /\ clock' = s
          /\ op' = [StartsActivating(e, s) EXCEPT !.reacting = TRUE, !.via = v,
                                                  !.retry = FALSE, !.react = @ \ {e}]
    /\ UNCHANGED <<scene, db, work, open, disk, force, made, before, met>>

(* Nothing is left to reactivate, or a transaction was left open and no    *)
(* other can begin.                                                        *)
Rethrow ==
    /\ op.pc = "react"
    /\ open \/ \A e \in op.react : work.state[e] = "installed"
    /\ op' = Idle
    /\ UNCHANGED <<scene, db, work, open, disk, force, clock, made, before, met>>

-----------------------------------------------------------------------------
(* SIGINT or SIGTERM is raised as an error between two steps.              *)
Signal ==
    /\ "signal" \in scene.faults /\ ~op.reacting
    /\ \/ /\ op.pc = "others"
          /\ op' = FailedOp
          /\ UNCHANGED <<db, work, open>>
       \/ op.pc \in {"check", "renamed", "replaced", "committed"} /\ Throw(FALSE)
       \/ op.pc \in {"move", "moved"} /\ Throw(TRUE)
    /\ UNCHANGED <<scene, disk, force, clock, made, before>>
    /\ met' = met \cup {"fault"}

(* The process ends, or is killed; the next one finds what is on disk.     *)
Restart ==
    /\ op.pc = "idle" \/ "crash" \in scene.faults
    /\ Rollback
    /\ op' = Idle
    /\ force' = FALSE
    /\ UNCHANGED <<scene, disk, clock, made, before>>
    /\ met' = IF op.pc = "idle" THEN met ELSE met \cup {"fault"}

(* Between operations the user puts a file into the prefix, where no       *)
(* active port has one.                                                    *)
UserCreates(f) ==
    /\ op.pc = "idle"
    /\ f \in scene.userFiles \ made
    /\ disk[Place(f)] = None
    /\ Owners(db, Place(f)) = {}
    /\ disk' = [disk EXCEPT ![Place(f)] = "user"]
    /\ made' = made \cup {f}
    /\ UNCHANGED <<scene, db, work, open, force, clock, op, before, met>>

Next ==
    \/ \E e \in Entry :
          \/ \E f \in Forces : Activate(e, f)
          \/ Deactivate(e)
          \/ DeactivateOther(e)
          \/ Reactivate(e)
    \/ \E p \in Path : DeleteFile(p)
    \/ \E f \in File :
          \/ CheckReplaced(f)
          \/ CheckFree(f)
          \/ RenameAway(f)
          \/ NoteBackup(f)
          \/ CheckForced(f)
          \/ CheckFails(f)
          \/ MoveFile(f)
          \/ CannotMove(f)
          \/ DeleteMoved(f)
          \/ RestoreBackup(f)
          \/ UserCreates(f)
    \/ FinishDeactivating
    \/ CannotDelete
    \/ StartChecking
    \/ CannotExtract
    \/ FinishChecking
    \/ StartMoving
    \/ NoteMoved
    \/ FinishMoving
    \/ CannotCommit
    \/ CannotBegin
    \/ FinishActivating
    \/ RollbackFails
    \/ FinishRestoring
    \/ Rethrow
    \/ Signal
    \/ Restart

Spec == Init /\ [][Next]_vars

-----------------------------------------------------------------------------
(* An entry is installed exactly when all files of its image are active;   *)
(* it is imaged exactly when none is.                                      *)
StateMatchesFiles ==
    \A e \in Entry, f \in File :
        db.actual[e][f] # NoPath <=> f \in Image[e] /\ db.state[e] = "installed"

(* Between operations, every active path holds the file of its owner, and  *)
(* a port's file lies only where the registry says (portimage.tcl lines    *)
(* 571-573: the record "cannot be inconsistent with the state of the files *)
(* on disk"), through failed activations, rollbacks and forced takeovers.  *)
(* Not so after a fault the rollback does not provide for, nor after one   *)
(* that comes too late (RollbackRestores).                                 *)
DiskMatchesRegistry ==
    op.pc = "idle" /\ met = {} =>
        \A p \in Path, e \in Entry : disk[p] = e <=> p \in ActivePaths(db, e)

(* The rollback of a failed activation has done all it does.               *)
RolledBack == op.pc = "react" /\ ~open /\ \A e \in op.react : db.state[e] = "installed"

(* When the rollback of a failed activation has done all it does, registry *)
(* and disk are what they were (portimage.tcl lines 613-615: the backups   *)
(* are moved back, "transaction rollback will take care of this in the     *)
(* registry"). Fails when the first transaction has committed the backups. *)
RollbackRestores == RolledBack => db = before.db /\ disk = before.disk

IsReplaced(e) == \E n \in Names : <<NameOf[e], n>> \in ReplacedBy

(* No forced activation had taken a file from a port that may be replaced. *)
ReplacedWhole ==
    \A e \in Entry, f \in File : IsReplaced(e) => before.db.actual[e][f] \in {NoPath, Place(f)}

(* The same, unless backups were committed: in particular, the replaced    *)
(* ports that were deactivated in between are active again. (One that had  *)
(* lost a file to a forced activation gets it back, at the cost of its     *)
(* present owner if the reactivation is forced.)                           *)
RollbackComplete ==
    RolledBack /\ met = {} /\ ReplacedWhole => db = before.db /\ disk = before.disk

(* Whatever is activated over a file, and however that ends, its content   *)
(* is kept under some name: what the user put into the prefix at every     *)
(* step, each file of an installed port between operations.                *)
FilesKept ==
    /\ \A f \in made : \E s \in 0 .. MaxStamp : disk[<<f, s>>] = "user"
    /\ op.pc = "idle" /\ "fault" \notin met =>
          \A e \in Installed(db) : \A f \in Image[e] :
              \E s \in 0 .. MaxStamp : disk[<<f, s>>] = e

(* Every commit is one step of the abstract specification.                 *)
Abstract == INSTANCE ActivePorts WITH active <- Installed(db), place <- db.actual
RefinesActivePorts == Abstract!Spec
=============================================================================
