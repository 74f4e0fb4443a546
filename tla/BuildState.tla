----------------------------- MODULE BuildState -----------------------------
(***************************************************************************)
(* The state file of a port's work directory (portutil.tcl): which targets *)
(* have run there, for which Portfile and variants. Every port(1) process  *)
(* that builds the port opens the file anew for each target                *)
(* (open_statefile), decides whether the directory is stale, takes a       *)
(* flock(2) on the file, skips the target or runs it, records it, and      *)
(* closes the file.                                                        *)
(*                                                                         *)
(* The lock is on the file, not on its name: a process may hold, or wait   *)
(* for, a file that another one has deleted with the work directory.       *)
(***************************************************************************)
EXTENDS Integers, FiniteSets

CONSTANTS
    Proc,     \* the port(1) processes that build the port
    NoProc,   \* a file nobody has locked
    Portfile, \* contents of the port's Portfile
    Variant,  \* variants that may be selected
    Targets,  \* the number of targets, run in the order 1 .. Targets
    Scenes,   \* what may happen in a behaviour, see Scene
    MaxFiles, \* bound: state files ever created
    None      \* nothing

(* "fail": a target fails; "crash": a process is killed outside a          *)
(* deletion; "interrupt": a deletion is; "edit": the Portfile changes      *)
(* while a process runs, and not only between runs.                        *)
FaultKinds == {"fail", "crash", "interrupt", "edit"}

(* Who builds, who may clean, the values of the options -f and -o          *)
(* (ports_ignore_different), the variants asked for, the last target run,  *)
(* the faults, and the bound on changes of the Portfile.                   *)
Scene == [procs : SUBSET Proc, cleaners : SUBSET Proc, forces : SUBSET BOOLEAN,
          honors : SUBSET BOOLEAN, selects : SUBSET SUBSET Variant, last : 1 .. Targets,
          faults : SUBSET FaultKinds, edits : Nat]

(* What a target leaves in the work directory depends on the Portfile and  *)
(* the variants it was run with.                                           *)
Build == [portfile : Portfile, variants : SUBSET Variant]

ASSUME ConstantsOK ==
    /\ NoProc \notin Proc
    /\ None \notin Portfile \cup Build
    /\ Targets \in Nat
    /\ Scenes \subseteq Scene
    /\ MaxFiles \in Nat

Target == 1 .. Targets
FileId == 1 .. MaxFiles

VARIABLES
    scene,    \* the circumstances of this behaviour
    portfile, \* the Portfile now
    edits,    \* how often it has changed
    dir,      \* the work directory exists
    path,     \* the state file in the work directory, 0 if there is none
    files,    \* the contents of every state file created
    lock,     \* who holds the flock on each
    work,     \* what each target has left in the work directory
    run       \* what each process is doing

vars == <<scene, portfile, edits, dir, path, files, lock, work, run>>

(* A state file: the lines "version: 2" and "checksum:", the variants, the *)
(* targets; older: its mtime is before the Portfile's.                     *)
NewFile == [version |-> FALSE, checksum |-> None, variants |-> {}, done |-> {},
            older |-> FALSE]

(* A process: build is what mportopen loaded; at the target it is at, 0    *)
(* during check_variants; csum, fresh and fd the variables of              *)
(* open_statefile; del what a deletion in progress has yet to remove.      *)
Idle == [pc |-> "idle", build |-> None, force |-> FALSE, honor |-> FALSE, at |-> 0,
         csum |-> None, fresh |-> FALSE, fd |-> 0, del |-> {}]

Init ==
    /\ scene \in Scenes
    /\ portfile \in Portfile
    /\ edits = 0
    /\ dir = FALSE
    /\ path = 0
    /\ files = [i \in FileId |-> NewFile]
    /\ lock = [i \in FileId |-> NoProc]
    /\ work = [t \in Target |-> None]
    /\ run = [p \in Proc |-> Idle]

Created == {i \in FileId : i = path \/ lock[i] # NoProc \/ \E p \in Proc : run[p].fd = i}

-----------------------------------------------------------------------------
(* A process that ends drops its lock.                                     *)
Ends(p) ==
    /\ run' = [run EXCEPT ![p] = Idle]
    /\ lock' = [i \in FileId |-> IF lock[i] = p THEN NoProc ELSE lock[i]]

(* mportopen evaluates the Portfile; check_variants comes first.           *)
Open(p, V, f, o) ==
    /\ run[p].pc = "idle"
    /\ run' = [run EXCEPT ![p] =
                 [Idle EXCEPT !.pc = "look", !.force = f, !.honor = o,
                              !.build = [portfile |-> portfile, variants |-> V]]]
    /\ UNCHANGED <<scene, portfile, edits, dir, path, files, lock, work>>

(* open_statefile: the directory is made, the Portfile's checksum taken,   *)
(* and if there is a state file it will be compared.                       *)
Look(p) ==
    /\ run[p].pc = "look"
    /\ dir' = TRUE
    /\ run' = [run EXCEPT ![p].csum = portfile, ![p].fresh = (path = 0),
                          ![p].pc = IF path = 0 \/ run[p].honor THEN "create" ELSE "compare"]
    /\ UNCHANGED <<scene, portfile, edits, path, files, lock, work>>

(* Mutant: The recorded checksum is never compared.              *)
StaleByTime(i, csum) == csum # None /\ ~files[i].version /\ files[i].older

(* Is the state file i out of date? One without a version is as old as its *)
(* modification time.                                                      *)
Stale(i, csum) ==
    IF files[i].version THEN files[i].checksum # csum ELSE files[i].older

(* What a deletion removes: the state file (0) and what each target left.  *)
Everything == 0 .. Targets

(* The comparison, without a lock; the file may be gone.                   *)
Compare(p) ==
    /\ run[p].pc = "compare"
    /\ IF path = 0
         THEN Ends(p)
         ELSE /\ run' = IF Stale(path, run[p].csum)
                          THEN [run EXCEPT ![p].pc = "discard", ![p].del = Everything]
                          ELSE [run EXCEPT ![p].pc = "create"]
              /\ UNCHANGED lock
    /\ UNCHANGED <<scene, portfile, edits, dir, path, files, work>>

(* The work directory is deleted, entry by entry in no particular order.   *)
Delete(p, e) ==
    /\ run[p].pc \in {"discard", "clean"}
    /\ e \in run[p].del
    /\ path' = IF e = 0 THEN 0 ELSE path
    /\ work' = [t \in Target |-> IF t = e THEN None ELSE work[t]]
    /\ run' = [run EXCEPT ![p].del = @ \ {e}]
    /\ UNCHANGED <<scene, portfile, edits, dir, files, lock>>

DirEmpty == path = 0 /\ \A t \in Target : work[t] = None

(* The emptied directory is removed, an error if it has filled again; a    *)
(* discarded one is made anew.                                             *)
Deleted(p) ==
    /\ run[p].pc \in {"discard", "clean"}
    /\ run[p].del = {}
    /\ IF run[p].pc = "discard" /\ DirEmpty
         THEN /\ run' = [run EXCEPT ![p].pc = "create", ![p].fresh = TRUE]
              /\ dir' = TRUE
              /\ UNCHANGED lock
         ELSE /\ Ends(p)
              /\ dir' = (dir /\ ~DirEmpty)
    /\ UNCHANGED <<scene, portfile, edits, path, files, work>>

(* open a+ creates the file if the directory has none.                     *)
Create(p) ==
    /\ run[p].pc = "create"
    /\ \/ /\ path # 0
          /\ run' = [run EXCEPT ![p].pc = "lock", ![p].fd = path]
          /\ UNCHANGED <<path, files, lock>>
       \/ /\ path = 0 /\ dir
          /\ \E i \in FileId \ Created :
               /\ \A j \in FileId \ Created : i <= j
               /\ path' = i
               /\ files' = [files EXCEPT ![i] = NewFile]
               /\ run' = [run EXCEPT ![p].pc = "lock", ![p].fd = i]
          /\ UNCHANGED lock
       \/ /\ path = 0 /\ ~dir
          /\ Ends(p)
          /\ UNCHANGED <<path, files>>
    /\ UNCHANGED <<scene, portfile, edits, dir, work>>

(* Mutant: A lock that is held is not waited for.                 *)
LockUnwaited(p) ==
    /\ run[p].pc = "lock"
    /\ lock' = [lock EXCEPT ![run[p].fd] = p]
    /\ run' = [run EXCEPT ![p].pc = IF run[p].fresh THEN "version" ELSE "locked"]
    /\ UNCHANGED <<scene, portfile, edits, dir, path, files, work>>

(* flock, waiting for it if need be.                                       *)
Lock(p) ==
    /\ run[p].pc = "lock"
    /\ lock[run[p].fd] = NoProc
    /\ lock' = [lock EXCEPT ![run[p].fd] = p]
    /\ run' = [run EXCEPT ![p].pc = IF run[p].fresh THEN "version" ELSE "locked"]
    /\ UNCHANGED <<scene, portfile, edits, dir, path, files, work>>

(* write_statefile appends a line that is not there.                       *)
WriteVersion(p) ==
    /\ run[p].pc = "version"
    /\ files' = [files EXCEPT ![run[p].fd].version = TRUE, ![run[p].fd].older = FALSE]
    /\ run' = [run EXCEPT ![p].pc = "checksum"]
    /\ UNCHANGED <<scene, portfile, edits, dir, path, lock, work>>

(* The first checksum in the file is the one read.                         *)
WriteChecksum(p) ==
    /\ run[p].pc = "checksum"
    /\ files' = [files EXCEPT ![run[p].fd].checksum = IF @ = None THEN run[p].csum ELSE @,
                              ![run[p].fd].older = FALSE]
    /\ run' = [run EXCEPT ![p].pc = "locked"]
    /\ UNCHANGED <<scene, portfile, edits, dir, path, lock, work>>

-----------------------------------------------------------------------------
(* The file is closed, and opened again for the next target.               *)
Proceed(p) ==
    /\ lock' = [lock EXCEPT ![run[p].fd] = NoProc]
    /\ run' = [run EXCEPT ![p] =
                 IF run[p].at >= scene.last THEN Idle
                 ELSE [run[p] EXCEPT !.pc = "look", !.at = @ + 1, !.fd = 0]]

(* check_statefile_variants: what was recorded is not what is wanted.      *)
Mismatch(p) ==
    LET f == files[run[p].fd]
    IN  (f.variants # {} \/ f.done # {}) /\ f.variants # run[p].build.variants

(* check_variants                                                          *)
CheckVariants(p) ==
    /\ run[p].pc = "locked" /\ run[p].at = 0
    /\ IF ~run[p].force /\ Mismatch(p)
         THEN Ends(p) /\ UNCHANGED files
         ELSE /\ files' = [files EXCEPT
                             ![run[p].fd].variants = @ \cup run[p].build.variants,
                             ![run[p].fd].older = @ /\ run[p].build.variants = {}]
              /\ Proceed(p)
    /\ UNCHANGED <<scene, portfile, edits, dir, path, work>>

Recorded(p) == run[p].at \in files[run[p].fd].done

(* Mutant: A skipped target is tried again.                       *)
SkipAgain(p) ==
    /\ run[p].pc = "locked" /\ run[p].at > 0
    /\ Recorded(p)
    /\ lock' = [lock EXCEPT ![run[p].fd] = NoProc]
    /\ run' = [run EXCEPT ![p].pc = "look", ![p].fd = 0]
    /\ UNCHANGED <<scene, portfile, edits, dir, path, files, work>>

(* target_run skips a target the state file lists.                         *)
Skip(p) ==
    /\ run[p].pc = "locked" /\ run[p].at > 0
    /\ Recorded(p)
    /\ Proceed(p)
    /\ UNCHANGED <<scene, portfile, edits, dir, path, files, work>>

(* Mutant: The target is recorded before it has run.             *)
StartRecorded(p) ==
    /\ run[p].pc = "locked" /\ run[p].at > 0
    /\ ~Recorded(p)
    /\ run' = [run EXCEPT ![p].pc = "running"]
    /\ files' = [files EXCEPT ![run[p].fd].done = @ \cup {run[p].at}]
    /\ UNCHANGED <<scene, portfile, edits, dir, path, lock, work>>

Start(p) ==
    /\ run[p].pc = "locked" /\ run[p].at > 0
    /\ ~Recorded(p)
    /\ run' = [run EXCEPT ![p].pc = "running"]
    /\ UNCHANGED <<scene, portfile, edits, dir, path, files, lock, work>>

(* The target has run, in whatever directory now has the name.             *)
Complete(p) ==
    /\ run[p].pc = "running"
    /\ dir
    /\ work' = [work EXCEPT ![run[p].at] = run[p].build]
    /\ run' = [run EXCEPT ![p].pc = "record"]
    /\ UNCHANGED <<scene, portfile, edits, dir, path, files, lock>>

Fail(p) ==
    /\ run[p].pc = "running"
    /\ "fail" \in scene.faults \/ ~dir
    /\ Ends(p)
    /\ UNCHANGED <<scene, portfile, edits, dir, path, files, work>>

Record(p) ==
    /\ run[p].pc = "record"
    /\ files' = [files EXCEPT ![run[p].fd].done = @ \cup {run[p].at},
                              ![run[p].fd].older = FALSE]
    /\ Proceed(p)
    /\ UNCHANGED <<scene, portfile, edits, dir, path, work>>

-----------------------------------------------------------------------------
(* clean_work: no lock is taken.                                           *)
Clean(p) ==
    /\ p \in scene.cleaners
    /\ run[p].pc = "idle" /\ dir
    /\ run' = [run EXCEPT ![p].pc = "clean", ![p].del = Everything]
    /\ UNCHANGED <<scene, portfile, edits, dir, path, files, lock, work>>

Crash(p) ==
    /\ run[p].pc # "idle"
    /\ (IF run[p].pc \in {"discard", "clean"} THEN "interrupt" ELSE "crash") \in scene.faults
    /\ Ends(p)
    /\ UNCHANGED <<scene, portfile, edits, dir, path, files, work>>

(* The Portfile changes, later than any state file was written.            *)
Edit(v) ==
    /\ edits < scene.edits
    /\ "edit" \in scene.faults \/ \A p \in Proc : run[p].pc = "idle"
    /\ v # portfile
    /\ portfile' = v
    /\ edits' = edits + 1
    /\ files' = [i \in FileId |-> [files[i] EXCEPT !.older = TRUE]]
    /\ UNCHANGED <<scene, dir, path, lock, work, run>>

(* What a process does by itself.                                          *)
Step(p) ==
    \/ Look(p)
    \/ Compare(p)
    \/ \E e \in Everything : Delete(p, e)
    \/ Deleted(p)
    \/ Create(p)
    \/ WriteVersion(p)
    \/ WriteChecksum(p)
    \/ CheckVariants(p)
    \/ Skip(p)
    \/ Start(p)
    \/ Complete(p)
    \/ Fail(p)
    \/ Record(p)

Next ==
    \/ \E p \in scene.procs :
          \/ \E V \in scene.selects, f \in scene.forces, o \in scene.honors : Open(p, V, f, o)
          \/ Step(p)
          \/ Lock(p)
          \/ Clean(p)
          \/ Crash(p)
    \/ \E v \in Portfile : Edit(v)

Spec == Init /\ [][Next]_vars

(* Processes run, targets return, and flock does not starve a waiter.      *)
FairSpec == Spec /\ \A p \in Proc : WF_vars(Step(p)) /\ SF_vars(Lock(p))

-----------------------------------------------------------------------------
Pcs == {"idle", "look", "compare", "discard", "create", "lock", "version",
        "checksum", "locked", "running", "record", "clean"}

StateFile == [version : BOOLEAN, checksum : Portfile \cup {None},
              variants : SUBSET Variant, done : SUBSET Target, older : BOOLEAN]
Process == [pc : Pcs, build : Build \cup {None}, force : BOOLEAN, honor : BOOLEAN,
            at : 0 .. Targets, csum : Portfile \cup {None}, fresh : BOOLEAN,
            fd : 0 .. MaxFiles, del : SUBSET Everything]

(* Type invariant.                                                         *)
TypeOK ==
    /\ portfile \in Portfile
    /\ scene \in Scenes
    /\ edits \in Nat
    /\ dir \in BOOLEAN
    /\ path \in 0 .. MaxFiles
    /\ files \in [FileId -> StateFile]
    /\ lock \in [FileId -> Proc \cup {NoProc}]
    /\ work \in [Target -> Build \cup {None}]
    /\ run \in [Proc -> Process]

(* p begins to run a target.                                               *)
Begins(p) == run[p].pc = "locked" /\ run'[p].pc = "running"

(* What the properties below depend on: a process is alone and its         *)
(* deletions are not interrupted; nobody cleans the directory, or discards *)
(* it, which is what -o forbids.                                           *)
One(S) == \A p, q \in S : p = q
Single == One(scene.procs) /\ "interrupt" \notin scene.faults
Keeping == scene.cleaners = {} /\ scene.honors \subseteq {TRUE}

(* A process that is alone, without -f and -o, and a Portfile that changes *)
(* between its runs.                                                       *)
Careful == Single /\ "edit" \notin scene.faults /\ TRUE \notin scene.forces \cup scene.honors

(* A careful process runs a target on what its predecessors made of the    *)
(* same Portfile with the same variants, whatever failed, was killed,      *)
(* edited or cleaned before (open_statefile, check_statefile_variants).    *)
OwnWork ==
    [][Careful => \A p \in Proc : Begins(p) =>
           \A t \in 1 .. run[p].at - 1 : work[t] = run[p].build]_vars

(* When nobody is at work, every target the state file lists has left its  *)
(* work (portutil.tcl line 1688: the file stores the "name of completed    *)
(* targets"), if the process is alone or nobody deletes. It would fail     *)
(* after a deletion that was interrupted.                                  *)
CompletedHasWork ==
    (Single \/ Keeping) /\ (\A p \in Proc : run[p].pc = "idle") /\ path # 0 =>
        \A t \in files[path].done : work[t] # None

(* Two processes that run a target at once have different state files, and *)
(* this happens only where the directory may be deleted under one of them. *)
(* The lock excludes all else. That it excludes no more is the file's      *)
(* comparison and the deletion, which open_statefile makes without it      *)
(* (ChangeLog lines 639-640 say "Added more locking to avoid TOCTOU errors *)
(* when running multiple port(1) instances").                              *)
WorkExclusive ==
    \A p, q \in Proc : p # q /\ run[p].pc = "running" /\ run[q].pc = "running" =>
        run[p].fd # run[q].fd /\ ~Keeping

(* Every run and every clean comes to an end.                              *)
RunsEnd == \A p \in Proc : run[p].pc # "idle" ~> run[p].pc = "idle"
=============================================================================
