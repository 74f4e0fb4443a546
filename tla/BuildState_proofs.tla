------------------------- MODULE BuildState_proofs -------------------------
(***************************************************************************)
(* Proofs about the state file, for any processes, Portfiles, variants,    *)
(* targets and bounds: its type invariant, that a process that has passed  *)
(* flock holds the lock of the file it has open, that targets exclude each *)
(* other where nobody deletes the work directory under the others, that    *)
(* recorded targets have left their work, and that a target runs on what   *)
(* its predecessors made of the same Portfile.                             *)
(*                                                                         *)
(* The lock alone does not give exclusion, because it is on a file and not *)
(* on the directory: two processes may hold the locks of two files that    *)
(* had the same name. The invariant therefore adds that all processes have *)
(* the present state file open, which a deletion would break.              *)
(***************************************************************************)
EXTENDS BuildState, TLAPS

Past == {"version", "checksum", "locked", "running", "record"}

(* A process past flock holds the lock of the file it has open.            *)
Holds ==
    \A p \in Proc :
        /\ run[p].pc \in Past => run[p].fd \in FileId /\ lock[run[p].fd] = p
        /\ run[p].pc = "lock" => run[p].fd \in FileId

(* A run has loaded a Portfile, and what it runs and records is a target.  *)
Loaded ==
    \A p \in Proc :
        /\ run[p].pc \notin {"idle", "clean"} => run[p].build \in Build
        /\ run[p].pc \in {"running", "record"} => run[p].at \in Target

(* Only the processes of the scene do anything.                            *)
OthersIdle == \A p \in Proc : p \notin scene.procs => run[p].pc = "idle"

(* Where nobody discards or cleans the directory, each has the present     *)
(* state file open.                                                        *)
SameFile ==
    Keeping => \A p \in Proc :
        /\ run[p].pc \notin {"compare", "discard", "clean"}
        /\ run[p].pc # "idle" => run[p].honor
        /\ run[p].pc \in Past \cup {"lock"} => run[p].fd = path

IInv == TypeOK /\ Holds /\ Loaded /\ OthersIdle /\ SameFile

-----------------------------------------------------------------------------
LEMMA IdleType == Idle \in Process
BY ConstantsOK DEF Idle, Process, Pcs, ConstantsOK

LEMMA NewFileType == NewFile \in StateFile
BY DEF NewFile, StateFile

LEMMA InitInv == Init => IInv
<1> SUFFICES ASSUME Init PROVE IInv
    OBVIOUS
<1>1. TypeOK
  <2>1. path \in 0 .. MaxFiles /\ edits \in Nat
      BY ConstantsOK DEF Init, ConstantsOK
  <2>2. /\ files \in [FileId -> StateFile] /\ lock \in [FileId -> Proc \cup {NoProc}]
        /\ work \in [Target -> Build \cup {None}] /\ run \in [Proc -> Process]
      BY IdleType, NewFileType DEF Init
  <2> QED BY <2>1, <2>2 DEF Init, TypeOK
<1>2. \A p \in Proc : run[p].pc = "idle"
    BY DEF Init, Idle
<1> QED BY <1>1, <1>2 DEF IInv, Holds, Loaded, OthersIdle, SameFile, Past

(* A process of a scene, and the options it may be given.                  *)
LEMMA SceneTypes ==
    ASSUME TypeOK
    PROVE  scene.procs \subseteq Proc /\ scene.forces \subseteq BOOLEAN
           /\ scene.honors \subseteq BOOLEAN /\ scene.selects \subseteq SUBSET Variant
           /\ scene.last \in 1 .. Targets
BY ConstantsOK DEF TypeOK, ConstantsOK, Scene

(* A process that ends is idle and holds nothing; the types are kept.      *)
LEMMA EndsTypes ==
    ASSUME TypeOK, NEW p \in Proc, Ends(p)
    PROVE  run' \in [Proc -> Process] /\ lock' \in [FileId -> Proc \cup {NoProc}]
BY IdleType DEF TypeOK, Ends

LEMMA ProceedTypes ==
    ASSUME TypeOK, NEW p \in Proc, run[p].fd \in FileId, Proceed(p)
    PROVE  run' \in [Proc -> Process] /\ lock' \in [FileId -> Proc \cup {NoProc}]
<1>1. lock' \in [FileId -> Proc \cup {NoProc}]
    BY DEF TypeOK, Proceed
<1>2. CASE run[p].at >= scene.last
    BY <1>1, <1>2, IdleType DEF TypeOK, Proceed
<1>3. CASE ~(run[p].at >= scene.last)
  <2>1. run[p] \in Process /\ run[p].at \in 0 .. Targets
      BY DEF TypeOK, Process
  <2>a. run[p].at + 1 \in 0 .. Targets /\ 0 \in 0 .. MaxFiles
      BY <1>3, <2>1, ConstantsOK, SceneTypes DEF ConstantsOK
  <2>2. run' = [run EXCEPT ![p] = [run[p] EXCEPT !.pc = "look", !.at = @ + 1, !.fd = 0]]
      BY <1>3 DEF Proceed
  <2>3. [run[p] EXCEPT !.pc = "look", !.at = @ + 1, !.fd = 0] \in Process
      BY <2>1, <2>a DEF Process, Pcs
  <2> QED BY <1>1, <2>2, <2>3 DEF TypeOK
<1> QED BY <1>2, <1>3

(* Every step of a process keeps the types.                                *)
LEMMA StepTypes ==
    ASSUME TypeOK, Holds, Loaded, NEW p \in Proc, Step(p) \/ Lock(p) \/ Clean(p) \/ Crash(p)
    PROVE  TypeOK'
<1> USE DEF TypeOK
<1>0. run[p] \in Process /\ run[p].fd \in 0 .. MaxFiles /\ path \in 0 .. MaxFiles
    BY DEF Process
<1>1. CASE Look(p)
  BY <1>0, <1>1 DEF Look, Process, Pcs
<1>2. CASE Compare(p)
  <2>1. CASE path = 0
      BY <1>2, <2>1, EndsTypes DEF Compare
  <2>2. CASE path # 0
      BY <1>0, <1>2, <2>2, SMTT(30) DEF Compare, Process, Pcs
  <2> QED BY <2>1, <2>2
<1>3. ASSUME NEW e \in Everything, Delete(p, e) PROVE TypeOK'
  BY <1>0, <1>3, ConstantsOK, SMTT(60) DEF Delete, Process, ConstantsOK, Build
<1>4. CASE Deleted(p)
  <2>1. CASE run[p].pc = "discard" /\ DirEmpty
      BY <1>0, <1>4, <2>1 DEF Deleted, Process, Pcs
  <2>2. CASE ~(run[p].pc = "discard" /\ DirEmpty)
      BY <1>4, <2>2, EndsTypes DEF Deleted, DirEmpty
  <2> QED BY <2>1, <2>2
<1>5. CASE Create(p)
  <2>1. CASE path # 0
      BY <1>0, <1>5, <2>1 DEF Create, Process, Pcs
  <2>2. CASE path = 0 /\ dir
    <3>1. PICK i \in FileId : /\ path' = i /\ files' = [files EXCEPT ![i] = NewFile]
                              /\ run' = [run EXCEPT ![p].pc = "lock", ![p].fd = i]
        BY <1>5, <2>2 DEF Create
    <3>2. UNCHANGED <<scene, portfile, edits, dir, work, lock>>
        BY <1>5, <2>2 DEF Create
    <3>3. files' \in [FileId -> StateFile]
        BY <3>1, NewFileType
    <3>4. [run[p] EXCEPT !.pc = "lock", !.fd = i] \in Process
      <4>1. i \in 0 .. MaxFiles
          BY <3>1 DEF FileId
      <4> QED BY <1>0, <4>1 DEF Process, Pcs
    <3>5. run' = [run EXCEPT ![p] = [run[p] EXCEPT !.pc = "lock", !.fd = i]]
        BY <3>1
    <3> QED BY <3>1, <3>2, <3>3, <3>4, <3>5 DEF FileId
  <2>3. CASE path = 0 /\ ~dir
      BY <1>5, <2>3, EndsTypes DEF Create
  <2> QED BY <2>1, <2>2, <2>3
<1>6. CASE Lock(p)
  BY <1>0, <1>6 DEF Lock, Process, Pcs
<1>7. CASE WriteVersion(p)
  <2> DEFINE n == [files[run[p].fd] EXCEPT !.version = TRUE, !.older = FALSE]
  <2>3. run[p].fd \in FileId => n \in StateFile
    <3>1. ASSUME NEW x \in StateFile
          PROVE  [x EXCEPT !.version = TRUE, !.older = FALSE] \in StateFile
      <4>1. \A y \in StateFile : [y EXCEPT !.older = FALSE] \in StateFile
          BY ONLY ZenonT(60) DEF StateFile
      <4>2. [x EXCEPT !.version = TRUE] \in StateFile
          BY ONLY <3>1, ZenonT(60) DEF StateFile
      <4> QED BY <4>1, <4>2
    <3> QED BY <3>1
  <2>4. files' = [files EXCEPT ![run[p].fd] = n]
      BY <1>7 DEF WriteVersion
  <2> HIDE DEF n
  <2>1. files' \in [FileId -> StateFile]
      BY <2>3, <2>4
  <2>2. run' \in [Proc -> Process]
      BY <1>0, <1>7 DEF WriteVersion, Process, Pcs
  <2> QED BY <1>7, <2>1, <2>2 DEF WriteVersion
<1>8. CASE WriteChecksum(p)
  <2>1. run[p].csum \in Portfile \cup {None}
      BY <1>0 DEF Process
  <2>2. files' \in [FileId -> StateFile]
    <3>1. run[p].fd \in FileId /\ files[run[p].fd] \in StateFile
        BY <1>8 DEF WriteChecksum, Holds, Past
    <3> DEFINE i == run[p].fd
               c == IF files[i].checksum = None THEN run[p].csum ELSE files[i].checksum
    <3>2. files' = [files EXCEPT ![i] = [files[i] EXCEPT !.checksum = c, !.older = FALSE]]
        BY <1>8, <3>1 DEF WriteChecksum
    <3>3. c \in Portfile \cup {None}
        BY <2>1, <3>1 DEF StateFile
    <3> HIDE DEF c
    <3>4. [files[i] EXCEPT !.checksum = c, !.older = FALSE] \in StateFile
        BY <3>1, <3>3 DEF StateFile
    <3> QED BY <3>2, <3>4
  <2>3. run' \in [Proc -> Process]
      BY <1>0, <1>8 DEF WriteChecksum, Process, Pcs
  <2> QED BY <1>8, <2>2, <2>3 DEF WriteChecksum
<1>9. CASE CheckVariants(p)
  <2>1. CASE ~run[p].force /\ Mismatch(p)
      BY <1>9, <2>1, EndsTypes DEF CheckVariants
  <2>2. CASE ~(~run[p].force /\ Mismatch(p))
    <3>1. Proceed(p) /\ run[p].fd \in FileId /\ run[p].build.variants \subseteq Variant
        BY <1>9, <2>2 DEF CheckVariants, Holds, Loaded, Past, Build
    <3>2. files' \in [FileId -> StateFile]
        BY <1>9, <2>2, <3>1, SMTT(30) DEF CheckVariants, StateFile
    <3> QED BY <1>9, <3>1, <3>2, ProceedTypes DEF CheckVariants
  <2> QED BY <2>1, <2>2
<1>10. CASE Skip(p)
  BY <1>10, ProceedTypes DEF Skip, Holds, Past
<1>11. CASE Start(p)
  BY <1>0, <1>11 DEF Start, Process, Pcs
<1>12. CASE Complete(p)
  BY <1>0, <1>12 DEF Complete, Process, Pcs
<1>13. CASE Fail(p)
  BY <1>13, EndsTypes DEF Fail
<1>14. CASE Record(p)
  <2>1. Proceed(p) /\ run[p].fd \in FileId /\ run[p].at \in Target
      BY <1>14 DEF Record, Holds, Loaded, Past
  <2>2. files' \in [FileId -> StateFile]
    <3> DEFINE n == [files[run[p].fd] EXCEPT !.done = @ \cup {run[p].at}, !.older = FALSE]
    <3>1. files' = [files EXCEPT ![run[p].fd] = n]
        BY <1>14 DEF Record
    <3>2. files[run[p].fd] \in StateFile
        BY <2>1 DEF TypeOK
    <3>3. n \in StateFile
      <4>1. ASSUME NEW x \in StateFile, NEW D \in SUBSET Target
            PROVE  [x EXCEPT !.done = D, !.older = FALSE] \in StateFile
          BY ONLY <4>1, ZenonT(60) DEF StateFile
      <4>2. files[run[p].fd].done \cup {run[p].at} \in SUBSET Target
          BY <2>1, <3>2 DEF StateFile
      <4> QED BY <3>2, <4>1, <4>2
    <3> HIDE DEF n
    <3> QED BY <3>1, <3>3 DEF TypeOK
  <2> QED BY <1>14, <2>1, <2>2, ProceedTypes DEF Record
<1>15. CASE Clean(p)
  BY <1>0, <1>15 DEF Clean, Process, Pcs
<1>16. CASE Crash(p)
  BY <1>16, EndsTypes DEF Crash
<1> QED BY <1>1, <1>2, <1>3, <1>4, <1>5, <1>6, <1>7, <1>8, <1>9, <1>10, <1>11, <1>12, <1>13,
        <1>14, <1>15, <1>16 DEF Step

-----------------------------------------------------------------------------
(* What a step of p does to the lock and to p: whoever else holds a lock   *)
(* keeps it, and p holds what it should.                                   *)
LEMMA StepHolds ==
    ASSUME TypeOK, Holds, Loaded, NEW p \in Proc,
           Step(p) \/ Lock(p) \/ Clean(p) \/ Crash(p)
    PROVE  Holds' /\ Loaded'
<1> USE DEF TypeOK
<1> DEFINE Own ==
        /\ run'[p].pc \in Past => run'[p].fd \in FileId /\ lock'[run'[p].fd] = p
        /\ run'[p].pc = "lock" => run'[p].fd \in FileId
        /\ run'[p].pc \notin {"idle", "clean"} => run'[p].build \in Build
        /\ run'[p].pc \in {"running", "record"} => run'[p].at \in Target
<1> DEFINE Rest ==
        /\ \A q \in Proc \ {p} : run'[q] = run[q]
        /\ \A i \in FileId : lock'[i] = lock[i] \/ lock[i] \in {p, NoProc}
<1>0. run[p] \in Process
    OBVIOUS
<1>a. ASSUME Ends(p) PROVE Own /\ Rest
    BY <1>a DEF Ends, Idle, Past
<1>b. ASSUME Proceed(p), run[p].pc \in Past PROVE Own /\ Rest
  <2>1. Rest
      BY <1>b DEF Proceed, Holds
  <2>2. run[p].build \in Build
      BY <1>b DEF Loaded, Past
  <2>3. run'[p] = IF run[p].at >= scene.last THEN Idle
                  ELSE [run[p] EXCEPT !.pc = "look", !.at = @ + 1, !.fd = 0]
      BY <1>b DEF Proceed
  <2>4. CASE run[p].at >= scene.last
      BY <2>1, <2>3, <2>4 DEF Idle, Past
  <2>5. CASE ~(run[p].at >= scene.last)
    <3>1. run'[p].pc = "look" /\ run'[p].build = run[p].build
        BY <1>0, <2>3, <2>5 DEF Process
    <3> QED BY <2>1, <2>2, <3>1 DEF Past
  <2> QED BY <2>4, <2>5
<1>c. Own /\ Rest => Holds' /\ Loaded'
  <2> SUFFICES ASSUME Own, Rest, NEW q \in Proc
               PROVE  /\ run'[q].pc \in Past =>
                             run'[q].fd \in FileId /\ lock'[run'[q].fd] = q
                      /\ run'[q].pc = "lock" => run'[q].fd \in FileId
                      /\ run'[q].pc \notin {"idle", "clean"} => run'[q].build \in Build
                      /\ run'[q].pc \in {"running", "record"} => run'[q].at \in Target
      BY DEF Holds, Loaded
  <2>1. CASE q = p
      BY <2>1
  <2>2. CASE q # p
    <3>1. run'[q] = run[q]
        BY <2>2
    <3>2. run[q].pc \in Past => lock'[run[q].fd] = q
        BY <2>2, ConstantsOK DEF Holds, ConstantsOK
    <3> QED BY <3>1, <3>2 DEF Holds, Loaded
  <2> QED BY <2>1, <2>2
<1>1. ASSUME Look(p) PROVE Own /\ Rest
    BY <1>0, <1>1 DEF Look, Process, Past, Loaded, Holds
<1>2. ASSUME Compare(p) PROVE Own /\ Rest
  <2>1. CASE path = 0
      BY <1>2, <1>a, <2>1 DEF Compare
  <2>2. CASE path # 0
      BY <1>0, <1>2, <2>2 DEF Compare, Process, Past, Loaded, Holds
  <2> QED BY <2>1, <2>2
<1>3. ASSUME NEW e \in Everything, Delete(p, e) PROVE Own /\ Rest
    BY <1>0, <1>3 DEF Delete, Process, Past, Loaded, Holds
<1>4. ASSUME Deleted(p) PROVE Own /\ Rest
  <2>1. CASE run[p].pc = "discard" /\ DirEmpty
      BY <1>0, <1>4, <2>1 DEF Deleted, Process, Past, Loaded, Holds
  <2>2. CASE ~(run[p].pc = "discard" /\ DirEmpty)
      BY <1>4, <1>a, <2>2 DEF Deleted
  <2> QED BY <2>1, <2>2
<1>5. ASSUME Create(p) PROVE Own /\ Rest
  <2>1. CASE path # 0
    <3>1. run' = [run EXCEPT ![p].pc = "lock", ![p].fd = path] /\ lock' = lock /\ run[p].pc = "create"
        BY <1>5, <2>1 DEF Create
    <3>2. path \in FileId
        BY <2>1 DEF FileId
    <3> QED BY <1>0, <3>1, <3>2 DEF Process, Past, Loaded
  <2>2. CASE path = 0 /\ dir
    <3>1. PICK i \in FileId : run' = [run EXCEPT ![p].pc = "lock", ![p].fd = i]
        BY <1>5, <2>2 DEF Create
    <3>2. lock' = lock /\ run[p].pc = "create"
        BY <1>5, <2>2 DEF Create
    <3> QED BY <1>0, <3>1, <3>2 DEF Process, Past, Loaded
  <2>3. CASE path = 0 /\ ~dir
      BY <1>5, <1>a, <2>3 DEF Create
  <2> QED BY <2>1, <2>2, <2>3
<1>6. ASSUME Lock(p) PROVE Own /\ Rest
  <2>1. /\ run[p].pc = "lock" /\ lock[run[p].fd] = NoProc
        /\ lock' = [lock EXCEPT ![run[p].fd] = p]
        /\ run' = [run EXCEPT ![p].pc = IF run[p].fresh THEN "version" ELSE "locked"]
      BY <1>6 DEF Lock
  <2>2. run[p].fd \in FileId /\ run[p].build \in Build
      BY <2>1 DEF Holds, Loaded
  <2> QED BY <1>0, <2>1, <2>2 DEF Process, Past
<1>7. ASSUME WriteVersion(p) PROVE Own /\ Rest
    BY <1>0, <1>7 DEF WriteVersion, Process, Past, Loaded, Holds
<1>8. ASSUME WriteChecksum(p) PROVE Own /\ Rest
    BY <1>0, <1>8 DEF WriteChecksum, Process, Past, Loaded, Holds
<1>9. ASSUME CheckVariants(p) PROVE Own /\ Rest
    BY <1>9, <1>a, <1>b DEF CheckVariants, Past
<1>10. ASSUME Skip(p) PROVE Own /\ Rest
    BY <1>10, <1>b DEF Skip, Past
<1>11. ASSUME Start(p) PROVE Own /\ Rest
  <2>1. run[p].at \in Target
      BY <1>0, <1>11 DEF Start, Process, Target
  <2> QED BY <1>0, <1>11, <2>1 DEF Start, Process, Past, Loaded, Holds
<1>12. ASSUME Complete(p) PROVE Own /\ Rest
    BY <1>0, <1>12 DEF Complete, Process, Past, Loaded, Holds
<1>13. ASSUME Fail(p) PROVE Own /\ Rest
    BY <1>13, <1>a DEF Fail
<1>14. ASSUME Record(p) PROVE Own /\ Rest
    BY <1>14, <1>b DEF Record, Past
<1>15. ASSUME Clean(p) PROVE Own /\ Rest
    BY <1>0, <1>15 DEF Clean, Process, Past, Loaded, Holds
<1>16. ASSUME Crash(p) PROVE Own /\ Rest
    BY <1>16, <1>a DEF Crash
<1> HIDE DEF Own, Rest
<1> QED BY <1>c, <1>1, <1>2, <1>3, <1>4, <1>5, <1>6, <1>7, <1>8, <1>9, <1>10, <1>11, <1>12, <1>13,
        <1>14, <1>15, <1>16 DEF Step

(* Where nobody discards or cleans, a step of p leaves everybody with the  *)
(* present state file: it changes its name only when there was none.       *)
LEMMA StepSameFile ==
    ASSUME TypeOK, Holds, Loaded, SameFile, NEW p \in Proc, p \in scene.procs,
           Step(p) \/ Lock(p) \/ Clean(p) \/ Crash(p)
    PROVE  SameFile' /\ scene' = scene
<1> USE DEF TypeOK
<1> DEFINE Own ==
        /\ run'[p].pc \notin {"compare", "discard", "clean"}
        /\ run'[p].pc # "idle" => run'[p].honor
        /\ run'[p].pc \in Past \cup {"lock"} => run'[p].fd = path'
<1> DEFINE Rest ==
        /\ \A q \in Proc \ {p} : run'[q] = run[q]
        /\ path' = path \/ path = 0
<1>0. run[p] \in Process
    OBVIOUS
<1>s. scene' = scene
    BY DEF Step, Look, Compare, Delete, Deleted, Create, Lock, WriteVersion, WriteChecksum,
       CheckVariants, Skip, Start, Complete, Fail, Record, Clean, Crash
<1> SUFFICES ASSUME Keeping PROVE SameFile'
    BY <1>s DEF SameFile, Keeping
<1>k. /\ run[p].pc \notin {"compare", "discard", "clean"}
      /\ run[p].pc # "idle" => run[p].honor
      /\ run[p].pc \in Past \cup {"lock"} => run[p].fd = path
    BY DEF SameFile
<1>a. ASSUME Ends(p), path' = path PROVE Own /\ Rest
    BY <1>a DEF Ends, Idle, Past
<1>b. ASSUME Proceed(p), run[p].pc \in Past, path' = path PROVE Own /\ Rest
  <2>1. run'[p] = IF run[p].at >= scene.last THEN Idle
                  ELSE [run[p] EXCEPT !.pc = "look", !.at = @ + 1, !.fd = 0]
      BY <1>b DEF Proceed
  <2>2. run'[p].pc \in {"idle", "look"} /\ (run'[p].pc = "idle" \/ run'[p].honor = run[p].honor)
      BY <1>0, <2>1 DEF Idle, Process
  <2>3. Rest
      BY <1>b DEF Proceed
  <2> QED BY <1>b, <1>k, <2>2, <2>3 DEF Past
<1>c. Own /\ Rest => SameFile'
  <2> SUFFICES ASSUME Own, Rest, NEW q \in Proc
               PROVE  /\ run'[q].pc \notin {"compare", "discard", "clean"}
                      /\ run'[q].pc # "idle" => run'[q].honor
                      /\ run'[q].pc \in Past \cup {"lock"} => run'[q].fd = path'
      BY DEF SameFile
  <2>1. CASE q = p
      BY <2>1
  <2>2. CASE q # p
    <3>1. run'[q] = run[q]
        BY <2>2
    <3>2. run[q].pc \in Past \cup {"lock"} => run[q].fd = path /\ path # 0
        BY DEF SameFile, Holds, FileId
    <3> QED BY <3>1, <3>2 DEF SameFile
  <2> QED BY <2>1, <2>2
<1>1. ASSUME Look(p) PROVE Own /\ Rest
    BY <1>0, <1>1, <1>k DEF Look, Process, Past
<1>2. ASSUME Compare(p) \/ (\E e \in Everything : Delete(p, e)) \/ Deleted(p) PROVE FALSE
    BY <1>2, <1>k DEF Compare, Delete, Deleted
<1>5. ASSUME Create(p) PROVE Own /\ Rest
  <2>1. CASE path # 0
      BY <1>0, <1>5, <1>k, <2>1 DEF Create, Process, Past
  <2>2. CASE path = 0 /\ dir
    <3>1. PICK i \in FileId : path' = i /\ run' = [run EXCEPT ![p].pc = "lock", ![p].fd = i]
        BY <1>5, <2>2 DEF Create
    <3>2. run[p].pc = "create"
        BY <1>5 DEF Create
    <3> QED BY <1>0, <1>k, <2>2, <3>1, <3>2 DEF Process, Past
  <2>3. CASE path = 0 /\ ~dir
      BY <1>5, <1>a, <2>3 DEF Create
  <2> QED BY <2>1, <2>2, <2>3
<1>6. ASSUME Lock(p) PROVE Own /\ Rest
    BY <1>0, <1>6, <1>k DEF Lock, Process, Past
<1>7. ASSUME WriteVersion(p) \/ WriteChecksum(p) PROVE Own /\ Rest
    BY <1>0, <1>7, <1>k DEF WriteVersion, WriteChecksum, Process, Past
<1>9. ASSUME CheckVariants(p) PROVE Own /\ Rest
    BY <1>9, <1>a, <1>b DEF CheckVariants, Past
<1>10. ASSUME Skip(p) \/ Record(p) PROVE Own /\ Rest
    BY <1>10, <1>b DEF Skip, Record, Past
<1>11. ASSUME Start(p) \/ Complete(p) PROVE Own /\ Rest
    BY <1>0, <1>11, <1>k DEF Start, Complete, Process, Past
<1>13. ASSUME Fail(p) \/ Crash(p) PROVE Own /\ Rest
    BY <1>13, <1>a DEF Fail, Crash
<1>15. ASSUME Clean(p) PROVE FALSE
    BY <1>15 DEF Clean, Keeping
<1> HIDE DEF Own, Rest
<1> QED BY <1>c, <1>1, <1>2, <1>5, <1>6, <1>7, <1>9, <1>10, <1>11, <1>13, <1>15 DEF Step

-----------------------------------------------------------------------------
LEMMA StepInv == IInv /\ [Next]_vars => IInv'
<1> SUFFICES ASSUME IInv, [Next]_vars PROVE IInv'
    OBVIOUS
<1> USE DEF IInv
<1>1. ASSUME NEW p \in Proc, p \in scene.procs, Step(p) \/ Lock(p) \/ Clean(p) \/ Crash(p)
      PROVE  IInv'
  <2>1. TypeOK' /\ Holds' /\ Loaded' /\ SameFile' /\ scene' = scene
      BY <1>1, StepTypes, StepHolds, StepSameFile
  <2>2. \A q \in Proc \ {p} : run'[q] = run[q]
      BY <1>1 DEF Step, Look, Compare, Delete, Deleted, Create, Lock, WriteVersion, WriteChecksum,
         CheckVariants, Skip, Start, Complete, Fail, Record, Clean, Crash, Ends, Proceed, TypeOK
  <2> QED BY <1>1, <2>1, <2>2 DEF OthersIdle
<1>2. ASSUME NEW p \in Proc, p \in scene.procs, NEW V \in scene.selects,
             NEW f \in scene.forces, NEW o \in scene.honors, Open(p, V, f, o)
      PROVE  IInv'
  <2> DEFINE new == [Idle EXCEPT !.pc = "look", !.force = f, !.honor = o,
                                 !.build = [portfile |-> portfile, variants |-> V]]
  <2>1. run' = [run EXCEPT ![p] = new] /\ UNCHANGED <<scene, portfile, edits, dir, path, files, lock, work>>
      BY <1>2 DEF Open
  <2>2. f \in BOOLEAN /\ o \in BOOLEAN /\ V \in SUBSET Variant
      BY SceneTypes
  <2>3. /\ new \in Process /\ new.pc = "look" /\ new.build \in Build /\ new.honor = o
      BY <2>2, IdleType DEF Process, Pcs, Build, TypeOK
  <2> HIDE DEF new
  <2>4. \A q \in Proc : run'[q] = IF q = p THEN new ELSE run[q]
      BY <2>1 DEF TypeOK
  <2>5. TypeOK'
      BY <2>1, <2>3 DEF TypeOK
  <2>6. Holds' /\ Loaded' /\ OthersIdle'
      BY <1>2, <2>1, <2>3, <2>4 DEF Holds, Loaded, OthersIdle, Past
  <2>7. SameFile'
      BY <2>1, <2>3, <2>4, ZenonT(60) DEF SameFile, Keeping, Past
  <2> QED BY <2>5, <2>6, <2>7
<1>3. ASSUME NEW v \in Portfile, Edit(v) PROVE IInv'
  <2>1. UNCHANGED <<scene, dir, path, lock, work, run>> /\ portfile' = v /\ edits' = edits + 1
      BY <1>3 DEF Edit
  <2>2. files' \in [FileId -> StateFile]
      BY <1>3, ZenonT(60) DEF Edit, TypeOK, StateFile
  <2>3. TypeOK'
      BY <2>1, <2>2 DEF TypeOK
  <2>4. Holds' /\ Loaded' /\ OthersIdle' /\ SameFile'
      BY <2>1 DEF Holds, Loaded, OthersIdle, SameFile, Keeping
  <2> QED BY <2>3, <2>4
<1>4. CASE UNCHANGED vars
    BY <1>4 DEF vars, TypeOK, Holds, Loaded, OthersIdle, SameFile, Keeping
<1> QED BY <1>1, <1>2, <1>3, <1>4, SceneTypes DEF Next

(* The invariant holds in every reachable state.                           *)
THEOREM Invariance == Spec => []IInv
<1>1. Init => IInv
    BY InitInv
<1>2. IInv /\ [Next]_vars => IInv'
    BY StepInv
<1> QED BY <1>1, <1>2, PTL DEF Spec

(* Every variable keeps its type.                                          *)
THEOREM TypeCorrect == Spec => []TypeOK
<1>1. IInv => TypeOK
    BY DEF IInv
<1> QED BY <1>1, Invariance, PTL

(* Past the flock, a state file has one process.                           *)
FilesExclusive ==
    \A p, q \in Proc :
        run[p].pc \in Past /\ run[q].pc \in Past /\ run[p].fd = run[q].fd => p = q

(* Two processes never have the same state file open past the flock, in    *)
(* whatever order files are created, locked and deleted (open_statefile).  *)
THEOREM StateFilesExclude == Spec => []FilesExclusive
<1>1. IInv => FilesExclusive
    BY DEF IInv, Holds, FilesExclusive
<1> QED BY <1>1, Invariance, PTL

(* For any number of processes, two that run a target at once have         *)
(* different state files, and then somebody may delete the directory: the  *)
(* lock on the file excludes everything else.                              *)
THEOREM WorkExcludes == Spec => []WorkExclusive
<1>1. IInv => WorkExclusive
  <2> SUFFICES ASSUME IInv, NEW p \in Proc, NEW q \in Proc, p # q,
                      run[p].pc = "running", run[q].pc = "running"
               PROVE  run[p].fd # run[q].fd /\ ~Keeping
      BY DEF WorkExclusive
  <2> USE DEF IInv
  <2>1. run[p].fd # run[q].fd
      BY DEF Holds, Past
  <2>2. Keeping => run[p].fd = path /\ run[q].fd = path
      BY DEF SameFile, Past
  <2> QED BY <2>1, <2>2
<1> QED BY <1>1, Invariance, PTL

-----------------------------------------------------------------------------
Deleting == {"discard", "clean"}
Undisturbed == \A p \in Proc : run[p].pc \notin Deleting

(* A process has the present state file open; a deletion has removed what  *)
(* it no longer lists; and outside a deletion, every target recorded has   *)
(* left its work.                                                          *)
Opened == \A p \in Proc : run[p].pc \in Past \cup {"lock"} => run[p].fd = path /\ path # 0
AboutToRecord == \A p \in Proc : run[p].pc = "record" => work[run[p].at] # None
Removed ==
    \A p \in Proc : run[p].pc \in Deleting =>
        /\ 0 \notin run[p].del => path = 0
        /\ \A t \in Target \ run[p].del : work[t] = None
Listed == Undisturbed /\ path # 0 => \A t \in files[path].done : work[t] # None

Worked == Opened /\ AboutToRecord /\ Removed /\ Listed

WorkInv == IInv /\ (Single \/ Keeping => Worked)

(* A step of p: the others are idle, or they delete nothing and keep the   *)
(* state file they have open.                                              *)
LEMMA WorkStep ==
    ASSUME IInv, Single \/ Keeping, Worked, NEW p \in Proc, p \in scene.procs,
           Step(p) \/ Lock(p) \/ Clean(p) \/ Crash(p)
    PROVE  Worked'
<1> USE DEF TypeOK, IInv
<1> DEFINE Own ==
        /\ run'[p].pc \in Past \cup {"lock"} => run'[p].fd = path' /\ path' # 0
        /\ run'[p].pc = "record" => work'[run'[p].at] # None
        /\ run'[p].pc \in Deleting =>
               /\ 0 \notin run'[p].del => path' = 0
               /\ \A t \in Target \ run'[p].del : work'[t] = None
        /\ run'[p].pc \notin Deleting /\ path' # 0 => \A t \in files'[path'].done : work'[t] # None
<1> DEFINE Rest ==
        /\ \A q \in Proc \ {p} : run'[q] = run[q]
        /\ Keeping => /\ path' = path \/ path = 0
                      /\ \A t \in Target : work[t] # None => work'[t] # None
<1>0. run[p] \in Process
    OBVIOUS
<1>o. \A q \in Proc \ {p} : run[q].pc # "idle" => Keeping /\ run[q].pc \notin Deleting
    BY DEF OthersIdle, Single, One, SameFile, Deleting
<1>k. /\ run[p].pc \in Past \cup {"lock"} => run[p].fd = path /\ path # 0
      /\ run[p].pc = "record" => work[run[p].at] # None
      /\ run[p].pc \in Deleting =>
             /\ ~Keeping
             /\ 0 \notin run[p].del => path = 0
             /\ \A t \in Target \ run[p].del : work[t] = None
      /\ run[p].pc \notin Deleting /\ path # 0 => \A t \in files[path].done : work[t] # None
  <2>1. run[p].pc \notin Deleting => Undisturbed
      BY <1>o DEF Undisturbed, Deleting
  <2>2. run[p].pc \in Deleting => ~Keeping
      BY DEF SameFile, Deleting
  <2> QED BY <2>1, <2>2 DEF Worked, Opened, AboutToRecord, Removed, Listed
<1>c. Own /\ Rest => Worked'
  <2> SUFFICES ASSUME Own, Rest PROVE Worked'
      OBVIOUS
  <2>1. ASSUME NEW q \in Proc, q # p
        PROVE  /\ run'[q].pc \in Past \cup {"lock"} => run'[q].fd = path' /\ path' # 0
               /\ run'[q].pc = "record" => work'[run'[q].at] # None
               /\ run'[q].pc \notin Deleting
    <3>1. run'[q] = run[q]
        BY <2>1
    <3>2. CASE run[q].pc = "idle"
        BY <3>1, <3>2 DEF Past, Deleting
    <3>3. CASE run[q].pc # "idle"
      <4>1. Keeping /\ run[q].pc \notin Deleting
          BY <1>o, <2>1, <3>3
      <4>2. /\ path' = path \/ path = 0
            /\ \A t \in Target : work[t] # None => work'[t] # None
          BY <4>1
      <4>3. /\ run[q].pc \in Past \cup {"lock"} => run[q].fd = path /\ path # 0
            /\ run[q].pc = "record" => work[run[q].at] # None /\ run[q].at \in Target
          BY DEF Worked, Opened, AboutToRecord, Loaded
      <4> QED BY <3>1, <4>1, <4>2, <4>3
    <3> QED BY <3>2, <3>3
  <2>2. Opened' /\ AboutToRecord' /\ Removed'
      BY <2>1 DEF Opened, AboutToRecord, Removed
  <2>3. Listed'
      BY DEF Listed, Undisturbed
  <2> QED BY <2>2, <2>3 DEF Worked
<1>a. ASSUME Ends(p), path' = path, work' = work, files' = files, run[p].pc \notin Deleting
      PROVE  Own /\ Rest
    BY <1>a, <1>k DEF Ends, Idle, Past, Deleting
<1>b. ASSUME Proceed(p), path' = path, work' = work, run[p].pc \in Past,
             \A t \in files'[path].done : work[t] # None
      PROVE  Own /\ Rest
  <2>1. run'[p] = IF run[p].at >= scene.last THEN Idle
                  ELSE [run[p] EXCEPT !.pc = "look", !.at = @ + 1, !.fd = 0]
      BY <1>b DEF Proceed
  <2>2. run'[p].pc \in {"idle", "look"}
      BY <1>0, <2>1 DEF Idle, Process
  <2>3. Rest
      BY <1>b DEF Proceed
  <2> QED BY <1>b, <2>2, <2>3 DEF Past, Deleting
<1>1. ASSUME Look(p) PROVE Own /\ Rest
    BY <1>0, <1>1, <1>k DEF Look, Process, Past, Deleting
<1>2. ASSUME Compare(p) PROVE Own /\ Rest
  <2>1. CASE path = 0
      BY <1>2, <1>a, <2>1 DEF Compare, Deleting
  <2>2. CASE path # 0 /\ Stale(path, run[p].csum)
    <3>1. run'[p].pc = "discard" /\ run'[p].del = Everything
        BY <1>0, <1>2, <2>2 DEF Compare, Process
    <3>2. Rest
        BY <1>2, <2>2 DEF Compare
    <3>3. 0 \in Everything /\ Target \subseteq Everything
        BY ConstantsOK DEF Everything, Target, ConstantsOK
    <3> QED BY <3>1, <3>2, <3>3 DEF Past, Deleting
  <2>3. CASE path # 0 /\ ~Stale(path, run[p].csum)
      BY <1>0, <1>2, <1>k, <2>3 DEF Compare, Process, Past, Deleting
  <2> QED BY <2>1, <2>2, <2>3
<1>3. ASSUME NEW e \in Everything, Delete(p, e) PROVE Own /\ Rest
  <2>1. run[p].pc \in Deleting /\ run'[p].pc = run[p].pc /\ run'[p].del = run[p].del \ {e}
      BY <1>0, <1>3 DEF Delete, Process, Deleting
  <2>2. path' = (IF e = 0 THEN 0 ELSE path) /\ work' = [t \in Target |-> IF t = e THEN None ELSE work[t]]
      BY <1>3 DEF Delete
  <2>3. Rest
      BY <1>3, <1>k, <2>1 DEF Delete
  <2>4. 0 \notin run'[p].del => path' = 0
      BY <1>k, <2>1, <2>2
  <2>5. \A t \in Target \ run'[p].del : work'[t] = None
      BY <1>k, <2>1, <2>2
  <2> QED BY <2>1, <2>3, <2>4, <2>5 DEF Past, Deleting
<1>4. ASSUME Deleted(p) PROVE Own /\ Rest
  <2>1. run[p].pc \in Deleting /\ path = 0 /\ path' = path /\ work' = work
      BY <1>4, <1>k DEF Deleted, Deleting
  <2>2. Rest
      BY <1>4, <2>1 DEF Deleted, Ends
  <2>3. run'[p].pc \in {"create", "idle"}
      BY <1>0, <1>4 DEF Deleted, Ends, Idle, Process
  <2> QED BY <2>1, <2>2, <2>3 DEF Past, Deleting
<1>5. ASSUME Create(p) PROVE Own /\ Rest
  <2>1. CASE path # 0
      BY <1>0, <1>5, <1>k, <2>1 DEF Create, Process, Past, Deleting
  <2>2. CASE path = 0 /\ dir
    <3>1. PICK i \in FileId : /\ path' = i /\ files' = [files EXCEPT ![i] = NewFile]
                              /\ run' = [run EXCEPT ![p].pc = "lock", ![p].fd = i]
        BY <1>5, <2>2 DEF Create
    <3>2. i # 0 /\ files'[i].done = {} /\ work' = work
      <4>1. files'[i] = NewFile
          BY <3>1
      <4>2. i # 0
          BY <3>1 DEF FileId
      <4> QED BY <1>5, <4>1, <4>2 DEF NewFile, Create
    <3>3. run'[p].pc = "lock" /\ run'[p].fd = i
        BY <1>0, <3>1 DEF Process
    <3> QED BY <2>2, <3>1, <3>2, <3>3 DEF Past, Deleting
  <2>3. CASE path = 0 /\ ~dir
      BY <1>5, <1>a, <2>3 DEF Create, Deleting
  <2> QED BY <2>1, <2>2, <2>3
<1>6. ASSUME Lock(p) PROVE Own /\ Rest
    BY <1>0, <1>6, <1>k DEF Lock, Process, Past, Deleting
<1>7. ASSUME WriteVersion(p) \/ WriteChecksum(p) PROVE Own /\ Rest
  <2>1. run[p].pc \in Past /\ run[p].pc \notin Deleting /\ path' = path /\ work' = work
      BY <1>7 DEF WriteVersion, WriteChecksum, Past, Deleting
  <2>2. run[p].fd = path /\ path \in FileId
      BY <1>k, <2>1 DEF Holds
  <2>3. files'[path].done = files[path].done
      BY <1>7, <2>2 DEF WriteVersion, WriteChecksum, StateFile
  <2>4. run'[p].pc \in {"checksum", "locked"} /\ run'[p].fd = run[p].fd
      BY <1>0, <1>7 DEF WriteVersion, WriteChecksum, Process
  <2>5. Rest
      BY <1>7, <2>1 DEF WriteVersion, WriteChecksum
  <2> QED BY <1>k, <2>1, <2>2, <2>3, <2>4, <2>5 DEF Deleting
<1>9. ASSUME CheckVariants(p) PROVE Own /\ Rest
  <2>1. run[p].pc \in Past /\ run[p].pc \notin Deleting /\ path' = path /\ work' = work
      BY <1>9 DEF CheckVariants, Past, Deleting
  <2>2. run[p].fd = path /\ path \in FileId
      BY <1>k, <2>1 DEF Holds
  <2>3. CASE ~run[p].force /\ Mismatch(p)
      BY <1>9, <1>a, <2>1, <2>3 DEF CheckVariants
  <2>4. CASE ~(~run[p].force /\ Mismatch(p))
    <3>1. files'[path].done = files[path].done
        BY <1>9, <2>2, <2>4 DEF CheckVariants, StateFile
    <3> QED BY <1>9, <1>b, <1>k, <2>1, <2>2, <2>4, <3>1 DEF CheckVariants
  <2> QED BY <2>3, <2>4
<1>10. ASSUME Skip(p) PROVE Own /\ Rest
    BY <1>10, <1>b, <1>k DEF Skip, Past, Deleting
<1>11. ASSUME Start(p) PROVE Own /\ Rest
    BY <1>0, <1>11, <1>k DEF Start, Process, Past, Deleting
<1>12. ASSUME Complete(p) PROVE Own /\ Rest
  <2>1. run[p].pc = "running" /\ run[p].at \in Target /\ run[p].build \in Build
      BY <1>12 DEF Complete, Loaded
  <2>2. run[p].build # None
      BY <2>1, ConstantsOK DEF ConstantsOK
  <2>3. \A t \in Target : work'[t] = IF t = run[p].at THEN run[p].build ELSE work[t]
      BY <1>12 DEF Complete
  <2>4. run'[p].pc = "record" /\ run'[p].at = run[p].at /\ run'[p].fd = run[p].fd
      BY <1>0, <1>12 DEF Complete, Process
  <2>5. path' = path /\ files' = files /\ path \in FileId
      BY <1>12, <1>k, <2>1 DEF Complete, FileId, Past
  <2>6. files[path].done \subseteq Target
      BY <2>5 DEF StateFile
  <2>7. Rest
      BY <1>12, <2>2, <2>3, <2>5 DEF Complete
  <2> QED BY <1>k, <2>1, <2>2, <2>3, <2>4, <2>5, <2>6, <2>7 DEF Past, Deleting
<1>13. ASSUME Fail(p) PROVE Own /\ Rest
    BY <1>13, <1>a DEF Fail, Deleting
<1>14. ASSUME Record(p) PROVE Own /\ Rest
  <2>1. run[p].pc = "record" /\ run[p].fd = path /\ path # 0 /\ path \in FileId
      BY <1>14, <1>k DEF Record, Past, FileId
  <2>2. files'[path].done = files[path].done \cup {run[p].at}
      BY <1>14, <2>1 DEF Record, StateFile
  <2>3. \A t \in files'[path].done : work[t] # None
      BY <1>k, <2>1, <2>2 DEF Deleting
  <2> QED BY <1>14, <1>b, <2>1, <2>3 DEF Record, Past
<1>15. ASSUME Clean(p) PROVE Own /\ Rest
  <2>1. run'[p].pc = "clean" /\ run'[p].del = Everything
      BY <1>0, <1>15 DEF Clean, Process
  <2>2. Rest
      BY <1>15 DEF Clean
  <2>3. 0 \in Everything /\ Target \subseteq Everything
      BY ConstantsOK DEF Everything, Target, ConstantsOK
  <2> QED BY <2>1, <2>2, <2>3 DEF Past, Deleting
<1>16. ASSUME Crash(p) PROVE Own /\ Rest
  <2>1. run[p].pc \notin Deleting
      BY <1>16, <1>k DEF Crash, Single, Deleting
  <2> QED BY <1>16, <1>a, <2>1 DEF Crash
<1> HIDE DEF Own, Rest
<1> QED BY <1>c, <1>1, <1>2, <1>3, <1>4, <1>5, <1>6, <1>7, <1>9, <1>10, <1>11, <1>12, <1>13,
        <1>14, <1>15, <1>16 DEF Step

LEMMA WorkOpen ==
    ASSUME IInv, Single \/ Keeping, Worked, NEW p \in Proc, p \in scene.procs,
           NEW V \in scene.selects, NEW f \in scene.forces, NEW o \in scene.honors,
           Open(p, V, f, o)
    PROVE  Worked'
<1> USE DEF TypeOK, IInv
<1>1. run[p].pc = "idle" /\ run'[p].pc = "look" /\ \A q \in Proc \ {p} : run'[q] = run[q]
    BY DEF Open, Idle
<1>2. UNCHANGED <<path, files, work>>
    BY DEF Open
<1>3. Opened' /\ AboutToRecord' /\ Removed'
    BY <1>1, <1>2 DEF Worked, Opened, AboutToRecord, Removed, Past, Deleting
<1>4. Undisturbed' => Undisturbed
    BY <1>1 DEF Undisturbed, Deleting
<1> QED BY <1>2, <1>3, <1>4 DEF Worked, Listed

LEMMA WorkNext == WorkInv /\ [Next]_vars => WorkInv'
<1> SUFFICES ASSUME WorkInv, [Next]_vars PROVE WorkInv'
    OBVIOUS
<1>0. IInv /\ IInv'
    BY StepInv DEF WorkInv
<1>s. scene' = scene
    BY ZenonT(60)
       DEF Next, vars, Open, Step, Look, Compare, Delete, Deleted, Create, Lock, WriteVersion,
       WriteChecksum, CheckVariants, Skip, Start, Complete, Fail, Record, Clean, Crash, Edit
<1> SUFFICES ASSUME Single \/ Keeping PROVE Worked'
    BY <1>0, <1>s DEF WorkInv, Single, Keeping
<1>w. Worked
    BY DEF WorkInv
<1>p. scene.procs \subseteq Proc
    BY <1>0, SceneTypes DEF IInv
<1>1. ASSUME NEW p \in scene.procs, Step(p) \/ Lock(p) \/ Clean(p) \/ Crash(p) PROVE Worked'
    BY <1>0, <1>1, <1>p, <1>w, WorkStep
<1>2. ASSUME NEW p \in scene.procs, NEW V \in scene.selects, NEW f \in scene.forces,
             NEW o \in scene.honors, Open(p, V, f, o)
      PROVE  Worked'
    BY <1>0, <1>2, <1>p, <1>w, WorkOpen
<1>3. ASSUME NEW v \in Portfile, Edit(v) PROVE Worked'
  <2>1. UNCHANGED <<path, work, run>>
      BY <1>3 DEF Edit
  <2>2. \A i \in FileId : files'[i].done = files[i].done
      BY <1>0, <1>3 DEF Edit, IInv, TypeOK, StateFile
  <2>3. path # 0 => path \in FileId
      BY <1>0 DEF IInv, TypeOK, FileId
  <2> QED BY <1>w, <2>1, <2>2, <2>3
          DEF Worked, Opened, AboutToRecord, Removed, Listed, Undisturbed
<1>4. CASE UNCHANGED vars
    BY <1>4, <1>w DEF vars, Worked, Opened, AboutToRecord, Removed, Listed, Undisturbed
<1> QED BY <1>1, <1>2, <1>3, <1>4 DEF Next

LEMMA InitWork == Init => WorkInv
<1> SUFFICES ASSUME Init PROVE WorkInv
    OBVIOUS
<1>1. path = 0 /\ \A p \in Proc : run[p].pc = "idle"
    BY DEF Init, Idle
<1> QED BY <1>1, InitInv
        DEF WorkInv, Worked, Opened, AboutToRecord, Removed, Listed, Past, Deleting

LEMMA WorkInvariance == Spec => []WorkInv
BY InitWork, WorkNext, PTL DEF Spec

(* Every target a state file lists has left its work, whatever failed, was *)
(* killed, edited or cleaned, in whatever order the entries of the         *)
(* directory were deleted (portutil.tcl line 1688).                        *)
THEOREM CompletedTargetsHaveWork == Spec => []CompletedHasWork
<1>1. WorkInv => CompletedHasWork
  <2> SUFFICES ASSUME WorkInv, Single \/ Keeping, \A p \in Proc : run[p].pc = "idle", path # 0
               PROVE  \A t \in files[path].done : work[t] # None
      BY DEF CompletedHasWork
  <2>1. Undisturbed
      BY DEF Undisturbed, Deleting
  <2> QED BY <2>1 DEF WorkInv, Worked, Listed
<1> QED BY <1>1, WorkInvariance, PTL

-----------------------------------------------------------------------------
(* The state file is of the present Portfile.                              *)
Current == path # 0 /\ ~Stale(path, portfile)

(* What p has loaded and read is so too.                                   *)
Loads(p) ==
    /\ ~run[p].force /\ ~run[p].honor
    /\ run[p].pc \notin {"idle", "clean"} => run[p].build.portfile = portfile
    /\ run[p].pc \notin {"idle", "clean", "look"} => run[p].csum = portfile

(* A file that p makes has nothing in it yet; one that p keeps is current. *)
Judged(p) ==
    /\ run[p].pc \in {"idle", "clean", "discard"} => run[p].at = 0
    /\ run[p].pc = "create" /\ run[p].fresh => path = 0
    /\ run[p].pc = "compare" => ~run[p].fresh
    /\ run[p].pc \in {"version", "checksum"} => run[p].fresh
    /\ run[p].pc \in {"lock", "version", "checksum"} /\ run[p].fresh =>
          /\ files[path].done = {} /\ files[path].variants = {}
          /\ files[path].checksum = None
          /\ run[p].at = 0
    /\ run[p].pc = "lock" /\ run[p].fresh => ~files[path].older
    /\ run[p].pc = "version" => ~files[path].older
    /\ run[p].pc = "checksum" => files[path].version
    /\ run[p].pc \in {"create", "lock"} /\ ~run[p].fresh => Current
    /\ run[p].pc \in {"locked", "running", "record"} => Current

(* Once the variants are recorded, p's earlier targets are, and were run   *)
(* as p would run them.                                                    *)
Resumed(p) ==
    /\ run[p].at > 0 =>
          /\ Current
          /\ \A t \in Target : t < run[p].at => t \in files[path].done
          /\ files[path].variants = run[p].build.variants
          /\ run[p].pc \in {"create", "lock"} => ~run[p].fresh
    /\ run[p].pc = "running" => run[p].at \notin files[path].done
    /\ run[p].pc = "record" => work[run[p].at] = run[p].build

Own(p) == Loads(p) /\ Judged(p) /\ Resumed(p)

(* The state file tells with what its targets were run.                    *)
Told ==
    Undisturbed /\ path # 0 => \A t \in files[path].done :
        /\ work[t] \in Build
        /\ work[t].variants = files[path].variants
        /\ files[path].version => work[t].portfile = files[path].checksum
        /\ ~files[path].version /\ ~files[path].older => work[t].portfile = portfile

OwnInv == WorkInv /\ (Careful => Told /\ \A p \in Proc : Own(p))

(* A process that is idle is not in the way.                               *)
LEMMA IdleOwn ==
    ASSUME NEW p \in Proc, run[p].pc = "idle", run[p].at = 0, ~run[p].force, ~run[p].honor
    PROVE  Own(p)
BY DEF Own, Loads, Judged, Resumed

LEMMA OwnStep ==
    ASSUME WorkInv, WorkInv', Careful, scene' = scene, Told, \A q \in Proc : Own(q),
           NEW p \in Proc, p \in scene.procs,
           Step(p) \/ Lock(p) \/ Clean(p) \/ Crash(p)
    PROVE  Told' /\ \A q \in Proc : Own(q)'
<1> USE DEF TypeOK, IInv, WorkInv
<1> DEFINE Done == Told' /\ Own(p)'
<1> DEFINE Rest == \A q \in Proc \ {p} : run'[q] = run[q]
<1>0. run[p] \in Process /\ run[p].at \in Nat /\ (path # 0 => path \in FileId)
  <2>1. run[p] \in Process /\ path \in 0 .. MaxFiles
      OBVIOUS
  <2> QED BY <2>1 DEF Process, FileId
<1>w. Worked /\ Worked' /\ Single /\ Single'
    BY DEF Careful, Single
<1>o. \A q \in Proc \ {p} : run[q].pc = "idle"
    BY <1>w DEF OthersIdle, Single, One
<1>l. Loads(p) /\ Judged(p) /\ Resumed(p)
    BY DEF Own
<1>t. run[p].pc \notin Deleting /\ path # 0 => \A t \in files[path].done :
        /\ work[t] \in Build
        /\ work[t].variants = files[path].variants
        /\ files[path].version => work[t].portfile = files[path].checksum
        /\ ~files[path].version /\ ~files[path].older => work[t].portfile = portfile
    BY <1>o DEF Told, Undisturbed, Deleting
<1>u. run[p].pc \in Past \cup {"lock"} =>
         run[p].fd = path /\ path # 0 /\ path \in FileId /\ run[p].pc \notin Deleting
    BY <1>0, <1>w DEF Worked, Opened, Past, Deleting
<1>v. portfile' = portfile
    BY DEF Step, Look, Compare, Delete, Deleted, Create, Lock, WriteVersion, WriteChecksum,
       CheckVariants, Skip, Start, Complete, Fail, Record, Clean, Crash
<1>c. Done /\ Rest => Told' /\ \A q \in Proc : Own(q)'
  <2> SUFFICES ASSUME Done, Rest, NEW q \in Proc, q # p PROVE Own(q)'
      OBVIOUS
  <2>1. run'[q] = run[q] /\ run[q].pc = "idle"
      BY <1>o
  <2>2. run[q].at = 0 /\ ~run[q].force /\ ~run[q].honor
      BY <2>1 DEF Own, Loads, Judged
  <2> QED BY <2>1, <2>2 DEF Own, Loads, Judged, Resumed
(* A file that keeps its contents, while p deletes nothing, still tells.   *)
<1>f. ASSUME path' = path, files' = files, work' = work, run[p].pc \notin Deleting PROVE Told'
    BY <1>f, <1>t, <1>v DEF Told
<1>a. ASSUME Ends(p), files' = files, path' = path, work' = work, run[p].pc \notin Deleting
      PROVE  Done /\ Rest
  <2>1. run'[p] = Idle /\ Rest
      BY <1>a DEF Ends
  <2>2. Own(p)'
      BY <2>1 DEF Own, Loads, Judged, Resumed, Idle
  <2> QED BY <1>a, <1>f, <2>1, <2>2
(* The next target: the one p was at is recorded.                          *)
<1>b. ASSUME Proceed(p), path' = path, run[p].pc \in {"locked", "record"}, Told', Current',
             files'[path].variants = run[p].build.variants,
             \A t \in Target : t < run[p].at + 1 => t \in files'[path].done
      PROVE  Done /\ Rest
  <2>1. Rest
      BY <1>b DEF Proceed
  <2>2. CASE run[p].at >= scene.last
    <3>1. run'[p] = Idle
        BY <1>b, <2>2 DEF Proceed
    <3> QED BY <1>b, <2>1, <3>1 DEF Own, Loads, Judged, Resumed, Idle
  <2>3. CASE ~(run[p].at >= scene.last)
    <3>1. run'[p] = [run[p] EXCEPT !.pc = "look", !.at = @ + 1, !.fd = 0]
        BY <1>b, <2>3 DEF Proceed
    <3>2. /\ run'[p].pc = "look" /\ run'[p].at = run[p].at + 1
          /\ run'[p].build = run[p].build /\ run'[p].force = run[p].force
          /\ run'[p].honor = run[p].honor
        BY <1>0, <3>1 DEF Process
    <3>3. Loads(p)' /\ Judged(p)'
        BY <1>b, <1>l, <1>v, <3>2 DEF Loads, Judged
    <3>4. Resumed(p)'
        BY <1>b, <3>2 DEF Resumed
    <3> QED BY <1>b, <2>1, <3>3, <3>4 DEF Own
  <2> QED BY <2>2, <2>3
<1>1. ASSUME Look(p) PROVE Done /\ Rest
  <2>1. run[p].pc = "look" /\ path' = path /\ files' = files /\ work' = work /\ Rest
      BY <1>1 DEF Look
  <2>2. /\ run'[p].pc = IF path = 0 THEN "create" ELSE "compare"
        /\ run'[p].csum = portfile
        /\ run'[p].fresh = (path = 0)
        /\ run'[p].at = run[p].at /\ run'[p].build = run[p].build
        /\ run'[p].force = run[p].force /\ run'[p].honor = run[p].honor
      BY <1>0, <1>1, <1>l DEF Look, Process, Loads
  <2>3. Told'
      BY <1>f, <2>1 DEF Deleting
  <2>4. Current' = Current
      BY <1>v, <2>1 DEF Current, Stale
  <2>5. Loads(p)'
      BY <1>l, <1>v, <2>1, <2>2 DEF Loads
  <2>a. Current => path # 0
      BY DEF Current
  <2>6. Resumed(p)'
      BY <1>l, <2>1, <2>2, <2>4, <2>a DEF Resumed
  <2>7. Judged(p)'
      BY <2>1, <2>2 DEF Judged
  <2> QED BY <2>1, <2>3, <2>5, <2>6, <2>7 DEF Own
<1>2. ASSUME Compare(p) PROVE Done /\ Rest
  <2>0. run[p].pc = "compare" /\ run[p].csum = portfile
      BY <1>2, <1>l DEF Compare, Loads
  <2>1. CASE path = 0
      BY <1>2, <1>a, <2>1 DEF Compare, Deleting
  <2>2. CASE path # 0 /\ Stale(path, portfile)
    <3>1. /\ run'[p].pc = "discard"
          /\ run'[p].csum = run[p].csum
          /\ run'[p].at = run[p].at /\ run'[p].build = run[p].build
          /\ run'[p].force = run[p].force /\ run'[p].honor = run[p].honor
        BY <1>0, <1>2, <2>0, <2>2 DEF Compare, Process
    <3>2. run[p].at = 0 /\ Rest
        BY <1>0, <1>2, <1>l, <2>0, <2>2 DEF Compare, Resumed, Current
    <3>3. Told'
        BY <3>1 DEF Told, Undisturbed, Deleting
    <3> QED BY <1>l, <1>v, <2>0, <3>1, <3>2, <3>3 DEF Own, Loads, Judged, Resumed
  <2>3. CASE path # 0 /\ ~Stale(path, portfile)
    <3>1. /\ run'[p].pc = "create"
          /\ run'[p].csum = run[p].csum /\ run'[p].fresh = run[p].fresh
          /\ run'[p].at = run[p].at /\ run'[p].build = run[p].build
          /\ run'[p].force = run[p].force /\ run'[p].honor = run[p].honor
        BY <1>0, <1>2, <2>0, <2>3 DEF Compare, Process
    <3>2. path' = path /\ files' = files /\ work' = work /\ Rest
        BY <1>2, <2>3 DEF Compare
    <3>3. Told' /\ Current'
        BY <1>f, <1>v, <2>0, <2>3, <3>2 DEF Current, Stale, Deleting
    <3>4. ~run[p].fresh
        BY <1>l, <2>0, <2>3 DEF Judged
    <3>5. Loads(p)'
        BY <1>l, <1>v, <2>0, <3>1 DEF Loads
    <3>6. Judged(p)'
        BY <3>1, <3>3, <3>4 DEF Judged
    <3>7. Resumed(p)'
        BY <1>l, <3>1, <3>2, <3>3, <3>4 DEF Resumed
    <3> QED BY <3>2, <3>3, <3>5, <3>6, <3>7 DEF Own
  <2> QED BY <2>1, <2>2, <2>3
<1>3. ASSUME NEW e \in Everything, Delete(p, e) PROVE Done /\ Rest
  <2>1. /\ run'[p].pc = run[p].pc /\ run[p].pc \in Deleting
        /\ run'[p].csum = run[p].csum /\ run'[p].fresh = run[p].fresh
        /\ run'[p].at = run[p].at /\ run'[p].build = run[p].build
        /\ run'[p].force = run[p].force /\ run'[p].honor = run[p].honor
      BY <1>0, <1>3 DEF Delete, Process, Deleting
  <2>2. run[p].at = 0 /\ Rest
      BY <1>3, <1>l, <2>1 DEF Delete, Judged, Deleting
  <2>3. Told'
      BY <2>1 DEF Told, Undisturbed, Deleting
  <2> QED BY <1>l, <1>v, <2>1, <2>2, <2>3 DEF Own, Loads, Judged, Resumed, Deleting
<1>4. ASSUME Deleted(p) PROVE Done /\ Rest
  <2>1. run[p].pc \in Deleting /\ path = 0 /\ path' = path
      BY <1>4, <1>w DEF Deleted, Deleting, Worked, Removed
  <2>2. Told'
      BY <2>1 DEF Told
  <2>3. CASE run[p].pc = "discard" /\ DirEmpty
    <3>1. /\ run'[p].pc = "create" /\ run'[p].fresh = TRUE
          /\ run'[p].csum = run[p].csum
          /\ run'[p].at = run[p].at /\ run'[p].build = run[p].build
          /\ run'[p].force = run[p].force /\ run'[p].honor = run[p].honor
        BY <1>0, <1>4, <2>3 DEF Deleted, Process
    <3>2. run[p].at = 0 /\ Rest
        BY <1>4, <1>l, <2>3 DEF Deleted, Judged
    <3> QED BY <1>l, <1>v, <2>1, <2>2, <2>3, <3>1, <3>2 DEF Own, Loads, Judged, Resumed
  <2>4. CASE ~(run[p].pc = "discard" /\ DirEmpty)
    <3>1. run'[p] = Idle /\ Rest
        BY <1>4, <2>4 DEF Deleted, Ends
    <3> QED BY <2>2, <3>1 DEF Own, Loads, Judged, Resumed, Idle
  <2> QED BY <2>3, <2>4
<1>5. ASSUME Create(p) PROVE Done /\ Rest
  <2>0. run[p].pc = "create"
      BY <1>5 DEF Create
  <2>1. CASE path # 0
    <3>1. /\ run'[p].pc = "lock" /\ run'[p].fresh = run[p].fresh
          /\ run'[p].csum = run[p].csum
          /\ run'[p].at = run[p].at /\ run'[p].build = run[p].build
          /\ run'[p].force = run[p].force /\ run'[p].honor = run[p].honor
        BY <1>0, <1>5, <2>1 DEF Create, Process
    <3>2. path' = path /\ files' = files /\ work' = work /\ Rest
        BY <1>5, <2>1 DEF Create
    <3>3. ~run[p].fresh /\ Current /\ Current'
        BY <1>l, <1>v, <2>0, <2>1, <3>2 DEF Judged, Current, Stale
    <3>4. Told'
        BY <1>f, <2>0, <3>2 DEF Deleting
    <3>5. Loads(p)'
        BY <1>l, <1>v, <2>0, <3>1 DEF Loads
    <3>6. Judged(p)'
        BY <3>1, <3>3 DEF Judged
    <3>7. Resumed(p)'
        BY <1>l, <3>1, <3>2, <3>3 DEF Resumed
    <3> QED BY <3>2, <3>4, <3>5, <3>6, <3>7 DEF Own
  <2>2. CASE path = 0 /\ dir
    <3>1. PICK i \in FileId : /\ path' = i /\ files' = [files EXCEPT ![i] = NewFile]
                              /\ run' = [run EXCEPT ![p].pc = "lock", ![p].fd = i]
        BY <1>5, <2>2 DEF Create
    <3>2. files'[path'] = NewFile /\ Rest
        BY <3>1
    <3>3. /\ run'[p].pc = "lock" /\ run'[p].fresh = run[p].fresh
          /\ run'[p].csum = run[p].csum
          /\ run'[p].at = run[p].at /\ run'[p].build = run[p].build
          /\ run'[p].force = run[p].force /\ run'[p].honor = run[p].honor
        BY <1>0, <3>1 DEF Process
    <3>4. Told'
        BY <3>2 DEF Told, NewFile
    <3>5. run[p].fresh /\ run[p].at = 0
      <4>1. ~Current
          BY <2>2 DEF Current
      <4> QED BY <1>0, <1>l, <2>0, <4>1 DEF Judged, Resumed, Process
    <3>6. Loads(p)'
        BY <1>l, <1>v, <2>0, <3>3 DEF Loads
    <3>7. Judged(p)'
        BY <3>2, <3>3, <3>5 DEF Judged, NewFile
    <3>8. Resumed(p)'
        BY <3>3, <3>5 DEF Resumed
    <3> QED BY <3>2, <3>4, <3>6, <3>7, <3>8 DEF Own
  <2>3. CASE path = 0 /\ ~dir
      BY <1>5, <1>a, <2>0, <2>3 DEF Create, Deleting
  <2> QED BY <2>1, <2>2, <2>3
<1>6. ASSUME Lock(p) PROVE Done /\ Rest
  <2>1. run[p].pc = "lock" /\ path' = path /\ files' = files /\ work' = work /\ Rest
      BY <1>6 DEF Lock
  <2>2. /\ run'[p].pc = (IF run[p].fresh THEN "version" ELSE "locked")
        /\ run'[p].fresh = run[p].fresh
        /\ run'[p].csum = run[p].csum
        /\ run'[p].at = run[p].at /\ run'[p].build = run[p].build
        /\ run'[p].force = run[p].force /\ run'[p].honor = run[p].honor
      BY <1>0, <1>6 DEF Lock, Process
  <2>3. Told' /\ Current' = Current
      BY <1>f, <1>v, <2>1 DEF Current, Stale, Deleting
  <2>5. Loads(p)'
      BY <1>l, <1>v, <2>1, <2>2 DEF Loads
  <2>6. Judged(p)'
      BY <1>0, <1>l, <2>1, <2>2, <2>3 DEF Judged, Process
  <2>7. Resumed(p)'
      BY <1>l, <2>1, <2>2, <2>3 DEF Resumed
  <2> QED BY <2>1, <2>3, <2>5, <2>6, <2>7 DEF Own
<1>7. ASSUME WriteVersion(p) PROVE Done /\ Rest
  <2>1. run[p].pc = "version" /\ path' = path /\ work' = work /\ Rest
      BY <1>7 DEF WriteVersion
  <2>2. run[p].fd = path /\ path \in FileId
      BY <1>u, <2>1 DEF Past
  <2>3. /\ run'[p].pc = "checksum" /\ run'[p].fresh = run[p].fresh
        /\ run'[p].csum = run[p].csum
        /\ run'[p].at = run[p].at /\ run'[p].build = run[p].build
        /\ run'[p].force = run[p].force /\ run'[p].honor = run[p].honor
      BY <1>0, <1>7 DEF WriteVersion, Process
  <2>4. /\ files'[path].version /\ files'[path].done = files[path].done
        /\ files'[path].variants = files[path].variants
        /\ files'[path].checksum = files[path].checksum
      BY <1>7, <2>2 DEF WriteVersion, StateFile
  <2>5. run[p].fresh /\ run[p].at = 0 /\ files[path].done = {} /\ files[path].variants = {}
        /\ files[path].checksum = None
      BY <1>l, <2>1 DEF Judged
  <2>6. Told'
      BY <2>1, <2>4, <2>5 DEF Told
  <2>7. Loads(p)'
      BY <1>l, <1>v, <2>1, <2>3 DEF Loads
  <2>8. Judged(p)' /\ Resumed(p)'
      BY <2>1, <2>3, <2>4, <2>5 DEF Judged, Resumed
  <2> QED BY <2>1, <2>6, <2>7, <2>8 DEF Own
<1>8. ASSUME WriteChecksum(p) PROVE Done /\ Rest
  <2>1. run[p].pc = "checksum" /\ path' = path /\ work' = work /\ Rest
      BY <1>8 DEF WriteChecksum
  <2>2. run[p].fd = path /\ path \in FileId /\ path # 0
      BY <1>u, <2>1 DEF Past
  <2>3. /\ run'[p].pc = "locked" /\ run'[p].fresh = run[p].fresh
        /\ run'[p].csum = run[p].csum
        /\ run'[p].at = run[p].at /\ run'[p].build = run[p].build
        /\ run'[p].force = run[p].force /\ run'[p].honor = run[p].honor
      BY <1>0, <1>8 DEF WriteChecksum, Process
  <2>5. run[p].at = 0 /\ files[path].done = {} /\ files[path].version
        /\ files[path].checksum = None /\ run[p].csum = portfile
      BY <1>l, <2>1 DEF Judged, Loads
  <2>4. /\ files'[path].version = files[path].version /\ files'[path].done = files[path].done
        /\ files'[path].checksum = portfile
      BY <1>8, <2>2, <2>5 DEF WriteChecksum, StateFile
  <2>6. Told' /\ Current'
      BY <1>v, <2>1, <2>2, <2>4, <2>5 DEF Told, Current, Stale
  <2>7. Loads(p)'
      BY <1>l, <1>v, <2>1, <2>3 DEF Loads
  <2>8. Judged(p)' /\ Resumed(p)'
      BY <2>3, <2>5, <2>6 DEF Judged, Resumed
  <2> QED BY <2>1, <2>6, <2>7, <2>8 DEF Own
<1>9. ASSUME CheckVariants(p) PROVE Done /\ Rest
  <2>1. run[p].pc = "locked" /\ run[p].at = 0 /\ path' = path /\ work' = work
      BY <1>9 DEF CheckVariants
  <2>2. run[p].fd = path /\ path \in FileId /\ Current /\ ~run[p].force
      BY <1>l, <1>u, <2>1 DEF Past, Judged, Loads
  <2>3. CASE Mismatch(p)
      BY <1>9, <1>a, <2>1, <2>2, <2>3 DEF CheckVariants, Deleting
  <2>4. CASE ~Mismatch(p)
    <3> DEFINE V == run[p].build.variants
    <3>1. Proceed(p) /\ files' = [files EXCEPT ![path].variants = @ \cup V,
                                              ![path].older = @ /\ V = {}]
        BY <1>9, <2>2, <2>4 DEF CheckVariants
    <3>2. /\ files[path].variants = {} \/ files[path].variants = V
          /\ files[path].variants # V => files[path].done = {}
        BY <2>2, <2>4 DEF Mismatch
    <3> HIDE DEF V
    <3>3. files[path] \in StateFile
        BY <2>2
    <3>4. files'[path] = [files[path] EXCEPT !.variants = @ \cup V, !.older = @ /\ V = {}]
        BY <2>2, <3>1
    <3>5. /\ files'[path].version = files[path].version
          /\ files'[path].checksum = files[path].checksum
          /\ files'[path].done = files[path].done
          /\ files'[path].variants = files[path].variants \cup V
          /\ files'[path].older = (files[path].older /\ V = {})
        BY <3>3, <3>4 DEF StateFile
    <3>6. files'[path].variants = V
        BY <3>2, <3>5
    <3>7. Current' /\ (files'[path].version \/ ~files[path].older)
        BY <1>v, <2>1, <2>2, <3>5 DEF Current, Stale
    <3>8. Told'
        BY <1>t, <1>v, <2>1, <2>2, <3>2, <3>5, <3>6, <3>7 DEF Told, Deleting
    <3>9. \A t \in Target : ~(t < run[p].at + 1)
        BY <2>1 DEF Target
    <3> QED BY <1>b, <2>1, <3>1, <3>6, <3>7, <3>8, <3>9 DEF V
  <2> QED BY <2>3, <2>4
<1>10. ASSUME Skip(p) PROVE Done /\ Rest
  <2>1. /\ run[p].pc = "locked" /\ run[p].at > 0 /\ path' = path /\ files' = files
        /\ work' = work /\ Proceed(p) /\ run[p].at \in files[run[p].fd].done
      BY <1>10 DEF Skip, Recorded
  <2>2. run[p].fd = path /\ Current
      BY <1>l, <1>u, <2>1 DEF Past, Judged
  <2>3. Told' /\ Current'
      BY <1>f, <1>v, <2>1, <2>2 DEF Current, Stale, Deleting
  <2>4. files'[path].variants = run[p].build.variants
      BY <1>l, <2>1 DEF Resumed
  <2>5. ASSUME NEW t \in Target, t < run[p].at + 1 PROVE t \in files'[path].done
    <3>1. t < run[p].at \/ t = run[p].at
        BY <1>0, <2>5 DEF Target
    <3> QED BY <1>l, <2>1, <2>2, <3>1 DEF Resumed
  <2> QED BY <1>b, <2>1, <2>3, <2>4, <2>5
<1>11. ASSUME Start(p) PROVE Done /\ Rest
  <2>1. /\ run[p].pc = "locked" /\ run[p].at \notin files[run[p].fd].done /\ Rest
        /\ path' = path /\ files' = files /\ work' = work
      BY <1>11 DEF Start, Recorded
  <2>2. /\ run'[p].pc = "running" /\ run'[p].fresh = run[p].fresh
        /\ run'[p].csum = run[p].csum
        /\ run'[p].at = run[p].at /\ run'[p].build = run[p].build
        /\ run'[p].force = run[p].force /\ run'[p].honor = run[p].honor
      BY <1>0, <1>11 DEF Start, Process
  <2>3. Told' /\ Current' = Current /\ run[p].fd = path
      BY <1>f, <1>u, <1>v, <2>1 DEF Current, Stale, Deleting, Past
  <2>5. Loads(p)'
      BY <1>l, <1>v, <2>1, <2>2 DEF Loads
  <2>6. Judged(p)'
      BY <1>l, <2>1, <2>2, <2>3 DEF Judged
  <2>7. Resumed(p)'
      BY <1>l, <2>1, <2>2, <2>3 DEF Resumed
  <2> QED BY <2>1, <2>3, <2>5, <2>6, <2>7 DEF Own
<1>12. ASSUME Complete(p) PROVE Done /\ Rest
  <2>1. /\ run[p].pc = "running" /\ Rest /\ path' = path /\ files' = files
        /\ run[p].at \in Target
      BY <1>12 DEF Complete, Loaded
  <2>2. /\ run'[p].pc = "record" /\ run'[p].fresh = run[p].fresh
        /\ run'[p].csum = run[p].csum
        /\ run'[p].at = run[p].at /\ run'[p].build = run[p].build
        /\ run'[p].force = run[p].force /\ run'[p].honor = run[p].honor
      BY <1>0, <1>12 DEF Complete, Process
  <2>3. \A t \in Target : work'[t] = IF t = run[p].at THEN run[p].build ELSE work[t]
      BY <1>12 DEF Complete
  <2>4. Current' = Current /\ path \in FileId
      BY <1>u, <1>v, <2>1 DEF Current, Stale, Past
  <2>5. files[path].done \subseteq Target /\ run[p].at \notin files[path].done
      BY <1>l, <2>1, <2>4 DEF StateFile, Resumed
  <2>6. \A t \in files'[path'].done : work'[t] = work[t]
      BY <2>1, <2>3, <2>5
  <2>7. Told'
      BY <1>t, <1>u, <1>v, <2>1, <2>6 DEF Told, Past
  <2>8. Loads(p)'
      BY <1>l, <1>v, <2>1, <2>2 DEF Loads
  <2>9. Judged(p)'
      BY <1>l, <2>1, <2>2, <2>4 DEF Judged
  <2>10. work'[run'[p].at] = run'[p].build
      BY <2>1, <2>2, <2>3
  <2>11. Resumed(p)'
      BY <1>l, <2>1, <2>2, <2>4, <2>10 DEF Resumed
  <2> QED BY <2>1, <2>7, <2>8, <2>9, <2>11 DEF Own
<1>13. ASSUME Fail(p) PROVE Done /\ Rest
    BY <1>13, <1>a DEF Fail, Deleting
<1>14. ASSUME Record(p) PROVE Done /\ Rest
  <2>1. run[p].pc = "record" /\ path' = path /\ work' = work /\ Proceed(p)
      BY <1>14 DEF Record
  <2>2. /\ run[p].fd = path /\ path \in FileId /\ Current /\ run[p].pc \notin Deleting
        /\ run[p].at \in Target /\ run[p].build \in Build /\ work[run[p].at] = run[p].build
        /\ run[p].build.portfile = portfile
      BY <1>l, <1>u, <2>1 DEF Past, Judged, Resumed, Loaded, Loads
  <2>3. /\ files'[path].version = files[path].version
        /\ files'[path].checksum = files[path].checksum
        /\ files'[path].done = files[path].done \cup {run[p].at}
        /\ files'[path].variants = files[path].variants
        /\ files'[path].older = FALSE
      BY <1>14, <2>2 DEF Record, StateFile
  <2>4. Current'
      BY <1>v, <2>1, <2>2, <2>3 DEF Current, Stale
  <2>5. files[path].variants = run[p].build.variants
      BY <1>l, <2>2 DEF Resumed, Target
  <2>6. /\ files[path].version => files[path].checksum = portfile
        /\ ~files[path].version => ~files[path].older
      BY <2>2 DEF Current, Stale
  <2>7. Told'
    <3>1. path # 0
        BY <2>2 DEF FileId
    <3>2. ASSUME NEW t \in files'[path].done
          PROVE  /\ work[t] \in Build
                 /\ work[t].variants = files[path].variants
                 /\ files[path].version => work[t].portfile = files[path].checksum
                 /\ ~files[path].version => work[t].portfile = portfile
      <4>1. CASE t = run[p].at
          BY <2>2, <2>5, <2>6, <4>1
      <4>2. CASE t \in files[path].done
          BY <1>t, <2>2, <2>6, <3>1, <4>2
      <4> QED BY <2>3, <4>1, <4>2
    <3> QED BY <1>v, <2>1, <2>3, <3>2 DEF Told
  <2>8. ASSUME NEW t \in Target, t < run[p].at + 1 PROVE t \in files'[path].done
    <3>1. t < run[p].at \/ t = run[p].at
        BY <1>0, <2>8 DEF Target
    <3>2. run[p].at > 0
        BY <2>2 DEF Target
    <3> QED BY <1>l, <2>3, <3>1, <3>2 DEF Resumed
  <2> QED BY <1>b, <2>1, <2>3, <2>4, <2>5, <2>7, <2>8
<1>15. ASSUME Clean(p) PROVE Done /\ Rest
  <2>1. /\ run[p].pc = "idle" /\ run'[p].pc = "clean" /\ Rest
        /\ run'[p].at = run[p].at
        /\ run'[p].force = run[p].force /\ run'[p].honor = run[p].honor
      BY <1>0, <1>15 DEF Clean, Process
  <2>2. Told'
      BY <2>1 DEF Told, Undisturbed, Deleting
  <2> QED BY <1>l, <2>1, <2>2 DEF Own, Loads, Judged, Resumed
<1>16. ASSUME Crash(p) PROVE Done /\ Rest
  <2>1. run[p].pc \notin Deleting
      BY <1>16, <1>w DEF Crash, Single, Deleting
  <2> QED BY <1>16, <1>a, <2>1 DEF Crash
<1> HIDE DEF Done, Rest
<1> QED BY <1>c, <1>1, <1>2, <1>3, <1>4, <1>5, <1>6, <1>7, <1>8, <1>9, <1>10, <1>11, <1>12, <1>13,
        <1>14, <1>15, <1>16 DEF Step

LEMMA OwnNext == OwnInv /\ [Next]_vars => OwnInv'
<1> SUFFICES ASSUME OwnInv, [Next]_vars PROVE OwnInv'
    OBVIOUS
<1>0. WorkInv /\ WorkInv' /\ IInv
    BY WorkNext DEF OwnInv, WorkInv
<1>s. scene' = scene
    BY ZenonT(60)
       DEF Next, vars, Open, Step, Look, Compare, Delete, Deleted, Create, Lock, WriteVersion,
       WriteChecksum, CheckVariants, Skip, Start, Complete, Fail, Record, Clean, Crash, Edit
<1> SUFFICES ASSUME Careful PROVE Told' /\ \A q \in Proc : Own(q)'
    BY <1>0, <1>s DEF OwnInv, Careful, Single
<1>w. Told /\ \A q \in Proc : Own(q)
    BY DEF OwnInv
<1>p. scene.procs \subseteq Proc /\ scene.forces \subseteq {FALSE} /\ scene.honors \subseteq {FALSE}
    BY <1>0, SceneTypes DEF IInv, Careful
<1>1. ASSUME NEW p \in scene.procs, Step(p) \/ Lock(p) \/ Clean(p) \/ Crash(p)
      PROVE  Told' /\ \A q \in Proc : Own(q)'
    BY <1>0, <1>1, <1>p, <1>s, <1>w, OwnStep
<1>2. ASSUME NEW p \in scene.procs, NEW V \in scene.selects, NEW f \in scene.forces,
             NEW o \in scene.honors, Open(p, V, f, o)
      PROVE  Told' /\ \A q \in Proc : Own(q)'
  <2>1. UNCHANGED <<portfile, path, files, work>> /\ run[p].pc = "idle" /\ p \in Proc
      BY <1>2, <1>p DEF Open
  <2>2. /\ run'[p].pc = "look" /\ run'[p].at = 0 /\ run'[p].force = FALSE /\ run'[p].honor = FALSE
        /\ run'[p].build.portfile = portfile
      BY <1>0, <1>2, <1>p, <2>1 DEF Open, Idle, IInv, TypeOK
  <2>3. \A q \in Proc \ {p} : run'[q] = run[q]
      BY <1>2 DEF Open
  <2>4. Undisturbed' => Undisturbed
      BY <2>1, <2>2, <2>3 DEF Undisturbed, Deleting
  <2>5. Told'
      BY <1>w, <2>1, <2>4 DEF Told
  <2>6. Own(p)'
      BY <2>1, <2>2 DEF Own, Loads, Judged, Resumed
  <2>7. ASSUME NEW q \in Proc \ {p} PROVE Own(q)'
      BY <1>w, <2>1, <2>3, <2>7 DEF Own, Loads, Judged, Resumed, Current, Stale
  <2> QED BY <2>5, <2>6, <2>7
<1>3. ASSUME NEW v \in Portfile, Edit(v) PROVE Told' /\ \A q \in Proc : Own(q)'
  <2>1. UNCHANGED <<path, work, run>> /\ \A q \in Proc : run[q].pc = "idle"
      BY <1>3 DEF Edit, Careful
  <2>2. \A i \in FileId :
          /\ files'[i].version = files[i].version /\ files'[i].checksum = files[i].checksum
          /\ files'[i].done = files[i].done /\ files'[i].variants = files[i].variants
          /\ files'[i].older
      BY <1>0, <1>3 DEF Edit, IInv, TypeOK, StateFile
  <2>3. path # 0 => path \in FileId
      BY <1>0 DEF IInv, TypeOK, FileId
  <2>4. Undisturbed
      BY <2>1 DEF Undisturbed, Deleting
  <2>5. Told'
      BY <1>w, <2>1, <2>2, <2>3, <2>4 DEF Told
  <2>6. ASSUME NEW q \in Proc PROVE Own(q)'
    <3>1. run[q].at = 0 /\ ~run[q].force /\ ~run[q].honor
        BY <1>w, <2>1 DEF Own, Loads, Judged
    <3> QED BY <2>1, <3>1 DEF Own, Loads, Judged, Resumed
  <2> QED BY <2>5, <2>6
<1>4. CASE UNCHANGED vars
    BY <1>4, <1>w DEF vars, Told, Undisturbed, Own, Loads, Judged, Resumed, Current, Stale
<1> QED BY <1>1, <1>2, <1>3, <1>4 DEF Next

LEMMA OwnInvariance == Spec => []OwnInv
<1>1. Init => OwnInv
  <2> SUFFICES ASSUME Init PROVE OwnInv
      OBVIOUS
  <2>2. Told /\ \A q \in Proc : Own(q)
      BY DEF Init, Idle, Told, Own, Loads, Judged, Resumed
  <2> QED BY <2>2, InitWork DEF OwnInv
<1> QED BY <1>1, OwnNext, PTL DEF Spec

(* A careful process never runs a target on what another Portfile or other *)
(* variants left: every earlier target has been run with the same ones,    *)
(* whatever failed, was killed, edited or cleaned before (open_statefile,  *)
(* check_statefile_variants).                                              *)
THEOREM TargetsRunOnOwnWork == Spec => OwnWork
<1> DEFINE Step1 == Careful => \A p \in Proc : Begins(p) =>
                       \A t \in 1 .. run[p].at - 1 : work[t] = run[p].build
<1>1. OwnInv => Step1
  <2> SUFFICES ASSUME OwnInv, Careful, NEW p \in Proc,
                      run[p].pc = "locked", NEW t \in 1 .. run[p].at - 1
               PROVE  work[t] = run[p].build
      BY DEF Begins
  <2> USE DEF OwnInv, WorkInv, IInv, TypeOK
  <2>1. Told /\ Loads(p) /\ Judged(p) /\ Resumed(p)
      BY DEF Own
  <2>2. Undisturbed
    <3>1. p \in scene.procs /\ One(scene.procs)
        BY DEF OthersIdle, Careful, Single
    <3> QED BY <3>1 DEF One, OthersIdle, Undisturbed, Deleting
  <2>3. run[p].at \in 0 .. Targets /\ run[p].build \in Build /\ Targets \in Nat
      BY ConstantsOK DEF Process, Loaded, ConstantsOK
  <2>4. t \in Target /\ t < run[p].at /\ run[p].at > 0
      BY <2>3 DEF Target
  <2>5. /\ t \in files[path].done /\ files[path].variants = run[p].build.variants
        /\ path # 0 /\ ~Stale(path, portfile)
      BY <2>1, <2>4 DEF Resumed, Current
  <2>6. /\ work[t] \in Build /\ work[t].variants = run[p].build.variants
        /\ work[t].portfile = portfile
      BY <2>1, <2>2, <2>5 DEF Told, Stale
  <2>7. run[p].build.portfile = portfile
      BY <2>1 DEF Loads
  <2> QED BY <2>3, <2>6, <2>7 DEF Build
<1> QED BY <1>1, OwnInvariance, PTL DEF OwnWork

=============================================================================
