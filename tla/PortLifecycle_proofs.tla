------------------------ MODULE PortLifecycle_proofs ------------------------
(***************************************************************************)
(* Proofs about installing and uninstalling, for any ports, dependencies,  *)
(* contents and number of commands: wherever a command stops, the entries  *)
(* keep their stored files, and what they depend on; and nothing is left   *)
(* of what is not installed.                                               *)
(*                                                                         *)
(* None is inductive alone. What an install has already stored when it     *)
(* commits depends on where it is; and that an uninstall may delete its    *)
(* entry was decided two steps before, when the dependents were checked.   *)
(*                                                                         *)
(* The last part shows that the loop of --follow-dependencies computes a   *)
(* least fixed point.                                                      *)
(***************************************************************************)
EXTENDS PortLifecycle, SequenceTheorems, FiniteSetTheorems, TLAPS

Installing == {"archive", "portfile", "groups", "commit"}
Uninstalling == {"check", "image", "entry", "unused", "unusedgroups"}

Types ==
    /\ depends \in Graphs
    /\ builds \in BuildGraphs
    /\ entries \subseteq Port
    /\ pc \in {"idle", "follow"} \cup Installing \cup Uninstalling
    /\ todo \in Seq(Port)
    /\ uports \in Seq(Port)

(* A command that is neither idle nor following has a port to work on.     *)
AtWork == pc \in Installing \cup Uninstalling => todo # <<>>

(* What an install has stored so far, and that its dependencies are there. *)
Stored ==
    /\ pc \in Installing => Satisfied(entries \cup {Head(todo)})
    /\ pc \in {"portfile", "groups", "commit"} => Head(todo) \in images
    /\ pc \in {"groups", "commit"} => File(Head(todo)) \in portfiles
    /\ pc = "commit" => Groups[Head(todo)] \subseteq groups

(* The entry of p can go: nobody needs it, or another version stays.       *)
Dispensable(p) == NeededBy(p) = {} \/ \E q \in entries \ {p} : Name[q] = Name[p]

Checked == pc \in {"image", "entry"} => forced \/ Dispensable(Head(todo))

(* An entry whose copies are being deleted is gone.                        *)
Deleted == pc \in {"unused", "unusedgroups"} => Head(todo) \notin entries

IInv == Types /\ AtWork /\ Stored /\ Checked /\ Deleted /\ StoredFilesKept /\ DependenciesKept

-----------------------------------------------------------------------------
(* The elements of a finite set, in some order, are a sequence over it.    *)
LEMMA SetToSeqType ==
    ASSUME NEW S, IsFiniteSet(S)
    PROVE  SetToSeq(S) \in Seq(S)
<1>1. Cardinality(S) \in Nat /\ ExistsBijection(1 .. Cardinality(S), S)
    BY FS_CardinalityType
<1>2. PICK f \in [1 .. Cardinality(S) -> S] : IsInjective(f)
    BY <1>1, Zenon DEF ExistsBijection, Bijection, Injection, IsInjective
<1>3. SetToSeq(S) \in [1 .. Cardinality(S) -> S]
    BY <1>2, Zenon DEF SetToSeq
<1> QED BY <1>1, <1>3, SMT

(* The ports that join the list are a sequence of ports.                   *)
LEMMA JoiningType ==
    ASSUME Types
    PROVE  SetToSeq(Joining) \in Seq(Port)
<1>1. Joining \in SUBSET Port
    BY DEF Joining, Types
<1>2. IsFiniteSet(Joining)
    BY <1>1, FS_Subset, ConstantsOK DEF ConstantsOK
<1>3. SetToSeq(Joining) \in Seq(Joining)
    BY <1>2, SetToSeqType
<1> QED BY <1>1, <1>3, SeqMonotonic

(* Removing a dispensable entry leaves every dependency satisfied.         *)
LEMMA RemovalSatisfied ==
    ASSUME Types, Satisfied(entries), NEW p \in Port, Dispensable(p)
    PROVE  Satisfied(entries \ {p})
<1> SUFFICES ASSUME NEW d \in entries \ {p}, NEW n \in depends[Name[d]]
             PROVE  \E e \in entries \ {p} : Name[e] = n
    BY DEF Satisfied
<1>1. PICK e \in entries : Name[e] = n
    BY DEF Satisfied
<1>2. CASE e = p
    BY <1>1, <1>2 DEF Dispensable, NeededBy
<1>3. CASE e # p
    BY <1>1, <1>3
<1> QED BY <1>2, <1>3

LEMMA InitInv == Init => IInv
<1> SUFFICES ASSUME Init PROVE IInv
    OBVIOUS
<1>1. Types
    BY EmptySeq DEF Init, Types
<1>2. StoredFilesKept
    BY DEF Init, StoredFilesKept
<1>3. DependenciesKept
    BY DEF Init, DependenciesKept
<1> QED BY <1>1, <1>2, <1>3 DEF Init, IInv, AtWork, Stored, Checked, Deleted, Installing, Uninstalling

(* Every step keeps the invariant: one step per action.                    *)
LEMMA StepInv == IInv /\ [Next]_vars => IInv'
<1> SUFFICES ASSUME IInv, [Next]_vars PROVE IInv'
    OBVIOUS
<1> USE DEF IInv, Installing, Uninstalling
<1>0. /\ todo # <<>> => Head(todo) \in Port /\ Tail(todo) \in Seq(Port)
      /\ Len(todo) > 1 => Tail(todo) # <<>>
  <2>1. todo \in Seq(Port) /\ Len(todo) \in Nat
      BY LenProperties DEF Types
  <2>2. ASSUME todo # <<>>
        PROVE  Head(todo) \in Port /\ Tail(todo) \in Seq(Port) /\ Len(Tail(todo)) = Len(todo) - 1
      BY <2>1, <2>2, HeadTailProperties
  <2>3. ASSUME Len(todo) > 1 PROVE Tail(todo) # <<>>
    <3>1. todo # <<>>
        BY <2>1, <2>3, EmptySeq
    <3>2. Tail(todo) \in Seq(Port) /\ Len(Tail(todo)) = Len(todo) - 1
        BY <2>2, <3>1
    <3>3. Len(Tail(todo)) # 0
        BY ONLY <2>1, <2>3, <3>2, SMTT(30)
    <3> QED BY <3>3, EmptySeq
  <2> QED BY <2>2, <2>3
<1>1. ASSUME NEW p \in Port, BeginInstall(p) PROVE IInv'
  <2>1. todo' = <<p>> /\ todo' \in Seq(Port) /\ Head(todo') = p /\ pc' = "archive"
      BY <1>1 DEF BeginInstall, Begin
  <2>2. UNCHANGED <<depends, builds, registry, disk, uports, cut, forced>>
      BY <1>1 DEF BeginInstall, history
  <2>3. Satisfied(entries \cup {p})
      BY <1>1 DEF BeginInstall
  <2> QED BY <2>1, <2>2, <2>3 DEF Types, AtWork, Stored, Checked, Deleted, StoredFilesKept,
          DependenciesKept, Satisfied, registry, disk
<1>2. CASE Archive
  BY <1>0, <1>2 DEF Archive, Types, AtWork, Stored, Checked, Deleted, StoredFilesKept,
     DependenciesKept, Satisfied, registry, history
<1>3. CASE StorePortfile
  BY <1>0, <1>3 DEF StorePortfile, Types, AtWork, Stored, Checked, Deleted, StoredFilesKept,
     DependenciesKept, Satisfied, registry, history
<1>4. CASE StoreGroups
  BY <1>0, <1>4 DEF StoreGroups, Types, AtWork, Stored, Checked, Deleted, StoredFilesKept,
     DependenciesKept, Satisfied, registry, history
<1>5. CASE Commit
  BY <1>0, <1>5, EmptySeq DEF Commit, End, Types, AtWork, Stored, Checked, Deleted,
     StoredFilesKept, DependenciesKept, Satisfied, disk
<1>6. ASSUME NEW p \in Port, Activate(p) PROVE IInv'
  BY <1>6 DEF Activate, Begin, Types, AtWork, Stored, Checked, Deleted, StoredFilesKept,
     DependenciesKept, Satisfied, disk, history
<1>7. ASSUME NEW p \in Port, NEW o \in Options, BeginUninstall(p, o) PROVE IInv'
  <2>1. /\ todo' = <<p>> /\ todo' \in Seq(Port) /\ todo' # <<>> /\ pc' = "check"
        /\ UNCHANGED <<depends, builds, registry, disk, uports, cut, forced>>
      BY <1>7 DEF BeginUninstall, Begin
  <2> QED BY <2>1 DEF Types, AtWork, Stored, Checked, Deleted, StoredFilesKept,
          DependenciesKept, Satisfied, registry, disk
<1>8. CASE FollowDependents
  <2>1. PICK d \in NeededBy(Head(todo)) : todo' = <<d>> \o todo
      BY <1>8 DEF FollowDependents
  <2>2. d \in Port /\ <<d>> \in Seq(Port)
      BY <2>1 DEF NeededBy, Types
  <2>3. todo' \in Seq(Port) /\ Len(todo') = 1 + Len(todo)
      BY <2>1, <2>2, ConcatProperties DEF Types
  <2>4. todo' # <<>>
      BY <2>3, EmptySeq DEF Types
  <2>5. pc = "check" /\ UNCHANGED <<depends, builds, registry, disk, pc, uports, history>>
      BY <1>8 DEF FollowDependents
  <2> QED BY <2>3, <2>4, <2>5 DEF Types, AtWork, Stored, Checked, Deleted, StoredFilesKept,
          DependenciesKept, Satisfied, registry, disk, history
<1>9. CASE Check
  <2>1. pc = "check" /\ pc' = "image" /\ UNCHANGED <<depends, builds, entries, disk, todo, uports, cut>>
      BY <1>9 DEF Check
  <2>2. forced' \/ Dispensable(Head(todo))
      BY <1>9 DEF Check, MayUninstall, Dispensable
  <2>3. Checked'
      BY <2>1, <2>2 DEF Checked, Dispensable, NeededBy
  <2>4. DependenciesKept'
      BY <1>9 DEF Check, DependenciesKept, Satisfied
  <2> QED BY <1>0, <2>1, <2>3, <2>4 DEF Types, AtWork, Stored, Deleted, StoredFilesKept, disk
<1>10. CASE DeleteImage
  BY <1>0, <1>10 DEF DeleteImage, Types, AtWork, Stored, Checked, Deleted, StoredFilesKept,
     DependenciesKept, Satisfied, Dispensable, NeededBy, registry
<1>11. CASE DeleteEntry
  <2>1. /\ pc = "entry" /\ pc' = "unused" /\ UNCHANGED <<depends, builds, disk, todo, uports, forced>>
        /\ entries' = entries \ {Head(todo)} /\ cut' = cut \ {Head(todo)}
      BY <1>11 DEF DeleteEntry
  <2>2. Head(todo) \in Port
      BY <1>0, <2>1 DEF AtWork
  <2>3. DependenciesKept'
      <3>1. ASSUME ~forced PROVE Satisfied(entries \ {Head(todo)})
          BY <2>1, <2>2, <3>1, RemovalSatisfied DEF DependenciesKept, Checked
      <3> QED BY <2>1, <3>1 DEF DependenciesKept, Satisfied
  <2> QED BY <1>0, <2>1, <2>2, <2>3 DEF Types, AtWork, Stored, Checked, Deleted,
          StoredFilesKept, disk
<1>12. CASE DeletePortfile
  <2>1. /\ pc = "unused" /\ pc' = "unusedgroups"
        /\ UNCHANGED <<depends, builds, registry, images, groups, todo, uports, history>>
        /\ portfiles' = IF Unused(Head(todo)) THEN portfiles \ {File(Head(todo))} ELSE portfiles
      BY <1>12 DEF DeletePortfile
  <2>2. \A p \in entries : File(p) \in portfiles'
      BY <2>1 DEF StoredFilesKept, Unused, File
  <2> QED BY <1>0, <2>1, <2>2 DEF Types, AtWork, Stored, Checked, Deleted, StoredFilesKept,
          DependenciesKept, Satisfied, registry, history
<1>13. CASE DeleteGroups
  <2>1. /\ pc = "unusedgroups"
        /\ UNCHANGED <<depends, builds, registry, images, portfiles, cut, forced>>
        /\ groups' = groups \ UnusedGroups(Head(todo))
      BY <1>13 DEF DeleteGroups
  <2>2. \A p \in entries : Groups[p] \subseteq groups'
      BY <2>1 DEF StoredFilesKept, UnusedGroups
  <2>3. StoredFilesKept' /\ DependenciesKept'
      BY <2>1, <2>2 DEF StoredFilesKept, DependenciesKept, Satisfied, registry
  <2>4. CASE Len(todo) = 1 /\ alldeps = <<>>
      BY <1>13, <2>1, <2>3, <2>4, EmptySeq DEF DeleteGroups, End, Types, AtWork, Stored,
         Checked, Deleted, registry
  <2>5. CASE ~(Len(todo) = 1 /\ alldeps = <<>>)
      <3>1. /\ todo' = Tail(todo) /\ uports' = uports
            /\ pc' = IF Len(todo) > 1 THEN "check" ELSE "follow"
          BY <1>13, <2>5 DEF DeleteGroups
      <3> QED BY <1>0, <2>1, <2>3, <3>1 DEF Types, AtWork, Stored, Checked, Deleted, registry
  <2> QED BY <2>4, <2>5
<1>14. CASE Follow
  <2>1. uports' \in Seq(Port)
      BY <1>14, JoiningType, ConcatProperties DEF Follow, Types
  <2> QED BY <1>14, <2>1 DEF Follow, Types, AtWork, Stored, Checked, Deleted, StoredFilesKept,
          DependenciesKept, Satisfied, registry, disk, history
<1>15. CASE FollowEnds
  <2>1. pc = "follow" /\ UNCHANGED <<depends, builds, registry, disk, cut, forced>>
      BY <1>15 DEF FollowEnds
  <2>2. StoredFilesKept' /\ DependenciesKept'
      BY <2>1 DEF StoredFilesKept, DependenciesKept, Satisfied, registry, disk
  <2>3. CASE uports = <<>>
      BY <1>15, <2>1, <2>2, <2>3, EmptySeq DEF FollowEnds, End, Types, AtWork, Stored, Checked,
         Deleted, registry
  <2>4. CASE uports # <<>>
      BY <1>15, <2>1, <2>2, <2>4 DEF FollowEnds, Types, AtWork, Stored, Checked, Deleted,
         registry
  <2> QED BY <2>3, <2>4
<1>16. CASE Stop
  BY <1>16, EmptySeq DEF Stop, End, Types, AtWork, Stored, Checked, Deleted, StoredFilesKept,
     DependenciesKept, Satisfied, registry, disk
<1>17. CASE UNCHANGED vars
  BY <1>17 DEF vars, registry, disk, local, history, Types, AtWork, Stored, Checked, Deleted,
     StoredFilesKept, DependenciesKept, Satisfied, Dispensable, NeededBy
<1> QED BY <1>1, <1>2, <1>3, <1>4, <1>5, <1>6, <1>7, <1>8, <1>9, <1>10, <1>11, <1>12, <1>13,
        <1>14, <1>15, <1>16, <1>17 DEF Next

-----------------------------------------------------------------------------
(* The invariant holds in every reachable state.                           *)
THEOREM Invariance == Spec => []IInv
<1>1. Init => IInv
    BY InitInv
<1>2. IInv /\ [Next]_vars => IInv'
    BY StepInv
<1> QED BY <1>1, <1>2, PTL DEF Spec

(* Wherever a command stops, every entry keeps the copies of its Portfile  *)
(* and portgroups and its image (install_main, uninstall).                 *)
THEOREM StoredFilesAreKept == Spec => []StoredFilesKept
<1>1. IInv => StoredFilesKept
    BY DEF IInv
<1> QED BY <1>1, Invariance, PTL

(* Unless an uninstall was forced, what an entry depends on is installed   *)
(* (check_dependents, and the order of --follow-dependencies).             *)
THEOREM DependenciesAreKept == Spec => []DependenciesKept
<1>1. IInv => DependenciesKept
    BY DEF IInv
<1> QED BY <1>1, Invariance, PTL

-----------------------------------------------------------------------------
(* What is left over. While a command works, the difference between the    *)
(* disk and the registry is about the port it works on, and which part of  *)
(* the port's files it is follows from the step. Nothing is claimed any    *)
(* more once a command stopped between two changes.                        *)
InUse == UNION {Groups[p] : p \in entries}

(* An entry has the copy with the contents and the directory of p, or the  *)
(* contents have a second directory.                                       *)
Covered(p) == \/ \E q \in entries : File(q) = File(p)
              \/ \E q \in Port : Hash[q] = Hash[p] /\ Dir[q] # Dir[p]

ImagesMatch ==
    images = IF pc \in {"portfile", "groups", "commit"} THEN entries \cup {Head(todo)}
             ELSE IF pc = "entry" THEN entries \ {Head(todo)} ELSE entries

GroupsMatch ==
    /\ InUse \subseteq groups
    /\ \A k \in groups \ InUse :
           pc \in {"commit", "unused", "unusedgroups"} /\ k \in Groups[Head(todo)]

PortfilesMatch ==
    \A p \in Port : File(p) \in portfiles =>
        Covered(p) \/ (pc \in {"groups", "commit", "unused"} /\ File(p) = File(Head(todo)))

Left == ~rough => ImagesMatch /\ GroupsMatch /\ PortfilesMatch

LEMMA InitLeft == Init => Left
<1> SUFFICES ASSUME Init PROVE Left
    OBVIOUS
<1>1. ImagesMatch /\ GroupsMatch
    BY DEF Init, ImagesMatch, GroupsMatch, InUse
<1>2. PortfilesMatch
    BY DEF Init, PortfilesMatch, Covered
<1> QED BY <1>1, <1>2 DEF Left

(* The steps that leave entries and stored files alone, from one step at   *)
(* which the two match to another.                                         *)
Matching == {"idle", "check", "image", "follow", "archive"}

LEMMA StepMatching ==
    ASSUME Left, pc \in Matching, pc' \in Matching, entries' = entries, rough => rough',
           images' = images, portfiles' = portfiles, groups' = groups
    PROVE  Left'
<1>1. ASSUME ~rough PROVE ImagesMatch' /\ GroupsMatch'
    BY <1>1 DEF Left, ImagesMatch, GroupsMatch, InUse, Matching
<1>2. ASSUME ~rough PROVE PortfilesMatch'
    BY <1>2 DEF Left, PortfilesMatch, Covered, Matching
<1> QED BY <1>1, <1>2 DEF Left

LEMMA StepLeft == IInv /\ Left /\ [Next]_vars => Left'
<1> SUFFICES ASSUME IInv, Left, [Next]_vars PROVE Left'
    OBVIOUS
<1>0. pc \in Installing \cup Uninstalling => Head(todo) \in Port
    BY HeadTailProperties DEF IInv, Types, AtWork
<1>1. ASSUME NEW p \in Port, BeginInstall(p) PROVE Left'
    BY <1>1, StepMatching DEF BeginInstall, Begin, Matching, registry, disk, history
<1>2. CASE Archive
  <2>1. /\ pc = "archive" /\ pc' = "portfile" /\ images' = images \cup {Head(todo)}
        /\ UNCHANGED <<entries, portfiles, groups, todo, rough>>
      BY <1>2 DEF Archive, registry, history
  <2> QED BY <2>1 DEF Left, ImagesMatch, GroupsMatch, PortfilesMatch, InUse, Covered
<1>3. CASE StorePortfile
  <2>1. /\ pc = "portfile" /\ pc' = "groups" /\ portfiles' = portfiles \cup {File(Head(todo))}
        /\ UNCHANGED <<entries, images, groups, todo, rough>>
      BY <1>3 DEF StorePortfile, registry, history
  <2> QED BY <2>1 DEF Left, ImagesMatch, GroupsMatch, PortfilesMatch, InUse, Covered
<1>4. CASE StoreGroups
  <2>1. /\ pc = "groups" /\ pc' = "commit" /\ groups' = groups \cup Groups[Head(todo)]
        /\ UNCHANGED <<entries, images, portfiles, todo, rough>>
      BY <1>4 DEF StoreGroups, registry, history
  <2> QED BY <2>1 DEF Left, ImagesMatch, GroupsMatch, PortfilesMatch, InUse, Covered
<1>5. CASE Commit
  <2>1. /\ pc = "commit" /\ pc' = "idle" /\ entries' = entries \cup {Head(todo)}
        /\ UNCHANGED <<images, portfiles, groups, rough>>
      BY <1>5 DEF Commit, End, disk
  <2>2. Head(todo) \in Port /\ Groups[Head(todo)] \subseteq groups
      BY <1>0, <2>1 DEF Installing, IInv, Stored
  <2>3. ImagesMatch => ImagesMatch'
      BY <2>1 DEF ImagesMatch
  <2>4. GroupsMatch => GroupsMatch'
    <3>1. InUse' = InUse \cup Groups[Head(todo)]
        BY <2>1 DEF InUse
    <3> QED BY <2>1, <2>2, <3>1 DEF GroupsMatch
  <2>5. PortfilesMatch => PortfilesMatch'
      BY <2>1, <2>2 DEF PortfilesMatch, Covered
  <2> QED BY <2>1, <2>3, <2>4, <2>5 DEF Left
<1>6. ASSUME NEW p \in Port, Activate(p) PROVE Left'
    BY <1>6, StepMatching DEF Activate, Begin, Matching, disk, history
<1>7. ASSUME NEW p \in Port, NEW o \in Options, BeginUninstall(p, o) PROVE Left'
    BY <1>7, StepMatching DEF BeginUninstall, Begin, Matching, registry, disk
<1>8. CASE FollowDependents \/ Check
    BY <1>8, StepMatching DEF FollowDependents, Check, Matching, registry, disk, history
<1>9. CASE DeleteImage
  <2>1. /\ pc = "image" /\ pc' = "entry" /\ images' = images \ {Head(todo)}
        /\ UNCHANGED <<entries, portfiles, groups, todo, rough>>
      BY <1>9 DEF DeleteImage, registry
  <2> QED BY <2>1 DEF Left, ImagesMatch, GroupsMatch, PortfilesMatch, InUse, Covered
<1>10. CASE DeleteEntry
  <2>1. /\ pc = "entry" /\ pc' = "unused" /\ entries' = entries \ {Head(todo)}
        /\ UNCHANGED <<images, portfiles, groups, todo, rough>>
      BY <1>10 DEF DeleteEntry, disk
  <2>2. ImagesMatch => ImagesMatch'
      BY <2>1 DEF ImagesMatch
  <2>3. GroupsMatch => GroupsMatch'
      BY <2>1 DEF GroupsMatch, InUse
  <2>4. PortfilesMatch => PortfilesMatch'
    <3>1. ASSUME NEW p \in Port, Covered(p), File(p) # File(Head(todo)) PROVE Covered(p)'
        BY <2>1, <3>1 DEF Covered
    <3> QED BY <2>1, <3>1 DEF PortfilesMatch
  <2> QED BY <2>1, <2>2, <2>3, <2>4 DEF Left
<1>11. CASE DeletePortfile
  <2>1. /\ pc = "unused" /\ pc' = "unusedgroups"
        /\ UNCHANGED <<entries, images, groups, todo, rough>>
        /\ portfiles' = IF Unused(Head(todo)) THEN portfiles \ {File(Head(todo))} ELSE portfiles
      BY <1>11 DEF DeletePortfile, registry, history
  <2>2. PortfilesMatch => PortfilesMatch'
    <3> SUFFICES ASSUME PortfilesMatch, NEW p \in Port, File(p) \in portfiles' PROVE Covered(p)
        BY <2>1 DEF PortfilesMatch, Covered
    <3>1. CASE File(p) # File(Head(todo))
        BY <2>1, <3>1 DEF PortfilesMatch
    <3>2. CASE File(p) = File(Head(todo))
      <4>1. PICK q \in entries : Hash[q] = Hash[Head(todo)]
          BY <2>1, <3>2 DEF Unused
      <4>2. Hash[q] = Hash[p]
          BY <3>2, <4>1 DEF File
      <4> QED BY <4>2 DEF Covered, File, IInv, Types
    <3> QED BY <3>1, <3>2
  <2> QED BY <2>1, <2>2 DEF Left, ImagesMatch, GroupsMatch, InUse
<1>12. CASE DeleteGroups
  <2>1. /\ pc = "unusedgroups" /\ UNCHANGED <<entries, images, portfiles, rough>>
        /\ groups' = groups \ UnusedGroups(Head(todo))
      BY <1>12 DEF DeleteGroups, registry
  <2>2. pc' \in {"idle", "check", "follow"}
      BY <1>12 DEF DeleteGroups, End
  <2>3. ImagesMatch => ImagesMatch'
      BY <2>1, <2>2 DEF ImagesMatch
  <2>4. GroupsMatch => GroupsMatch'
    <3>1. UnusedGroups(Head(todo)) = Groups[Head(todo)] \ InUse
        BY DEF UnusedGroups, InUse
    <3>2. InUse' = InUse
        BY <2>1 DEF InUse
    <3> QED BY <2>1, <3>1, <3>2 DEF GroupsMatch
  <2>5. PortfilesMatch => PortfilesMatch'
      BY <2>1 DEF PortfilesMatch, Covered
  <2> QED BY <2>1, <2>3, <2>4, <2>5 DEF Left
<1>13. CASE Follow \/ FollowEnds
  <2>1. /\ pc = "follow" /\ pc' \in {"idle", "check", "follow"}
        /\ UNCHANGED <<entries, images, portfiles, groups, rough>>
      BY <1>13 DEF Follow, FollowEnds, End, registry, disk, history
  <2> QED BY <2>1, StepMatching DEF Matching
<1>14. CASE Stop
  <2>1. UNCHANGED <<entries, images, portfiles, groups>> /\ pc' = "idle"
      BY <1>14 DEF Stop, End, registry, disk
  <2>2. rough' \/ (pc \in Matching /\ (rough => rough'))
      BY <1>14 DEF Stop, Matching, IInv, Types, Installing, Uninstalling
  <2> QED BY <2>1, <2>2, StepMatching DEF Left, Matching
<1>15. CASE UNCHANGED vars
    BY <1>15 DEF vars, registry, disk, local, history, Left, ImagesMatch, GroupsMatch,
       PortfilesMatch, InUse, Covered
<1> QED BY <1>1, <1>2, <1>3, <1>4, <1>5, <1>6, <1>7, <1>8, <1>9, <1>10, <1>11, <1>12, <1>13,
        <1>14, <1>15 DEF Next

(* When no command stopped half-way, nothing is left of what is not        *)
(* installed, but the copy of a Portfile whose contents another directory  *)
(* holds too (portuninstall.tcl, the search for unused files).             *)
THEOREM NothingIsLeft == Spec => []NoResidue
<1>1. Left => NoResidue
  <2> SUFFICES ASSUME Left, pc = "idle", ~rough PROVE NoResidue
      BY DEF NoResidue
  <2>1. ImagesMatch /\ GroupsMatch /\ PortfilesMatch
      BY DEF Left
  <2>2. groups = InUse
      BY <2>1 DEF GroupsMatch
  <2> QED BY <2>1, <2>2 DEF NoResidue, ImagesMatch, PortfilesMatch, Covered, InUse
<1> QED BY <1>1, InitLeft, StepLeft, Invariance, PTL DEF Spec

-----------------------------------------------------------------------------
(* --follow-dependencies. An uninstall that follows has no list yet and    *)
(* ends with the port that was asked for (Wanted). While the list grows,   *)
(* everything there is a reason to remove is on it or will be looked at    *)
(* (Found), and nothing else is (Least); an entry comes after those that   *)
(* need it (Ordered), so that each can go when its turn comes (Turn).      *)
Wanted ==
    /\ pc = "idle" => alldeps = <<>> /\ uports = <<>>
    /\ pc \in Uninstalling =>
          /\ "dependencies" \in opts => uports = <<>> /\ asked = {todo[Len(todo)]}
          /\ "dependencies" \notin opts => alldeps = <<>>
          /\ pc \in {"check", "image"} => alldeps = <<>>
          /\ alldeps # <<>> => Len(todo) = 1 /\ Range(alldeps) = Follows(Name[Head(todo)])
          /\ alldeps # <<>> /\ pc \in {"unused", "unusedgroups"} => before = entries

Wished(p, S) == \E q \in asked \cup S : Name[p] \in Follows(Name[q])

Found ==
    \A p \in entries \ requested :
        Wished(p, Range(uports)) /\ NeededBy(p) \subseteq Range(uports)
        => p \in Range(uports) \/ Name[p] \in Range(alldeps)

Least == \A S \in SUBSET before : Reason(S) \subseteq S => Range(uports) \subseteq S

Known == \A n \in Range(alldeps) : \E q \in asked \cup Range(uports) : n \in Follows(Name[q])

Ordered ==
    \A i \in 1 .. Len(uports) : \A d \in NeededBy(uports[i]) :
        \E j \in 1 .. (i - 1) : uports[j] = d

Following == pc = "follow" => before = entries /\ Found /\ Least /\ Known /\ Ordered

Turn ==
    pc \in Uninstalling /\ uports # <<>> =>
        \A i \in 1 .. Len(todo) : \A d \in NeededBy(todo[i]) :
            \E j \in 1 .. (i - 1) : todo[j] = d /\ (pc \in {"unused", "unusedgroups"} => j # 1)

FInv == alldeps \in Seq(Names) /\ Wanted /\ Following /\ Turn

LEMMA SetToSeqRange ==
    ASSUME NEW S, IsFiniteSet(S)
    PROVE  SetToSeq(S) \in Seq(S) /\ Range(SetToSeq(S)) = S
<1> DEFINE n == Cardinality(S)
<1>1. n \in Nat /\ ExistsBijection(1 .. n, S)
    BY FS_CardinalityType
<1>2. PICK f \in [1 .. n -> S] : IsInjective(f)
    BY <1>1, Zenon DEF ExistsBijection, Bijection, Injection, IsInjective
<1>3. SetToSeq(S) \in [1 .. n -> S] /\ IsInjective(SetToSeq(S))
    BY <1>2, Zenon DEF SetToSeq
<1>4. SetToSeq(S) \in Injection(1 .. n, S)
    BY <1>3, Zenon DEF Injection, IsInjective
<1>5. IsFiniteSet(1 .. n) /\ Cardinality(1 .. n) = n
    BY <1>1, FS_Interval, SMT
<1>6. SetToSeq(S) \in Surjection(1 .. n, S)
    BY <1>4, <1>5, FS_Injection, Zenon
<1>7. Range(SetToSeq(S)) = S
    BY <1>3, <1>6 DEF Surjection, Range
<1> QED BY <1>1, <1>3, <1>7, SMT

LEMMA NamesFinite == IsFiniteSet(Names)
<1> DEFINE f == [p \in Port |-> Name[p]]
<1>1. f \in Surjection(Port, Names)
    BY DEF Surjection, Names
<1> QED BY <1>1, FS_Surjection, ConstantsOK, Zenon DEF ConstantsOK

LEMMA RangeIs ==
    ASSUME NEW S, NEW s \in Seq(S)
    PROVE  \A x : x \in Range(s) <=> \E i \in 1 .. Len(s) : s[i] = x
BY DEF Range

(* One round of the loop, in terms of the sets.                            *)
LEMMA FollowIs ==
    ASSUME Types, FInv, Follow
    PROVE  /\ Head(alldeps) \in Names
           /\ Range(alldeps) = {Head(alldeps)} \cup Range(Tail(alldeps))
           /\ uports' \in Seq(Port) /\ alldeps' \in Seq(Names)
           /\ Range(uports') = Range(uports) \cup Joining
           /\ Range(alldeps') = Range(Tail(alldeps)) \cup
                  (IF Joining = {} THEN {} ELSE Follows(Head(alldeps)))
<1> DEFINE n == Head(alldeps)
           rest == Tail(alldeps)
<1>1. alldeps \in Seq(Names) /\ alldeps # <<>> /\ uports \in Seq(Port)
    BY DEF FInv, Types, Follow
<1>2. n \in Names /\ rest \in Seq(Names)
    BY <1>1, HeadTailProperties
<1>3. Range(alldeps) = {n} \cup Range(rest)
  <2>1. <<n>> \in Seq(Names) /\ Range(<<n>>) = {n}
      BY <1>2 DEF Range
  <2>2. alldeps = <<n>> \o rest
      BY <1>1
  <2>3. \A s, t \in Seq(Names) : Range(s \o t) = Range(s) \cup Range(t)
      BY RangeConcatenation, ZenonT(60)
  <2>4. Range(<<n>> \o rest) = Range(<<n>>) \cup Range(rest)
      BY <1>2, <2>1, <2>3, ZenonT(60)
  <2> QED BY <2>1, <2>2, <2>4, Zenon
<1>4. Follows(n) \subseteq Names
    BY <1>2, ConstantsOK DEF ConstantsOK, Types, Follows
<1>5. IsFiniteSet(Follows(n) \ Range(rest))
    BY <1>4, NamesFinite, FS_Subset
<1>6. /\ Again(Follows(n), rest) \in Seq(Follows(n) \ Range(rest))
      /\ Range(Again(Follows(n), rest)) = Follows(n) \ Range(rest)
    BY <1>5, SetToSeqRange DEF Again
<1>7. Again(Follows(n), rest) \in Seq(Names)
    BY <1>4, <1>6, SeqMonotonic
<1>8. IsFiniteSet(Joining) /\ Joining \subseteq Port
  <2>1. Joining \subseteq Port
      BY DEF Joining, Types
  <2> QED BY <2>1, FS_Subset, ConstantsOK DEF ConstantsOK
<1>9. SetToSeq(Joining) \in Seq(Port) /\ Range(SetToSeq(Joining)) = Joining
    BY <1>8, SetToSeqRange, JoiningType
<1>10. uports' = uports \o SetToSeq(Joining)
       /\ alldeps' = rest \o (IF Joining = {} THEN <<>> ELSE Again(Follows(n), rest))
    BY DEF Follow
<1>11. uports' \in Seq(Port) /\ Range(uports') = Range(uports) \cup Joining
    BY <1>1, <1>9, <1>10, RangeConcatenation, ConcatProperties
<1> HIDE DEF n, rest
<1>12. CASE Joining = {}
    BY <1>2, <1>3, <1>10, <1>11, <1>12 DEF n, rest
<1>13. CASE Joining # {}
  <2>1. alldeps' = rest \o Again(Follows(n), rest)
      BY <1>10, <1>13
  <2>2. alldeps' \in Seq(Names) /\ Range(alldeps') = Range(rest) \cup (Follows(n) \ Range(rest))
      BY <1>2, <1>6, <1>7, <2>1, RangeConcatenation, ConcatProperties
  <2> QED BY <1>2, <1>3, <1>11, <1>13, <2>2 DEF n, rest
<1> QED BY <1>12, <1>13

(* The loop keeps what it says about the list.                             *)
LEMMA FollowKeeps ==
    ASSUME IInv, FInv, Follow
    PROVE  FInv'
<1> DEFINE n == Head(alldeps)
           rest == Range(Tail(alldeps))
           U == Range(uports)
           J == Joining
<1>1. /\ pc = "follow" /\ pc' = "follow"
      /\ UNCHANGED <<depends, builds, entries, requested, before, asked, todo>>
    BY DEF Follow, registry, history
<1>2. /\ before = entries /\ Found /\ Least /\ Known /\ Ordered
      /\ depends \in Graphs /\ builds \in BuildGraphs /\ entries \subseteq Port /\ uports \in Seq(Port)
    BY <1>1 DEF FInv, Following, IInv, Types
<1>3. /\ n \in Names
      /\ Range(alldeps) = {n} \cup rest
      /\ uports' \in Seq(Port) /\ alldeps' \in Seq(Names)
      /\ Range(uports') = U \cup J
      /\ Range(alldeps') = rest \cup (IF J = {} THEN {} ELSE Follows(n))
    BY FollowIs DEF IInv
<1>4. \A p : p \in J <=> /\ p \in entries \ requested /\ p \notin U
                         /\ Name[p] = n /\ NeededBy(p) \subseteq U
    BY DEF Joining
<1>5. n \notin Follows(n)
    BY <1>2, <1>3, ConstantsOK DEF ConstantsOK, Follows
<1>6. /\ \A p : NeededBy(p)' = NeededBy(p)
      /\ \A m : Follows(m)' = Follows(m)
    BY <1>1 DEF NeededBy, Follows
<1> HIDE DEF n, rest, U, J
<1>7. Found'
  <2> SUFFICES ASSUME NEW p \in entries \ requested, NEW q \in asked \cup U \cup J,
                      Name[p] \in Follows(Name[q]), NeededBy(p) \subseteq U \cup J,
                      p \notin U \cup J
               PROVE  Name[p] \in rest \cup (IF J = {} THEN {} ELSE Follows(n))
      BY <1>1, <1>3, <1>6 DEF Found, Wished
  <2>1. CASE q \in J \/ \E d \in J : d \in NeededBy(p)
      BY <1>4, <2>1 DEF NeededBy, Follows
  <2>2. CASE q \notin J /\ NeededBy(p) \subseteq U
    <3>1. Name[p] \in {n} \cup rest
        BY <1>2, <1>3, <2>2 DEF Found, Wished, U
    <3>2. Name[p] # n
        BY <1>4, <2>2
    <3> QED BY <3>1, <3>2
  <2> QED BY <2>1, <2>2
<1>8. Least'
  <2> SUFFICES ASSUME NEW S \in SUBSET before, Reason(S) \subseteq S, NEW p \in J PROVE p \in S
      BY <1>1, <1>2, <1>3, <1>6 DEF Least, Reason, U
  <2>1. U \subseteq S
      BY <1>2 DEF Least, U
  <2>2. \E q \in asked \cup S : Name[p] \in Follows(Name[q])
      BY <1>2, <1>3, <1>4, <2>1 DEF Known, U
  <2>3. {d \in before : Name[p] \in depends[Name[d]]} \subseteq S
      BY <1>2, <1>4, <2>1 DEF NeededBy
  <2> QED BY <1>2, <1>4, <2>2, <2>3 DEF Reason
<1>9. Known'
  <2>1. \A m \in rest : \E q \in asked \cup U : m \in Follows(Name[q])
      BY <1>2, <1>3 DEF Known, U
  <2>2. J # {} => \A m \in Follows(n) : \E q \in J : m \in Follows(Name[q])
      BY <1>4
  <2> QED BY <1>1, <1>3, <1>6, <2>1, <2>2 DEF Known
<1>10. Ordered'
  <2>1. /\ SetToSeq(J) \in Seq(Port) /\ uports' = uports \o SetToSeq(J)
        /\ IsFiniteSet(J) /\ Range(SetToSeq(J)) = J
    <3>1. IsFiniteSet(J)
        BY <1>2, <1>4, FS_Subset, ConstantsOK DEF ConstantsOK
    <3> QED BY <3>1, SetToSeqRange, JoiningType DEF J, Follow, IInv
  <2> DEFINE k == Len(uports)
  <2>2. /\ k \in Nat /\ Len(uports') \in Nat
        /\ \A i \in 1 .. k : uports'[i] = uports[i]
        /\ \A i \in (k + 1) .. Len(uports') : uports'[i] \in J
    <3> DEFINE s == SetToSeq(J)
    <3>1. /\ s \in Seq(Port) /\ uports \in Seq(Port) /\ Len(s) \in Nat /\ k \in Nat
          /\ \A i \in 1 .. Len(s) : s[i] \in J
        BY <1>2, <2>1, RangeEquality, LenProperties
    <3>2. /\ Len(uports') = k + Len(s)
          /\ \A i \in 1 .. k + Len(s) : uports'[i] = IF i <= k THEN uports[i] ELSE s[i - k]
        BY <1>2, <2>1, <3>1, ConcatProperties
    <3> HIDE DEF s, k
    <3> QED BY <3>1, <3>2
  <2>3. \A d \in U : \E j \in 1 .. k : uports[j] = d
      BY <1>2, RangeIs DEF U
  <2> HIDE DEF k
  <2> SUFFICES ASSUME NEW i \in 1 .. Len(uports'), NEW d \in NeededBy(uports'[i])
               PROVE  \E j \in 1 .. (i - 1) : uports'[j] = d
      BY <1>6 DEF Ordered
  <2>4. CASE i \in 1 .. k
    <3>1. \E j \in 1 .. (i - 1) : uports[j] = d
        BY <1>2, <2>2, <2>4 DEF Ordered, k
    <3> QED BY <2>2, <2>4, <3>1
  <2>5. CASE i \notin 1 .. k
    <3>1. i \in (k + 1) .. Len(uports')
        BY <2>2, <2>5
    <3>2. d \in U
        BY <1>4, <2>2, <3>1
    <3> QED BY <2>2, <2>3, <3>1, <3>2
  <2> QED BY <2>4, <2>5
<1>11. Wanted' /\ Turn'
    BY <1>1 DEF Wanted, Turn, Uninstalling
<1> QED BY <1>1, <1>2, <1>3, <1>7, <1>8, <1>9, <1>10, <1>11 DEF FInv, Following

(* The last port of the list is uninstalled, and the following begins.     *)
LEMMA FollowBegins ==
    ASSUME IInv, FInv, DeleteGroups, Len(todo) = 1, alldeps # <<>>
    PROVE  Following'
<1>1. /\ pc = "unusedgroups" /\ UNCHANGED <<depends, builds, entries, requested, alldeps, uports, before,
                                            asked>>
    BY DEF DeleteGroups, registry
<1>2. /\ uports = <<>> /\ before = entries /\ asked = {Head(todo)}
      /\ Range(alldeps) = Follows(Name[Head(todo)])
    BY <1>1 DEF FInv, Wanted, Uninstalling
<1>6. \A m : Follows(m)' = Follows(m)
    BY <1>1 DEF Follows
<1>3. Range(uports) = {} /\ Len(uports) = 0
    BY <1>2, EmptySeq DEF Range
<1>4. Found'
    BY <1>1, <1>2, <1>3, <1>6 DEF Found, Wished
<1>5. Least' /\ Known' /\ Ordered'
    BY <1>1, <1>2, <1>3, <1>6 DEF Least, Known, Ordered
<1> QED BY <1>1, <1>2, <1>4, <1>5 DEF Following

LEMMA StepFollowing == IInv /\ FInv /\ [Next]_vars => FInv'
<1> SUFFICES ASSUME IInv, FInv, [Next]_vars PROVE FInv'
    OBVIOUS
<1>0. /\ todo \in Seq(Port) /\ Len(todo) \in Nat
      /\ todo # <<>> => /\ Tail(todo) \in Seq(Port) /\ Len(Tail(todo)) = Len(todo) - 1
                        /\ \A i \in 1 .. Len(todo) - 1 : Tail(todo)[i] = todo[i + 1]
                        /\ Len(todo) > 0 /\ todo[1] = Head(todo)
    BY LenProperties, HeadTailProperties, EmptySeq DEF IInv, Types
<1>1. ASSUME NEW p \in Port, BeginInstall(p) PROVE FInv'
    BY <1>1 DEF BeginInstall, Begin, FInv, Wanted, Following, Turn, Uninstalling
<1>2. CASE Archive \/ StorePortfile \/ StoreGroups
  <2>1. pc' \in {"portfile", "groups", "commit"} /\ alldeps' = alldeps
      BY <1>2 DEF Archive, StorePortfile, StoreGroups
  <2> QED BY <2>1 DEF FInv, Wanted, Following, Turn, Uninstalling
<1>3. CASE Commit \/ Stop
  <2>1. pc' = "idle" /\ alldeps' = <<>> /\ uports' = <<>>
      BY <1>3 DEF Commit, Stop, End
  <2> QED BY <2>1, EmptySeq DEF FInv, Wanted, Following, Turn, Uninstalling
<1>4. ASSUME NEW p \in Port, Activate(p) PROVE FInv'
    BY <1>4 DEF Activate, Begin, FInv, Wanted, Following, Turn, Uninstalling
<1>5. ASSUME NEW p \in Port, NEW o \in Options, BeginUninstall(p, o) PROVE FInv'
  <2>1. /\ pc = "idle" /\ pc' = "check" /\ asked' = {p} /\ todo' = <<p>> /\ UNCHANGED <<alldeps, uports>>
      BY <1>5 DEF BeginUninstall, Begin
  <2>2. alldeps = <<>> /\ uports = <<>>
      BY <2>1 DEF FInv, Wanted
  <2> QED BY <2>1, <2>2 DEF FInv, Wanted, Following, Turn, Uninstalling
<1>6. CASE FollowDependents
  <2>1. /\ pc = "check" /\ pc' = "check" /\ UNCHANGED <<alldeps, uports, opts, asked>>
        /\ todo # <<>>
      BY <1>6 DEF FollowDependents, history, IInv, AtWork, Uninstalling
  <2>2. PICK d \in NeededBy(Head(todo)) : todo' = <<d>> \o todo
      BY <1>6 DEF FollowDependents
  <2>3. todo'[Len(todo')] = todo[Len(todo)]
    <3>1. <<d>> \in Seq(Port) /\ Len(<<d>>) = 1
        BY <2>2 DEF NeededBy, IInv, Types
    <3>2. /\ Len(todo') = 1 + Len(todo)
          /\ \A i \in 1 .. 1 + Len(todo) :
                 todo'[i] = IF i <= 1 THEN <<d>>[i] ELSE todo[i - 1]
        BY <1>0, <2>2, <3>1, ConcatProperties
    <3> QED BY <1>0, <2>1, <3>2
  <2>4. uports = <<>>
    <3>1. 1 \in 1 .. Len(todo)
        BY <1>0, <2>1
    <3>2. uports # <<>> => \A x \in NeededBy(todo[1]) : \E j \in 1 .. (1 - 1) : todo[j] = x
        BY <2>1, <3>1 DEF FInv, Turn, Uninstalling
    <3> QED BY <1>0, <2>1, <2>2, <3>2
  <2>5. alldeps = <<>>
      BY <2>1 DEF FInv, Wanted, Uninstalling
  <2> QED BY <2>1, <2>3, <2>4, <2>5 DEF FInv, Wanted, Following, Turn, Uninstalling
<1>7. CASE Check
  <2>1. /\ pc = "check" /\ pc' = "image"
        /\ UNCHANGED <<depends, builds, entries, alldeps, uports, opts, asked, todo>>
      BY <1>7 DEF Check
  <2> QED BY <2>1 DEF FInv, Wanted, Following, Turn, Uninstalling, NeededBy, Follows
<1>8. CASE DeleteImage
  <2>1. /\ pc = "image" /\ pc' = "entry"
        /\ UNCHANGED <<depends, builds, entries, uports, opts, asked, todo>>
        /\ alldeps' = IF "dependencies" \in opts /\ Len(todo) = 1 /\ uports = <<>>
                        THEN SetToSeq(Follows(Name[Head(todo)])) ELSE alldeps
        /\ todo # <<>> /\ alldeps = <<>>
      BY <1>8 DEF DeleteImage, registry, FInv, Wanted, Uninstalling, IInv, AtWork
  <2>2. /\ SetToSeq(Follows(Name[Head(todo)])) \in Seq(Names)
        /\ Range(SetToSeq(Follows(Name[Head(todo)]))) = Follows(Name[Head(todo)])
    <3>1. Head(todo) \in Port
        BY <2>1, HeadTailProperties DEF IInv, Types
    <3>a. Name[Head(todo)] \in Names
        BY <3>1 DEF Names
    <3>b. depends \in [Names -> SUBSET Names] /\ builds \in [Names -> SUBSET Names]
        BY ConstantsOK DEF ConstantsOK, IInv, Types
    <3>2. Follows(Name[Head(todo)]) \subseteq Names
        BY <3>a, <3>b DEF Follows
    <3>3. IsFiniteSet(Follows(Name[Head(todo)]))
        BY <3>2, NamesFinite, FS_Subset
    <3> QED BY <3>2, <3>3, SetToSeqRange, SeqMonotonic
  <2>3. Wanted' /\ alldeps' \in Seq(Names)
      BY <2>1, <2>2 DEF FInv, Wanted, Uninstalling, Follows
  <2> QED BY <2>1, <2>3 DEF FInv, Following, Turn, Uninstalling, NeededBy
<1>9. CASE DeleteEntry
  <2>1. /\ pc = "entry" /\ pc' = "unused" /\ entries' = entries \ {Head(todo)}
        /\ before' = IF alldeps # <<>> THEN entries \ {Head(todo)} ELSE before
        /\ UNCHANGED <<depends, builds, alldeps, uports, opts, asked, todo>>
        /\ todo # <<>>
      BY <1>9 DEF DeleteEntry, IInv, AtWork, Uninstalling
  <2>2. Wanted'
      BY <2>1 DEF FInv, Wanted, Uninstalling, Follows
  <2>3. Turn'
    <3> SUFFICES ASSUME uports # <<>>, NEW i \in 1 .. Len(todo), NEW d \in NeededBy(todo[i]), d # todo[1]
                 PROVE  \E j \in 1 .. (i - 1) : todo[j] = d /\ j # 1
        BY <1>0, <2>1 DEF Turn, NeededBy, Uninstalling
    <3>1. PICK j \in 1 .. (i - 1) : todo[j] = d
        BY <2>1 DEF FInv, Turn, Uninstalling
    <3>2. j # 1
        BY <3>1
    <3> QED BY <3>1, <3>2
  <2> QED BY <2>1, <2>2, <2>3 DEF FInv, Following
<1>10. CASE DeletePortfile
  <2>1. /\ pc = "unused" /\ pc' = "unusedgroups"
        /\ UNCHANGED <<depends, builds, entries, alldeps, uports, opts, asked, todo, before>>
      BY <1>10 DEF DeletePortfile, registry, history
  <2> QED BY <2>1 DEF FInv, Wanted, Following, Turn, Uninstalling, NeededBy, Follows
<1>11. CASE DeleteGroups
  <2>1. pc = "unusedgroups" /\ todo # <<>> /\ UNCHANGED <<depends, builds, entries>>
      BY <1>11 DEF DeleteGroups, registry, IInv, AtWork, Uninstalling
  <2>5. Len(todo) \in Nat \ {0}
      BY <2>1, EmptySeq DEF IInv, Types
  <2>2. CASE Len(todo) = 1 /\ alldeps = <<>>
    <3>1. pc' = "idle" /\ alldeps' = <<>> /\ uports' = <<>>
        BY <1>11, <2>2 DEF DeleteGroups, End
    <3> QED BY <3>1, EmptySeq DEF FInv, Wanted, Following, Turn, Uninstalling
  <2>3. CASE Len(todo) = 1 /\ alldeps # <<>>
    <3>1. pc' = "follow" /\ alldeps' = alldeps
        BY <1>11, <2>3 DEF DeleteGroups
    <3> QED BY <1>11, <2>3, <3>1, FollowBegins DEF FInv, Wanted, Turn, Uninstalling
  <2>4. CASE Len(todo) > 1
    <3>0. Len(todo) # 1
      <4>1. \A k \in Nat : k > 1 => k # 1
          OBVIOUS
      <4> QED BY <2>4, <2>5, <4>1, Zenon
    <3>1. /\ pc' = "check" /\ todo' = Tail(todo) /\ UNCHANGED <<alldeps, uports, opts, asked>>
        BY <1>11, <2>4, <3>0 DEF DeleteGroups
    <3>2. Wanted'
        BY <1>0, <2>1, <2>4, <3>1 DEF FInv, Wanted, Uninstalling, Follows
    <3>3. Turn'
      <4> SUFFICES ASSUME uports # <<>>, NEW i \in 1 .. Len(todo) - 1, NEW d \in NeededBy(todo[i + 1])
                   PROVE  \E j \in 1 .. (i - 1) : Tail(todo)[j] = d
        <5>1. Len(todo') = Len(todo) - 1
            BY <1>0, <2>1, <3>1
        <5>2. \A p : NeededBy(p)' = {d \in entries : Name[p] \in depends[Name[d]]}'
            BY DEF NeededBy
        <5> QED BY <2>1, <3>1, <5>1 DEF Turn, NeededBy
      <4>1. i + 1 \in 1 .. Len(todo)
          BY <1>0
      <4>2. PICK j \in 1 .. ((i + 1) - 1) : todo[j] = d /\ j # 1
          BY <2>1, <4>1 DEF FInv, Turn, Uninstalling
      <4>3. j - 1 \in 1 .. (i - 1) /\ Tail(todo)[j - 1] = d
          BY <1>0, <2>1, <4>2
      <4> QED BY <4>3
    <3> QED BY <3>1, <3>2, <3>3 DEF FInv, Following
  <2>6. Len(todo) = 1 \/ Len(todo) > 1
    <3>1. \A k \in Nat \ {0} : k = 1 \/ k > 1
        BY ONLY SMTT(60)
    <3> QED BY <2>5, <3>1, Zenon
  <2> QED BY <2>2, <2>3, <2>4, <2>6, ZenonT(60)
<1>12. CASE Follow
    BY <1>12, FollowKeeps
<1>13. CASE FollowEnds
  <2>1. pc = "follow" /\ alldeps = <<>> /\ UNCHANGED <<depends, builds, entries>>
      BY <1>13 DEF FollowEnds, registry
  <2>2. CASE uports = <<>>
    <3>1. pc' = "idle" /\ alldeps' = <<>> /\ uports' = <<>>
        BY <1>13, <2>2 DEF FollowEnds, End
    <3> QED BY <3>1, EmptySeq DEF FInv, Wanted, Following, Turn, Uninstalling
  <2>3. CASE uports # <<>>
    <3>1. /\ pc' = "check" /\ todo' = uports /\ opts' = opts \ {"dependencies"}
          /\ UNCHANGED <<alldeps, uports>>
        BY <1>13, <2>3 DEF FollowEnds
    <3>2. Wanted'
        BY <2>1, <3>1 DEF Wanted, Uninstalling
    <3>3. Turn'
        BY <2>1, <3>1 DEF FInv, Following, Ordered, Turn, NeededBy
    <3> QED BY <3>1, <3>2, <3>3 DEF FInv, Following
  <2> QED BY <2>2, <2>3
<1>14. CASE UNCHANGED vars
  <2>1. UNCHANGED <<depends, builds, entries, requested, pc, opts, todo, alldeps, uports, before, asked>>
      BY <1>14 DEF vars, registry, local, history
  <2>2. /\ \A p : NeededBy(p)' = NeededBy(p)
        /\ \A m : Follows(m)' = Follows(m)
      BY <2>1 DEF NeededBy, Follows
  <2>3. Following'
      BY <2>1, <2>2, ZenonT(60) DEF FInv, Following, Found, Least, Known, Ordered, Wished, Reason
  <2>4. Turn'
      BY <2>1 DEF FInv, Turn, NeededBy
  <2> QED BY <2>1, <2>2, <2>3, <2>4 DEF FInv, Wanted
<1> QED BY <1>1, <1>2, <1>3, <1>4, <1>5, <1>6, <1>7, <1>8, <1>9, <1>10, <1>11, <1>12, <1>13,
        <1>14 DEF Next

LEMMA InitFollowing == Init => FInv
<1> SUFFICES ASSUME Init PROVE FInv
    OBVIOUS
<1>1. pc = "idle" /\ alldeps = <<>> /\ uports = <<>>
    BY DEF Init
<1> QED BY <1>1, EmptySeq DEF FInv, Wanted, Following, Turn, Uninstalling

(* --follow-dependencies removes exactly the least set that has every      *)
(* entry there is a reason to remove, in an order in which no check of     *)
(* dependents can refuse one, for any two graphs, of what is needed at run *)
(* time and of what was to build, with cycles or without (uninstall, the   *)
(* loop over alldeps that grows as it is walked).                          *)
THEOREM FollowingIsExact == Spec => []FollowsExactly
<1>1. IInv /\ FInv => FollowsExactly
  <2> SUFFICES ASSUME IInv, FInv PROVE FollowsExactly
      OBVIOUS
  <2>1. ASSUME pc = "follow", alldeps = <<>> PROVE Range(uports) = Removable
    <3>1. before = entries /\ Found /\ Least
        BY <2>1 DEF FInv, Following
    <3>2. Reason(before) \subseteq before
        BY DEF Reason
    <3>3. Range(uports) \subseteq before
        BY <3>1, <3>2 DEF Least
    <3>4. Range(alldeps) = {}
        BY <2>1, EmptySeq DEF Range
    <3>5. Reason(Range(uports)) \subseteq Range(uports)
        BY <3>1, <3>4 DEF Found, Reason, Wished, NeededBy
    <3> QED BY <3>1, <3>3, <3>5 DEF Removable, Least
  <2>2. ASSUME pc = "check", uports # <<>> PROVE NeededBy(Head(todo)) = {}
    <3>1. todo \in Seq(Port) /\ todo # <<>> /\ Len(todo) \in Nat \ {0} /\ todo[1] = Head(todo)
        BY <2>2, EmptySeq, LenProperties DEF IInv, Types, AtWork, Uninstalling
    <3>2. 1 \in 1 .. Len(todo)
        BY <3>1
    <3>3. \A x \in NeededBy(todo[1]) : \E j \in 1 .. (1 - 1) : todo[j] = x
        BY <2>2, <3>2 DEF FInv, Turn, Uninstalling
    <3> QED BY <3>1, <3>3
  <2> QED BY <2>1, <2>2 DEF FollowsExactly
<1> QED BY <1>1, InitFollowing, StepFollowing, Invariance, PTL DEF Spec
=============================================================================
