--------------------------- MODULE PortLifecycle ---------------------------
(***************************************************************************)
(* Installing and uninstalling: the entry of a port in the registry, its   *)
(* archive (the image file), and the copies of its Portfile and portgroups *)
(* that the registry directory keeps, shared between entries               *)
(* (port1.0/portinstall.tcl, install_main; registry2.0/portuninstall.tcl,  *)
(* uninstall). An uninstall may take the dependents or the dependencies    *)
(* of the port with it.                                                    *)
(*                                                                         *)
(* The registry lock lets one command run at a time (module RegistryLock), *)
(* which may fail or be killed between any two steps. Activation is one    *)
(* step here (module PortImage). A port is a name with a version and       *)
(* variants; dependencies are names.                                       *)
(***************************************************************************)
EXTENDS Integers, FiniteSets, SequencesExt

CONSTANTS
    Port,         \* the ports: a name with version, revision and variants
    Name,         \* the name of each port
    Graphs,       \* what names may depend on, at run time: sets of functions
    BuildGraphs,  \* and what to fetch, extract, build or test them
    Hash,         \* the contents of each Portfile
    Dir,          \* the directory of its copy: name, version and revision
    Groups,       \* the portgroups each port uses, by contents
    Options,      \* the sets of options an uninstall is called with
    MaxCommands   \* bound: commands in a behaviour

Names == {Name[p] : p \in Port}
File(p) == <<Dir[p], Hash[p]>>

ASSUME ConstantsOK ==
    /\ IsFiniteSet(Port)
    /\ Graphs \subseteq [Names -> SUBSET Names]
    /\ BuildGraphs \subseteq [Names -> SUBSET Names]
    /\ \A f \in Graphs \cup BuildGraphs : \A n \in Names : n \notin f[n]
    /\ Options \subseteq SUBSET {"dependents", "dependencies", "force"}
    /\ MaxCommands \in Nat

VARIABLES
    depends,   \* the library and run-time dependencies of each name, in the registry
    builds,    \* those of its stored Portfile that the registry does not have
    entries,   \* the registry entries
    active,    \* those that are active
    requested, \* those the user asked for
    images,    \* ports whose image file exists
    portfiles, \* the copies of Portfiles in the registry directory
    groups,    \* the copies of portgroups
    commands,  \* bound: the commands begun
    pc,        \* the step of the command, or "idle"
    opts,      \* options of an uninstall
    todo,      \* the ports to uninstall, the current one first
    alldeps,   \* names found by following dependencies, then left to look at
    uports,    \* the dependencies to uninstall
    before,    \* history: the entries when the following began
    asked,     \* history: the port the command named
    cut,       \* history: an entry whose uninstall stopped after its image was deleted
    forced,    \* history: an uninstall was forced
    rough      \* history: a command stopped between two changes

disk == <<images, portfiles, groups>>
registry == <<entries, active, requested>>
local == <<pc, opts, todo, alldeps, uports>>
history == <<before, asked, cut, forced, rough>>
vars == <<depends, builds, registry, disk, commands, local, history>>

(* Mutant: only active dependents count.                                  *)
NeededByActive(p) == {d \in active : Name[p] \in depends[Name[d]]}

(* The dependents of a port, by name.                                      *)
NeededBy(p) == {d \in entries : Name[p] \in depends[Name[d]]}
Satisfied(S) == \A p \in S : \A n \in depends[Name[p]] : \E d \in S : Name[d] = n

(* Any registry that installs could have built.                            *)
Init ==
    /\ depends \in Graphs
    /\ builds \in BuildGraphs
    /\ entries \in {S \in SUBSET Port : Satisfied(S)}
    /\ active \in {S \in SUBSET entries : \A p, q \in S : Name[p] = Name[q] => p = q}
    /\ requested \in SUBSET entries
    /\ images = entries
    /\ portfiles = {File(p) : p \in entries}
    /\ groups = UNION {Groups[p] : p \in entries}
    /\ commands = 0
    /\ pc = "idle"
    /\ opts = {}
    /\ todo = <<>> /\ alldeps = <<>> /\ uports = <<>>
    /\ before = {} /\ asked = {} /\ cut = {} /\ forced = FALSE /\ rough = FALSE

Begin(first) ==
    /\ pc = "idle" /\ commands < MaxCommands
    /\ commands' = commands + 1
    /\ pc' = first

(* The command ends.                                                       *)
End ==
    /\ pc' = "idle" /\ opts' = {} /\ todo' = <<>> /\ alldeps' = <<>> /\ uports' = <<>>
    /\ before' = {} /\ asked' = {}

-----------------------------------------------------------------------------
(* Installing. The dependencies are there (mportexec), the port is not     *)
(* (eval_targets).                                                         *)
BeginInstall(p) ==
    /\ p \notin entries
    /\ Satisfied(entries \cup {p})
    /\ Begin("archive")
    /\ todo' = <<p>>
    /\ UNCHANGED <<depends, builds, registry, disk, opts, alldeps, uports, history>>

(* The archive is moved into place, or made from the destroot.             *)
Archive ==
    /\ pc = "archive"
    /\ images' = images \cup {Head(todo)}
    /\ pc' = "portfile"
    /\ UNCHANGED <<depends, builds, registry, portfiles, groups, commands, opts, todo, alldeps, uports,
                   history>>

(* In the write transaction: the entry is created, the Portfile copied     *)
(* unless it is there,                                                     *)
StorePortfile ==
    /\ pc = "portfile"
    /\ portfiles' = portfiles \cup {File(Head(todo))}
    /\ pc' = "groups"
    /\ UNCHANGED <<depends, builds, registry, images, groups, commands, opts, todo, alldeps, uports,
                   history>>

(* the portgroups,                                                         *)
StoreGroups ==
    /\ pc = "groups"
    /\ groups' = groups \cup Groups[Head(todo)]
    /\ pc' = "commit"
    /\ UNCHANGED <<depends, builds, registry, images, portfiles, commands, opts, todo, alldeps, uports,
                   history>>

(* and the transaction is committed.                                       *)
Commit ==
    /\ pc = "commit"
    /\ entries' = entries \cup {Head(todo)}
    /\ requested' \in {requested, requested \cup {Head(todo)}}
    /\ End
    /\ UNCHANGED <<depends, builds, active, disk, commands, cut, forced, rough>>

(* portimage::activate: needs the image, deactivates another version.      *)
Activate(p) ==
    /\ p \in entries \ active
    /\ p \in images
    /\ Begin("idle")
    /\ active' = {q \in active : Name[q] # Name[p]} \cup {p}
    /\ UNCHANGED <<depends, builds, entries, requested, disk, opts, todo, alldeps, uports, history>>

-----------------------------------------------------------------------------
(* Uninstalling.                                                           *)
BeginUninstall(p, o) ==
    /\ p \in entries
    /\ Begin("check")
    /\ opts' = o /\ todo' = <<p>> /\ asked' = {p}
    /\ UNCHANGED <<depends, builds, registry, disk, alldeps, uports, before, cut, forced, rough>>

(* With --follow-dependents, they are uninstalled first, theirs before.    *)
FollowDependents ==
    /\ pc = "check" /\ "dependents" \in opts
    /\ \E d \in NeededBy(Head(todo)) : todo' = <<d>> \o todo
    /\ UNCHANGED <<depends, builds, registry, disk, commands, pc, opts, alldeps, uports, history>>

(* check_dependents: a port that is not active may go while another        *)
(* version of it is installed.                                             *)
MayUninstall(p) ==
    \/ NeededBy(p) = {}
    \/ p \notin active /\ \E q \in entries \ {p} : Name[q] = Name[p]
    \/ "force" \in opts

(* The dependents checked, the port is deactivated.                        *)
Check ==
    /\ pc = "check"
    /\ IF "dependents" \in opts THEN NeededBy(Head(todo)) = {} ELSE MayUninstall(Head(todo))
    /\ forced' = (forced \/ "force" \in opts)
    /\ active' = active \ {Head(todo)}
    /\ pc' = "image"
    /\ UNCHANGED <<depends, builds, entries, requested, disk, commands, opts, todo, alldeps, uports,
                   before, asked, cut, rough>>

(* generate_deplist: what the stored Portfile names, and the registry.     *)
Follows(n) == depends[n] \cup builds[n]

(* The image file is deleted, its dependencies noted.                      *)
DeleteImage ==
    /\ pc = "image"
    /\ images' = images \ {Head(todo)}
    /\ cut' = cut \cup {Head(todo)}
    /\ alldeps' = IF "dependencies" \in opts /\ Len(todo) = 1 /\ uports = <<>>
                    THEN SetToSeq(Follows(Name[Head(todo)])) ELSE alldeps
    /\ pc' = "entry"
    /\ UNCHANGED <<depends, builds, registry, portfiles, groups, commands, opts, todo, uports,
                   before, asked, forced, rough>>

(* The entry is deleted in a transaction.                                  *)
DeleteEntry ==
    /\ pc = "entry"
    /\ entries' = entries \ {Head(todo)}
    /\ requested' = requested \ {Head(todo)}
    /\ cut' = cut \ {Head(todo)}
    /\ before' = IF alldeps # <<>> THEN entries \ {Head(todo)} ELSE before
    /\ pc' = "unused"
    /\ UNCHANGED <<depends, builds, active, disk, commands, opts, todo, alldeps, uports, asked, forced,
                   rough>>

(* Mutant: nobody is asked.                                                *)
UnusedAlways(p) == TRUE

(* No entry has a Portfile with these contents.                            *)
Unused(p) == \A q \in entries : Hash[q] # Hash[p]

(* Mutant: a portgroup is kept while the entry has others in use.          *)
UnusedGroupsAll(p) ==
    IF \E q \in entries : Groups[q] \cap Groups[p] # {} THEN {} ELSE Groups[p]

UnusedGroups(p) == Groups[p] \ UNION {Groups[q] : q \in entries}

(* The copies that no entry uses any more are deleted, the Portfile's      *)
DeletePortfile ==
    /\ pc = "unused"
    /\ portfiles' = IF Unused(Head(todo)) THEN portfiles \ {File(Head(todo))} ELSE portfiles
    /\ pc' = "unusedgroups"
    /\ UNCHANGED <<depends, builds, registry, images, groups, commands, opts, todo, alldeps, uports,
                   history>>

(* and the portgroups'. Then it is the turn of the port whose dependent    *)
(* this was, of the dependencies, or of nothing.                           *)
DeleteGroups ==
    /\ pc = "unusedgroups"
    /\ groups' = groups \ UnusedGroups(Head(todo))
    /\ IF Len(todo) = 1 /\ alldeps = <<>> THEN End
       ELSE /\ todo' = Tail(todo)
            /\ pc' = IF Len(todo) > 1 THEN "check" ELSE "follow"
            /\ UNCHANGED <<opts, alldeps, uports, before, asked>>
    /\ UNCHANGED <<depends, builds, registry, images, portfiles, commands, cut, forced, rough>>

(* Mutant: the dependencies of a dependency are not followed.              *)
AgainNever(found, rest) == <<>>

(* The names to look at later: those not in the rest of the list.          *)
Again(found, rest) == SetToSeq(found \ Range(rest))

(* One round of the loop over all dependencies: the entries of the name    *)
(* that were not requested and have all their dependents on the list join  *)
(* it, and their dependencies are looked at later. (That one of them joins *)
(* makes no difference to the next: no name depends on itself.)            *)
Joining ==
    {p \in entries \ (requested \cup Range(uports)) :
        Name[p] = Head(alldeps) /\ NeededBy(p) \subseteq Range(uports)}

Follow ==
    /\ pc = "follow" /\ alldeps # <<>>
    /\ uports' = uports \o SetToSeq(Joining)
    /\ alldeps' = Tail(alldeps) \o
           (IF Joining = {} THEN <<>>
            ELSE Again(Follows(Head(alldeps)), Tail(alldeps)))
    /\ UNCHANGED <<depends, builds, registry, disk, commands, pc, opts, todo, history>>

(* The list is complete: its ports are uninstalled in order, each with its *)
(* own check, and without following dependencies further.                  *)
FollowEnds ==
    /\ pc = "follow" /\ alldeps = <<>>
    /\ IF uports = <<>> THEN End
       ELSE /\ todo' = uports
            /\ opts' = opts \ {"dependencies"}
            /\ pc' = "check"
            /\ UNCHANGED <<alldeps, uports, before, asked>>
    /\ UNCHANGED <<depends, builds, registry, disk, commands, cut, forced, rough>>

-----------------------------------------------------------------------------
(* A step fails (the transaction is rolled back, the error ends the        *)
(* command), the dependents do not allow the uninstall, or the process is  *)
(* killed.                                                                 *)
Stop ==
    /\ pc # "idle"
    /\ rough' = (rough \/ pc \notin {"check", "archive", "follow"})
    /\ End
    /\ UNCHANGED <<depends, builds, registry, disk, commands, cut, forced>>

Next ==
    \/ \E p \in Port : BeginInstall(p) \/ Activate(p)
    \/ \E p \in Port, o \in Options : BeginUninstall(p, o)
    \/ Archive \/ StorePortfile \/ StoreGroups \/ Commit
    \/ FollowDependents \/ Check \/ DeleteImage \/ DeleteEntry
    \/ DeletePortfile \/ DeleteGroups \/ Follow \/ FollowEnds
    \/ Stop

Spec == Init /\ [][Next]_vars

-----------------------------------------------------------------------------
(* Wherever a command stops, every entry has the copies of its Portfile    *)
(* and portgroups, which entries share, and its image, but for an entry    *)
(* whose uninstall stopped after the image was deleted (portuninstall.tcl, *)
(* 260 before 274).                                                        *)
StoredFilesKept ==
    \A p \in entries :
        /\ p \in images \cup cut
        /\ File(p) \in portfiles
        /\ Groups[p] \subseteq groups

(* When no command stopped half-way, nothing is left of what is not        *)
(* installed, but the copy of a Portfile whose contents another directory  *)
(* holds too (subports: the search is by contents, the copy by port).      *)
NoResidue ==
    pc = "idle" /\ ~rough =>
        /\ images = entries
        /\ groups = UNION {Groups[p] : p \in entries}
        /\ \A p \in Port : File(p) \in portfiles =>
              \/ \E q \in entries : File(q) = File(p)
              \/ \E q \in Port : Hash[q] = Hash[p] /\ Dir[q] # Dir[p]

(* Unless an uninstall was forced, what an entry depends on is installed,  *)
(* in one version or another, at every step.                               *)
DependenciesKept == ~forced => Satisfied(entries)

(* What --follow-dependencies should remove: entries that were not         *)
(* requested and that only removed ones need at run time, found from the   *)
(* dependencies of every type of the port and of those removed. It is the  *)
(* least set that has every entry it gives a reason to remove.             *)
Reason(S) ==
    {p \in before \ requested :
        /\ \E q \in asked \cup S : Name[p] \in Follows(Name[q])
        /\ {d \in before : Name[p] \in depends[Name[d]]} \subseteq S}

Removable == {p \in before : \A S \in SUBSET before : Reason(S) \subseteq S => p \in S}

(* The loop finds exactly those, whatever the order of the names, and puts *)
(* them in an order in which each may go when its turn comes.              *)
FollowsExactly ==
    /\ pc = "follow" /\ alldeps = <<>> => Range(uports) = Removable
    /\ pc = "check" /\ uports # <<>> => NeededBy(Head(todo)) = {}
=============================================================================
