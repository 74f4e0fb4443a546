------------------------------ MODULE Upgrade ------------------------------
(***************************************************************************)
(* The upgrade of one installed port (macports.tcl, _upgrade): which       *)
(* installed version is the latest, whether the version of the ports tree  *)
(* is newer or another reason calls for a rebuild, and the steps that      *)
(* build, uninstall, deactivate and activate. Versions are compared by     *)
(* vercmp, in Tcl and in the registry database; what it computes is in     *)
(* module Vercomp, and here it is a parameter, beside the order of         *)
(* versions that it is to agree with.                                      *)
(*                                                                         *)
(* The run holds the registry lock throughout. What the dependencies and   *)
(* the dependents of the port do in their own upgrades is left out, but    *)
(* that they may fail; so are dry runs.                                    *)
(***************************************************************************)
EXTENDS Integers, Sequences, FiniteSets, SequencesExt

CONSTANTS
    Port,               \* the port that is upgraded
    None,               \* no entry
    Cases,              \* what may be installed, in the tree and asked for
    vercmp(_, _),       \* the comparison of two versions
    NewerThan(_, _),    \* the order of versions,
    SameAs(_, _),       \* its equality, and
    ComparableTo(_, _)  \* where it is to be what vercmp computes

(* list: what registry::installed returns; others: entries of the port     *)
(* that replaces this one; active: the active entries; tree: the entry the *)
(* ports tree would give; opts: the options, and "platform" when the entry *)
(* was built for another system.                                           *)
Involved(c) == Range(c.list) \cup c.others \cup {c.tree}

ASSUME CasesOK ==
    \A c \in Cases :
        /\ c.list # <<>> /\ c.list \in Seq(Range(c.list))
        /\ \A e \in Range(c.list) : e.name = Port
        /\ c.tree.name = Port => c.others = {}
        /\ \A e \in c.others : e.name = c.tree.name
        /\ c.active \subseteq Range(c.list) \cup c.others
        /\ \A e, f \in c.active : e.name = f.name => e = f
        /\ c.opts \subseteq {"force", "enforce", "platform", "revupgrade", "second",
                             "uninstall_old", "do_dependents", "nodeps", "processall"}
        /\ None \notin Involved(c)
        /\ \A e \in Involved(c) :
              /\ e.epoch \in Nat /\ e.revision \in Nat
              /\ vercmp(e.version, e.version) = 0

VARIABLES
    case,           \* the case, fixed
    entries,        \* the registry entries of the port and its replacement
    active,         \* those that are active
    ready,          \* the tree's version is built, or its archive fetched
    latest,         \* version_installed, ...: the entry found to be the latest
    anyactive,      \* the active entry the procedure knows of, or None
    will_install,
    build_override, \* rebuild although the version is installed
    already,        \* already_installed
    rest,           \* the entries of the list that the loop has still to look at
    unnoticed,      \* history: the activation failed, and nothing looked
    step            \* where the procedure is

scanned == <<latest, anyactive>>
plan == <<will_install, build_override, already>>
progress == <<case, entries, active, ready, scanned, plan, rest, unnoticed, step>>

tree == case.tree
opts == case.opts
Replaced == tree.name # Port

UpgradeInit ==
    /\ case \in Cases
    /\ entries = Range(case.list) \cup case.others
    /\ active = case.active
    /\ ready = FALSE
    /\ latest = None
    /\ anyactive = None
    /\ will_install = FALSE
    /\ build_override = FALSE
    /\ already = FALSE
    /\ rest = case.list
    /\ unnoticed = FALSE
    /\ step = "scan"

-----------------------------------------------------------------------------
(* The condition under which an installed entry displaces the latest.      *)
Later(e, l) ==
    \/ e.epoch > l.epoch /\ e.version # l.version
    \/ e.epoch >= l.epoch /\ vercmp(e.version, l.version) > 0
    \/ /\ e.epoch >= l.epoch /\ vercmp(e.version, l.version) = 0
       /\ e.revision > l.revision

(* The loop over the installed versions.                                   *)
Scan ==
    /\ step = "scan" /\ rest # <<>>
    /\ LET i == Head(rest)
       IN  /\ latest' = IF latest = None \/ Later(i, latest) THEN i ELSE latest
           /\ anyactive' = IF i \in active THEN i ELSE anyactive
    /\ rest' = Tail(rest)
    /\ UNCHANGED <<case, entries, active, ready, plan, unnoticed, step>>

ActiveEntry(name) ==
    IF \E e \in active : e.name = name THEN CHOOSE e \in active : e.name = name ELSE None

(* The variants of the entry that is upgraded.                             *)
OldVariants == IF anyactive # None THEN anyactive.variants ELSE latest.variants

(* Mutant: the revision is not compared.                                   *)
UpToDateByVersion == vercmp(latest.version, tree.version) >= 0

UpToDate ==
    LET c == vercmp(latest.version, tree.version)
    IN  c > 0 \/ (c = 0 /\ latest.revision >= tree.revision)

EpochOverride == latest.epoch < tree.epoch /\ latest.version # tree.version
Enforced == "enforce" \in opts /\ tree.variants # OldVariants

BuildOverride ==
    /\ UpToDate /\ "force" \notin opts /\ ~Replaced
    /\ EpochOverride \/ (~Enforced /\ opts \cap {"platform", "second"} # {})

WillInstall ==
    \/ ~UpToDate \/ Replaced \/ EpochOverride \/ Enforced
    \/ opts \cap {"force", "platform", "second", "revupgrade"} # {}

(* What the database takes for the same entry (epoch aside), and what Tcl  *)
(* does: the version column is compared by vercmp, strings are not.        *)
SameKey(e, f) ==
    /\ e.name = f.name /\ e.revision = f.revision /\ e.variants = f.variants
    /\ vercmp(e.version, f.version) = 0
SameText(e, f) == SameKey(e, f) /\ e.version = f.version

Registered == {e \in entries : SameKey(e, tree)}
Reinstall == already /\ ("force" \in opts \/ build_override)

-----------------------------------------------------------------------------
(* The port is opened and the decision taken.                              *)
Decide ==
    /\ step = "scan" /\ rest = <<>>
    /\ will_install' = WillInstall
    /\ build_override' = BuildOverride
    /\ already' = (Registered # {})
    /\ rest' = case.list
    /\ step' = IF "nodeps" \in opts THEN "decided" ELSE "deps"
    /\ UNCHANGED <<case, entries, active, ready, scanned, unnoticed>>

(* The dependencies are upgraded first.                                    *)
Dependencies ==
    /\ step = "deps"
    /\ step' = "decided"
    /\ UNCHANGED <<case, entries, active, ready, scanned, plan, rest, unnoticed>>

(* Whether to build: the plan computed above, as the variables were.       *)
Branch(build, later, nothing) ==
    IF ~will_install THEN nothing ELSE IF Reinstall \/ ~already THEN build ELSE later

(* Mutant: a rebuild uninstalls before it has something to install.        *)
ProceedUnbuilt ==
    /\ step = "decided"
    /\ step' = IF will_install /\ Reinstall THEN "remove" ELSE Branch("build", "replace", "nothing")
    /\ UNCHANGED <<case, entries, active, ready, scanned, plan, rest, unnoticed>>

Proceed ==
    /\ step = "decided"
    /\ step' = Branch("build", "replace", "nothing")
    /\ UNCHANGED <<case, entries, active, ready, scanned, plan, rest, unnoticed>>

(* Nothing to do for this port; its dependents are upgraded if asked for.  *)
Nothing ==
    /\ step = "nothing"
    /\ step' = "done"
    /\ UNCHANGED <<case, entries, active, ready, scanned, plan, rest, unnoticed>>

(* The forced case: archivefetch, then destroot.                           *)
Build ==
    /\ step = "build" /\ Reinstall
    /\ ready' = TRUE
    /\ step' = "remove"
    /\ UNCHANGED <<case, entries, active, scanned, plan, rest, unnoticed>>

(* The normal case: the version is installed, but not activated.           *)
Install ==
    /\ step = "build" /\ ~Reinstall
    /\ entries' = entries \cup {tree}
    /\ step' = "replace"
    /\ UNCHANGED <<case, active, ready, scanned, plan, rest, unnoticed>>

(* The existing version is uninstalled, deactivated first. Its epoch is    *)
(* looked up by text, which raises an error if it is not there.            *)
Deactivate(e, next) ==
    /\ active' = active \ {e}
    /\ step' = next
    /\ UNCHANGED <<case, entries, ready, scanned, plan, rest, unnoticed>>

DeactivateExisting ==
    /\ step = "remove"
    /\ \E e \in Registered \cap active : SameText(e, tree) /\ Deactivate(e, "remove")

UninstallExisting ==
    /\ step = "remove"
    /\ \E e \in Registered \ active :
           /\ SameText(e, tree)
           /\ entries' = entries \ {e}
           /\ anyactive' = IF anyactive = e /\ ~Replaced THEN None ELSE anyactive
    /\ step' = "replace"
    /\ UNCHANGED <<case, active, ready, latest, plan, rest, unnoticed>>

(* The port that is replaced is deactivated.                               *)
Replace ==
    /\ step = "replace"
    /\ IF anyactive # None /\ Replaced
         THEN active' = active \ {anyactive} /\ anyactive' = None
         ELSE UNCHANGED <<active, anyactive>>
    /\ step' = "activate"
    /\ UNCHANGED <<case, entries, ready, latest, plan, rest, unnoticed>>

(* mportexec activate: the install target, unless the version is there;    *)
InstallReady ==
    /\ step = "activate" /\ Registered = {}
    /\ entries' = entries \cup {tree}
    /\ UNCHANGED <<case, active, ready, scanned, plan, rest, step, unnoticed>>

(* another active version of the port is deactivated;                      *)
DeactivateOther ==
    /\ step = "activate" /\ Registered # {} /\ Registered \cap active = {}
    /\ \E e \in active : e.name = tree.name /\ Deactivate(e, "activate")

Activated == step' = IF "do_dependents" \in opts THEN "dependents" ELSE "old"

(* the version is activated, unless it is active.                          *)
Activate ==
    /\ step = "activate" /\ Registered # {}
    /\ ActiveEntry(tree.name) = None \/ Registered \cap active # {}
    /\ \E e \in Registered :
           active' = IF Registered \cap active = {} THEN active \cup {e} ELSE active
    /\ Activated
    /\ UNCHANGED <<case, entries, ready, scanned, plan, rest, unnoticed>>

(* A target of the activation fails: mportexec says so in its result, which *)
(* is not looked at.                                                       *)
ActivateFails ==
    /\ step = "activate"
    /\ unnoticed' = TRUE
    /\ Activated
    /\ UNCHANGED <<case, entries, active, ready, scanned, plan, rest>>

Dependents ==
    /\ step = "dependents"
    /\ step' = "old"
    /\ UNCHANGED <<case, entries, active, ready, scanned, plan, rest, unnoticed>>

(* Mutant: the version of the tree is not spared.                          *)
SparedNone(e) == FALSE

Spared(e) ==
    /\ ~Replaced
    /\ e.version = tree.version /\ e.revision = tree.revision /\ e.variants = tree.variants

(* The dependents of an active or only version may forbid to uninstall it. *)
Needed(found) == found \cap active # {} \/ {e \in entries : e.name = Port} = found

(* uninstall_later: the other versions of the list are uninstalled; one    *)
(* that is needed is passed over. With -p so is any other that fails to    *)
(* be uninstalled, which may have been deactivated by then.                *)
UninstallOld ==
    /\ step = "old"
    /\ "uninstall_old" \in opts /\ ~Replaced /\ rest # <<>>
    /\ LET i == Head(rest)
           found == {e \in entries : SameKey(e, i) /\ e.epoch = i.epoch}
       IN  \/ /\ Spared(i) \/ (found # {} /\ Needed(found))
              /\ UNCHANGED <<entries, active>>
           \/ /\ ~Spared(i) /\ found # {}
              /\ entries' = entries \ found
              /\ active' = active \ found
           \/ /\ ~Spared(i) /\ found # {} /\ "processall" \in opts
              /\ active' \in {active, active \ found}
              /\ UNCHANGED entries
    /\ rest' = Tail(rest)
    /\ UNCHANGED <<case, ready, scanned, plan, step, unnoticed>>

Finish ==
    /\ step = "old"
    /\ "uninstall_old" \in opts /\ ~Replaced => rest = <<>>
    /\ step' = "done"
    /\ UNCHANGED <<case, entries, active, ready, scanned, plan, rest, unnoticed>>

(* The step at hand fails, or the process is killed, between two changes.  *)
Fail ==
    /\ step \notin {"done", "failed"}
    /\ step' = "failed"
    /\ UNCHANGED <<case, entries, active, ready, scanned, plan, rest, unnoticed>>

UpgradeNext ==
    \/ Scan \/ Decide \/ Dependencies \/ Proceed \/ Nothing \/ Build \/ Install
    \/ DeactivateExisting \/ UninstallExisting \/ Replace
    \/ InstallReady \/ DeactivateOther \/ Activate \/ ActivateFails \/ Dependents
    \/ UninstallOld \/ Finish \/ Fail

UpgradeSpec == UpgradeInit /\ [][UpgradeNext]_progress

-----------------------------------------------------------------------------
(* e is newer than f, by the reference order of versions.                  *)
NewerEntry(e, f) ==
    \/ e.epoch > f.epoch
    \/ e.epoch = f.epoch /\ NewerThan(e.version, f.version)
    \/ e.epoch = f.epoch /\ SameAs(e.version, f.version) /\ e.revision > f.revision

(* The precondition of what follows. Of the versions installed and in the  *)
(* tree, each two can be compared, and one that is written differently is  *)
(* different; a version keeps its epoch.                                   *)
OrderedIn(c) ==
    \A e, f \in Involved(c) :
        /\ ComparableTo(e.version, f.version)
        /\ SameAs(e.version, f.version) => e.version = f.version /\ e.epoch = f.epoch
Ordered == OrderedIn(case)

(* vercmp computes the order of versions.                                  *)
Agree(v, w) ==
    /\ vercmp(v, w) > 0 <=> NewerThan(v, w)
    /\ vercmp(v, w) = 0 <=> SameAs(v, w)

(* No installed version is newer than the one found to be the latest, in   *)
(* whichever order the registry returns them, and vercmp agrees with the   *)
(* comparison of segments on it and the tree's (macports.tcl, "find latest *)
(* version installed").                                                    *)
NewestChosen ==
    step = "decided" /\ Ordered =>
        /\ \A e \in Range(case.list) : ~NewerEntry(e, latest)
        /\ Agree(latest.version, tree.version) /\ Agree(tree.version, latest.version)

(* Without a further reason, an upgrade that succeeds has activated the    *)
(* version of the tree if that is newer than all that is installed, and    *)
(* has otherwise changed nothing (an unnoticed failure aside).             *)
UpgradesWhenNewer ==
    LET newer == \A e \in Range(case.list) : NewerEntry(tree, e)
    IN  /\ step = "done" /\ ~unnoticed /\ ~Replaced /\ opts \subseteq {"uninstall_old", "nodeps"}
        /\ Ordered /\ \A e \in Range(case.list) : tree.epoch >= e.epoch
        => IF newer THEN active = {tree}
           ELSE entries = Range(case.list) /\ active = case.active

(* An active version is given up only once what takes its place is built   *)
(* or registered, wherever the upgrade fails (macports.tcl: "ensures that  *)
(* we have the new copy ready but not yet installed, so we can safely      *)
(* uninstall the existing one").                                           *)
ReplacementReady ==
    [][~(active \subseteq active') /\ Ordered => ready \/ Registered # {}]_active

(* When an upgrade that had something to do succeeds, the version of the   *)
(* tree is active, and with -u it is the only one left of its port; unless *)
(* the activation failed unnoticed (macports.tcl 4053). With -p, old       *)
(* versions that could not be uninstalled are left (4110), and nothing is  *)
(* said of them.                                                           *)
EndsCurrent ==
    step = "done" /\ will_install /\ ~unnoticed /\ Ordered =>
        /\ \E e \in active : SameText(e, tree)
        /\ "uninstall_old" \in opts /\ "processall" \notin opts /\ ~Replaced =>
               \A e \in entries : SameText(e, tree)
=============================================================================
