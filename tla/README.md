# TLA+ models of MacPorts base

This directory holds TLA+ specifications of the parts of MacPorts base
(`base/src`) that keep state, run concurrently or have to recover from
failures, the TLC configurations that check them on small instances, and
TLAPS proofs of the most important properties for every instance. The ports
tree (`dports`), the web site and the guides are data to these programs and are
not part of the model. Source paths below are relative to `base/src`.

    tlc -workers 2 -config reglock.cfg MCRegistryLock   # one run
    tlapm Commands_proofs.tla                                  # one set of proofs

`PROJECT.json` lists every run, the properties it checks, the mutants that show
each property can fail, and the source lines each definition stands for.

## Inventory

| Component | State it keeps | Operations | What is hard | What makes it correct |
|---|---|---|---|---|
| Registry lock (`registry2.0/registry.tcl`, `pextlib1.0/adv-flock.c`) | a counter and a file descriptor per process, the flock | `exclusive_lock`, `exclusive_unlock` | re-entrancy, signals during the wait, file systems without locks | the counter matches the regions in progress; regions exclude each other; waiters are served |
| `port` command loop (`port/port.tcl`) | the current action, interactive or batch | `process_cmd`, `lock_reg_if_needed`, the action procedures | error paths that leave the loop between lock and unlock | whoever changes the registry holds the lock; an idle shell does not |
| mport library (`macports1.0/macports.tcl`) | open mports, their worker interpreters | `mportopen`, `mportdepends`, `mportexec`, upgrade | recursion through dependencies under the lock, early returns | dependencies are active before a target runs |
| Dependency lists (`macports1.0/macports_dlist.tcl`) | a list of items and the status of tokens | `dlist_eval`, `dlist_get_next`, `dlist_append_dependents` | soft dependencies, cycles, several providers of a token, failures | order respects dependencies; nothing that could run is left |
| Port images (`registry2.0/portimage.tcl`, `registry_util.tcl`) | files in the prefix, the registry's active files, `portimage::force` | `activate`, `deactivate`, the rollback of a failed activation | file system and database change step by step; signals, crashes, failing renames and commits; forced activation over other ports' files | disk and registry agree, nothing is lost, one owner of a path, one active version |
| Registry database (`cregistry/*.c`, `registry2.0/*.c`) | entries, files, dependencies, the schema version; handle caches | transactions, `reg_entry_*`, `update_db` | busy retries, a failed commit, creation and upgrades of the schema by two processes, kills in between | the schema is the one its version names; no entry is lost; caches match rows |
| Targets and the state file (`port1.0/portutil.tcl`, `portclean.tcl`) | the work directory and its state file, flock on it | `open_statefile`, `check_variants`, `target_run`, `clean` | the file is compared before it is locked, and deleted while others wait for it; crashes | no target is run on the work of other inputs; one process at a time per state file |
| Install and uninstall (`port1.0/portinstall.tcl`, `registry2.0/portuninstall.tcl`) | image files, entries, stored copies of Portfiles and portgroups | `install_main`, `uninstall` | steps on disk and in the registry that can part; copies shared between entries; dependents and dependencies that follow | an entry has what it needs; nothing else is left |
| Upgrade (`macports1.0/macports.tcl`) | which versions are installed and active | `_upgrade` | epochs, forced rebuilds, replaced ports, failures half-way | the newest version ends up active; nothing is removed before its replacement is ready |
| reclaim (`macports1.0/reclaim.tcl`) | none of its own | deletes distfiles, uninstalls leaves | no lock | not modelled |
| Version comparison (`cregistry/vercomp.c`, `pextlib1.0/vercomp.c`) | none | `vercmp` | mixed digits, letters and separators, leading zeros | agrees with the comparison of segments |
| Trace mode (`pextlib1.0/tracelib.c`, `port1.0/porttrace.tcl`, `darwintracelib1.0`) | statics shared by all sessions, a server thread per session, a connection per process | open and close a session, serve requests | threads, teardown while clients wait, targets that call targets | data are freed after the loop; requests are answered by the right bounds; nobody waits for ever |
| daemondo (`programs/daemondo/main.c`) | the process it tracks, its pid file, a timer | start, stop, restart, signals, deaths, notifications | signals queue while a child is awaited; a death is reported twice; a timer meets a stop | one daemon at a time, an exact pid file, every request acted on |
| Build phases (`port1.0/port*.tcl`) | files in the work directory | fetch ... install | external programs | each is one target of the state file |
| Packages, archives (`package1.0`) | none of their own | pkg, mpkg, dmg, archivefetch, unarchive | rewrite the state file; take two locks | no lock cycle |
| Maintainer commands, self-update, extensions, bindings | none that matters | lint, livecheck, diagnose, portindex, digests, wrappers | none | not modelled |

**How they interact.** `process_cmd` takes the registry lock for some actions
and calls the action; the action calls `mportexec`, which takes the lock again
(nested) to install dependencies through `dlist_eval`, whose handler is
`_mportexec activate` for each of them. Each `mportexec` evaluates its own
targets through `dlist_eval` again, with `target_run` as the handler; `target_run`
opens and locks the state file. The `activate` target calls
`portimage::activate`, which changes the registry in transactions of sqlite and
the prefix with renames, and calls back `mportexec` (through
`registry::run_target`) to deactivate other ports.

## Modules

| Module | Models | Kind |
|---|---|---|
| `RegistryLock` | the registry lock, the command loop and `mportexec` as its users | interleaved processes, safety and liveness |
| `Commands_proofs` | about `RegistryLock` and `Upgrade` | proofs |
| `PortImage` | activation and deactivation of images with faults at every step | one process, faults, crash |
| `ActivePorts` | what the registry promises about active ports | abstract specification, implemented by `PortImage` |
| `PortImage_proofs` | also about `ActivePorts` | proofs |
| `PortLifecycle` | install, activate and uninstall over entries, images and stored copies | one command at a time, stopped anywhere |
| `PortLifecycle_proofs` | | proofs |
| `Upgrade` | the decision and the steps of one upgrade; `Vercomp` gives its order | sequential, many inputs, failures |
| `Vercomp` | `vercompare` against a reference order | pure algorithm |
| `Dlist` | `dlist_eval` with `dlist_get_next` | sequential, nondeterministic input |
| `Dlist_proofs` | | proofs |
| `DlistSelect` | the callers of `dlist_eval` and their selection by `dlist_append_dependents`; extends `Dlist`, which it implements | sequential, nondeterministic input |
| `BuildState` | the state file and work directory under several processes | interleaved processes, crashes, edits, liveness |
| `BuildState_proofs` | | proofs |
| `RegistryDb` | opening, creating, upgrading and using the registry database over sqlite's locks | interleaved connections, faults, crashes, liveness |
| `RegistryDb_proofs` | | proofs |
| `Trace` | trace sessions: `target_run`, the server threads, the traced processes | threads and processes over shared statics, liveness |
| `Trace_proofs` | | proofs |
| `Daemondo` | daemondo, its run loop, its daemon and its commands | one thread, signals and deaths at any time, liveness |
| `Daemondo_proofs` | | proofs |
| `MC...` | instances of the above for TLC | |

How they compose: `PortImage` implements `ActivePorts`, and `PortLifecycle` takes
an activation as one step of it. Both, and `Upgrade`, rest on one command at
a time, which is what `RegistryLock` gives. `RegistryDb` justifies that a
transaction is one step in the others. `Dlist` runs what `BuildState` calls a run of
targets, and `DlistSelect` runs `Dlist` on what its callers select; `Trace` is what
happens around one target.

### RegistryLock

State per process: `nlocked` and `lockfd` are the variables of `registry.tcl`;
`pc` and `at` say where the process is and who called `exclusive_lock`; `kind`
is the action, `exec` the number of `mportexec` calls inside their locked region.
`holder` is the kernel's owner of the flock; whether the file system supports it
and which processes can write the registry is chosen in `Init`. An action is
*listed* in `lock_reg_if_needed` or *other*: `lock_reg_if_needed` looks at the name
as typed, so an abbreviated name (completed only later), `archive`, `reclaim` and
`rev-upgrade` are *other* although they change the registry. The properties
speak of the regions a process locked, and say nothing of those. `InterruptLock` is a SIGINT or
SIGTERM while the lock is awaited: `adv-flock` wakes every second to raise it, and
`exclusive_lock` has no handler that would undo its increment. `abandoned` and
`leaks` are history variables used only by the properties. One case is left out:
a signal between `incr nlocked -1` and the unlock inside `exclusive_unlock`.

* `reglock` (2 processes, one an interactive shell, nesting 2, counter up to 3):
  `CounterExact` - the counter is the number of regions that will be left plus
  the increments nothing undoes, so the warning "called more often than
  exclusive_lock" is unreachable; `SectionOwnsLock`, `CleanExclusion`;
  and `WaiterServed`. Two processes are enough for one to hold and
  one to wait, and the proofs cover any number for all but the last; nesting 2
  reaches a region inside a region inside a command.
* The fairness `WaiterServed` rests on: the kernel answers `flock` and grants a free
  lock to a waiter that keeps asking; each `mportexec`, at every depth, evaluates
  a finite list and returns; an action returns; a process outside a command
  loop runs out of arguments. An interactive shell may sit at its prompt for
  ever. The property excuses a shell that kept the lock (`leaks`): a command
  that fails between `lock_reg_if_needed` and its action (`port.tcl` 4619, 4630,
  4659, 4670) leaves the loop without unlocking.
* `reglock_interrupt`: see Findings.

Deadlock is not checked: processes exit, and the bounds stop the rest.

### PortImage and ActivePorts

`db` is the committed registry, `work` what an open transaction sees, `disk` what
each path holds. `op` holds the local variables of `activate`,
`_activate_contents` and `_deactivate_contents`. Every rename, every file deletion,
every registry statement whose order matters, each commit and each step of the
rollback is an action of its own; `Faults` selects which may fail: `source` (a
source file is missing or cannot be moved, the archive cannot be extracted),
`unlink`, `commit`, `signal` (SIGINT or SIGTERM raised between two commands,
where signals are not blocked) and `crash`. Nested operations run through
`registry::run_target` and then, if that fails, directly, as in the code.
Directories are left out (shared, removed only when empty), and so are the check of
dependents and the choice of a version, which only refuse an operation.

* `image` has two scenes. In the first (four entries, with versions and a replaced
  port; forced and plain activations; files of the user in both places; missing
  sources and kills; three activations by the user and two by rollbacks) disk
  meets registry: `DiskMatchesRegistry`, `RollbackComplete`, `FilesKept`. The
  history variable `met` says when they stop being promised: after a kill,
  after an activation failed whose backups were committed, and after the faults the
  rollback has no answer to. In the second all faults happen together and the
  committed registry still implements `ActivePorts` (refinement by `active <-
  Installed(db)`, `place <- db.actual`): activations are complete or absent, one
  version of a port is active, no two entries own a path. `StateMatchesFiles` ties
  the state of an entry to its files. Every property is checked in both.
* Bounds: a port b with two files, two versions of a port that replaces b and has
  its first file, and a port that has its second. A rival that shares one file of
  two is the smallest case in which an activation can fail half-way; a second
  activation is needed for the backups of the first to matter; and a replaced port
  may lose its other file to a forced activation first. Then the rollback that
  reactivates it, forced, takes that file back from its new owner:
  `RollbackComplete` leaves this case aside (`ReplacedWhole`), for without that
  condition the run refutes it.
* Noticed while modelling, and outside of what the properties claim: the variable
  `portimage::force` is never cleared, so after one `-f` the later activations of a
  process are forced (the model has it so). The suffix of backups is in
  seconds: in the first scene two activations never fall into the same second,
  because the second one would overwrite the first one's backup (`sameSecond`
  TRUE refutes `FilesKept`); the second scene allows it. A signal between
  `_activate_file` and the note in `rollback_filelist` leaves the file on disk (add
  `"signal"` to `Faults` and drop `met` from `DiskMatchesRegistry`).

### Dlist and DlistSelect

`dlist_eval` (`Dlist`) is called with a list in some order (`Evaluate`), marks what its
test finds satisfied, then runs the handler on the item `dlist_get_next` selects, until
nothing is eligible or a handler fails. `Provides`, the graphs of hard (`requires`) and
soft (`uses`) dependencies, the list and its order are arbitrary; the handler may
succeed, fail or raise; `canfail` is either. No caller passes `canfail`; with it, a
provider that fails later overwrites the success of an earlier one with the same token.

`DlistSelect` adds where the list comes from (`caller`): all targets in the order they
have; one target and what it needs (`eval_targets`); the chosen variants, selected one
after the other into one list (`eval_variants`); or the dependencies of a port, from
which `mportexec` deletes the port itself, and of which it alone tests what is active.
The recursion of `dlist_append_dependents` is a stack of `frames`, one for each call
under way: a call adds its item unless it is there, visits the providers of all its
tokens, and returns. The code visits providers in the order of tokens and list; the
model in any order, so what it shows holds for that one. Two identical providers of two
tokens are visited once in the model; the second visit finds the item selected. An
evaluation of all that `DlistSelect` selects is one of `Dlist` (proved, see below), and
`SelectsNeeded` says that it is given exactly what the items asked for need.
The selection ends: a step adds an item, shrinks `roots` or a frame, or drops a frame.

The run `dlist` takes all graphs of three items of which two provide the same token,
every caller, every choice and order of roots: three items are enough for a chain, a
cycle and a shared provider. The list really stops at the end, so deadlock is not
checked. A comment (`macports_dlist.tcl` line 53) gives -1 as the status of a failure;
the code stores 0. Nothing tells the two apart, so the model has one value for it.
Another (lines 232-234) says that items with unmet soft dependencies "will eventually
be returned if there are no alternatives"; two items that use each other are not, and
`CompleteWhenAcyclic` and `LeftoversBlocked` are stated accordingly.

### BuildState

A process opens the state file anew for `check_variants` and for every target:
the work directory is made, the Portfile's checksum is taken, an existing file is
read and compared *without* a lock, an outdated directory is deleted entry by
entry, the file is opened or created and then locked. A file is an identity of its
own: a process can hold the lock of a file that has been deleted. Targets are
numbers run in order; what a target leaves depends on the Portfile that
`mportopen` loaded and on the variants. `Clean` takes no lock, as in the code.
`Faults` adds failing targets, kills outside and inside a deletion, and edits of
the Portfile during a run.

* `state` has three scenes. *Alone*: one process, three targets, two Portfiles, with
  or without a variant, failing targets, kills, cleans, two edits between runs:
  `OwnWork` (no target runs on work of another Portfile or other variants) and
  `CompletedHasWork` (nothing is listed whose work is gone). *Shared*: two processes
  with `-o`, so that neither discards the directory. *Contended*: two processes
  without it, one target and one edit, so that one finds the other's file outdated.
  `WorkExclusive` speaks of the last two, and under fairness `RunsEnd`, which a process
  that repeats a target that is recorded would also break. The fairness assumed is that
  processes run, targets return, and flock does not starve a waiter.
* Two processes *can* run targets in one work directory at once. One that starts while
  another is between the two flushed writes of a new state file (`portutil.tcl`
  1829-1830) reads version 2 without a checksum, takes the file for outdated (1782) and
  deletes the work directory under its creator, whose lock is then on a file that
  has no name any more; so is that of a process that waits for it. *Contended* runs this
  schedule, though ChangeLog 639-640 says "Added more locking to avoid TOCTOU errors
  when running multiple port(1) instances". `WorkExclusive` claims what is left: the
  two have different state files open, and it takes a discard (no `-o`) or a clean.
  A lock given to two holders of one file, or skipped, breaks it in *Shared*.
* What a property depends on is part of it: `Single` (one process, whose deletions are
  not killed), `Keeping` (nobody cleans or discards), `Careful` (`Single`, no edit during
  a run, neither `-f` nor `-o`) are conditions on the scene. In *Contended* a state file
  may list a target whose work the other process has deleted.
* Bounds: two files suffice for the race, as whoever creates one holds none and
  finds none. Each scene varies what its hazards need: *Contended* selects no
  variants, which take no part in it.
* Noticed, and outside of what the properties claim: a clean that is killed may
  leave the state file without the work it lists (`"interrupt"` in `Faults` refutes
  `CompletedHasWork`); a Portfile edited between `mportopen` and `open_statefile` is
  recorded with its new checksum (`"edit"`, refutes `OwnWork`); `check_variants` closes
  the file, and with it the lock, before the first target opens it again, so that
  another process may record its variants in between; a target the state file
  lists is skipped with `-f` too, which `port.1.txt` calls "ignore state file".
* `OwnWork` is not claimed for `-f` (which waives the check of variants), `-o` (which
  waives the check of the Portfile), or two processes.

`port install` also holds the registry lock, so two installs never meet here; two
`port build` or `port destroot` do. Not modelled: dry runs, file systems without
locks, `port unarchive` and `port archivefetch` rewriting the file.

### RegistryDb

Each element of `Proc` is one connection: a port process, or the trace thread's.
`db` is the committed database: the version in its metadata table, the parts of
its schema, the number of entries. `work` is the copy a transaction sees and
`lock` the state of sqlite's lock, which is modelled from how the code uses it:
readers share, one connection reserves, a commit that meets readers becomes
pending and keeps new readers out. `SQLITE_BUSY` with a retry is an action that
is not enabled; where the code gives up at once (the query of the version in
`update_db`) it is a failure. The lists of statements are those of `create_tables`
and `update_db`, one action per statement, reduced to what each does to the parts
of the schema and to the entries, which the upgrade to 1.202 copies out of a
table and back.

* `regdb` (two connections, each opened three times; every schema version, a later
  one, and no file; failing writes and kills everywhere; two entries):
  `SchemaComplete`, `EntriesKept`, `OpenFindsTables`, and under
  fairness `OpenEnds`. Three opens are enough to pass three versions while the other
  connection is at any step of one; a lock cycle needs two connections.
* The fairness: a connection keeps trying; the lock to read a newly attached file,
  or to write first, is granted if it is free infinitely often (strong fairness: a
  retry may meet a busy lock any finite number of times); a commit needs weak
  fairness only, because it keeps new readers out once it waits. Reads and
  bodies of transactions end. Nothing makes a process close.
* `OpenEnds` excuses two cases that the code does not resolve: a connection that kept its
  lock after a failed commit, and `Deadly`: an upgrade begins with a deferred
  transaction, so it reads and then waits to write, while another connection waits
  to commit until readers are gone. Both try again for ever.
* `regdb_update`: see Findings.
* Noticed, and in the model without a property against it: attaching creates
  the file empty, before its tables are committed. A process that looks for the file in
  between, or after a kill in between, takes it for an initialized registry,
  never calls `create_tables` and fails; so does every later one. Of two processes
  that both saw no file the second fails with "table already exists". The comment at
  `reg_start_read` says it takes a shared lock; `BEGIN` does not, the first query does.

Left out: a missing directory, the vacuum at close, the handles of entries in
memory, journal modes other than the default.

### PortLifecycle

A port is a name with a version and variants; `entries`, `active` and `requested` are
the registry, `images`, `portfiles` and `groups` the files the registry directory
keeps. Copies of Portfiles are kept per port and contents, copies of portgroups by
contents, so entries share them: `uninstall` deletes one after it has searched for
other users. `depends` is the library and run-time dependencies,
which the registry records and `check_dependents` asks for; `builds` is those that only the stored
Portfile names (fetch, extract, build, test). `generate_deplist`, from which
`--follow-dependencies` takes what to look at, collects both (`Follows`).
Each step that changes the disk or the registry is an action, and
`Stop` ends the command at any of them: an error, the refusal of `check_dependents`,
or a kill. Activation is the one step that `PortImage` shows it to be.

* `lifecycle`: every acyclic graph over three names for `depends`, and one edge or none for
  `builds`, four ports (two subports of one
  Portfile; two variants of one port; shared portgroups), every registry that
  installs could have built, two commands with any options. `StoredFilesKept` and
  `DependenciesKept` hold wherever a command stops. `NoResidue` says what is
  cleaned up by commands that ran to their ends. `FollowsExactly` compares the
  list that `--follow-dependencies` builds in one walk with its definition (a least
  fixed point: unrequested, found as a dependency of any type of what goes, and needed at
  run time by nothing that stays), and says that each port may go when its turn comes.
* Bounds: a chain of three names is the shortest in which a dependency is found while
  the list is walked; two commands are needed for one to meet what another left.
  `builds` takes its edge from one cycle over the names (`OneBuild`): with all graphs of
  `depends` that is every edge up to renaming, and closes mixed cycles. The proofs
  hold for any number of ports and commands and any two graphs. Initially one version of each name is
  active, and the graphs are disjoint (`MCInit`), which only makes the instance smaller.
* Noticed: the image is deleted before the entry (`portuninstall.tcl` 260 and 274), so a
  kill in between leaves an entry that cannot be activated (`cut`). Whether a
  Portfile's copy is used is asked by contents only, while the copy is stored under
  the port: of two subports with one Portfile the copy of the one uninstalled
  first stays (`NoResidue` says so).
* Left out: how an archive is made, dry runs, prompts.

### Upgrade and Vercomp

`Vercomp` walks two versions as `vercompare` does (`Walk`, `Remainder`), with digits,
letters and separators as classes of characters, and states the reference:
versions are lists of segments, numbers compare by value. `Upgrade` is `_upgrade` of
one port as the steps between which it can fail: the scan of the installed versions
(`Scan`, one entry a step), the decision, kept in variables of the code's names
(`will_install`, `build_override`), and what it does. Its inputs (`Cases`) are what is
installed, in which order the registry lists it, what is active, what the ports tree
has, and the options. The comparison (`vercmp`) and the order of versions
(`NewerThan`, `SameAs`, `ComparableTo`) are parameters; `upgrade.cfg` gives them
those of `Vercomp`, so the run checks the code's comparison against the reference, and the
proofs do not depend on how versions are written.

* `upgrade`: all pairs of versions of up to three characters over two digits, a
  letter and a separator, and shorter ones over more; lists of one to three of six
  entries (two revisions, a variant, a later epoch) in every order with every
  reason to upgrade; replaced ports, whose replacement may be installed. Three
  characters are the shortest in which leading zeros, a separator and a second
  segment meet.
* `NewestChosen` (the latest version of the list is found in any order, and `vercmp`
  agrees with the reference on it and the tree's, in both directions, which with lists
  of one is every pair of versions), `UpgradesWhenNewer`, `EndsCurrent`, and `ReplacementReady`: an
  active version is given up only when its replacement is built or registered, which
  is what the comment in `_upgrade` promises, at every failing step.
* These hold for versions that `vercmp` and the text agree on (`Ordered`), of all
  entries involved, those of the replacement included. Without it even
  `ReplacementReady` fails: where the tree has `01` and `1` is installed, the database
  takes one for the other and `_upgrade` does not, so a rev-upgrade with `-u` finds the
  version registered, uninstalls it as an old one, and then the active one.
  `vercompare` takes `1a` and `1ab` for equal, against its own comment at 142-145, and a
  trailing separator breaks antisymmetry (`Comparable` excludes both);
  `cregistry/vercomp.c`, which takes lengths, compares `ptrA` with `endB` in line 82
  where `endA` is meant. Versions that are equal by `vercmp` but
  written differently are one row in the database and two versions for `_upgrade`;
  the scan for the latest depends on the order when one version is
  installed with two epochs.
* `macports.tcl` 4053 stores the result of `mportexec activate` and does not look at it.
  If a target of the activation fails, the upgrade goes on and succeeds; with `-u` it
  then uninstalls the version that is still active, although `port.1` line 493 describes
  the option as "Uninstall inactive ports when upgrading and uninstalling". In the
  model this is `ActivateFails`, which sets `unnoticed`; `EndsCurrent` and
  `UpgradesWhenNewer` leave it aside, and fail without that exception.
* With `-p` (`ports_processall`) the loop of `-u` passes over an old version that it cannot
  uninstall, which may have been deactivated by then, and the upgrade succeeds
  (4110). `UninstallOld` has this case, the run has the option, and `EndsCurrent` claims
  that nothing else is left without `-p` only.
* Left out: the upgrades of dependencies and dependents (one step each, which may
  fail), a port that is not installed, dry runs.

### Trace

`target_run` opens a session for each target in trace mode: a socket, a thread
that serves it (`tracelib run`), and the environment by which the processes of the
target find it. The server keeps its data in static variables of the process
(`sock`, `name`, `kq`, `selfpipe`, `sandbox`, `fence`, `depends`: the number of the
session each belongs to, 0 for none), while each interpreter has its own
`porttrace::thread`. `stack` is the calls of `target_run`; a target may call another one
of the same or of another port. A traced process connects, sends a request in two
writes, waits, may be killed in between, and may outlive its target.

* `trace`: four plans (a fenced target before one that is not; an uninstall, which
  calls a deactivate of another port, before a build; and after it; and a traced
  deactivate), two sessions,
  two processes of which one is waited for, two requests each, with and without
  `LOCAL_PEERPID`, failing pre-run procedures, failing `kqueue` and `accept`, spurious
  wake-ups.
* `CleanAfterLoop`: the loop's data are not freed under it. `RightBounds`: what a process
  was told was about its own target, although the statics outlive the session
  and the process may, too. `OneTraceThread`: sessions do not overlap, which is what
  the comment at `portutil.tcl` 1419-1422 is worried about. `SessionEnds` and
  `NoneWaitsForEver`, under fairness: threads run, processes finish their writes, the
  processes a procedure waits for end. A server that has failed is excused
  (`failed`): it leaves a listening socket that nobody serves.
* One call of a target does nest a session in another: a traced `deactivate` of a port with
  `startupitem.autostart` runs `eval_targets "unload"` inside its procedure
  (`portdeactivate.tcl` 62-66), against the comment at 1419, which excludes
  `uninstall` only. The plans contain it, and the history variable `nested`
  records the call. No property claims anything from then on: without that condition
  `OneTraceThread` fails. What `OneTraceThread` checks is that nothing else
  nests two sessions, and that no teardown, failed or interrupted, lets one survive
  into the next. Of two nested loops only the one whose queue `kq` names is
  described further.
* Two sessions are enough for one to inherit the statics of the other.
* Noticed: a pre-run procedure that fails runs the teardown of a session that was never
  opened (1406-1412, 1524), where `slave_send` raises an error of its own.
  `pthread_cond_wait` is not in a loop; a spurious wake-up is harmless
  only because the next call is a `slave_send`, which waits for the thread. Without
  `LOCAL_PEERPID` the connections left are not closed. At the end of a stream,
  messages not read yet are dropped. A SIGKILL goes to a pid that may be another
  process by then.
* Left out: which paths the sandbox and the dependencies allow, and the wrapped system
  calls of `darwintracelib1.0`.

### Daemondo

daemondo is one thread: `pc` is where it is, in the run loop, waiting for a child (in a
mode of the loop that serves only SIGCHLD and the kqueue), polling a pid file.
`signals`, `chld` and `events` are what the two Mach ports and the kqueue hold.
The daemon's processes, the commands and the pid file are the environment: a
daemon may die, ignore SIGTERM, be slow to write its pid; a command may fail to
start one. `config` is the command line, in the styles and combinations that
`portstartupitem.tcl` writes and the help text explains.

* `daemondo` (three processes over time, two signals while the port holds one, one
  notification): `OneDaemon`, `PidFileExact`, `TermEnds`, `DeathNoticed`, `RestartHonoured`.
  A port of one message fills with two signals, as one of five does with six;
  three processes are a daemon, its successor and one started by a command that
  failed to stop the other.
* Fairness: daemondo runs, polls and waits end by their timeouts (so SIGKILL
  follows SIGTERM), timers fire. Nothing is assumed of daemons and commands.
* The properties name their exceptions: `stuck` (the handler sends to a full port
  without a timeout, on the only thread that could empty it), `lost` (a command of
  the user failed or was given up), `missed` (a process that is not a child died
  between the check of its pid file and the registration of its kevent).
* Noticed: with a pid file and no stop-cmd, `wait4` on a process that is no child
  returns at once, so `Stop` neither waits nor kills. `Restart` starts again whatever
  `Stop` returned. A timer's restart whose `Start` fails leaves daemondo idle in its
  run loop, tracking nothing. A restart-cmd changes the process behind
  `runningPid`.
* Left out: option parsing, and how notifications are registered (each is one kind
  of `Notice`).

## Proofs

Each proof module proves that its `IInv` is inductive (`Invariance`) and that `IInv`
implies the properties; TLC has checked each `IInv` on the run's instance.
The theorems hold for all values of the constants that satisfy `ConstantsOK` (`CasesOK`
in `Upgrade`), which TLC checks in every run.

`Commands_proofs`, for any set of processes and all bounds: `CounterExact`,
`SectionOwnsLock`, `CleanExclusion`, and that a process that undid every acquisition
does not own the lock at its prompt (`IdleBalanced`). None is inductive by itself:
that a nested region owns the lock depends on the counter being exact, which
depends on where each process is. `IInv` adds what connects them: at which program
points a process has taken the lock, and that a process whose counter is up, whose
descriptor is open and that never gave up a wait is the owner.

The same module proves the four properties of `Upgrade`: `NewestChosen` (`LatestIsNewest`),
`UpgradesWhenNewer`, `EndsCurrent` and the action property `ReplacementReady`, for any
entries, lists of any length in any order, options and failures. The one hypothesis is
`VersionsAgree`: on the versions of a case that can be compared, `vercmp` computes the
order of versions, and this is an order. The invariant has four parts, since what is true at the end
was decided before anything changed: nothing the scan has passed is newer than the latest
(`ScanInv`; that not being newer is transitive, with epochs and revisions, is
`NewerIsOrder`); what is planned follows from the latest, and until then nothing is
touched (`PlanInv`); what takes the place of a version is ready before it goes (`ReadyInv`);
and after the activation the tree's version is active, and what else is registered has
still to be looked at, unless `-p` passed over it (`EndInv`). So `-u` never has to pass over another version for its
dependents: the active one is the tree's. It says that an upgrade whose scan fails to
see a newer version, or which gives up a version too early, cannot exist; it does not
say that `vercompare` is right. `VersionsAgree` stays with TLC: that the walk over two
strings agrees with the comparison of their segments is an induction over strings, by
recursive operators. The run checks it for all pairs of its versions (`NewestChosen`) and that the
reference is an order for those of up to two characters (`ReferenceOK`).

`Dlist_proofs`, for any finite sets of items and tokens, any graphs, lists and orders:
`HardOrder`, `SoftOrder`, `CompleteWhenAcyclic`, `LeftoversBlocked`. The invariant says
which tokens are `ok`: exactly those of an item that passed (unless a later failure
overwrote it, with canfail), and that items that left the list are the ones that
passed or failed. Completeness argues on an item of those left that needs no other.
For the callers, `SelectionIsExact` proves `SelectsNeeded`. Its invariant has two halves:
all that is selected is needed; and what a selected item requires is selected, or is
still to be visited by the frame of that item, so when no frame is left the selection is
closed, and what is asked for is in it. `Needed` is an intersection of closed sets, so
nothing recurses. `CallersEvaluate` proves that `DlistSelect` implements `Dlist`, so its
four promises hold of the callers (`CallersKeepPromises`), and both together give
`NeededSucceeds`: without failure, cycle and gap, all that is needed has succeeded.

`PortImage_proofs` proves that `PortImage` implements `ActivePorts` (`Refinement`), with
every fault at every step, for any entries, images and files. Three actions commit;
each is shown to be one step of `ActivePorts`, the others to stutter. What they
commit was decided many steps earlier, so the invariant relates the open
transaction to the committed registry at every step of an operation
(`WorkSound`: a deactivation has given up the files of its entry; a check has moved
aside the rivals of the files it has looked at; a move has claimed the image), and
the lists an operation works through to what is active (`ListsSound`: when an
activation begins to move files, no other version is active). `StatesMatch` proves
`StateMatchesFiles` on the way, and `ActiveSound` closes the argument: in
`ActivePorts` one version of a port is active, one entry owns a path, and an active
entry has all its files, and therefore so it is in every committed registry.

The same module proves what the disk is like. `RegistryIsRight`: between operations, as long
as no fault came that the rollback does not provide for, an active path holds the file of
its owner and a port's file lies nowhere else (`DiskMatchesRegistry`). `NothingLost`: what the user put into the prefix is
there under some name at every step, and each file of an installed port between
operations (`FilesKept`). The argument is that
a backup's name is fresh when it is made and that a file moves only while the step
that moves it is the next one, so an operation is ahead of the committed registry by
exactly the files it has moved so far, and a rollback that runs to its end takes
these back. `RollbackIsComplete` says what such a rollback achieves (`RollbackComplete`): registry
and disk are those of the moment the activation began to check its files. Its invariant
follows the operation from there: the registry lacks the replaced ports that were
deactivated since and nothing else, the lists of the operation still name each of
them, and a file of the user is in its place or under the suffix of the activation.
A reactivation then finds nothing to deactivate, to replace or to rename, even
forced: its port had the files it claims, and no port that is active now
had any of them.

The theorems about the disk have hypotheses, and each was found by TLC as a
counterexample without it. `Ticking`: two activations do not begin in the same
second, since `portimage.tcl` names a backup after the time and `file rename -force` puts the
second over the first; three activations in one second lose a file.
`SignalsSpareUsers`, for `FilesKept` only: no signal strikes, or there is no file of
the user; a signal between the second commit and the end of
`activate` makes the handler move the backup back over a file the registry
already owns, and a later deactivation deletes it as the port's.

`PortLifecycle_proofs`, for any ports, any run-time and build dependencies (cyclic or
not) and any number of commands: `StoredFilesKept` and `DependenciesKept`. The invariant carries what an
install has stored when it comes to commit, that its dependencies were there, and
that the entry an uninstall is about to delete was found dispensable two steps
before. `NothingIsLeft` proves `NoResidue`: while a command is under way, images,
portgroups and Portfiles differ from the registry in the port it is about only.
`FollowingIsExact` proves `FollowsExactly`: `--follow-dependencies` finds the least set
`Removable` defines, and puts it in an order in which each may go when its turn comes.
The list of the algorithm grows while it is walked; the invariant says that what was
taken is in every set closed under the rule, that what was passed over
is still to be looked at or has a dependent that stays, and that an entry comes
after those that need it. `Removable` is
stated as an intersection of closed sets, so that no recursion stands in the way.

`BuildState_proofs`: the type invariant; that two processes past the flock of one state
file are one (`StateFilesExclude`), through deletions, kills and edits; and
`WorkExclusive` for any number of processes (`WorkExcludes`). The lock is on the file and not on the
directory: two processes exclude each other as long as both have the same file
open, and where nobody discards or cleans (`Keeping`) all have, which is the part of the
invariant a deletion breaks. `CompletedTargetsHaveWork` proves `CompletedHasWork`: when
nobody is at work, every target the state file lists has left its work, for a process
alone whose deletions are not killed (`Single`) or processes that do not delete
(`Keeping`). `TargetsRunOnOwnWork` proves the action property `OwnWork`: a target of a `Careful`
process runs on what its predecessors made of the same Portfile with the same
variants. The conditions stand in the properties; the theorems have no other
hypothesis.

`Daemondo_proofs`: `OneDaemon` (never two daemons at a time, and none once daemondo has
terminated, for the styles of command line that control it) and `PidFileExact`, for every command line and any number of processes,
signals and notifications, and the type invariant. The file and `runningPid` agree at
every step, not only at rest; that both are 0 when a start begins rests on what
the wait before it was for.

`Trace_proofs`, for any plans, processes, sessions and faults: `OneTraceThread`,
`CleanAfterLoop` and `RightBounds`. None of the three can be seen in one thread: `clean`
takes no lock, a wait may end early, and an answer is read from statics some
other thread has set. They hold because of the nested calls of `target_run` at most one is
traced until one calls `unload` (`OneTraced`), so that every live session is the one that call has opened
(`Serving`), and because `checkViolations` does not return before the thread is
idle. `Serving` says what each static is at each step of the call and of the thread;
besides, a thread reads only from processes of its own session (`Belongs`). The
invariant holds until a traced deactivation nests a session (`nested`, section
Trace), and so do the three properties.

`RegistryDb_proofs`, for any number of connections, openings and entries: `SchemaComplete`,
`EntriesKept`, `OpenFindsTables`. They speak of the committed database only, and say
nothing of the connection that is about to replace it. The invariant does: the
statements a connection has still to run turn its private copy into what the
whole list makes of the committed database (`Result(list, work)`), which stays
what it is as long as anyone has a lock. So a commit installs either what
`create_tables` makes of nothing or what one step of `update_db` makes of the old
database, and lemmas compute these: the schema of a later version, with as many
entries as before. Besides, at most one connection is a writer, and nobody reads
or upgrades while another one commits.

Only model-checked: liveness (`WaiterServed`, `RunsEnd`, `OpenEnds`, `TermEnds`,
`DeathNoticed`, `RestartHonoured`, `SessionEnds`, `NoneWaitsForEver`), which rests on
fairness; and `VersionsAgree`, what the theorems about `Upgrade` assume of `Vercomp`.

## Findings

Each has a run whose counterexample shows it (`PROJECT.json`, "findings").

| Run | What happens |
|---|---|
| `reglock_interrupt` | after Ctrl-C during the wait, an interactive shell believes it holds the lock |
| `image_rollback` | a forced activation that fails leaves other ports' files under the backup name in the registry only |
| `regdb_update` | an open upgrades the schema by one version only, and the registry is used with the old schema |

What was noticed besides is in the sections above, under the module that has it.

## Not modelled, and the plan

The implementation counted as `src` also holds the patches and vendored files of
`dports`, generated bindings, and wrappers of system calls, digests and BSD
utilities; these are most of it, keep no state between calls, and are left out for
good. So are build phases beyond their order, packaging tools, maintainer commands,
the flat receipts, `reclaim` (prompts around `uninstall`), and option parsing.

What a next step would add, in this order:

1. `RegistryDb`, continued: the entry handles of `registry2.0` (deleted, restored and
   freed with the transaction that used them) and the vacuum at close.
2. `RegistryLock` and `BuildState` reduced to their locks and composed, for `mpkg`
   against `install` (lock cycle), with `portautoclean`.
3. `reclaim` beside `PortLifecycle`, without the lock.
4. `Upgrade` with the upgrades of dependencies and its cache.
