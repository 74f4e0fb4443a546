---------------------------- MODULE RegistryLock ----------------------------
(***************************************************************************)
(* The exclusive lock that concurrent port(1) processes take on the        *)
(* registry: registry::exclusive_lock and exclusive_unlock (a per-process  *)
(* nesting counter around one flock(2) of .registry.lock), the adv-flock   *)
(* command beneath them, and the two callers, process_cmd of port.tcl (one *)
(* acquisition around an action) and mportexec of macports.tcl (one around *)
(* the installation of dependencies, nested to any depth).                 *)
(*                                                                         *)
(* kind[p] is the action process p is running: "listed" in                 *)
(* lock_reg_if_needed, or "other". Inside mportexec both install           *)
(* dependencies. lock_reg_if_needed looks at the name as it was typed:     *)
(* an abbreviated name, or archive or reclaim, is "other" although it      *)
(* changes the registry, so the properties speak of locked regions only.   *)
(***************************************************************************)
EXTENDS Integers, FiniteSets

CONSTANTS
    Proc,         \* the port(1) processes
    NoProc,       \* the lock is free
    CommandLoops, \* the processes that read further commands after a failed
                  \* one (standard input, or command files with -p)
    MaxNest,      \* bound: nested mportexec calls
    MaxLocks      \* bound: value of nlocked

ActionKinds == {"listed", "other"}

ASSUME ConstantsOK ==
    /\ NoProc \notin Proc
    /\ CommandLoops \subseteq Proc
    /\ MaxNest \in Nat
    /\ MaxLocks \in Nat

VARIABLES
    supported, \* the file system of the registry supports flock
    writers,   \* the processes that may write the registry directory
    pc,        \* where each process is
    at,        \* who called exclusive_lock last: process_cmd or mportexec
    kind,      \* the action the process runs
    exec,      \* mportexec calls inside their locked region
    nlocked,   \* registry::nlocked
    lockfd,    \* registry::lockfd is set
    holder,    \* owner of the flock, or NoProc
    abandoned, \* history: an acquisition failed after nlocked was incremented
    leaks      \* history: increments of nlocked that nothing will undo

vars == <<supported, writers, pc, at, kind, exec, nlocked, lockfd,
          holder, abandoned, leaks>>

Init ==
    /\ supported \in BOOLEAN
    /\ writers \in SUBSET Proc
    /\ pc = [p \in Proc |-> "prompt"]
    /\ at = [p \in Proc |-> "cmd"]
    /\ kind = [p \in Proc |-> "none"]
    /\ exec = [p \in Proc |-> 0]
    /\ nlocked = [p \in Proc |-> 0]
    /\ lockfd = [p \in Proc |-> FALSE]
    /\ holder = NoProc
    /\ abandoned = [p \in Proc |-> FALSE]
    /\ leaks = [p \in Proc |-> 0]

-----------------------------------------------------------------------------
(* exclusive_lock returns normally to its caller.                          *)
LockReturns(p, caller) ==
    /\ pc' = [pc EXCEPT ![p] = "run"]
    /\ exec' = [exec EXCEPT ![p] = IF caller = "exec" THEN @ + 1 ELSE @]

(* exclusive_lock up to the first flock: the counter goes up first; a      *)
(* nested call, and a process that cannot write the directory, return.     *)
ExclusiveLock(p, caller) ==
    /\ nlocked[p] < MaxLocks
    /\ nlocked' = [nlocked EXCEPT ![p] = @ + 1]
    /\ at' = [at EXCEPT ![p] = caller]
    /\ IF nlocked[p] > 0 \/ (~lockfd[p] /\ p \notin writers)
         THEN LockReturns(p, caller) /\ UNCHANGED lockfd
         ELSE /\ pc' = [pc EXCEPT ![p] = "try"]
              /\ lockfd' = [lockfd EXCEPT ![p] = TRUE]
              /\ UNCHANGED exec
    /\ UNCHANGED <<holder, abandoned, leaks>>

(* Mutant: any unlock drops the flock, nested or not.                      *)
ExclusiveUnlockFlat(p) ==
    /\ nlocked' = [nlocked EXCEPT ![p] = @ - 1]
    /\ holder' = IF lockfd[p] /\ holder = p THEN NoProc ELSE holder

(* exclusive_unlock: the flock is dropped when the counter is back at 0.   *)
ExclusiveUnlock(p) ==
    /\ nlocked' = [nlocked EXCEPT ![p] = @ - 1]
    /\ holder' = IF nlocked[p] <= 1 /\ lockfd[p] /\ holder = p
                   THEN NoProc ELSE holder

(* Mutant: a child process inherited the descriptor and lives on.          *)
ReleasedByInherited(p) == holder

(* The kernel drops the lock of a process that ends.                       *)
ReleasedBy(p) == IF holder = p THEN NoProc ELSE holder

-----------------------------------------------------------------------------
(* process_cmd reads an action and asks lock_reg_if_needed about the name  *)
(* as it was typed.                                                        *)
StartAction(p, k) ==
    /\ pc[p] = "prompt"
    /\ kind' = [kind EXCEPT ![p] = k]
    /\ IF k = "listed"
         THEN ExclusiveLock(p, "cmd")
         ELSE /\ pc' = [pc EXCEPT ![p] = "run"]
              /\ UNCHANGED <<at, exec, nlocked, lockfd, holder, abandoned, leaks>>
    /\ UNCHANGED <<supported, writers>>

(* Mutant: EAGAIN is taken for a file system without locks.                *)
TryLockOnce(p) ==
    /\ pc[p] = "try"
    /\ holder' = IF supported /\ holder = NoProc THEN p ELSE holder
    /\ LockReturns(p, at[p])
    /\ UNCHANGED <<supported, writers, at, kind, nlocked, lockfd, abandoned, leaks>>

(* flock with LOCK_NB: granted, EAGAIN (wait), or EOPNOTSUPP (go on        *)
(* without a lock).                                                        *)
TryLock(p) ==
    /\ pc[p] = "try"
    /\ \/ /\ supported /\ holder \in {NoProc, p}
          /\ holder' = p
          /\ LockReturns(p, at[p])
       \/ /\ supported /\ holder \notin {NoProc, p}
          /\ pc' = [pc EXCEPT ![p] = "wait"]
          /\ UNCHANGED <<exec, holder>>
       \/ /\ ~supported
          /\ LockReturns(p, at[p])
          /\ UNCHANGED holder
    /\ UNCHANGED <<supported, writers, at, kind, nlocked, lockfd, abandoned, leaks>>

(* The blocking flock is granted once the lock is free.                    *)
GrantLock(p) ==
    /\ pc[p] = "wait"
    /\ holder = NoProc
    /\ holder' = p
    /\ LockReturns(p, at[p])
    /\ UNCHANGED <<supported, writers, at, kind, nlocked, lockfd, abandoned, leaks>>

(* process_cmd breaks out of its loop without unlocking; the command loop  *)
(* goes on or the process ends.                                            *)
BreakLoop(p) ==
    /\ kind' = [kind EXCEPT ![p] = "none"]
    /\ exec' = [exec EXCEPT ![p] = 0]
    /\ pc' = [pc EXCEPT ![p] = IF p \in CommandLoops THEN "prompt" ELSE "exited"]

(* SIGINT or SIGTERM while the lock is being taken: the one-second alarm   *)
(* lets adv-flock raise it, and exclusive_lock does not undo the increment.*)
(* The signal may also be raised as a granted flock returns. process_cmd   *)
(* catches the signal and breaks (the first, non-blocking flock hides the  *)
(* signal's error code, so that process ends: see Exit); the callers of    *)
(* mportexec catch any error and carry on with a failure status.           *)
InterruptLock(p) ==
    LET breaks == at[p] = "cmd"
        ends == breaks /\ p \notin CommandLoops
    IN  /\ pc[p] \in {"try", "wait"}
        /\ \/ UNCHANGED holder
           \/ /\ supported /\ holder \in {NoProc, p} /\ ~ends
              /\ pc[p] = "try" => ~breaks
              /\ holder' = p
        /\ abandoned' = [abandoned EXCEPT ![p] = TRUE]
        /\ leaks' = [leaks EXCEPT ![p] = @ + 1]
        /\ IF breaks
             THEN BreakLoop(p)
             ELSE /\ pc' = [pc EXCEPT ![p] = "run"]
                  /\ UNCHANGED <<kind, exec>>
        /\ UNCHANGED <<supported, writers, at, nlocked, lockfd>>

(* process_cmd locked, then failed to find the action, to parse its        *)
(* options or its port expression.                                         *)
ParseError(p) ==
    /\ pc[p] = "run" /\ exec[p] = 0
    /\ holder' = IF p \in CommandLoops THEN holder ELSE ReleasedBy(p)
    /\ leaks' = [leaks EXCEPT ![p] = IF kind[p] = "listed" THEN @ + 1 ELSE @]
    /\ BreakLoop(p)
    /\ UNCHANGED <<supported, writers, at, nlocked, lockfd, abandoned>>

(* mportexec is about to install dependencies.                             *)
BeginExec(p) ==
    /\ pc[p] = "run"
    /\ exec[p] < MaxNest
    /\ ExclusiveLock(p, "exec")
    /\ UNCHANGED <<supported, writers, kind>>

(* The dependencies are done, installed or not.                            *)
EndExec(p) ==
    /\ pc[p] = "run" /\ exec[p] > 0
    /\ exec' = [exec EXCEPT ![p] = @ - 1]
    /\ ExclusiveUnlock(p)
    /\ UNCHANGED <<supported, writers, pc, at, kind, lockfd, abandoned, leaks>>

(* mportexec returns early: mportdepends failed, or the user declined the  *)
(* dependencies.                                                           *)
LeaveExec(p) ==
    /\ pc[p] = "run" /\ exec[p] > 0
    /\ exec' = [exec EXCEPT ![p] = @ - 1]
    /\ leaks' = [leaks EXCEPT ![p] = @ + 1]
    /\ UNCHANGED <<supported, writers, pc, at, kind, nlocked, lockfd, holder, abandoned>>

(* Mutant: process_cmd unlocks after every action.                         *)
EndActionUnlocks(p) ==
    /\ pc[p] = "run" /\ exec[p] = 0
    /\ ExclusiveUnlock(p)
    /\ kind' = [kind EXCEPT ![p] = "none"]
    /\ pc' = [pc EXCEPT ![p] = "prompt"]
    /\ UNCHANGED <<supported, writers, at, exec, lockfd, abandoned, leaks>>

(* The action's procedure returned; process_cmd unlocks if it locked.      *)
EndAction(p) ==
    /\ pc[p] = "run" /\ exec[p] = 0
    /\ IF kind[p] = "listed"
         THEN ExclusiveUnlock(p)
         ELSE UNCHANGED <<nlocked, holder>>
    /\ kind' = [kind EXCEPT ![p] = "none"]
    /\ pc' = [pc EXCEPT ![p] = "prompt"]
    /\ UNCHANGED <<supported, writers, at, exec, lockfd, abandoned, leaks>>

(* The process ends: out of commands, an error nobody catches, or killed.  *)
Exit(p) ==
    /\ pc[p] # "exited"
    /\ pc' = [pc EXCEPT ![p] = "exited"]
    /\ kind' = [kind EXCEPT ![p] = "none"]
    /\ exec' = [exec EXCEPT ![p] = 0]
    /\ holder' = ReleasedBy(p)
    /\ UNCHANGED <<supported, writers, at, nlocked, lockfd, abandoned, leaks>>

Step(p) ==
    \/ \E k \in ActionKinds : StartAction(p, k)
    \/ TryLock(p)
    \/ GrantLock(p)
    \/ InterruptLock(p)
    \/ ParseError(p)
    \/ BeginExec(p)
    \/ EndExec(p)
    \/ LeaveExec(p)
    \/ EndAction(p)
    \/ Exit(p)

Next == \E p \in Proc : Step(p)

Spec == Init /\ [][Next]_vars

(* The kernel answers a flock and does not starve a waiter; an mportexec   *)
(* call nested n deep makes finitely many further ones and returns, and so *)
(* does an action; a process outside a command loop runs out of arguments. *)
Fairness ==
    \A p \in Proc :
        /\ WF_vars(TryLock(p))
        /\ SF_vars(GrantLock(p))
        /\ \A n \in 1 .. MaxNest : SF_vars(exec[p] = n /\ (EndExec(p) \/ LeaveExec(p)))
        /\ SF_vars(EndAction(p))
        /\ p \notin CommandLoops => SF_vars(pc[p] = "prompt" /\ Exit(p))

FairSpec == Spec /\ Fairness

-----------------------------------------------------------------------------
(* The calls of exclusive_lock that returned and will be undone.           *)
Frames(p) == exec[p] + IF pc[p] # "prompt" /\ kind[p] = "listed" /\
                         ~(at[p] = "cmd" /\ pc[p] \in {"try", "wait"})
                       THEN 1 ELSE 0

Acquiring(p) == pc[p] \in {"try", "wait"}

(* Process p may be changing the registry in a region it meant to lock.    *)
InSection(p) ==
    /\ p \in writers
    /\ pc[p] = "run"
    /\ kind[p] = "listed" \/ exec[p] > 0

(* Type invariant.                                                         *)
TypeOK ==
    /\ supported \in BOOLEAN
    /\ writers \subseteq Proc
    /\ pc \in [Proc -> {"prompt", "try", "wait", "run", "exited"}]
    /\ at \in [Proc -> {"cmd", "exec"}]
    /\ kind \in [Proc -> ActionKinds \cup {"none"}]
    /\ exec \in [Proc -> Nat]
    /\ nlocked \in [Proc -> Int]
    /\ lockfd \in [Proc -> BOOLEAN]
    /\ holder \in Proc \cup {NoProc}
    /\ abandoned \in [Proc -> BOOLEAN]
    /\ leaks \in [Proc -> Nat]

(* The counter is exact: every increment belongs to an acquisition in      *)
(* progress, to a caller that will undo it, or to one that never will.     *)
(* In particular exclusive_unlock never finds it below 1 (the warning of   *)
(* registry.tcl line 419 is unreachable).                                  *)
CounterExact ==
    \A p \in Proc : pc[p] # "exited" =>
        nlocked[p] = Frames(p) + leaks[p] + (IF Acquiring(p) THEN 1 ELSE 0)

(* Nested regions: while a process is inside any region it locked, it owns *)
(* the flock, however many nested regions were entered and left since,     *)
(* unless one of its acquisitions was cut short.                           *)
SectionOwnsLock ==
    \A p \in Proc : supported /\ InSection(p) => holder = p \/ abandoned[p]

(* Two processes that never had an acquisition cut short are never both    *)
(* inside a locked region.                                                 *)
CleanExclusion ==
    supported =>
        \A p, q \in Proc :
            InSection(p) /\ InSection(q) /\ p # q => abandoned[p] \/ abandoned[q]

(* A process that undid every acquisition does not sit on the lock.        *)
IdleBalanced ==
    \A p \in Proc : pc[p] = "prompt" /\ leaks[p] = 0 => holder # p

(* A waiter is served or gives up, unless a command loop kept the lock:    *)
(* no order of waits, nested regions, failures and exits strands it.       *)
WaiterServed ==
    \A p \in Proc :
        (pc[p] = "wait") ~> \/ pc[p] # "wait"
                           \/ \E q \in CommandLoops : leaks[q] > 0

(* registry.tcl line 380, "acquire exclusive lock on registry, do this     *)
(* before modifying it": two processes are never both in their regions.    *)
(* Fails after an interrupted wait in a command loop.                      *)
MutualExclusion ==
    supported =>
        \A p, q \in Proc : InSection(p) /\ InSection(q) => p = q
=============================================================================
