------------------------------ MODULE Daemondo ------------------------------
(***************************************************************************)
(* daemondo (programs/daemondo/main.c) supervises one daemon for launchd:  *)
(* it starts it, restarts it on SIGHUP or on a notification, stops it on   *)
(* SIGTERM and exits when it dies.  It is one thread around a CFRunLoop.   *)
(* Signal handlers only put messages on Mach ports; while daemondo waits   *)
(* for the end of a child it runs the loop in a mode that serves only      *)
(* SIGCHLD and the kqueue, so that other signals stay queued.              *)
(*                                                                         *)
(* External: the daemon and the commands (modelled as what daemondo trusts *)
(* them to do, or nothing), the kernel, and the run loop.                  *)
(***************************************************************************)
EXTENDS Naturals, Sequences, FiniteSets

CONSTANTS
  Pid,         \* process ids a daemon can get, never reused (bound)
  NoPid,       \* runningPid = 0, and the pid file that does not exist
  Unknown,     \* runningPid = -1
  Cmd,         \* the pid of a command run synchronously
  Configs,     \* the command lines considered
  MaxSignals,  \* SIGTERMs and SIGHUPs sent to daemondo (bound)
  MaxNotices,  \* notifications that ask for a restart (bound)
  QueueLimit   \* messages a Mach port holds (five by default)

Styles == {"none", "exec", "fileauto", "fileclean"}

ASSUME ConstantsOK ==
  /\ NoPid \notin Pid /\ Unknown \notin Pid /\ Cmd \notin Pid
  /\ NoPid # Unknown /\ NoPid # Cmd /\ Unknown # Cmd
  /\ Configs \subseteq [style : Styles, stop : BOOLEAN, restart : BOOLEAN]
  /\ MaxSignals \in Nat /\ MaxNotices \in Nat /\ QueueLimit \in Nat \ {0}

VARIABLES
  config,       \* pidStyle, and whether there are stopArgs and restartArgs
  pc,           \* where daemondo is; "run": in the run loop, default mode
  caller,       \* what called Start, Stop or Restart: "main", "source", "timer"
  doing,        \* the function that waits in WaitChildDeath
  restarting,   \* Stop was called by Restart
  pid,          \* the local variable pid
  terminating, runningPid,
  timer,        \* restartTimer is scheduled
  halted,       \* CFRunLoopStop was called on the loop in default mode
  signals,      \* messages on sigGeneric_m_port
  chld,         \* a message is on sigChild_m_port
  events,       \* NOTE_EXIT events in the kqueue
  watched,      \* pids registered there
  alive, born,  \* the daemon's processes
  children,     \* those daemondo forked and has not waited for
  silent,       \* those that have yet to write their pid file
  pidFile,      \* the pid it holds, or NoPid
  command, todo,\* the synchronous command, and what it will still do
  launching,    \* start-cmds running in the background
  stuck,        \* a signal handler blocks on a full port
  sent, notices,
  due,          \* history: a restart was requested and no start followed yet
  lost,         \* history: a command failed daemondo's trust
  missed        \* history: a process died before its kevent was registered

control == <<pc, caller, doing, restarting, pid, terminating, runningPid, timer, halted>>
queues == <<signals, chld, events, watched>>
procs == <<alive, born, children, silent, command, todo, launching>>
counts == <<sent, notices>>
history == <<due, lost, missed>>
vars == <<config, control, queues, procs, pidFile, stuck, counts, history>>

HasFile == config.style # "none"
OwnFile == config.style \in {"fileauto", "fileclean"}   \* the daemon writes it
Fresh == Pid \ born

TypeOK ==
  /\ config \in Configs
  /\ pc \in {"start", "track", "poll", "run", "wait", "gone"}
  /\ caller \in {"main", "source", "timer"}
  /\ doing \in {"start", "stop", "restart"}
  /\ pid \in Pid \cup {NoPid, Unknown, Cmd}
  /\ runningPid \in Pid \cup {NoPid, Unknown}
  /\ {restarting, terminating, timer, halted, chld, stuck, due, lost, missed} \subseteq BOOLEAN
  /\ signals \in Seq({"TERM", "HUP"}) /\ Len(signals) <= QueueLimit
  /\ {events, watched, alive, born, children, silent} \subseteq SUBSET Pid
  /\ alive \subseteq born /\ watched \subseteq alive
  /\ pidFile \in Pid \cup {NoPid}
  /\ command \in {"none", "up", "zombie"}
  /\ todo \in Seq({"stop", "start"})
  /\ launching \in Nat /\ sent \in 0 .. MaxSignals /\ notices \in 0 .. MaxNotices

\* A pid file of an earlier life may be lying around; its pid is none of ours.
Init ==
  /\ config \in Configs
  /\ pc = "start" /\ caller = "main" /\ doing = "start" /\ pid = NoPid
  /\ runningPid = NoPid /\ pidFile = NoPid
  /\ restarting = FALSE /\ terminating = FALSE /\ timer = FALSE /\ halted = FALSE
  /\ chld = FALSE /\ stuck = FALSE
  /\ due = FALSE /\ lost = FALSE /\ missed = FALSE
  /\ signals = <<>> /\ events = {} /\ watched = {}
  /\ alive = {} /\ born = {} /\ children = {} /\ silent = {}
  /\ command = "none" /\ todo = <<>> /\ launching = 0
  /\ sent = 0 /\ notices = 0

-----------------------------------------------------------------------------
(* Processes. *)

\* Processes die, killed or of their own accord: NOTE_EXIT, and SIGCHLD for a child.
Die(dying) ==
  /\ alive' = alive \ dying
  /\ watched' = watched \ dying
  /\ events' = events \cup (dying \cap watched)

Spawn(p) == alive' = alive \cup {p} /\ born' = born \cup {p}

\* fork() of a command to be waited for, which is to do the effects.
Fork(effects, what) ==
  /\ command' = "up" /\ todo' = effects
  /\ pc' = "wait" /\ pid' = Cmd /\ doing' = what

\* MainLoop's condition, evaluated when CFRunLoopRunInMode returns or Start did.
LoopOrLeave(run) == pc' = IF terminating' \/ run = NoPid THEN "gone" ELSE "run"

\* A callback returns to the run loop, which returns to MainLoop if it has served
\* a source or was stopped; a timer is not a source.
Return(run, stopped) ==
  /\ IF caller = "timer" /\ ~stopped THEN pc' = "run" ELSE LoopOrLeave(run)
  /\ restarting' = FALSE /\ halted' = FALSE

\* Mutant: the file daemondo wrote is left to the daemon.
DestroyedIfClean == IF config.style = "fileclean" THEN NoPid ELSE pidFile

\* DestroyPidFile
Destroyed == IF config.style \in {"exec", "fileclean"} THEN NoPid ELSE pidFile

\* ProcessChildDeath for the processes of dead; TRUE if the tracked one is there.
Mourns(dead) == runningPid \in dead

\* Mutant: UnmonitorChild is forgotten.
ProcessDeathMonitored(dead) ==
  /\ runningPid' = runningPid
  /\ pidFile' = IF Mourns(dead) THEN Destroyed ELSE pidFile

ProcessChildDeath(dead) ==
  /\ runningPid' = IF Mourns(dead) THEN NoPid ELSE runningPid
  /\ pidFile' = IF Mourns(dead) THEN Destroyed ELSE pidFile

-----------------------------------------------------------------------------
(* Start. *)

StartFails ==
  /\ UNCHANGED terminating /\ Return(runningPid, halted)
  /\ UNCHANGED <<caller, doing, pid, runningPid, timer, queues, procs>>

StartCommand ==
  /\ ~stuck /\ pc = "start"
  /\ pidFile' = NoPid                          \* DeletePreexistingPidFile
  /\ due' = FALSE
  /\ \/ StartFails
     \/ /\ config.style = "exec"
        /\ \E p \in Fresh : /\ Spawn(p) /\ children' = children \cup {p}
                            /\ pid' = p /\ pc' = "track"
        /\ UNCHANGED <<doing, silent, command, todo, launching, restarting, halted>>
     \/ /\ config.style = "none"
        /\ Fork(<<"start">>, "start")
        /\ UNCHANGED <<alive, born, children, silent, launching, restarting, halted>>
     \/ /\ OwnFile
        /\ launching' = launching + 1 /\ pc' = "poll"
        /\ UNCHANGED <<doing, pid, alive, born, children, silent, command, todo, restarting, halted>>
  /\ UNCHANGED <<config, caller, terminating, runningPid, timer, queues, stuck, counts, lost, missed>>

\* WaitForValidPidFile reads the pid of a process that exists.
PollFinds ==
  /\ ~stuck /\ pc = "poll" /\ pidFile \in alive
  /\ pid' = pidFile /\ pc' = "track"
  /\ UNCHANGED <<config, caller, doing, restarting, terminating, runningPid, timer, halted,
                 queues, procs, pidFile, stuck, counts, history>>

\* ... or gives up after kChildStartPidTimeout.
PollGivesUp ==
  /\ ~stuck /\ pc = "poll" /\ pidFile \notin alive
  /\ StartFails
  /\ lost' = TRUE
  /\ UNCHANGED <<config, pidFile, stuck, counts, due, missed>>

\* MonitorChild and CreatePidFile; a process that is gone cannot be registered.
Track ==
  /\ ~stuck /\ pc = "track"
  /\ runningPid' = pid
  /\ watched' = watched \cup ({pid} \cap alive)
  /\ missed' = (missed \/ pid \notin alive \cup children)
  /\ pidFile' = IF config.style = "exec" THEN pid ELSE pidFile
  /\ UNCHANGED terminating /\ Return(pid, halted)
  /\ UNCHANGED <<config, caller, doing, pid, timer, signals, chld, events, procs,
                 stuck, counts, due, lost>>

-----------------------------------------------------------------------------
(* Stop and Restart.  Both are called from a callback. *)

\* What follows Stop: Restart sleeps and starts again whatever Stop returned.
AfterStop(run, stopped) ==
  IF restarting' THEN pc' = "start" /\ halted' = stopped
  ELSE LoopOrLeave(run) /\ halted' = FALSE

\* Mutant: Stop sends SIGTERM and does not wait.
StopUnwaited ==
  /\ AfterStop(runningPid, FALSE)
  /\ UNCHANGED <<pid, doing, command, todo, lost>>

\* Stop: SIGTERM to the tracked process and wait, or the stop-cmd.
Stop ==
  \/ /\ ~config.stop /\ runningPid \in Pid
     /\ pc' = "wait" /\ pid' = runningPid /\ doing' = "stop"
     /\ UNCHANGED <<halted, command, todo, lost>>
  \/ /\ ~config.stop /\ runningPid \notin Pid
     /\ AfterStop(runningPid, FALSE)
     /\ UNCHANGED <<pid, doing, command, todo, lost>>
  \/ /\ config.stop
     /\ \/ Fork(<<"stop">>, "stop") /\ UNCHANGED <<halted, lost>>
        \/ /\ AfterStop(runningPid, FALSE) /\ lost' = TRUE      \* fork failed
           /\ UNCHANGED <<pid, doing, command, todo>>

\* Restart: stop and start, or the restart-cmd, which is trusted to do both.
Restart(from) ==
  /\ caller' = from
  /\ IF config.restart
     THEN /\ due' = FALSE
          /\ \/ /\ Fork(<<"stop", "start">>, "restart")
                /\ UNCHANGED <<restarting, halted>>
             \/ /\ IF from = "timer" THEN pc' = "run" ELSE LoopOrLeave(runningPid)
                /\ UNCHANGED <<pid, doing, command, todo, restarting, halted>>
          /\ UNCHANGED lost
     ELSE restarting' = TRUE /\ Stop /\ UNCHANGED due

\* SignalCallback for the generic port.
HandleSignal ==
  /\ ~stuck /\ pc = "run" /\ signals # <<>>
  /\ signals' = Tail(signals)
  /\ \/ /\ Head(signals) = "TERM"
        /\ terminating' = TRUE /\ restarting' = FALSE /\ caller' = "source"
        /\ Stop /\ UNCHANGED due
     \/ /\ Head(signals) = "HUP"
        /\ UNCHANGED terminating /\ Restart("source")
  /\ UNCHANGED <<config, runningPid, timer, chld, events, watched, alive, born, children, silent,
                 launching, pidFile, stuck, counts, missed>>

\* Mutant: only a process whose pid is known is restarted.
FireTimerTracked ==
  /\ ~stuck /\ pc = "run" /\ timer /\ runningPid \in Pid
  /\ timer' = FALSE
  /\ UNCHANGED terminating /\ Restart("timer")
  /\ UNCHANGED <<config, runningPid, queues, alive, born, children, silent, launching,
                 pidFile, stuck, counts, missed>>

\* ScheduledRestartCallback
FireTimer ==
  /\ ~stuck /\ pc = "run" /\ timer
  /\ timer' = FALSE
  /\ UNCHANGED terminating /\ Restart("timer")
  /\ UNCHANGED <<config, runningPid, queues, alive, born, children, silent, launching,
                 pidFile, stuck, counts, missed>>

\* ScheduleDelayedRestart, from any notification: the new time replaces the old.
Notice ==
  /\ ~stuck /\ pc = "run" /\ notices < MaxNotices
  /\ notices' = notices + 1
  /\ timer' = TRUE /\ due' = TRUE
  /\ UNCHANGED terminating /\ LoopOrLeave(runningPid)
  /\ UNCHANGED <<config, caller, doing, restarting, pid, runningPid, halted, queues, procs,
                 pidFile, stuck, sent, lost, missed>>

-----------------------------------------------------------------------------
(* The deaths of children. *)

\* Mutant: SIGTERM is trusted, and only commands are killed.
PatienceWithDaemon ==
  /\ ~stuck /\ pc = "wait" /\ pid = Cmd /\ command = "up"
  /\ command' = "zombie" /\ todo' = <<>>
  /\ lost' = TRUE
  /\ chld' = TRUE
  /\ UNCHANGED <<config, control, alive, watched, events, signals, born, children, silent,
                 launching, pidFile, stuck, counts, due, missed>>

\* WaitChildDeath runs out of patience: SIGKILL.
Patience ==
  /\ ~stuck /\ pc = "wait"
  /\ \/ /\ pid = Cmd /\ command = "up"
        /\ command' = "zombie" /\ todo' = <<>>
        /\ lost' = TRUE
        /\ UNCHANGED <<alive, watched, events>>
     \/ /\ pid \in alive \cap children
        /\ Die({pid})
        /\ UNCHANGED <<command, todo, lost>>
  /\ chld' = TRUE
  /\ UNCHANGED <<config, control, signals, born, children, silent, launching, pidFile, stuck,
                 counts, due, missed>>

\* wait4 returns the child, or -1 if it is none (any more), and the wait ends.
Waited ==
  /\ ~stuck /\ pc = "wait"
  /\ IF pid = Cmd THEN command # "up" ELSE pid \notin alive \cap children
  /\ children' = children \ {pid}
  /\ command' = IF pid = Cmd THEN "none" ELSE command
  /\ UNCHANGED terminating
  /\ LET run == CASE doing = "start" -> Unknown
                  [] doing = "stop" /\ pid = Cmd -> NoPid
                  [] OTHER -> IF Mourns({pid}) THEN NoPid ELSE runningPid
         stopped == halted \/ Mourns({pid})
     IN /\ runningPid' = run
        /\ pidFile' = IF (doing = "stop" /\ pid = Cmd) \/ Mourns({pid}) THEN Destroyed ELSE pidFile
        /\ IF doing = "stop"
           THEN UNCHANGED restarting /\ AfterStop(run, stopped)
           ELSE Return(run, stopped)
  /\ UNCHANGED <<config, caller, doing, pid, timer, queues, alive, born, silent, todo,
                 launching, stuck, counts, history>>

\* CheckChildren, in either mode of the run loop.
CheckChildren ==
  /\ ~stuck /\ pc \in {"run", "wait"} /\ chld
  /\ chld' = FALSE
  /\ children' = children \cap alive
  /\ command' = IF command = "zombie" THEN "none" ELSE command
  /\ ProcessChildDeath(children \ alive)
  /\ UNCHANGED terminating
  /\ IF pc = "run" THEN LoopOrLeave(runningPid') ELSE UNCHANGED pc
  /\ UNCHANGED <<config, caller, doing, restarting, pid, timer, halted, signals,
                 events, watched, alive, born, silent, todo, launching, stuck, counts, history>>

\* KQueueCallBack
KQueueCallBack ==
  /\ ~stuck /\ pc \in {"run", "wait"}
  /\ \E p \in events :
       /\ events' = events \ {p}
       /\ ProcessChildDeath({p})
  /\ UNCHANGED terminating
  /\ IF pc = "run" THEN LoopOrLeave(runningPid') ELSE UNCHANGED pc
  /\ UNCHANGED <<config, caller, doing, restarting, pid, timer, halted, signals,
                 chld, watched, procs, stuck, counts, history>>

-----------------------------------------------------------------------------
(* The environment. *)

\* A daemon that is not being stopped crashes or ends; one that is obeys SIGTERM,
\* or not.  It may remove a pid file of its own.
DaemonDies ==
  \E p \in alive :
    /\ Die({p})
    /\ chld' = (chld \/ p \in children)
    /\ silent' = silent \ {p}
    /\ \/ UNCHANGED pidFile
       \/ OwnFile /\ pidFile = p /\ pidFile' = NoPid
    /\ UNCHANGED <<config, control, signals, born, children, command, todo, launching, stuck,
                   counts, history>>

DaemonWritesPid ==
  \E p \in silent :
    /\ pidFile' = p /\ silent' = silent \ {p}
    /\ UNCHANGED <<config, control, queues, alive, born, children, command, todo, launching,
                   stuck, counts, history>>

\* A daemon started by a command detaches itself; a command may also fail to start it.
Launch ==
  \/ \E p \in Fresh : Spawn(p) /\ silent' = IF OwnFile THEN silent \cup {p} ELSE silent
  \/ UNCHANGED <<alive, born, silent>>

\* The synchronous command does its next effect and exits after the last.
CommandStep ==
  /\ command = "up"
  /\ todo' = Tail(todo)
  /\ command' = IF Tail(todo) = <<>> THEN "zombie" ELSE "up"
  /\ \/ /\ Head(todo) = "stop"
        /\ Die(alive) /\ silent' = {}
        /\ chld' = (chld \/ Tail(todo) = <<>> \/ alive \cap children # {})
        /\ UNCHANGED born
     \/ /\ Head(todo) = "start" /\ Launch
        /\ chld' = (chld \/ Tail(todo) = <<>>)
        /\ UNCHANGED <<events, watched>>
  /\ UNCHANGED <<config, control, signals, children, launching, pidFile, stuck, counts, history>>

\* The start-cmd in the background launches the daemon and exits.
BackgroundStep ==
  /\ launching > 0 /\ launching' = launching - 1
  /\ Launch
  /\ chld' = TRUE
  /\ UNCHANGED <<config, control, signals, events, watched, children, command, todo, pidFile,
                 stuck, counts, history>>

\* handle_generic_signal sends a message without a timeout, on the only thread.
Signal ==
  /\ pc # "gone" /\ sent < MaxSignals /\ ~stuck
  /\ sent' = sent + 1
  /\ \E s \in {"TERM", "HUP"} :
       /\ due' = (due \/ s = "HUP")
       /\ IF Len(signals) < QueueLimit
          THEN signals' = Append(signals, s) /\ UNCHANGED stuck
          ELSE stuck' = TRUE /\ UNCHANGED signals
  /\ UNCHANGED <<config, control, chld, events, watched, procs, pidFile, notices, lost, missed>>

Next ==
  \/ StartCommand \/ PollFinds \/ PollGivesUp \/ Track
  \/ HandleSignal \/ FireTimer \/ Notice
  \/ Patience \/ Waited \/ CheckChildren \/ KQueueCallBack
  \/ DaemonDies \/ DaemonWritesPid \/ CommandStep \/ BackgroundStep \/ Signal

\* daemondo runs, waits and polls end by their timeouts, timers fire.  Nothing is
\* assumed of the daemon, the commands and the senders of signals.
Fairness ==
  /\ WF_vars(StartCommand) /\ WF_vars(PollFinds \/ PollGivesUp) /\ WF_vars(Track)
  /\ WF_vars(HandleSignal) /\ WF_vars(FireTimer) /\ WF_vars(Patience) /\ WF_vars(Waited)
  /\ WF_vars(CheckChildren) /\ WF_vars(KQueueCallBack)

Spec == Init /\ [][Next]_vars /\ Fairness

-----------------------------------------------------------------------------
(* Properties. *)

\* daemondo has a means to stop what it started, and its means never failed: the
\* child it forked, or a stop-cmd; and in mode 1 no restart-cmd that disrupts the
\* process id.
InControl ==
  /\ ~lost
  /\ config.stop \/ (config.style = "exec" /\ ~config.restart)

\* Whatever signals, notifications, deaths and timeouts meet, there are never two
\* daemons at a time, and a daemondo that was told to terminate leaves none.
OneDaemon ==
  InControl => /\ Cardinality(alive) <= 1
               /\ pc = "gone" /\ terminating => alive = {}

\* A pid file daemondo writes itself names the tracked process whenever daemondo
\* is at rest, and is gone when daemondo is.
PidFileExact ==
  config.style = "exec" /\ ~lost =>
    /\ pc = "run" => pidFile = runningPid
    /\ pc = "gone" => pidFile = NoPid

\* daemondo exits after SIGTERM, whatever it was doing when the signal came (except
\* when its signal handler blocks on a full port).
TermEnds == ("TERM" \in {signals[i] : i \in DOMAIN signals}) ~> (pc = "gone" \/ stuck)

\* A process that dies while it is tracked is noticed, by SIGCHLD or by its kevent.
DeathNoticed ==
  \A p \in Pid : (runningPid = p /\ p \notin alive) ~> (runningPid # p \/ pc = "gone" \/ stuck \/ missed)

\* Every request to restart is followed by a start, or the exit of daemondo.
RestartHonoured == due ~> (~due \/ pc = "gone" \/ stuck)
=============================================================================
