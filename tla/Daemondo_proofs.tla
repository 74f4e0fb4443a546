-------------------------- MODULE Daemondo_proofs --------------------------
(***************************************************************************)
(* Proofs that the pid file daemondo writes itself is exact, and that it   *)
(* never has two daemons at a time, for every command line and any number  *)
(* of processes, signals and notifications.                                *)
(***************************************************************************)
EXTENDS Daemondo, FiniteSetTheorems, TLAPS

Own == config.style = "exec" /\ ~lost

(* The file and runningPid agree at every step, not only at rest, because  *)
(* they change together. That runningPid is 0 when a start begins and when *)
(* daemondo leaves rests on what a wait is for: Stop waits for the tracked *)
(* process, which SIGCHLD or the kevent may have reported meanwhile; and   *)
(* once terminating, only the end of that wait is left.                    *)
Agreement ==
  /\ silent = {}
  /\ runningPid \in Pid \cup {NoPid}
  /\ pidFile = runningPid
  /\ pc \in {"start", "track", "run", "wait", "gone"}
  /\ pc \in {"start", "track", "gone"} => runningPid = NoPid
  /\ pc = "track" => pid \in Pid
  /\ pc = "wait" => /\ pid \in Pid \cup {Cmd}
                    /\ doing \in {"stop", "restart"}
                    /\ doing = "stop" /\ pid # Cmd => runningPid \in {pid, NoPid}
                    /\ doing = "restart" => pid = Cmd
  /\ terminating => pc = "gone" \/ (pc = "wait" /\ doing = "stop" /\ ~restarting)
  /\ {terminating, restarting, lost} \subseteq BOOLEAN

IInv == Own => Agreement

LEMMA InitInv == Init => IInv
BY DEF Init, IInv, Own, Agreement

LEMMA NextInv == IInv /\ [Next]_vars => IInv'
<1> SUFFICES ASSUME IInv, [Next]_vars, Own' PROVE Agreement'
    BY DEF IInv
<1> USE DEF Own
<1>0. config' = config
    BY DEF vars, Next, StartCommand, PollFinds, PollGivesUp, Track, HandleSignal, FireTimer,
       Notice, Patience, Waited, CheckChildren, KQueueCallBack, DaemonDies, DaemonWritesPid,
       CommandStep, BackgroundStep, Signal
<1>1. CASE UNCHANGED vars
    BY <1>1 DEF IInv, Agreement, vars, control, queues, procs, history
<1>2. CASE StartCommand
    BY <1>2, ConstantsOK DEF IInv, Agreement, StartCommand, StartFails, Return, LoopOrLeave, Fork,
       OwnFile, Fresh, queues, counts, procs, ConstantsOK
<1>3. CASE PollFinds \/ PollGivesUp
    BY <1>3 DEF IInv, Agreement, PollFinds, PollGivesUp, history
<1>4. CASE Track
    BY <1>4, ConstantsOK DEF IInv, Agreement, Track, Return, LoopOrLeave, procs, ConstantsOK
<1>5. CASE HandleSignal
    <2>1. /\ pc = "run" /\ silent' = silent /\ runningPid' = runningPid /\ pidFile' = pidFile
          /\ \/ terminating' = TRUE /\ restarting' = FALSE /\ Stop
             \/ terminating' = terminating /\ Restart("source")
        BY <1>5 DEF HandleSignal
    <2>2. CASE terminating' = TRUE /\ restarting' = FALSE /\ Stop
        BY <1>0, <2>1, <2>2, ConstantsOK DEF IInv, Agreement, Stop, AfterStop, LoopOrLeave, Fork,
           ConstantsOK
    <2>3. CASE terminating' = terminating /\ Restart("source")
        BY <1>0, <2>1, <2>3, ConstantsOK DEF IInv, Agreement, Restart, Stop, AfterStop, LoopOrLeave,
           Fork, ConstantsOK
    <2> QED BY <2>1, <2>2, <2>3
<1>6. CASE FireTimer
    BY <1>6, ConstantsOK DEF IInv, Agreement, FireTimer, Restart, Stop, AfterStop, LoopOrLeave,
       Fork, ConstantsOK
<1>7. CASE Notice
    BY <1>7 DEF IInv, Agreement, Notice, LoopOrLeave, procs
<1>8. CASE Patience
    BY <1>8 DEF IInv, Agreement, Patience, control
<1>9. CASE Waited
    BY <1>9, ConstantsOK DEF IInv, Agreement, Waited, Mourns, Destroyed, AfterStop, Return,
       LoopOrLeave, history, ConstantsOK
<1>10. CASE CheckChildren
    BY <1>10, ConstantsOK DEF IInv, Agreement, CheckChildren, ProcessChildDeath, Mourns, Destroyed,
       LoopOrLeave, history, ConstantsOK
<1>11. CASE KQueueCallBack
    BY <1>11, ConstantsOK DEF IInv, Agreement, KQueueCallBack, ProcessChildDeath, Mourns, Destroyed,
       LoopOrLeave, procs, history, ConstantsOK
<1>12. CASE DaemonDies
    BY <1>12 DEF IInv, Agreement, DaemonDies, OwnFile, control, history
<1>13. CASE DaemonWritesPid
    BY <1>13 DEF IInv, Agreement, DaemonWritesPid, history
<1>14. CASE CommandStep \/ BackgroundStep
    BY <1>14 DEF IInv, Agreement, CommandStep, BackgroundStep, Launch, OwnFile, control, history
<1>15. CASE Signal
    BY <1>15 DEF IInv, Agreement, Signal, control, procs
<1> QED BY <1>1, <1>2, <1>3, <1>4, <1>5, <1>6, <1>7, <1>8, <1>9, <1>10, <1>11, <1>12, <1>13,
       <1>14, <1>15 DEF Next

(* In every reachable state the file and the tracked process agree.        *)
THEOREM Invariance == Spec => []IInv
<1>1. Init => IInv
    BY InitInv
<1>2. IInv /\ [Next]_vars => IInv'
    BY NextInv
<1> QED BY <1>1, <1>2, PTL DEF Spec

(* Whenever daemondo is at rest, the file it wrote names the process it    *)
(* tracks, and when it is gone the file is gone.                           *)
THEOREM PidFileIsExact == Spec => []PidFileExact
<1>1. IInv => PidFileExact
    BY DEF IInv, Own, Agreement, PidFileExact
<1> QED BY <1>1, Invariance, PTL

-----------------------------------------------------------------------------
(* Types: what is tracked is a process, and a command that runs has        *)
(* something left to do.                                                   *)
Typed ==
  /\ TypeOK
  /\ pc = "track" => pid \in Pid
  /\ command = "up" => todo # <<>>

(* The effects of commands, and what a step leaves of them.                *)
LEMMA Effects ==
  /\ <<>> \in Seq({"stop", "start"}) /\ <<>> \in Seq({"TERM", "HUP"}) /\ Len(<<>>) = 0
  /\ \A e \in {<<"stop">>, <<"start">>, <<"stop", "start">>} :
        e \in Seq({"stop", "start"}) /\ e # <<>>
  /\ \A t \in Seq({"stop", "start"}) : t # <<>> => Tail(t) \in Seq({"stop", "start"})
OBVIOUS

LEMMA TypedNext == Typed /\ [Next]_vars => Typed'
<1> SUFFICES ASSUME Typed, [Next]_vars PROVE Typed'
    OBVIOUS
<1> USE DEF Typed, TypeOK
<1>1. CASE UNCHANGED vars
    BY <1>1 DEF vars, control, queues, procs, counts, history
<1>2. CASE StartCommand
    <2>1. /\ UNCHANGED <<config, caller, terminating, runningPid, timer, queues, stuck, counts,
                          lost, missed>>
          /\ pidFile' = NoPid /\ due' = FALSE
        BY <1>2 DEF StartCommand
    <2>2. CASE StartFails
        BY <2>1, <2>2, ZenonT(60) DEF StartFails, Return, LoopOrLeave, queues, counts, procs
    <2>3. CASE /\ \E p \in Fresh : /\ Spawn(p) /\ children' = children \cup {p}
                                   /\ pid' = p /\ pc' = "track"
               /\ UNCHANGED <<doing, silent, command, todo, launching, restarting, halted>>
        <3> PICK p \in Pid : /\ alive' = alive \cup {p} /\ born' = born \cup {p}
                             /\ children' = children \cup {p} /\ pid' = p
            BY <2>3 DEF Spawn, Fresh
        <3>1. /\ alive' \subseteq born' /\ watched' \subseteq alive' /\ born' \subseteq Pid
              /\ children' \subseteq Pid /\ pid' \in Pid /\ pc' = "track"
            BY <2>1, <2>3 DEF queues
        <3> QED BY <2>1, <2>3, <3>1, ZenonT(60) DEF queues, counts
    <2>4. CASE /\ Fork(<<"start">>, "start")
               /\ UNCHANGED <<alive, born, children, silent, launching, restarting, halted>>
        BY <2>1, <2>4, Effects DEF Fork, queues, counts
    <2>5. CASE /\ launching' = launching + 1 /\ pc' = "poll"
               /\ UNCHANGED <<doing, pid, alive, born, children, silent, command, todo, restarting,
                              halted>>
        <3>1. launching' \in Nat /\ pc' = "poll"
            BY <2>5
        <3> QED BY <2>1, <2>5, <3>1, ZenonT(60) DEF queues, counts
    <2> QED BY <1>2, <2>2, <2>3, <2>4, <2>5 DEF StartCommand
<1>3. CASE PollFinds \/ PollGivesUp
    BY <1>3 DEF PollFinds, PollGivesUp, StartFails, Return, LoopOrLeave, queues, procs, counts,
       history
<1>4. CASE Track
    BY <1>4 DEF Track, Return, LoopOrLeave, procs, counts
<1>5. CASE HandleSignal
    <2>1. signals' \in Seq({"TERM", "HUP"}) /\ Len(signals') <= QueueLimit
        BY <1>5, ConstantsOK DEF HandleSignal, ConstantsOK
    <2>2. /\ UNCHANGED <<config, runningPid, timer, chld, events, watched, alive, born, children,
                         silent, launching, pidFile, stuck, counts, missed>>
          /\ \/ terminating' = TRUE /\ restarting' = FALSE /\ caller' = "source" /\ Stop
                /\ UNCHANGED due
             \/ terminating' = terminating /\ Restart("source")
        BY <1>5 DEF HandleSignal
    <2>3. CASE terminating' = TRUE /\ restarting' = FALSE /\ caller' = "source" /\ Stop
               /\ UNCHANGED due
        BY <2>1, <2>2, <2>3, Effects, ZenonT(60) DEF Stop, AfterStop, LoopOrLeave, Fork, counts
    <2>4. CASE terminating' = terminating /\ Restart("source")
        BY <2>1, <2>2, <2>4, Effects, ZenonT(60) DEF Restart, Stop, AfterStop, LoopOrLeave, Fork, counts
    <2> QED BY <2>2, <2>3, <2>4
<1>6. CASE FireTimer
    BY <1>6, Effects DEF FireTimer, Restart, Stop, AfterStop, LoopOrLeave, Fork, queues, counts
<1>7. CASE Notice
    BY <1>7, ConstantsOK DEF Notice, LoopOrLeave, queues, procs, ConstantsOK
<1>8. CASE Patience
    BY <1>8, Effects, ZenonT(60) DEF Patience, Die, control, counts
<1>9. CASE Waited
    BY <1>9, ZenonT(60) DEF Waited, Mourns, Destroyed, AfterStop, Return, LoopOrLeave, queues, counts, history
<1>10. CASE CheckChildren
    BY <1>10, ZenonT(60) DEF CheckChildren, ProcessChildDeath, Mourns, Destroyed, LoopOrLeave, counts, history
<1>11. CASE KQueueCallBack
    BY <1>11 DEF KQueueCallBack, ProcessChildDeath, Mourns, Destroyed, LoopOrLeave, procs, counts,
       history
<1>12. CASE DaemonDies
    BY <1>12 DEF DaemonDies, Die, control, counts, history
<1>13. CASE DaemonWritesPid
    BY <1>13 DEF DaemonWritesPid, control, queues, counts, history
<1>14. CASE CommandStep
    <2>1. /\ todo' \in Seq({"stop", "start"})
          /\ command' \in {"none", "up", "zombie"} /\ (command' = "up" => todo' # <<>>)
        BY <1>14, Effects DEF CommandStep
    <2>2. UNCHANGED <<config, control, signals, children, launching, pidFile, stuck, counts, history>>
        BY <1>14 DEF CommandStep
    <2>3. /\ alive' \subseteq born' /\ watched' \subseteq alive' /\ born' \subseteq Pid
          /\ events' \subseteq Pid /\ silent' \subseteq Pid
        BY <1>14 DEF CommandStep, Launch, Spawn, Fresh, Die
    <2>4. chld' \in BOOLEAN
        <3>1. \/ chld' = (chld \/ Tail(todo) = <<>> \/ alive \cap children # {})
              \/ chld' = (chld \/ Tail(todo) = <<>>)
            BY <1>14 DEF CommandStep
        <3> QED BY <3>1
    <2> QED BY <2>1, <2>2, <2>3, <2>4 DEF control, counts, history
<1>15. CASE BackgroundStep
    BY <1>15 DEF BackgroundStep, Launch, Spawn, Fresh, control, counts, history
<1>16. CASE Signal
    <2> PICK s \in {"TERM", "HUP"} :
          /\ due' = (due \/ s = "HUP")
          /\ IF Len(signals) < QueueLimit
             THEN signals' = Append(signals, s) /\ UNCHANGED stuck
             ELSE stuck' = TRUE /\ UNCHANGED signals
        BY <1>16 DEF Signal
    <2>1. /\ UNCHANGED <<config, control, chld, events, watched, procs, pidFile, notices, lost,
                          missed>>
          /\ sent' = sent + 1 /\ sent < MaxSignals
        BY <1>16 DEF Signal
    <2>2. signals \in Seq({"TERM", "HUP"}) /\ Len(signals) <= QueueLimit /\ Len(signals) \in Nat
        OBVIOUS
    <2>3. /\ Append(signals, s) \in Seq({"TERM", "HUP"})
          /\ Len(Append(signals, s)) = Len(signals) + 1
        BY <2>2
    <2>4. signals' \in Seq({"TERM", "HUP"}) /\ Len(signals') <= QueueLimit
        BY <2>2, <2>3, ConstantsOK, SMTT(60) DEF ConstantsOK
    <2>5. due' \in BOOLEAN /\ stuck' \in BOOLEAN
        OBVIOUS
    <2>6. sent' \in 0 .. MaxSignals
        BY <2>1, ConstantsOK DEF ConstantsOK
    <2> QED BY <2>1, <2>4, <2>5, <2>6 DEF control, procs
<1> QED BY <1>1, <1>2, <1>3, <1>4, <1>5, <1>6, <1>7, <1>8, <1>9, <1>10, <1>11, <1>12, <1>13,
       <1>14, <1>15, <1>16 DEF Next

LEMMA InitTyped == Init => Typed
<1> SUFFICES ASSUME Init PROVE Typed
    OBVIOUS
<1>1. 0 \in 0 .. MaxSignals /\ 0 \in 0 .. MaxNotices /\ 0 <= QueueLimit
    BY ConstantsOK DEF ConstantsOK
<1>2. signals = <<>> /\ todo = <<>> /\ sent = 0 /\ notices = 0 /\ launching = 0
    BY DEF Init
<1>3. /\ signals \in Seq({"TERM", "HUP"}) /\ Len(signals) <= QueueLimit
      /\ todo \in Seq({"stop", "start"}) /\ launching \in Nat
      /\ sent \in 0 .. MaxSignals /\ notices \in 0 .. MaxNotices
    BY <1>1, <1>2, Effects
<1> QED BY <1>3 DEF Init, Typed, TypeOK

(* Every variable keeps its type; only living processes are watched.       *)
THEOREM TypeCorrect == Spec => []TypeOK
<1>1. Init => Typed
    BY InitTyped
<1>2. Typed /\ [Next]_vars => Typed'
    BY TypedNext
<1>3. Typed => TypeOK
    BY DEF Typed
<1> QED BY <1>1, <1>2, <1>3, PTL DEF Spec

-----------------------------------------------------------------------------
(* One daemon at a time. There are two reasons for it. With a stop-cmd,    *)
(* nothing is started before the stop-cmd has run to its end, and whatever *)
(* was started, in the background too, has come up before daemondo is back *)
(* in its run loop.                                                        *)
One(S) == \A p, q \in S : p = q

ByCommand ==
  /\ One(alive)
  /\ launching \in {0, 1}
  /\ launching = 1 => pc = "poll" /\ alive = {}
  /\ command = "up" => /\ pc = "wait" /\ pid = Cmd
                       /\ todo \in {<<"stop">>, <<"start">>, <<"stop", "start">>}
                       /\ todo = <<"start">> => alive = {}
  /\ pc = "wait" => pid = Cmd
  /\ pc = "wait" /\ doing = "stop" => IF command = "up" THEN todo = <<"stop">> ELSE alive = {}
  /\ pc = "start" => alive = {}
  /\ terminating => \/ pc = "gone" /\ alive = {}
                    \/ pc = "wait" /\ doing = "stop" /\ ~restarting

(* Without one, daemondo forks the daemon and is its parent: what is alive *)
(* is what it tracks, until it is told of the death by either way.         *)
Direct ==
  /\ command = "none" /\ launching = 0
  /\ alive \subseteq children \cap born
  /\ events \subseteq born \ alive
  /\ pc \in {"run", "wait"} => alive \subseteq {runningPid}
  /\ pc = "track" => alive \subseteq {pid}
  /\ pc = "wait" => pid # Cmd /\ doing = "stop"
  /\ pc \in {"start", "gone"} => alive = {}

WithStopCmd == config.stop /\ ~lost
AsParent == config.style = "exec" /\ ~config.restart /\ ~config.stop /\ ~lost
CInv == (WithStopCmd => ByCommand) /\ (AsParent => Direct)

LEMMA Constant ==
  ASSUME [Next]_vars, lost \in BOOLEAN
  PROVE  config' = config /\ (lost => lost')
<1>1. config' = config
    BY DEF vars, Next, StartCommand, PollFinds, PollGivesUp, Track, HandleSignal, FireTimer,
       Notice, Patience, Waited, CheckChildren, KQueueCallBack, DaemonDies, DaemonWritesPid,
       CommandStep, BackgroundStep, Signal
<1>2. lost' = lost \/ lost' = TRUE
    BY DEF vars, Next, StartCommand, PollFinds, PollGivesUp, Track, HandleSignal, FireTimer,
       Notice, Patience, Waited, CheckChildren, KQueueCallBack, DaemonDies, DaemonWritesPid,
       CommandStep, BackgroundStep, Signal, Restart, Stop, history
<1> QED BY <1>1, <1>2

(* The heads and tails of what commands do.                                *)
LEMMA Effect ==
  /\ Head(<<"stop">>) = "stop" /\ Tail(<<"stop">>) = <<>>
  /\ Head(<<"start">>) = "start" /\ Tail(<<"start">>) = <<>>
  /\ Head(<<"stop", "start">>) = "stop" /\ Tail(<<"stop", "start">>) = <<"start">>
  /\ <<"start">> # <<>> /\ <<"stop">> # <<>> /\ <<"stop">> # <<"start">>
  /\ <<"stop", "start">> # <<"start">> /\ <<"stop", "start">> # <<"stop">>
OBVIOUS

LEMMA ByCommandNext ==
  ASSUME Typed, WithStopCmd, ByCommand, [Next]_vars, WithStopCmd'
  PROVE  ByCommand'
<1> USE DEF ByCommand, One
<1>0. /\ config' = config /\ config.stop /\ ~lost /\ ~lost'
      /\ alive \subseteq born /\ born \subseteq Pid /\ launching \in Nat
    BY Constant DEF WithStopCmd, Typed, TypeOK
<1>1. CASE UNCHANGED vars
    BY <1>1 DEF vars, control, queues, procs, history
<1>2. CASE StartCommand
    <2>1. pc = "start" /\ alive = {} /\ launching = 0 /\ command # "up" /\ ~terminating
          /\ terminating' = terminating
        BY <1>2 DEF StartCommand
    <2>2. CASE StartFails
        BY <2>1, <2>2 DEF StartFails, Return, LoopOrLeave, procs
    <2>3. CASE /\ \E p \in Fresh : /\ Spawn(p) /\ children' = children \cup {p}
                                   /\ pid' = p /\ pc' = "track"
               /\ UNCHANGED <<doing, silent, command, todo, launching, restarting, halted>>
        BY <2>1, <2>3 DEF Spawn
    <2>4. CASE /\ Fork(<<"start">>, "start")
               /\ UNCHANGED <<alive, born, children, silent, launching, restarting, halted>>
        BY <2>1, <2>4, Effect DEF Fork
    <2>5. CASE /\ launching' = launching + 1 /\ pc' = "poll"
               /\ UNCHANGED <<doing, pid, alive, born, children, silent, command, todo, restarting,
                              halted>>
        BY <2>1, <2>5
    <2> QED BY <1>2, <2>2, <2>3, <2>4, <2>5 DEF StartCommand
<1>3. CASE PollFinds
    BY <1>3 DEF PollFinds, procs
<1>4. CASE PollGivesUp
    BY <1>0, <1>4 DEF PollGivesUp
<1>5. CASE Track
    BY <1>5 DEF Track, Return, LoopOrLeave, procs
<1>6. CASE HandleSignal
    <2>1. /\ pc = "run" /\ alive' = alive /\ launching' = launching /\ launching = 0
          /\ command # "up" /\ ~terminating
          /\ \/ terminating' = TRUE /\ restarting' = FALSE /\ Stop
             \/ terminating' = terminating /\ Restart("source")
        BY <1>6 DEF HandleSignal
    <2>2. CASE terminating' = TRUE /\ restarting' = FALSE /\ Stop
        BY <1>0, <2>1, <2>2, Effect DEF Stop, Fork
    <2>3. CASE terminating' = terminating /\ Restart("source")
        BY <1>0, <2>1, <2>3, Effect DEF Restart, Stop, LoopOrLeave, Fork
    <2> QED BY <2>1, <2>2, <2>3
<1>7. CASE FireTimer
    BY <1>0, <1>7, Effect DEF FireTimer, Restart, Stop, LoopOrLeave, Fork
<1>8. CASE Notice
    BY <1>8 DEF Notice, LoopOrLeave, procs
<1>9. CASE Patience
    BY <1>0, <1>9, ConstantsOK DEF Patience, Typed, TypeOK, ConstantsOK
<1>10. CASE Waited
    BY <1>10, ConstantsOK DEF Waited, Mourns, AfterStop, Return, LoopOrLeave, ConstantsOK
<1>11. CASE CheckChildren
    BY <1>11 DEF CheckChildren, ProcessChildDeath, LoopOrLeave
<1>12. CASE KQueueCallBack
    BY <1>12 DEF KQueueCallBack, ProcessChildDeath, LoopOrLeave, procs
<1>13. CASE DaemonDies
    BY <1>13 DEF DaemonDies, Die, control
<1>14. CASE DaemonWritesPid
    BY <1>14 DEF DaemonWritesPid, control
<1>15. CASE CommandStep
    <2>1. /\ command = "up" /\ todo' = Tail(todo) /\ UNCHANGED control /\ launching' = launching
          /\ command' = (IF Tail(todo) = <<>> THEN "zombie" ELSE "up") /\ launching = 0
        BY <1>15 DEF CommandStep, control
    <2>2. CASE todo = <<"start">>
        <3>1. Head(todo) = "start" /\ command' = "zombie" /\ alive = {} /\ doing # "stop"
            BY <2>1, <2>2, Effect
        <3>2. One(alive)'
            BY <1>15, <3>1 DEF CommandStep, Launch, Spawn
        <3> QED BY <2>1, <3>1, <3>2 DEF control
    <2>3. CASE todo \in {<<"stop">>, <<"stop", "start">>}
        <3>1. Head(todo) = "stop" /\ (command' = "up" => todo' = <<"start">> /\ doing # "stop")
            BY <2>1, <2>3, Effect
        <3>2. alive' = {}
            BY <1>15, <3>1 DEF CommandStep, Die
        <3> QED BY <2>1, <3>1, <3>2 DEF control
    <2> QED BY <2>1, <2>2, <2>3
<1>16. CASE BackgroundStep
    <2>1. launching = 1 /\ alive = {} /\ pc = "poll" /\ launching' = 0 /\ command' = command
          /\ UNCHANGED control
        BY <1>0, <1>16 DEF BackgroundStep
    <2>2. One(alive)'
        BY <1>16, <2>1 DEF BackgroundStep, Launch, Spawn
    <2> QED BY <2>1, <2>2 DEF control
<1>17. CASE Signal
    BY <1>17 DEF Signal, control, procs
<1> QED BY <1>1, <1>2, <1>3, <1>4, <1>5, <1>6, <1>7, <1>8, <1>9, <1>10, <1>11, <1>12, <1>13,
       <1>14, <1>15, <1>16, <1>17 DEF Next

LEMMA DirectNext ==
  ASSUME Typed, AsParent, Agreement, Direct, [Next]_vars, AsParent'
  PROVE  Direct'
<1> USE DEF Direct
<1>0. /\ config' = config /\ ~config.stop /\ ~config.restart /\ config.style = "exec" /\ ~OwnFile
      /\ ~lost /\ ~lost' /\ alive \subseteq born /\ born \subseteq Pid /\ watched \subseteq alive
      /\ pc # "poll"
    BY Constant DEF AsParent, Typed, TypeOK, OwnFile, Agreement
<1>1. CASE UNCHANGED vars
    BY <1>1 DEF vars, control, queues, procs, history
<1>2. CASE StartCommand
    <2>1. alive = {} /\ runningPid = NoPid /\ events' = events /\ runningPid' = runningPid
        BY <1>2 DEF StartCommand, Agreement, queues
    <2>2. CASE StartFails
        BY <2>1, <2>2 DEF StartFails, Return, LoopOrLeave, procs, queues
    <2>3. CASE /\ \E p \in Fresh : /\ Spawn(p) /\ children' = children \cup {p}
                                   /\ pid' = p /\ pc' = "track"
               /\ UNCHANGED <<doing, silent, command, todo, launching, restarting, halted>>
        BY <1>0, <2>1, <2>3 DEF Spawn, Fresh
    <2> QED BY <1>0, <1>2, <2>2, <2>3 DEF StartCommand
<1>3. CASE PollFinds \/ PollGivesUp
    BY <1>0, <1>3 DEF PollFinds, PollGivesUp
<1>4. CASE Track
    BY <1>4, ConstantsOK DEF Track, Return, LoopOrLeave, procs, Agreement, ConstantsOK
<1>5. CASE HandleSignal
    <2>1. /\ pc = "run" /\ UNCHANGED <<alive, born, children, events, launching, runningPid>>
          /\ alive \subseteq {runningPid} /\ runningPid \in Pid \cup {NoPid}
          /\ \/ terminating' = TRUE /\ restarting' = FALSE /\ Stop
             \/ terminating' = terminating /\ Restart("source")
        BY <1>5 DEF HandleSignal, Agreement
    <2>2. runningPid \notin Pid => alive = {}
        BY <1>0, <2>1
    <2>3. Stop \/ Restart("source") => Stop
        BY <1>0 DEF Restart
    <2> QED BY <1>0, <2>1, <2>2, <2>3, ConstantsOK DEF Stop, AfterStop, LoopOrLeave, ConstantsOK
<1>6. CASE FireTimer
    <2>1. /\ pc = "run" /\ UNCHANGED <<alive, born, children, events, launching, runningPid>>
          /\ alive \subseteq {runningPid} /\ runningPid \in Pid \cup {NoPid} /\ Stop
        BY <1>0, <1>6 DEF FireTimer, Agreement, queues, Restart
    <2>2. runningPid \notin Pid => alive = {}
        BY <1>0, <2>1
    <2> QED BY <1>0, <2>1, <2>2, ConstantsOK DEF Stop, AfterStop, LoopOrLeave, ConstantsOK
<1>7. CASE Notice
    BY <1>0, <1>7, ConstantsOK DEF Notice, LoopOrLeave, procs, queues, Agreement, ConstantsOK
<1>8. CASE Patience
    BY <1>0, <1>8 DEF Patience, Die, control
<1>9. CASE Waited
    <2>1. /\ pid # Cmd /\ doing = "stop" /\ pid \notin alive \cap children /\ runningPid \in {pid, NoPid}
          /\ UNCHANGED <<alive, born, events, launching>>
          /\ children' = children \ {pid} /\ command' = command
        BY <1>9 DEF Waited, Agreement, queues
    <2>2. alive = {}
        BY <1>0, <2>1, <1>9, ConstantsOK DEF Waited, ConstantsOK
    <2>3. pc' \in {"start", "gone", "run"}
        BY <1>9, <2>1 DEF Waited, AfterStop, LoopOrLeave
    <2> QED BY <2>1, <2>2, <2>3
<1>10. CASE CheckChildren
    <2>1. /\ UNCHANGED <<alive, born, events, launching, doing, pid>>
          /\ children' = children \cap alive /\ command' = "none" /\ pc \in {"run", "wait"}
          /\ runningPid' = IF runningPid \in children \ alive THEN NoPid ELSE runningPid
          /\ pc' = pc \/ (pc' \in {"run", "gone"} /\ (pc' = "gone" => terminating' \/ runningPid' = NoPid))
        BY <1>10 DEF CheckChildren, ProcessChildDeath, Mourns, LoopOrLeave, history
    <2>2. alive \subseteq {runningPid'}
        BY <2>1
    <2>3. terminating' = terminating /\ (terminating => pc = "wait") /\ (pc = "wait" => pc' = "wait")
        BY <1>10, <2>1 DEF CheckChildren, Agreement
    <2> QED BY <1>0, <2>1, <2>2, <2>3, ConstantsOK DEF ConstantsOK
<1>11. CASE KQueueCallBack
    <2> PICK p \in events : events' = events \ {p} /\ ProcessChildDeath({p})
        BY <1>11 DEF KQueueCallBack
    <2>1. /\ UNCHANGED <<alive, born, children, command, launching, doing, pid>>
          /\ pc \in {"run", "wait"}
          /\ runningPid' = IF runningPid = p THEN NoPid ELSE runningPid
          /\ pc' = pc \/ (pc' \in {"run", "gone"} /\ (pc' = "gone" => terminating' \/ runningPid' = NoPid))
        BY <1>11 DEF KQueueCallBack, ProcessChildDeath, Mourns, LoopOrLeave, procs
    <2>2. alive \subseteq {runningPid'}
        BY <2>1
    <2>3. terminating' = terminating /\ (terminating => pc = "wait") /\ (pc = "wait" => pc' = "wait")
        BY <1>11, <2>1 DEF KQueueCallBack, Agreement
    <2> QED BY <1>0, <2>1, <2>2, <2>3, ConstantsOK DEF ConstantsOK
<1>12. CASE DaemonDies
    BY <1>0, <1>12 DEF DaemonDies, Die, control
<1>13. CASE DaemonWritesPid
    BY <1>13 DEF DaemonWritesPid, control, queues
<1>14. CASE CommandStep \/ BackgroundStep
    BY <1>14 DEF CommandStep, BackgroundStep
<1>15. CASE Signal
    BY <1>15 DEF Signal, control, procs
<1> QED BY <1>1, <1>2, <1>3, <1>4, <1>5, <1>6, <1>7, <1>8, <1>9, <1>10, <1>11, <1>12, <1>13,
       <1>14, <1>15 DEF Next

(* With a means to stop what it started, daemondo never has two daemons at *)
(* a time, and leaves none when it was told to terminate, whatever signals,*)
(* notifications, deaths and timeouts meet (Start, Stop, Restart,          *)
(* WaitChildDeath, CheckChildren, KQueueCallBack).                         *)
THEOREM OneDaemonAtATime == Spec => []OneDaemon
<1>1. Spec => []Typed
    <2>1. Init => Typed
        BY InitTyped
    <2>2. Typed /\ [Next]_vars => Typed'
        BY TypedNext
    <2> QED BY <2>1, <2>2, PTL DEF Spec
<1>2. Init => CInv
    BY DEF Init, CInv, ByCommand, Direct, One
<1>3. Typed /\ IInv /\ CInv /\ [Next]_vars => CInv'
    <2> SUFFICES ASSUME Typed, IInv, CInv, [Next]_vars PROVE CInv'
        OBVIOUS
    <2>1. config' = config /\ (lost => lost')
        BY Constant DEF Typed, TypeOK
    <2>2. ASSUME WithStopCmd' PROVE ByCommand'
        BY <2>1, <2>2, ByCommandNext DEF CInv, WithStopCmd
    <2>3. ASSUME AsParent' PROVE Direct'
        BY <2>1, <2>3, DirectNext DEF CInv, AsParent, IInv, Own
    <2> QED BY <2>2, <2>3 DEF CInv
<1>4. Typed /\ IInv /\ CInv => OneDaemon
    <2> SUFFICES ASSUME Typed, IInv, CInv, InControl PROVE OneDaemon
        BY DEF OneDaemon
    <2>1. One(alive) /\ (pc = "gone" /\ terminating => alive = {})
        <3>1. CASE config.stop
            BY <3>1 DEF CInv, InControl, WithStopCmd, ByCommand
        <3>2. CASE ~config.stop
            <4>1. Direct /\ Agreement
                BY <3>2 DEF CInv, InControl, AsParent, IInv, Own, Typed, TypeOK
            <4> QED BY <4>1 DEF Direct, Agreement, One
        <3> QED BY <3>1, <3>2
    <2>2. Cardinality(alive) <= 1
        <3>1. CASE alive = {}
            BY <3>1, FS_EmptySet
        <3>2. ASSUME NEW p \in alive
              PROVE  Cardinality(alive) <= 1
            <4>1. alive = {p}
                BY <2>1 DEF One
            <4>2. Cardinality({p}) = 1
                BY FS_Singleton
            <4> QED BY <4>1, <4>2
        <3> QED BY <3>1, <3>2
    <2> QED BY <2>1, <2>2 DEF OneDaemon
<1> QED BY <1>1, <1>2, <1>3, <1>4, Invariance, PTL DEF Spec
=============================================================================
