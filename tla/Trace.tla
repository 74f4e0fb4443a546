------------------------------- MODULE Trace -------------------------------
(***************************************************************************)
(* Trace mode: target_run (port1.0/portutil.tcl) opens a session for a     *)
(* target (porttrace.tcl), whose server thread (pextlib1.0/tracelib.c)     *)
(* answers the requests of the processes the target starts, which preload  *)
(* darwintrace (darwintracelib1.0/darwintrace.c).  The server's data are   *)
(* static variables of the port process, shared by all its threads; the    *)
(* session's thread is a variable of the port's interpreter.  Targets may  *)
(* call targets, of the same port or of another one.                       *)
(***************************************************************************)
EXTENDS Naturals, Sequences, FiniteSets

CONSTANTS
  Client,      \* processes that may be started, each once (bound)
  Child,       \* those the procedure that starts them waits for; the others outlive it
  None,
  Listen, Pipe,\* the listening socket and the self-pipe, as events of a kqueue
  Plans,       \* the targets the user asks for, and whether the ports are started
               \* with the system (startupitem.autostart)
  PeerPid,     \* whether the system has LOCAL_PEERPID: a set of truth values
  Faults,      \* subset of {"prerun", "kqueue", "accept", "spurious"}
  MaxSessions, \* sessions of the process (bound)
  MaxAsks      \* requests of a client (bound)

\* "build" stands for fetch to destroot and the package targets.
Target == {"build", "activate", "deactivate", "unload", "uninstall", "clean"}

ASSUME ConstantsOK ==
  /\ Child \subseteq Client
  /\ {None, Listen, Pipe} \cap Client = {}
  /\ Cardinality({None, Listen, Pipe}) = 3
  /\ Plans \subseteq [targets : Seq(Target), autostart : BOOLEAN]
  /\ PeerPid \subseteq BOOLEAN
  /\ Faults \subseteq {"prerun", "kqueue", "accept", "spurious"}
  /\ {MaxSessions, MaxAsks} \subseteq Nat

Session == 1 .. MaxSessions
Port == 1 .. 2              \* interpreters: the port asked for, and the one a target opens

VARIABLES
  stack,     \* the calls of target_run, innermost last
  plan,      \* what is left of the plan
  thread,    \* porttrace::thread of each interpreter, 0: not set
  env,       \* the session DARWINTRACE_LOG names, 0: not set
  sock, name, kq, selfpipe, sandbox, fence, depends,  \* statics of tracelib.c, 0: -1 or NULL
  server,    \* the thread of each session
  client,
  peerpid,
  failed,    \* history: a server loop ended with an error
  nested     \* history: a traced deactivation has called unload, which opens a
             \* session inside its own (portdeactivate.tcl 62-66)

statics == <<sock, name, kq, selfpipe, sandbox, fence, depends>>
main == <<stack, plan, thread, env>>
vars == <<main, statics, server, client, peerpid, failed, nested>>

Fenced(target) == target \notin {"activate", "deactivate", "archive", "install"}
HasDeps(target) == target \in {"build", "activate", "install"}

\* Mutant: the exclusion of uninstall is dropped.
TracedAlsoUninstall(f) == f.traced /\ f.target # "clean"

\* ports_trace is set in the interpreter, and the target is not excluded.
Traced(f) == f.traced /\ f.target \notin {"clean", "uninstall"}

NoServer == [at |-> "none", target |-> "none", batch |-> {}, stop |-> FALSE, reading |-> None]
NoClient == [at |-> "none", session |-> 0, msg |-> "none",
             what |-> "none", waits |-> FALSE, asks |-> 0, map |-> None, deps |-> None]
Dead == [NoClient EXCEPT !.at = "dead"]

Init ==
  /\ stack = <<>> /\ plan \in Plans /\ env = 0
  /\ thread = [p \in Port |-> 0]
  /\ sock = 0 /\ name = 0 /\ kq = 0 /\ sandbox = 0 /\ fence = FALSE /\ depends = 0
  /\ selfpipe = [of |-> 0, rung |-> FALSE]
  /\ server = [s \in Session |-> NoServer]
  /\ client = [c \in Client |-> NoClient]
  /\ peerpid \in PeerPid
  /\ failed = FALSE /\ nested = FALSE

Top == stack[Len(stack)]
At(where) == stack # <<>> /\ Top.at = where
Goto(where) == stack' = [stack EXCEPT ![Len(stack)].at = where]
Return == stack' = SubSeq(stack, 1, Len(stack) - 1)

Alive(c) == client[c].at \in {"new", "queued", "conn", "cut"}
-----------------------------------------------------------------------------
(* target_run. *)

Frame(target, port, traced) ==
  [target |-> target, port |-> port, traced |-> traced, at |-> "prerun", called |-> FALSE]

\* mportexec on behalf of the user, with port -t.
Ask ==
  /\ stack = <<>> /\ plan.targets # <<>>
  /\ plan' = [plan EXCEPT !.targets = Tail(@)]
  /\ stack' = <<Frame(Head(plan.targets), 1, TRUE)>>
  /\ UNCHANGED <<thread, env, statics, server, client, peerpid, failed, nested>>

\* A target calls another one, at most once (bound).
Call(frame) ==
  /\ At("run") /\ ~Top.called
  /\ stack' = Append([stack EXCEPT ![Len(stack)].called = TRUE], frame)
  /\ UNCHANGED <<plan, thread, env, statics, server, client, peerpid, failed>>

\* portuninstall.tcl passes its options on; portimage.tcl passes none that traces.
DeactivatedTraced(f) == f.traced /\ f.target = "uninstall"

\* run_target: the Portfile of the other port is opened from the registry.
CallDeactivate ==
  /\ At("run") /\ Top.target \in {"activate", "uninstall"}
  /\ Call(Frame("deactivate", 2, DeactivatedTraced(Top))) /\ UNCHANGED nested

\* deactivate_main of a port with startupitem.autostart.
CallUnload ==
  /\ At("run") /\ Top.target = "deactivate" /\ plan.autostart
  /\ Call(Frame("unload", Top.port, Top.traced))
  /\ nested' = (nested \/ Traced(Top))

Prerun ==
  /\ At("prerun")
  /\ Goto(IF Traced(Top) THEN "start" ELSE "run")
  /\ UNCHANGED <<plan, thread, env, statics, server, client, peerpid, failed, nested>>

\* The teardown does not ask for the result.
PrerunFails ==
  /\ At("prerun") /\ "prerun" \in Faults
  /\ IF Traced(Top) THEN Goto("close") ELSE Return
  /\ UNCHANGED <<plan, thread, env, statics, server, client, peerpid, failed, nested>>

\* The procedure comes to an end after the processes it waits for.
Finish ==
  /\ At("run")
  /\ \A c \in Child : ~Alive(c)
  /\ IF Traced(Top) THEN Goto("close") ELSE Return
  /\ UNCHANGED <<plan, thread, env, statics, server, client, peerpid, failed, nested>>
-----------------------------------------------------------------------------
(* The session, as the main thread opens and closes it. *)

\* create_slave and slave_init: setname and opensocket run before it goes on, slave_run not.
StartSession ==
  /\ At("start") /\ Goto("bounds")
  /\ \E s \in Session :
       /\ server[s].at = "none" /\ \A t \in Session : t < s => server[t].at # "none"
       /\ server' = [server EXCEPT ![s].at = "posted", ![s].target = Top.target]
       /\ thread' = [thread EXCEPT ![Top.port] = s]
       /\ env' = s /\ name' = s /\ sock' = s /\ depends' = 0
  /\ UNCHANGED <<plan, kq, selfpipe, sandbox, fence, client, peerpid, failed, nested>>

\* setsandbox, enablefence, setdeps.
SetBounds ==
  /\ At("bounds") /\ Goto("run")
  /\ sandbox' = thread[Top.port]
  /\ fence' = (fence \/ Fenced(Top.target))
  /\ depends' = IF HasDeps(Top.target) THEN thread[Top.port] ELSE depends
  /\ UNCHANGED <<plan, thread, env, sock, name, kq, selfpipe, server, client, peerpid, failed, nested>>

\* The kernel resets the connections a listening socket has not accepted.
CutQueue == [c \in Client |-> IF client[c].at = "queued" /\ client[c].session = sock
                              THEN [client[c] EXCEPT !.at = "cut"] ELSE client[c]]

\* tracelib closesocket, under evloop_mutex.
CloseSocket(wait, next) ==
  IF kq # 0 /\ selfpipe.of # 0
  THEN /\ selfpipe' = [selfpipe EXCEPT !.rung = TRUE]
       /\ UNCHANGED <<sock, client>>
       /\ Goto(wait)
  ELSE /\ client' = CutQueue /\ sock' = 0
       /\ UNCHANGED selfpipe
       /\ Goto(next)

CloseFirst ==
  /\ At("close") /\ CloseSocket("wait", "check")
  /\ UNCHANGED <<plan, thread, env, name, kq, sandbox, fence, depends, server, peerpid, failed, nested>>

Waits == At("wait") \/ At("waitStop")
Woken == Goto(IF Top.at = "wait" THEN "check" ELSE "clean")

\* pthread_cond_wait may return without a signal, and is not repeated.
SpuriousWakeup ==
  /\ "spurious" \in Faults /\ Waits /\ Woken
  /\ UNCHANGED <<plan, thread, env, statics, server, client, peerpid, failed, nested>>

\* Mutant: the lists are read without asking the server's thread.
CheckViolationsUnsynced ==
  /\ At("check") /\ Goto("stop")
  /\ UNCHANGED <<plan, thread, env, statics, server, client, peerpid, failed, nested>>

\* slave_send waits until the thread has run what was sent before; without a
\* thread it raises an error, which leaves target_run.
CheckViolations ==
  /\ At("check")
  /\ LET t == thread[Top.port] IN
       IF t # 0 /\ server[t].at # "gone"
       THEN server[t].at = "idle" /\ Goto("stop")
       ELSE Return
  /\ UNCHANGED <<plan, thread, env, statics, server, client, peerpid, failed, nested>>

\* trace_stop: the environment, and tracelib closesocket again.
Stop ==
  /\ At("stop") /\ env' = 0
  /\ CloseSocket("waitStop", "clean")
  /\ UNCHANGED <<plan, thread, name, kq, sandbox, fence, depends, server, peerpid, failed, nested>>

\* Mutant: clean leaves the fence up.
CleanKeepsFence ==
  /\ At("clean") /\ Goto("release")
  /\ client' = CutQueue /\ sock' = 0
  /\ name' = 0 /\ depends' = 0
  /\ UNCHANGED <<plan, thread, env, kq, selfpipe, sandbox, fence, server, peerpid, failed, nested>>

\* tracelib clean, without the lock; it does not free the sandbox.
Clean ==
  /\ At("clean") /\ Goto("release")
  /\ client' = CutQueue /\ sock' = 0
  /\ name' = 0 /\ depends' = 0 /\ fence' = FALSE
  /\ UNCHANGED <<plan, thread, env, kq, selfpipe, sandbox, server, peerpid, failed, nested>>

\* delete_slave; the variable keeps the name of the thread.
Release ==
  /\ At("release") /\ Return
  /\ server' = [server EXCEPT ![thread[Top.port]].at = "gone"]
  /\ UNCHANGED <<plan, thread, env, statics, client, peerpid, failed, nested>>
-----------------------------------------------------------------------------
(* tracelib run, in the thread of session t.  A loop is described while    *)
(* the queue is the one it made: what two loops do, of which one waits on  *)
(* a queue that a nested session has replaced, is left out.                *)

\* Under evloop_mutex.
Setup(t) ==
  /\ server[t].at = "posted"
  /\ kq' = t
  /\ selfpipe' = [of |-> IF sock # 0 THEN t ELSE 0, rung |-> FALSE]
  /\ server' = [server EXCEPT ![t].at = "loop"]
  /\ UNCHANGED <<main, sock, name, sandbox, fence, depends, client, peerpid, failed, nested>>

SetupFails(t) ==
  /\ server[t].at = "posted" /\ "kqueue" \in Faults
  /\ kq' = 0 /\ selfpipe' = [of |-> 0, rung |-> FALSE]
  /\ server' = [server EXCEPT ![t].at = "broadcast"]
  /\ failed' = TRUE
  /\ UNCHANGED <<main, sock, name, sandbox, fence, depends, client, peerpid, nested>>

Looping(t) == server[t].at = "loop" /\ kq = t
Queued == {c \in Client : client[c].at = "queued" /\ client[c].session = sock}
Connected(t) == {c \in Client : client[c].at \in {"conn", "eof"} /\ client[c].session = t}

Ready(t) == {c \in Connected(t) : client[c].at = "eof" \/ client[c].msg # "none"}
            \cup (IF Queued # {} THEN {Listen} ELSE {})
            \cup (IF selfpipe.rung THEN {Pipe} ELSE {})

\* kevent returns everything that is ready.
Kevent(t) ==
  /\ Looping(t) /\ sock # 0 /\ ~server[t].stop
  /\ server[t].batch = {} /\ server[t].reading = None
  /\ Ready(t) # {}
  /\ server' = [server EXCEPT ![t].batch = Ready(t)]
  /\ UNCHANGED <<main, statics, client, peerpid, failed, nested>>

TakePipe(t) ==
  /\ Looping(t) /\ Pipe \in server[t].batch /\ server[t].reading = None
  /\ server' = [server EXCEPT ![t].batch = @ \ {Pipe}, ![t].stop = TRUE]
  /\ UNCHANGED <<main, statics, client, peerpid, failed, nested>>

\* process_line blocks until the message is complete or the client is gone.
TakeClient(t, c) ==
  /\ Looping(t) /\ c \in server[t].batch /\ server[t].reading = None
  /\ server' = [server EXCEPT ![t].batch = @ \ {c}, ![t].reading = c]
  /\ UNCHANGED <<main, statics, client, peerpid, failed, nested>>

\* send_file_map or dep_check.
Answer(t, c) ==
  /\ Looping(t) /\ server[t].reading = c
  /\ client[c].at = "conn" /\ client[c].msg = "full"
  /\ client' = [client EXCEPT ![c].msg = "none", ![c].waits = FALSE, ![c].what = "none",
                              ![c].map = IF client[c].what = "filemap"
                                         THEN (IF fence THEN sandbox ELSE 0) ELSE @,
                              ![c].deps = IF client[c].what = "dep_check" THEN depends ELSE @]
  /\ server' = [server EXCEPT ![t].reading = None]
  /\ UNCHANGED <<main, statics, peerpid, failed, nested>>

\* The end of the stream, or a part of a message and then the end.
CloseClient(t, c) ==
  /\ Looping(t) /\ server[t].reading = c /\ client[c].at = "eof"
  /\ client' = [client EXCEPT ![c] = Dead]
  /\ server' = [server EXCEPT ![t].reading = None]
  /\ UNCHANGED <<main, statics, peerpid, failed, nested>>

\* New connections come last in a batch.
Accept(t) ==
  /\ Looping(t) /\ server[t].batch = {Listen} /\ server[t].reading = None
  /\ client' = [c \in Client |-> IF c \in Queued THEN [client[c] EXCEPT !.at = "conn"]
                                                 ELSE client[c]]
  /\ server' = [server EXCEPT ![t].batch = {}]
  /\ UNCHANGED <<main, statics, peerpid, failed, nested>>

\* Mutant: without a look at LOCAL_PEERPID, connections are only counted.
LeaveConnected(t) == client

\* The connections still open: with LOCAL_PEERPID their processes are killed.
Leftovers(t) ==
  [c \in Client |-> IF c \in Connected(t) /\ peerpid
                    THEN Dead ELSE client[c]]

\* The end of the loop, under evloop_mutex.
Leave(t) ==
  /\ client' = Leftovers(t)
  /\ kq' = 0 /\ selfpipe' = [of |-> 0, rung |-> FALSE]
  /\ server' = [server EXCEPT ![t] = [NoServer EXCEPT !.at = "broadcast", !.target = server[t].target]]
  /\ UNCHANGED <<main, sock, name, sandbox, fence, depends, peerpid, nested>>

EndLoop(t) ==
  /\ Looping(t) /\ server[t].batch = {} /\ server[t].reading = None
  /\ server[t].stop \/ sock = 0
  /\ Leave(t) /\ UNCHANGED failed

AcceptFails(t) ==
  /\ Looping(t) /\ server[t].batch = {Listen} /\ server[t].reading = None
  /\ "accept" \in Faults
  /\ Leave(t) /\ failed' = TRUE

\* Mutant: the end of the loop is not signalled.
BroadcastNot(t) ==
  /\ server[t].at = "broadcast"
  /\ server' = [server EXCEPT ![t].at = "idle"]
  /\ UNCHANGED <<main, statics, client, peerpid, failed, nested>>

\* After the mutex is released; the thread then goes back to its event loop.
Broadcast(t) ==
  /\ server[t].at = "broadcast"
  /\ server' = [server EXCEPT ![t].at = "idle"]
  /\ IF Waits THEN Woken ELSE UNCHANGED stack
  /\ UNCHANGED <<plan, thread, env, statics, client, peerpid, failed, nested>>
-----------------------------------------------------------------------------
(* Traced processes. *)

Spawn(c) ==
  /\ At("run") /\ env # 0 /\ client[c].at = "none"
  /\ client' = [client EXCEPT ![c].at = "new", ![c].session = env]
  /\ UNCHANGED <<main, statics, server, peerpid, failed, nested>>

\* darwintrace connects before the first file operation, or aborts.
Connect(c) ==
  /\ client[c].at = "new"
  /\ client' = [client EXCEPT ![c] = IF sock = client[c].session
                                      THEN [client[c] EXCEPT !.at = "queued"] ELSE Dead]
  /\ UNCHANGED <<main, statics, server, peerpid, failed, nested>>

Talks(c) == client[c].at \in {"queued", "conn"}

\* A request: its length and its text are written apart.  The first thread of a
\* process asks for the file map when it has connected, the others need not.
SendPart(c, what) ==
  /\ Talks(c) /\ ~client[c].waits /\ client[c].asks < MaxAsks
  /\ what = "filemap" => client[c].asks = 0
  /\ client' = [client EXCEPT ![c].msg = "part", ![c].what = what, ![c].waits = TRUE,
                              ![c].asks = @ + 1]
  /\ UNCHANGED <<main, statics, server, peerpid, failed, nested>>

SendRest(c) ==
  /\ Talks(c) /\ client[c].msg = "part"
  /\ client' = [client EXCEPT ![c].msg = "full"]
  /\ UNCHANGED <<main, statics, server, peerpid, failed, nested>>

\* The server sees the end of a stream it has accepted.
Ended(c) == IF client[c].at = "conn" THEN [Dead EXCEPT !.at = "eof", !.session = client[c].session]
                                  ELSE Dead

\* A process ends between two requests.
Exit(c) ==
  /\ Alive(c) /\ ~client[c].waits
  /\ client' = [client EXCEPT ![c] = Ended(c)]
  /\ UNCHANGED <<main, statics, server, peerpid, failed, nested>>

\* A process is killed by someone else, in the middle of a request or of an answer.
Killed(c) ==
  /\ Alive(c) /\ client[c].waits
  /\ client' = [client EXCEPT ![c] = Ended(c)]
  /\ UNCHANGED <<main, statics, server, peerpid, failed, nested>>

\* darwintrace aborts at an error or an end of file.
Abort(c) ==
  /\ client[c].at = "cut"
  /\ client' = [client EXCEPT ![c] = Dead]
  /\ UNCHANGED <<main, statics, server, peerpid, failed, nested>>
-----------------------------------------------------------------------------
Work == Prerun \/ StartSession \/ SetBounds \/ Finish
        \/ CloseFirst \/ CheckViolations \/ Stop \/ Clean \/ Release

Serve(t) ==
  \/ Setup(t) \/ Kevent(t) \/ TakePipe(t) \/ Accept(t) \/ EndLoop(t) \/ Broadcast(t)
  \/ \E c \in Client : TakeClient(t, c) \/ Answer(t, c) \/ CloseClient(t, c)

Next ==
  \/ Ask \/ CallDeactivate \/ CallUnload \/ PrerunFails \/ SpuriousWakeup
  \/ Work
  \/ \E t \in Session : Serve(t) \/ SetupFails(t) \/ AcceptFails(t)
  \/ \E c \in Client :
       \/ \E what \in {"filemap", "dep_check"} : SendPart(c, what)
       \/ Spawn(c) \/ Connect(c) \/ SendRest(c) \/ Exit(c) \/ Killed(c) \/ Abort(c)

Spec == Init /\ [][Next]_vars

\* Threads run; processes finish what they write, and those a procedure waits for end.
Fairness ==
  /\ WF_vars(Work)
  /\ \A t \in Session : WF_vars(Serve(t))
  /\ \A c \in Client : WF_vars(Connect(c) \/ SendRest(c) \/ Abort(c))
  /\ \A c \in Child : WF_vars(Exit(c))

FairSpec == Spec /\ Fairness
-----------------------------------------------------------------------------
(* Properties.  None says anything once a session was opened inside another *)
(* one.  target_run excludes uninstall, since "the two trace threads will   *)
(* conflict and cause a deadlock", but a traced deactivation of a port with *)
(* startupitem.autostart calls unload, and does just that.                  *)

\* While a loop runs, the socket and the name it uses are its own: tracelib clean
\* never frees them under it, though it takes no lock, a wait for the loop may end
\* early, and the session may be closed before the loop was set up.
CleanAfterLoop ==
  ~nested => \A t \in Session :
    server[t].at = "loop" => name = t /\ sock = (IF selfpipe.of = t THEN t ELSE 0)

\* Whatever a process was told, it was told about its own session: the sandbox if
\* the target is fenced, everything allowed if not, and the dependencies of its
\* target; the statics that hold them outlive the sessions (send_file_map, dep_check).
OwnBounds(c) ==
  client[c].session # 0 =>
    LET s == client[c].session
        target == server[s].target
    IN /\ client[c].map \in {None, IF Fenced(target) THEN s ELSE 0}
       /\ client[c].deps \in {None, IF HasDeps(target) THEN s ELSE 0}
RightBounds == ~nested => \A c \in Client : OwnBounds(c)

\* Two trace threads serve at once only where a session is nested in another: neither
\* the targets a target calls, nor what a failed or interrupted teardown leaves behind,
\* are met by the session of the next (comment in target_run).
OneTraceThread ==
  ~nested => Cardinality({t \in Session : server[t].at \in {"posted", "loop", "broadcast"}}) <= 1

\* A target in trace mode comes to an end, through both waits of the teardown,
\* unless the server of a session has failed.
SessionEnds == stack # <<>> ~> (stack = <<>> \/ failed \/ nested)

Waiting(c) == Alive(c) /\ client[c].waits

\* No process waits for ever for an answer, nor for a session that has been closed:
\* it is answered, or its connection is reset, or it is killed with LOCAL_PEERPID.
NoneWaitsForEver == \A c \in Client : Waiting(c) ~> (~Waiting(c) \/ failed \/ nested \/ ~peerpid)
=============================================================================
