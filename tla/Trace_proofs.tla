---------------------------- MODULE Trace_proofs ----------------------------
(***************************************************************************)
(* Proofs about trace mode, for any processes, plans of targets, sessions, *)
(* requests and faults: no two sessions overlap, the server's data are     *)
(* freed only after its loop, and a request is answered by the bounds of   *)
(* its own target.                                                         *)
(*                                                                         *)
(* All three hold because at most one of the nested calls of target_run    *)
(* has a session. The invariant says what the statics of tracelib are at   *)
(* each step of that call and of the thread that serves it (Serving). It   *)
(* ends where a traced deactivation has called unload (nested).            *)
(***************************************************************************)
EXTENDS Trace, SequenceTheorems, FiniteSetTheorems, TLAPS

Early == {"bounds", "run", "close", "wait", "check"}
InSession == Early \cup {"stop", "clean", "release"}
Places == InSession \cup {"prerun", "start", "waitStop"}

Frames == [target : Target, port : Port, traced : BOOLEAN, at : Places, called : BOOLEAN]
Servers == [at : {"none", "posted", "loop", "broadcast", "idle", "gone"},
            target : Target \cup {"none"}, batch : SUBSET (Client \cup {Listen, Pipe}),
            stop : BOOLEAN, reading : Client \cup {None}]
Clients == [at : {"none", "new", "queued", "conn", "cut", "eof", "dead"},
            session : Nat, msg : {"none", "part", "full"},
            what : {"none", "filemap", "dep_check"}, waits : BOOLEAN, asks : Nat,
            map : {None} \cup Nat, deps : {None} \cup Nat]

Types ==
  /\ stack \in Seq(Frames)
  /\ plan \in [targets : Seq(Target), autostart : BOOLEAN]
  /\ thread \in [Port -> Session \cup {0}]
  /\ server \in [Session -> Servers]
  /\ client \in [Client -> Clients]
  /\ fence \in BOOLEAN /\ {env, sandbox, depends} \subseteq Nat
  /\ selfpipe \in [of : Nat, rung : BOOLEAN]

(* The calls: what the user asks for, a deactivate, an unload.             *)
Calls ==
  /\ Len(stack) <= 3
  /\ \A i \in 1 .. Len(stack) :
       /\ i < Len(stack) => stack[i].at = "run"
       /\ ~Traced(stack[i]) => stack[i].at \in {"prerun", "run"}
       /\ i = 1 => stack[1].traced
       /\ i = 2 => /\ stack[2].target = "deactivate" /\ stack[1].target \in {"activate", "uninstall"}
                   /\ stack[2].traced => stack[1].target = "uninstall"
       /\ i = 3 => ~stack[3].traced /\ stack[3].target = "unload"

Live == {s \in Session : server[s].at \notin {"none", "gone"}}

(* Session s is that of the call f.                                        *)
Serving(s, f) ==
  /\ Traced(f) /\ thread[f.port] = s /\ server[s].target = f.target
  /\ f.at \in InSession
  /\ server[s].at # "idle" => f.at \in Early
  /\ server[s].at \in {"posted", "loop"} => name = s
  /\ server[s].at = "posted" => sock \in {0, s}
  /\ server[s].at = "loop" => kq = s /\ selfpipe.of \in {0, s} /\ sock = selfpipe.of
  /\ server[s].at # "loop" => kq = 0 /\ selfpipe.of = 0
  /\ f.at = "bounds" => ~fence /\ depends = 0 /\ \A c \in Client : client[c].session # s
  /\ f.at \in Early \ {"bounds"} =>
       /\ fence = Fenced(f.target) /\ sandbox = s
       /\ depends = IF HasDeps(f.target) THEN s ELSE 0
  /\ env \in (IF f.at \in {"clean", "release"} THEN {0} ELSE {0, s})
  /\ f.at = "release" => ~fence

Served == \A s \in Live : \E i \in 1 .. Len(stack) : Serving(s, stack[i])

AtRest ==
  Live = {} =>
    /\ kq = 0 /\ selfpipe.of = 0 /\ ~fence /\ env = 0
    /\ \A i \in 1 .. Len(stack) :
         Traced(stack[i]) => stack[i].at \in {"prerun", "start", "close", "check"}

(* A process belongs to a session that has begun; a thread reads from the  *)
(* processes of its own session.                                           *)
Belongs ==
  \A c \in Client :
    /\ client[c].at = "none" => client[c] = NoClient
    /\ client[c].session # 0 =>
         client[c].session \in Session /\ server[client[c].session].at # "none"
    /\ \A t \in Session :
         /\ c \in server[t].batch \/ server[t].reading = c =>
              client[c].session = t /\ client[c].at \in {"conn", "eof"}
         /\ server[t].reading = c => c \notin server[t].batch

Bounds == \A c \in Client : OwnBounds(c)

Unnested == Types /\ Calls /\ Served /\ AtRest /\ Belongs /\ Bounds

IInv == ~nested => Unnested
-----------------------------------------------------------------------------
(* The stack.                                                              *)

LEMMA TopIs ==
  ASSUME Types, Calls, stack # <<>>
  PROVE  /\ Len(stack) \in 1 .. 3 /\ Top \in Frames /\ Top = stack[Len(stack)]
         /\ \A i \in 1 .. Len(stack) : stack[i] \in Frames
<1>1. Len(stack) \in Nat \ {0}
  BY EmptySeq DEF Types
<1>2. Len(stack) \in 1 .. 3
  <2>1. Len(stack) <= 3
    BY DEF Calls
  <2>2. \A k \in Nat \ {0} : k <= 3 => k \in 1 .. 3
    OBVIOUS
  <2> QED BY <1>1, <2>1, <2>2
<1>3. \A i \in 1 .. Len(stack) : stack[i] \in Frames
  BY ElementOfSeq DEF Types
<1> QED BY <1>2, <1>3 DEF Top

LEMMA OneTraced ==
  ASSUME Types, Calls, NEW i \in 1 .. Len(stack), NEW j \in 1 .. Len(stack),
         Traced(stack[i]), Traced(stack[j])
  PROVE  i = j
<1>1. Len(stack) \in Nat /\ Len(stack) <= 3
  BY LenProperties DEF Types, Calls
<1>2. \A k \in 1 .. Len(stack) : k \in 1 .. 3 /\ (k = 3 => ~Traced(stack[k]))
  BY <1>1 DEF Calls, Traced
<1>3. \A k \in 1 .. Len(stack) : k = 2 /\ Traced(stack[k]) => ~Traced(stack[1])
  BY <1>1 DEF Calls, Traced
<1>4. \A k \in 1 .. Len(stack) : k \in {1, 2, 3}
  BY <1>2
<1> QED BY <1>2, <1>3, <1>4

(* The innermost call goes to another step.                                *)
LEMMA GotoIs ==
  ASSUME Types, Calls, stack # <<>>, NEW w \in Places, Goto(w)
  PROVE  /\ stack' \in Seq(Frames) /\ Len(stack') = Len(stack) /\ stack' # <<>>
         /\ \A i \in 1 .. Len(stack) : i # Len(stack) => stack'[i] = stack[i]
         /\ stack'[Len(stack)].at = w
         /\ stack'[Len(stack)].target = Top.target /\ stack'[Len(stack)].port = Top.port
         /\ stack'[Len(stack)].traced = Top.traced
         /\ Traced(stack'[Len(stack)]) <=> Traced(Top)
<1> DEFINE n == Len(stack)
<1>1. n \in 1 .. 3 /\ Top \in Frames /\ Top = stack[n] /\ \A i \in 1 .. n : stack[i] \in Frames
  BY TopIs
<1>2. stack' = [stack EXCEPT ![n] = [Top EXCEPT !.at = w]]
  BY <1>1 DEF Goto
<1>3. [Top EXCEPT !.at = w] \in Frames
  BY <1>1 DEF Frames
<1>4. stack \in [1 .. n -> Frames] /\ n \in Nat
  BY LenProperties DEF Types
<1>5. stack' \in Seq(Frames) /\ Len(stack') = n
  <2>1. stack' \in [1 .. n -> Frames]
    BY <1>2, <1>3, <1>4
  <2> QED BY <1>4, <2>1
<1>6. stack' # <<>>
  BY <1>1, <1>5, EmptySeq
<1>7. /\ \A i \in 1 .. n : i # n => stack'[i] = stack[i]
      /\ stack'[n] = [Top EXCEPT !.at = w]
  BY <1>1, <1>2, <1>4
<1>8. /\ stack'[n].at = w /\ stack'[n].target = Top.target /\ stack'[n].port = Top.port
      /\ stack'[n].traced = Top.traced
  BY <1>1, <1>7 DEF Frames
<1> QED BY <1>5, <1>6, <1>7, <1>8 DEF Traced

LEMMA GotoCalls ==
  ASSUME Types, Calls, stack # <<>>, NEW w \in Places, Goto(w), plan' = plan,
         Traced(Top) \/ w = "run"
  PROVE  stack' \in Seq(Frames) /\ Calls'
<1>1. Len(stack) \in 1 .. 3 /\ Top = stack[Len(stack)]
  BY TopIs
<1>2. /\ stack' \in Seq(Frames) /\ Len(stack') = Len(stack)
      /\ \A i \in 1 .. Len(stack) :
           /\ i # Len(stack) => stack'[i] = stack[i]
           /\ stack'[i].target = stack[i].target /\ stack'[i].traced = stack[i].traced
           /\ i = Len(stack) => stack'[i].at = w /\ (Traced(stack'[i]) <=> Traced(Top))
  BY <1>1, GotoIs
<1>3. \A i \in 1 .. Len(stack) :
        /\ i < Len(stack) => stack'[i].at = "run"
        /\ ~Traced(stack'[i]) => stack'[i].at \in {"prerun", "run"}
  BY <1>1, <1>2 DEF Calls
<1>4. /\ 1 \in 1 .. Len(stack)
      /\ Len(stack) > 1 => 2 \in 1 .. Len(stack)
  BY <1>1
<1> QED BY <1>1, <1>2, <1>3, <1>4 DEF Calls

(* The innermost call returns.                                             *)
LEMMA ReturnIs ==
  ASSUME Types, Calls, stack # <<>>, Return
  PROVE  /\ stack' \in Seq(Frames) /\ Len(stack') = Len(stack) - 1
         /\ \A i \in 1 .. Len(stack) - 1 : stack'[i] = stack[i]
<1>1. Len(stack) \in 1 .. 3
  BY TopIs
<1>2. 1 \in 1 .. Len(stack) + 1 /\ Len(stack) - 1 \in 1 - 1 .. Len(stack)
  BY <1>1
<1>3. stack \in [1 .. Len(stack) -> Frames] /\ Len(stack) \in Nat
  BY LenProperties DEF Types
<1>4. stack' = [i \in 1 .. Len(stack) - 1 |-> stack[i]]
  BY <1>1, <1>3 DEF Return
<1> QED BY <1>1, <1>3, <1>4

LEMMA ReturnCalls ==
  ASSUME Types, Calls, stack # <<>>, Return, plan' = plan
  PROVE  stack' \in Seq(Frames) /\ Calls'
<1>1. Len(stack) \in 1 .. 3
  BY TopIs
<1>2. /\ stack' \in Seq(Frames) /\ Len(stack') = Len(stack) - 1
      /\ \A i \in 1 .. Len(stack) - 1 : stack'[i] = stack[i]
  BY ReturnIs
<1> QED BY <1>1, <1>2 DEF Calls

(* A target calls another.                                                 *)
LEMMA CallIs ==
  ASSUME Types, Calls, At("run"), NEW f \in Frames,
         stack' = Append([stack EXCEPT ![Len(stack)].called = TRUE], f)
  PROVE  /\ stack' \in Seq(Frames) /\ Len(stack') = Len(stack) + 1
         /\ stack'[Len(stack) + 1] = f
         /\ \A i \in 1 .. Len(stack) :
              /\ stack'[i].at = stack[i].at /\ stack'[i].target = stack[i].target
              /\ stack'[i].port = stack[i].port /\ stack'[i].traced = stack[i].traced
<1> DEFINE n == Len(stack)
           g == [stack[n] EXCEPT !.called = TRUE]
           u == [stack EXCEPT ![n] = g]
<1>1. n \in 1 .. 3 /\ \A i \in 1 .. n : stack[i] \in Frames
  BY TopIs DEF At
<1>2. stack \in [1 .. n -> Frames] /\ n \in Nat
  BY LenProperties DEF Types
<1>3. /\ g \in Frames
      /\ g.at = stack[n].at /\ g.target = stack[n].target /\ g.port = stack[n].port
      /\ g.traced = stack[n].traced
  <2>1. stack[n] \in Frames
    BY <1>1
  <2> QED BY <2>1 DEF Frames
<1>4. u \in [1 .. n -> Frames] /\ \A i \in 1 .. n : u[i] = IF i = n THEN g ELSE stack[i]
  BY <1>1, <1>2, <1>3
<1>5. stack' = Append(u, f)
  BY <1>1
<1> HIDE DEF g, u, n
<1>6. u \in Seq(Frames) /\ Len(u) = n
  BY <1>2, <1>4
<1>7. /\ Append(u, f) \in Seq(Frames) /\ Len(Append(u, f)) = n + 1
      /\ Append(u, f)[n + 1] = f
      /\ \A i \in 1 .. n : Append(u, f)[i] = u[i]
  BY <1>1, <1>2, <1>6
<1>8. \A i \in 1 .. n : /\ u[i].at = stack[i].at /\ u[i].target = stack[i].target
                        /\ u[i].port = stack[i].port /\ u[i].traced = stack[i].traced
  BY <1>3, <1>4
<1> QED BY <1>5, <1>7, <1>8 DEF n

(* A step of a session is one of a traced call.                            *)
LEMMA TopTraced ==
  ASSUME Types, Calls, stack # <<>>, Top.at \notin {"prerun", "run"}
  PROVE  Traced(Top)
BY TopIs DEF Calls

(* The calls stay as they are: one step per action.                        *)
LEMMA StackStep ==
  ASSUME Types, Calls, Next, ~nested'
  PROVE  stack' \in Seq(Frames) /\ Calls'
<1> DEFINE Goal == stack' \in Seq(Frames) /\ Calls'
<1>1. CASE Ask
  <2>1. /\ stack = <<>> /\ plan.targets # <<>> /\ plan.targets \in Seq(Target)
        /\ plan' = [plan EXCEPT !.targets = Tail(plan.targets)]
        /\ stack' = <<Frame(Head(plan.targets), 1, TRUE)>>
    BY <1>1 DEF Ask, Types
  <2>2. /\ Head(plan.targets) \in Target /\ Tail(plan.targets) \in Seq(Target)
        /\ Len(plan.targets) \in Nat \ {0} /\ plan.targets[1] = Head(plan.targets)
        /\ Len(Tail(plan.targets)) = Len(plan.targets) - 1
        /\ \A i \in 1 .. Len(Tail(plan.targets)) : Tail(plan.targets)[i] = plan.targets[i + 1]
    BY <2>1, HeadTailProperties, EmptySeq
  <2> DEFINE f == Frame(Head(plan.targets), 1, TRUE)
  <2>5. /\ f \in Frames /\ f.traced /\ f.at = "prerun"
    BY <2>2 DEF Frame, Frames, Port, Places
  <2>6. stack' = <<f>>
    BY <2>1
  <2> HIDE DEF f
  <2>7. stack' \in Seq(Frames) /\ Len(stack') = 1 /\ stack'[1] = f
    BY <2>5, <2>6
  <2> QED BY <2>5, <2>7 DEF Calls
<1>2. CASE CallDeactivate
  <2> DEFINE b == DeactivatedTraced(Top)
             f == Frame("deactivate", 2, b)
  <2>1. /\ At("run") /\ Top.target \in {"activate", "uninstall"} /\ plan' = plan
        /\ stack' = Append([stack EXCEPT ![Len(stack)].called = TRUE], f)
    BY <1>2 DEF CallDeactivate, Call
  <2>2. Len(stack) \in 1 .. 3 /\ Top \in Frames /\ Top = stack[Len(stack)]
    BY <2>1, TopIs DEF At
  <2>3. /\ f \in Frames /\ f.at = "prerun" /\ f.target = "deactivate"
        /\ f.traced => Top.target = "uninstall"
    <3>1. b \in BOOLEAN /\ (b => Top.target = "uninstall")
      BY DEF DeactivatedTraced
    <3> HIDE DEF b
    <3>2. f.traced = b
      BY DEF Frame
    <3> QED BY <3>1, <3>2 DEF Frame, Frames, Port, Places, Target
  <2> HIDE DEF f, b
  <2>4. /\ stack' \in Seq(Frames) /\ Len(stack') = Len(stack) + 1
        /\ stack'[Len(stack) + 1] = f
        /\ \A i \in 1 .. Len(stack) :
             /\ stack'[i].at = stack[i].at /\ stack'[i].target = stack[i].target
             /\ stack'[i].port = stack[i].port /\ stack'[i].traced = stack[i].traced
    BY <2>1, <2>3, CallIs
  <2>5. Len(stack) = 1
    <3>1. Len(stack) = 2 => Top.target = "deactivate"
      BY <2>2 DEF Calls
    <3>2. Len(stack) = 3 => Top.target = "unload"
      BY <2>2 DEF Calls
    <3> QED BY <2>1, <2>2, <3>1, <3>2
  <2>6. Top.at = "run"
    BY <2>1 DEF At
  <2> QED BY <2>1, <2>2, <2>3, <2>4, <2>5, <2>6 DEF Calls, Traced
<1>3. CASE CallUnload
  <2> DEFINE f == Frame("unload", Top.port, Top.traced)
  <2>1. /\ At("run") /\ Top.target = "deactivate" /\ plan.autostart /\ plan' = plan
        /\ stack' = Append([stack EXCEPT ![Len(stack)].called = TRUE], f)
    BY <1>3 DEF CallUnload, Call
  <2>2. Len(stack) \in 1 .. 3 /\ Top \in Frames /\ Top = stack[Len(stack)]
    BY <2>1, TopIs DEF At
  <2>3. /\ f \in Frames /\ f.at = "prerun" /\ f.target = "unload" /\ f.traced = Top.traced
    BY <2>2 DEF Frame, Frames, Places, Target
  <2> HIDE DEF f
  <2>4. /\ stack' \in Seq(Frames) /\ Len(stack') = Len(stack) + 1
        /\ stack'[Len(stack) + 1] = f
        /\ \A i \in 1 .. Len(stack) :
             /\ stack'[i].at = stack[i].at /\ stack'[i].target = stack[i].target
             /\ stack'[i].port = stack[i].port /\ stack'[i].traced = stack[i].traced
    BY <2>1, <2>3, CallIs
  <2>6. ~Top.traced
    BY <1>3, <2>1 DEF CallUnload, Traced
  <2>5. Len(stack) = 2
    <3>1. Len(stack) = 1 => Top.traced
      BY <2>1, <2>2 DEF Calls
    <3>2. Len(stack) = 3 => Top.target = "unload"
      BY <2>2 DEF Calls
    <3> QED BY <2>1, <2>2, <2>6, <3>1, <3>2
  <2>7. Top.at = "run"
    BY <2>1 DEF At
  <2> QED BY <2>1, <2>2, <2>3, <2>4, <2>5, <2>6, <2>7 DEF Calls, Traced
<1>4. CASE Prerun
  <2>1. stack # <<>> /\ plan' = plan
    BY <1>4 DEF Prerun, At
  <2>2. CASE Traced(Top)
    <3>1. Goto("start")
      BY <1>4, <2>2 DEF Prerun
    <3> QED BY <2>1, <2>2, <3>1, GotoCalls DEF Places
  <2>3. CASE ~Traced(Top)
    <3>1. Goto("run")
      BY <1>4, <2>3 DEF Prerun
    <3> QED BY <2>1, <3>1, GotoCalls DEF Places, InSession, Early
  <2> QED BY <2>2, <2>3
<1>5. CASE PrerunFails \/ Finish
  <2>1. stack # <<>> /\ plan' = plan
    BY <1>5 DEF PrerunFails, Finish, At
  <2>2. IF Traced(Top) THEN Goto("close") ELSE Return
    BY <1>5 DEF PrerunFails, Finish
  <2> QED BY <2>1, <2>2, GotoCalls, ReturnCalls DEF Places, InSession, Early
<1>6. CASE StartSession \/ SetBounds \/ CloseFirst \/ SpuriousWakeup \/ Stop \/ Clean
  <2>1. stack # <<>> /\ plan' = plan /\ Top.at \notin {"prerun", "run"}
    BY <1>6 DEF StartSession, SetBounds, CloseFirst, SpuriousWakeup, Stop, Clean, Waits, At
  <2>2. Goto("bounds") \/ Goto("run") \/ Goto("wait") \/ Goto("check") \/ Goto("waitStop")
        \/ Goto("clean") \/ Goto("release")
    BY <1>6 DEF StartSession, SetBounds, CloseFirst, SpuriousWakeup, Stop, Clean, Woken, CloseSocket
  <2>3. Traced(Top)
    BY <2>1, TopTraced
  <2> QED BY <2>1, <2>2, <2>3, GotoCalls DEF Places, InSession, Early
<1>7. CASE CheckViolations
  <2>1. stack # <<>> /\ plan' = plan /\ Top.at \notin {"prerun", "run"}
    BY <1>7 DEF CheckViolations, At
  <2>2. Goto("stop") \/ Return
    BY <1>7 DEF CheckViolations
  <2>3. Traced(Top)
    BY <2>1, TopTraced
  <2> QED BY <2>1, <2>2, <2>3, GotoCalls, ReturnCalls DEF Places, InSession
<1>8. CASE Release
  BY <1>8, ReturnCalls DEF Release, At
<1>9. ASSUME NEW t \in Session, Broadcast(t) PROVE Goal
  <2>1. CASE Waits
    <3>1. stack # <<>> /\ plan' = plan /\ Top.at \notin {"prerun", "run"}
      BY <1>9, <2>1 DEF Broadcast, Waits, At
    <3>2. Goto("check") \/ Goto("clean")
      BY <1>9, <2>1 DEF Broadcast, Woken
    <3> QED BY <3>1, <3>2, TopTraced, GotoCalls DEF Places, InSession, Early
  <2>2. CASE ~Waits
    BY <1>9, <2>2 DEF Broadcast, Types, Calls
  <2> QED BY <2>1, <2>2
<1>10. CASE UNCHANGED main
  BY <1>10 DEF main, Types, Calls
<1> QED
  <2>1. ASSUME NEW t \in Session, Serve(t) PROVE Broadcast(t) \/ UNCHANGED main
    BY <2>1 DEF Serve, Setup, Kevent, TakePipe, Accept, EndLoop, Leave, TakeClient, Answer,
       CloseClient
  <2>2. ASSUME NEW t \in Session, SetupFails(t) \/ AcceptFails(t) PROVE UNCHANGED main
    BY <2>2 DEF SetupFails, AcceptFails, Leave
  <2>3. ASSUME NEW c \in Client,
               (\E what \in {"filemap", "dep_check"} : SendPart(c, what))
                 \/ Spawn(c) \/ Connect(c) \/ SendRest(c) \/ Exit(c) \/ Killed(c) \/ Abort(c)
        PROVE  UNCHANGED main
    BY <2>3 DEF SendPart, Spawn, Connect, SendRest, Exit, Killed, Abort
  <2> QED BY <1>1, <1>2, <1>3, <1>4, <1>5, <1>6, <1>7, <1>8, <1>9, <1>10, <2>1, <2>2, <2>3
          DEF Next, Work

-----------------------------------------------------------------------------
(* Types.                                                                  *)

LEMMA Constants ==
  /\ Session \subseteq Nat \ {0} /\ Child \subseteq Client
  /\ None \notin Client /\ Listen \notin Client /\ Pipe \notin Client
BY ConstantsOK DEF ConstantsOK, Session

LEMMA ClientsAre ==
  /\ NoClient \in Clients /\ Dead \in Clients /\ Dead.session = 0 /\ Dead.at = "dead"
  /\ NoClient.session = 0 /\ NoClient.map = None /\ NoClient.deps = None
BY DEF NoClient, Dead, Clients

LEMMA EndedIs ==
  ASSUME Types, NEW c \in Client
  PROVE  /\ Ended(c) \in Clients
         /\ client[c].at = "conn" => /\ Ended(c).at = "eof" /\ Ended(c).session = client[c].session
                                     /\ Ended(c).map = None /\ Ended(c).deps = None
         /\ client[c].at # "conn" => Ended(c) = Dead
<1>1. client[c] \in Clients
  BY DEF Types
<1>2. CASE client[c].at = "conn"
  <2> DEFINE s == client[c].session
  <2>1. Ended(c) = [Dead EXCEPT !.at = "eof", !.session = s]
    BY <1>2 DEF Ended
  <2>2. s \in Nat
    BY <1>1 DEF Clients
  <2> HIDE DEF s
  <2>3. /\ [Dead EXCEPT !.at = "eof", !.session = s] \in Clients
        /\ [Dead EXCEPT !.at = "eof", !.session = s].at = "eof"
        /\ [Dead EXCEPT !.at = "eof", !.session = s].session = s
        /\ [Dead EXCEPT !.at = "eof", !.session = s].map = None
        /\ [Dead EXCEPT !.at = "eof", !.session = s].deps = None
    BY <2>2 DEF Dead, NoClient, Clients
  <2> QED BY <1>2, <2>1, <2>3 DEF s
<1>3. CASE client[c].at # "conn"
  BY <1>3, ClientsAre DEF Ended
<1> QED BY <1>2, <1>3

LEMMA CutIs ==
  ASSUME Types
  PROVE  /\ CutQueue \in [Client -> Clients]
         /\ \A c \in Client :
              CutQueue[c] = client[c]
              \/ (client[c].at = "queued" /\ CutQueue[c] = [client[c] EXCEPT !.at = "cut"])
<1>1. ASSUME NEW c \in Client PROVE [client[c] EXCEPT !.at = "cut"] \in Clients
  <2>1. ASSUME NEW x \in Clients PROVE [x EXCEPT !.at = "cut"] \in Clients
    BY ONLY <2>1, ZenonT(60) DEF Clients
  <2> QED BY <2>1 DEF Types
<1> QED BY <1>1 DEF CutQueue, Types

(* A thread, or a process, changes what it is about.                       *)
LEMMA ServerTypes ==
  ASSUME Types, Calls, Next
  PROVE  server' \in [Session -> Servers]
<1> USE Constants
<1>0. server \in [Session -> Servers] /\ \A t \in Session : server[t] \in Servers
  BY DEF Types
<1>1. CASE UNCHANGED server
  BY <1>0, <1>1
<1>2. CASE StartSession
  <2>1. Top.target \in Target
    <3>1. stack # <<>>
      BY <1>2 DEF StartSession, At
    <3>2. Top \in Frames
      BY <3>1, TopIs
    <3> QED BY <3>2 DEF Frames
  <2>2. PICK s \in Session : server' = [server EXCEPT ![s].at = "posted", ![s].target = Top.target]
    BY <1>2 DEF StartSession
  <2> DEFINE posted == [server[s] EXCEPT !.at = "posted", !.target = Top.target]
  <2>3. posted \in Servers
    BY <1>0, <2>1, ZenonT(60) DEF Servers
  <2>4. server' = [server EXCEPT ![s] = posted]
    BY <2>2
  <2> HIDE DEF posted
  <2> QED BY <1>0, <2>3, <2>4
<1>3. CASE Release
  <2>1. server' = [server EXCEPT ![thread[Top.port]].at = "gone"]
    BY <1>3 DEF Release
  <2>2. \A s \in Session : [server[s] EXCEPT !.at = "gone"] \in Servers
    BY <1>0, ZenonT(60) DEF Servers
  <2> QED BY <1>0, <2>1, <2>2
<1>4. ASSUME NEW t \in Session, Setup(t) \/ SetupFails(t) \/ Broadcast(t)
      PROVE  server' \in [Session -> Servers]
  <2>1. \/ server' = [server EXCEPT ![t].at = "loop"]
        \/ server' = [server EXCEPT ![t].at = "broadcast"]
        \/ server' = [server EXCEPT ![t].at = "idle"]
    BY <1>4 DEF Setup, SetupFails, Broadcast
  <2> QED BY <1>0, <2>1 DEF Servers
<1>5. ASSUME NEW t \in Session, Kevent(t) \/ TakePipe(t) \/ Accept(t)
      PROVE  server' \in [Session -> Servers]
  <2> DEFINE R == Ready(t)
  <2>1. R \subseteq Client \cup {Listen, Pipe}
    BY DEF Ready, Connected
  <2>2. \/ server' = [server EXCEPT ![t].batch = R]
        \/ server' = [server EXCEPT ![t].batch = @ \ {Pipe}, ![t].stop = TRUE]
        \/ server' = [server EXCEPT ![t].batch = {}]
    BY <1>5 DEF Kevent, TakePipe, Accept
  <2> HIDE DEF R
  <2> QED BY <1>0, <2>1, <2>2 DEF Servers
<1>6. ASSUME NEW t \in Session, NEW c \in Client, TakeClient(t, c) \/ Answer(t, c) \/ CloseClient(t, c)
      PROVE  server' \in [Session -> Servers]
  <2>1. \/ server' = [server EXCEPT ![t].batch = @ \ {c}, ![t].reading = c]
        \/ server' = [server EXCEPT ![t].reading = None]
    BY <1>6 DEF TakeClient, Answer, CloseClient
  <2> QED BY <1>0, <2>1 DEF Servers
<1>7. ASSUME NEW t \in Session, EndLoop(t) \/ AcceptFails(t)
      PROVE  server' \in [Session -> Servers]
  <2> DEFINE g == server[t].target
  <2>1. server' = [server EXCEPT ![t] = [NoServer EXCEPT !.at = "broadcast", !.target = g]]
    BY <1>7 DEF EndLoop, AcceptFails, Leave
  <2>2. g \in Target \cup {"none"}
    BY <1>0 DEF Servers
  <2> HIDE DEF g
  <2>3. [NoServer EXCEPT !.at = "broadcast", !.target = g] \in Servers
    BY <2>2 DEF NoServer, Servers
  <2> QED BY <1>0, <2>1, <2>3
<1>8. /\ Ask \/ CallDeactivate \/ CallUnload \/ PrerunFails \/ SpuriousWakeup => UNCHANGED server
      /\ Prerun \/ SetBounds \/ Finish \/ CloseFirst \/ CheckViolations \/ Stop \/ Clean
           => UNCHANGED server
  BY DEF Ask, CallDeactivate, CallUnload, Call, PrerunFails, SpuriousWakeup, Prerun, SetBounds,
     Finish, CloseFirst, CheckViolations, Stop, Clean
<1>9. ASSUME NEW c \in Client, NEW what \in {"filemap", "dep_check"},
             SendPart(c, what) \/ Spawn(c) \/ Connect(c) \/ SendRest(c) \/ Exit(c) \/ Killed(c) \/ Abort(c)
      PROVE  UNCHANGED server
  BY <1>9 DEF SendPart, Spawn, Connect, SendRest, Exit, Killed, Abort
<1> QED BY <1>1, <1>2, <1>3, <1>4, <1>5, <1>6, <1>7, <1>8, <1>9 DEF Next, Work, Serve

LEMMA ClientTypes ==
  ASSUME Types, Next
  PROVE  client' \in [Client -> Clients]
<1>0. client \in [Client -> Clients] /\ \A c \in Client : client[c] \in Clients
  BY DEF Types
<1>1. CASE UNCHANGED client
  BY <1>0, <1>1
<1>2. CASE CloseFirst \/ Stop \/ Clean
  <2>1. client' = CutQueue \/ client' = client
    BY <1>2 DEF CloseFirst, Stop, Clean, CloseSocket
  <2> QED BY <1>0, <2>1, CutIs
<1>3. ASSUME NEW t \in Session, NEW c \in Client, Answer(t, c)
      PROVE  client' \in [Client -> Clients]
  <2> DEFINE m == IF client[c].what = "filemap" THEN (IF fence THEN sandbox ELSE 0) ELSE client[c].map
             d == IF client[c].what = "dep_check" THEN depends ELSE client[c].deps
  <2>1. client' = [client EXCEPT ![c].msg = "none", ![c].waits = FALSE, ![c].what = "none",
                                 ![c].map = m, ![c].deps = d]
    BY <1>0, <1>3 DEF Answer
  <2>2. m \in {None} \cup Nat /\ d \in {None} \cup Nat
    BY <1>0 DEF Types, Clients
  <2> HIDE DEF m, d
  <2> DEFINE r == [client[c] EXCEPT !.msg = "none", !.waits = FALSE, !.what = "none",
                                    !.map = m, !.deps = d]
  <2>3. r \in Clients
    BY <1>0, <2>2 DEF Clients
  <2>4. client' = [client EXCEPT ![c] = r]
    BY <2>1
  <2> HIDE DEF r
  <2> QED BY <1>0, <2>3, <2>4
<1>4. ASSUME NEW t \in Session, NEW c \in Client, CloseClient(t, c)
      PROVE  client' \in [Client -> Clients]
  <2>1. client' = [client EXCEPT ![c] = Dead]
    BY <1>4 DEF CloseClient
  <2> QED BY <1>0, <2>1, ClientsAre
<1>5. ASSUME NEW t \in Session, Accept(t)
      PROVE  client' \in [Client -> Clients]
  <2>1. client' = [c \in Client |-> IF c \in Queued THEN [client[c] EXCEPT !.at = "conn"]
                                    ELSE client[c]]
    BY <1>5 DEF Accept
  <2>2. \A c \in Client : [client[c] EXCEPT !.at = "conn"] \in Clients
    BY <1>0 DEF Clients
  <2> QED BY <1>0, <2>1, <2>2
<1>6. ASSUME NEW t \in Session, EndLoop(t) \/ AcceptFails(t)
      PROVE  client' \in [Client -> Clients]
  <2>1. client' = Leftovers(t)
    BY <1>6 DEF EndLoop, AcceptFails, Leave
  <2> QED BY <1>0, <2>1, ClientsAre DEF Leftovers
<1>7. ASSUME NEW c \in Client, Spawn(c)
      PROVE  client' \in [Client -> Clients]
  <2>1. client' = [client EXCEPT ![c].at = "new", ![c].session = env] /\ env \in Nat
    BY <1>7 DEF Spawn, Types
  <2> DEFINE new == [client[c] EXCEPT !.at = "new", !.session = env]
  <2>2. new \in Clients
    BY <1>0, <2>1, ZenonT(60) DEF Clients
  <2>3. client' = [client EXCEPT ![c] = new]
    BY <2>1
  <2> HIDE DEF new
  <2> QED BY <1>0, <2>2, <2>3
<1>8. ASSUME NEW c \in Client, Connect(c) \/ Abort(c)
      PROVE  client' \in [Client -> Clients]
  <2>1. \/ client' = [client EXCEPT ![c] = [client[c] EXCEPT !.at = "queued"]]
        \/ client' = [client EXCEPT ![c] = Dead]
    BY <1>8 DEF Connect, Abort
  <2>2. [client[c] EXCEPT !.at = "queued"] \in Clients
    BY <1>0 DEF Clients
  <2> QED BY <1>0, <2>1, <2>2, ClientsAre
<1>9. ASSUME NEW c \in Client, NEW what \in {"filemap", "dep_check"}, SendPart(c, what)
      PROVE  client' \in [Client -> Clients]
  <2> DEFINE n == client[c].asks + 1
  <2>1. client' = [client EXCEPT ![c].msg = "part", ![c].what = what, ![c].waits = TRUE,
                                 ![c].asks = n]
    BY <1>0, <1>9 DEF SendPart
  <2>2. n \in Nat
    BY <1>0 DEF Clients
  <2> HIDE DEF n
  <2> DEFINE r == [client[c] EXCEPT !.msg = "part", !.what = what, !.waits = TRUE, !.asks = n]
  <2>3. r \in Clients
    BY <1>0, <2>2 DEF Clients
  <2>4. client' = [client EXCEPT ![c] = r]
    BY <2>1
  <2> HIDE DEF r
  <2> QED BY <1>0, <2>3, <2>4
<1>10. ASSUME NEW c \in Client, SendRest(c)
       PROVE  client' \in [Client -> Clients]
  <2>1. client' = [client EXCEPT ![c].msg = "full"]
    BY <1>10 DEF SendRest
  <2> QED BY <1>0, <2>1 DEF Clients
<1>11. ASSUME NEW c \in Client, Exit(c) \/ Killed(c)
       PROVE  client' \in [Client -> Clients]
  <2>1. client' = [client EXCEPT ![c] = Ended(c)]
    BY <1>11 DEF Exit, Killed
  <2> QED BY <1>0, <2>1, EndedIs
<1>12. /\ Ask \/ CallDeactivate \/ CallUnload \/ PrerunFails \/ SpuriousWakeup => UNCHANGED client
       /\ Prerun \/ StartSession \/ SetBounds \/ Finish \/ CheckViolations \/ Release
            => UNCHANGED client
  BY DEF Ask, CallDeactivate, CallUnload, Call, PrerunFails, SpuriousWakeup, Prerun, StartSession,
     SetBounds, Finish, CheckViolations, Release
<1>13. ASSUME NEW t \in Session,
              \/ Setup(t) \/ SetupFails(t) \/ Kevent(t) \/ TakePipe(t) \/ Broadcast(t)
              \/ \E c \in Client : TakeClient(t, c)
       PROVE  UNCHANGED client
  BY <1>13 DEF Setup, SetupFails, Kevent, TakePipe, Broadcast, TakeClient
<1> QED BY <1>1, <1>2, <1>3, <1>4, <1>5, <1>6, <1>7, <1>8, <1>9, <1>10, <1>11, <1>12, <1>13
        DEF Next, Work, Serve

LEMMA TypesStep ==
  ASSUME Types, Calls, Next, ~nested'
  PROVE  Types'
<1>1. stack' \in Seq(Frames)
  BY StackStep
<1>2. server' \in [Session -> Servers] /\ client' \in [Client -> Clients]
  BY ServerTypes, ClientTypes
<1>3. plan' \in [targets : Seq(Target), autostart : BOOLEAN]
  <2>1. CASE Ask
    <3>1. plan' = [plan EXCEPT !.targets = Tail(plan.targets)] /\ plan.targets # <<>>
          /\ plan.targets \in Seq(Target)
      BY <2>1 DEF Ask, Types
    <3>2. Tail(plan.targets) \in Seq(Target)
      BY <3>1, HeadTailProperties
    <3> QED BY <3>1, <3>2 DEF Types
  <2>2. CASE UNCHANGED plan
    BY <2>2 DEF Types
  <2>3. /\ CallDeactivate \/ CallUnload \/ PrerunFails \/ SpuriousWakeup => UNCHANGED plan
        /\ Work => UNCHANGED plan
    BY DEF Work, CallDeactivate, CallUnload, Call, PrerunFails, SpuriousWakeup, Prerun,
       StartSession, SetBounds, Finish, CloseFirst, CheckViolations, Stop, Clean, Release
  <2>4. ASSUME NEW t \in Session, Serve(t) \/ SetupFails(t) \/ AcceptFails(t)
        PROVE  UNCHANGED plan
    BY <2>4 DEF Serve, Setup, SetupFails, Kevent, TakePipe, Accept, EndLoop, AcceptFails, Leave,
       Broadcast, TakeClient, Answer, CloseClient, main
  <2>5. ASSUME NEW c \in Client, NEW what \in {"filemap", "dep_check"},
               SendPart(c, what) \/ Spawn(c) \/ Connect(c) \/ SendRest(c) \/ Exit(c) \/ Killed(c)
                 \/ Abort(c)
        PROVE  UNCHANGED plan
    BY <2>5 DEF SendPart, Spawn, Connect, SendRest, Exit, Killed, Abort, main
  <2> QED BY <2>1, <2>2, <2>3, <2>4, <2>5 DEF Next
<1>4. /\ thread' \in [Port -> Session \cup {0}] /\ fence' \in BOOLEAN
      /\ {env', sandbox', depends'} \subseteq Nat /\ selfpipe' \in [of : Nat, rung : BOOLEAN]
  <2>0. /\ thread \in [Port -> Session \cup {0}] /\ fence \in BOOLEAN
        /\ {env, sandbox, depends} \subseteq Nat /\ selfpipe \in [of : Nat, rung : BOOLEAN]
    BY DEF Types
  <2>1. CASE StartSession
    <3>1. PICK s \in Session : thread' = [thread EXCEPT ![Top.port] = s] /\ env' = s
      BY <2>1 DEF StartSession
    <3>2. s \in Nat
      BY Constants
    <3>3. depends' = 0 /\ sandbox' = sandbox /\ fence' = fence /\ selfpipe' = selfpipe
      BY <2>1 DEF StartSession
    <3>4. thread' \in [Port -> Session \cup {0}]
      BY <2>0, <3>1, <3>2
    <3>6. {env', sandbox', depends'} \subseteq Nat
      BY <2>0, <3>1, <3>2, <3>3
    <3>5. fence' \in BOOLEAN /\ selfpipe' \in [of : Nat, rung : BOOLEAN]
      BY <2>0, <3>3
    <3> QED BY <3>4, <3>5, <3>6
  <2>2. CASE SetBounds
    <3>1. UNCHANGED <<thread, env, selfpipe>>
      BY <2>2 DEF SetBounds
    <3>2. thread[Top.port] \in Nat
      <4>0. Session \cup {0} \subseteq Nat
        BY Constants
      <4>1. stack # <<>>
        BY <2>2 DEF SetBounds, At
      <4>2. Top \in Frames
        BY <4>1, TopIs
      <4> QED BY <2>0, <4>0, <4>2 DEF Frames
    <3>3. sandbox' \in Nat /\ depends' \in Nat
      BY <2>0, <2>2, <3>2 DEF SetBounds
    <3>4. fence' \in BOOLEAN
      <4> DEFINE b == Fenced(Top.target)
      <4>1. b \in BOOLEAN
        BY DEF Fenced
      <4>2. fence' = (fence \/ b)
        BY <2>2 DEF SetBounds
      <4> HIDE DEF b
      <4> QED BY <2>0, <4>1, <4>2
    <3> QED BY <2>0, <3>1, <3>3, <3>4
  <2>3. CASE CloseFirst \/ Stop \/ Clean
    <3>1. /\ thread' = thread /\ sandbox' = sandbox /\ (env' = env \/ env' = 0)
          /\ (depends' = depends \/ depends' = 0)
      BY <2>3 DEF CloseFirst, Stop, Clean, CloseSocket
    <3>2. /\ fence' = fence \/ fence' = FALSE
          /\ selfpipe' = selfpipe \/ selfpipe' = [selfpipe EXCEPT !.rung = TRUE]
      BY <2>3 DEF CloseFirst, Stop, Clean, CloseSocket
    <3>3. thread' \in [Port -> Session \cup {0}] /\ {env', sandbox', depends'} \subseteq Nat
      BY <2>0, <3>1
    <3>4. fence' \in BOOLEAN
      BY <2>0, <3>2
    <3>5. selfpipe' \in [of : Nat, rung : BOOLEAN]
      BY <2>0, <3>2
    <3> QED BY <3>3, <3>4, <3>5
  <2>4. ASSUME NEW t \in Session, Setup(t) \/ SetupFails(t) \/ EndLoop(t) \/ AcceptFails(t)
        PROVE  /\ thread' \in [Port -> Session \cup {0}] /\ fence' \in BOOLEAN
               /\ {env', sandbox', depends'} \subseteq Nat
               /\ selfpipe' \in [of : Nat, rung : BOOLEAN]
    <3>1. /\ thread' = thread /\ env' = env /\ sandbox' = sandbox /\ depends' = depends
          /\ fence' = fence
      BY <2>4 DEF Setup, SetupFails, EndLoop, AcceptFails, Leave, main
    <3>2. \/ selfpipe' = [of |-> t, rung |-> FALSE]
          \/ selfpipe' = [of |-> 0, rung |-> FALSE]
      BY <2>4 DEF Setup, SetupFails, EndLoop, AcceptFails, Leave
    <3>3. t \in Nat
      BY Constants
    <3>4. selfpipe' \in [of : Nat, rung : BOOLEAN]
      <4>1. \A n \in Nat : [of |-> n, rung |-> FALSE] \in [of : Nat, rung : BOOLEAN]
        OBVIOUS
      <4>2. 0 \in Nat
        OBVIOUS
      <4> QED BY <3>2, <3>3, <4>1, <4>2, Zenon
    <3>5. fence' \in BOOLEAN
      BY <2>0, <3>1
    <3> QED BY <2>0, <3>1, <3>4, <3>5
  <2>5. CASE UNCHANGED <<thread, env, statics>>
    BY <2>0, <2>5 DEF statics
  <2>6. /\ Ask \/ CallDeactivate \/ CallUnload \/ PrerunFails \/ SpuriousWakeup
             => UNCHANGED <<thread, env, statics>>
        /\ Prerun \/ Finish \/ CheckViolations \/ Release => UNCHANGED <<thread, env, statics>>
    BY DEF Ask, CallDeactivate, CallUnload, Call, PrerunFails, SpuriousWakeup, Prerun, Finish,
       CheckViolations, Release
  <2>7. ASSUME NEW t \in Session,
               \/ Kevent(t) \/ TakePipe(t) \/ Accept(t) \/ Broadcast(t)
               \/ \E c \in Client : TakeClient(t, c) \/ Answer(t, c) \/ CloseClient(t, c)
        PROVE  UNCHANGED <<thread, env, statics>>
    BY <2>7 DEF Kevent, TakePipe, Accept, Broadcast, TakeClient, Answer, CloseClient, main
  <2>8. ASSUME NEW c \in Client, NEW what \in {"filemap", "dep_check"},
               SendPart(c, what) \/ Spawn(c) \/ Connect(c) \/ SendRest(c) \/ Exit(c) \/ Killed(c)
                 \/ Abort(c)
        PROVE  UNCHANGED <<thread, env, statics>>
    BY <2>8 DEF SendPart, Spawn, Connect, SendRest, Exit, Killed, Abort, main
  <2> QED BY <2>1, <2>2, <2>3, <2>4, <2>5, <2>6, <2>7, <2>8 DEF Next, Work, Serve
<1> QED BY <1>1, <1>2, <1>3, <1>4 DEF Types

-----------------------------------------------------------------------------
(* Which processes a thread reads from, and what they were told.           *)

(* What a step may do to a process: it ends while no thread reads from it, *)
(* or stays in its session and is told nothing.                            *)
Moves(c) ==
  \/ client'[c] = client[c]
  \/ client'[c] = Dead /\ \A t \in Session : c \notin server'[t].batch /\ server'[t].reading # c
  \/ /\ client'[c].session = client[c].session /\ client'[c].at # "none"
     /\ client[c].at \in {"conn", "eof"} => client'[c].at \in {"conn", "eof"}
     /\ client'[c].map \in {None, client[c].map} /\ client'[c].deps \in {None, client[c].deps}

(* What a step may do to a thread.                                         *)
Threads(t) ==
  /\ server[t].at # "none" => server'[t].at # "none" /\ server'[t].target = server[t].target
  /\ \A c \in Client :
       /\ c \in server'[t].batch \/ server'[t].reading = c =>
            client[c].session = t /\ client[c].at \in {"conn", "eof"}
       /\ server'[t].reading = c => c \notin server'[t].batch

LEMMA ClientsKept ==
  ASSUME Types, Belongs, Bounds,
         \A c \in Client : Moves(c), \A t \in Session : Threads(t)
  PROVE  Belongs' /\ Bounds'
<1>1. ASSUME NEW c \in Client
      PROVE  /\ client'[c].at = "none" => client'[c] = NoClient
             /\ client'[c].session # 0 =>
                  client'[c].session \in Session /\ server'[client'[c].session].at # "none"
  <2>1. client'[c] = client[c] \/ client'[c] = Dead
        \/ (client'[c].session = client[c].session /\ client'[c].at # "none")
    BY DEF Moves
  <2> QED BY <2>1, ClientsAre DEF Belongs, Threads
<1>2. ASSUME NEW c \in Client, NEW t \in Session
      PROVE  /\ c \in server'[t].batch \/ server'[t].reading = c =>
                  client'[c].session = t /\ client'[c].at \in {"conn", "eof"}
             /\ server'[t].reading = c => c \notin server'[t].batch
  BY DEF Moves, Threads
<1>3. Belongs'
  BY <1>1, <1>2 DEF Belongs
<1>4. ASSUME NEW c \in Client, client'[c].session # 0
      PROVE  LET s == client'[c].session
                 target == server'[s].target
             IN /\ client'[c].map \in {None, IF Fenced(target) THEN s ELSE 0}
                /\ client'[c].deps \in {None, IF HasDeps(target) THEN s ELSE 0}
  <2>1. /\ client'[c].session = client[c].session
        /\ client'[c].map \in {None, client[c].map} /\ client'[c].deps \in {None, client[c].deps}
    BY <1>4, ClientsAre DEF Moves
  <2>2. client[c].session \in Session /\ server[client[c].session].at # "none"
    BY <1>4, <2>1 DEF Belongs
  <2>3. server'[client[c].session].target = server[client[c].session].target
    BY <2>2 DEF Threads
  <2> DEFINE s == client[c].session
             b == IF Fenced(server[s].target) THEN s ELSE 0
             d == IF HasDeps(server[s].target) THEN s ELSE 0
  <2>4. client[c].map \in {None, b} /\ client[c].deps \in {None, d}
    BY <1>4, <2>1 DEF Bounds, OwnBounds
  <2>5. client'[c].map \in {None, b} /\ client'[c].deps \in {None, d}
    <3> HIDE DEF b, d
    <3> QED BY <2>1, <2>4
  <2> QED BY <2>1, <2>3, <2>5
<1>5. Bounds'
  BY <1>4 DEF Bounds, OwnBounds
<1> QED BY <1>3, <1>5

(* A thread that is left alone, or drops what it was reading.              *)
LEMMA ThreadsAre ==
  ASSUME Types, Belongs, NEW t \in Session,
         server[t].at # "none" => server'[t].at # "none" /\ server'[t].target = server[t].target,
         server'[t].batch \subseteq server[t].batch,
         server'[t].reading \in {None, server[t].reading}
  PROVE  Threads(t)
<1>1. \A c \in Client : c # None
  BY Constants
<1> QED BY <1>1 DEF Threads, Belongs

-----------------------------------------------------------------------------
(* The session there is, and the call it serves.                           *)

LEMMA TopServes ==
  ASSUME Types, Calls, Served, stack # <<>>, Traced(Top), NEW s \in Live
  PROVE  Serving(s, Top)
<1>1. PICK i \in 1 .. Len(stack) : Serving(s, stack[i])
  BY DEF Served
<1>2. Len(stack) \in 1 .. Len(stack) /\ Top = stack[Len(stack)]
  BY TopIs
<1>3. Traced(stack[i])
  BY <1>1 DEF Serving
<1>4. i = Len(stack)
  BY <1>2, <1>3, OneTraced
<1> QED BY <1>1, <1>2, <1>4

LEMMA LiveOne ==
  ASSUME Types, Calls, Served, NEW s \in Live, NEW t \in Live
  PROVE  s = t
<1>1. PICK i \in 1 .. Len(stack) : Serving(s, stack[i])
  BY DEF Served
<1>2. PICK j \in 1 .. Len(stack) : Serving(t, stack[j])
  BY DEF Served
<1>3. Traced(stack[i]) /\ Traced(stack[j])
  BY <1>1, <1>2 DEF Serving
<1>4. i = j
  BY <1>3, OneTraced
<1> QED BY <1>1, <1>2, <1>4 DEF Serving

(* A call that is not running its target is the innermost one.             *)
LEMMA InnerIs ==
  ASSUME Types, Calls, NEW i \in 1 .. Len(stack), stack[i].at # "run"
  PROVE  i = Len(stack) /\ Top = stack[i] /\ stack # <<>>
<1>1. Len(stack) \in Nat
  BY LenProperties DEF Types
<1>2. ~(i < Len(stack))
  BY DEF Calls
<1>3. i = Len(stack)
  BY <1>1, <1>2
<1>4. stack # <<>>
  BY <1>1, EmptySeq
<1> QED BY <1>3, <1>4 DEF Top

(* The server's data stay, and so does the call that has a session.        *)
LEMMA QuietServed ==
  ASSUME Types, Calls, Served, AtRest,
         thread' = thread, env' = env, name' = name, sock' = sock, kq' = kq,
         selfpipe'.of = selfpipe.of, fence' = fence, sandbox' = sandbox, depends' = depends,
         \A s \in Session : server'[s].at = server[s].at /\ server'[s].target = server[s].target,
         \A i \in 1 .. Len(stack) : Traced(stack[i]) /\ stack[i].at \in InSession =>
           /\ i \in 1 .. Len(stack') /\ stack'[i].at = stack[i].at
           /\ stack'[i].target = stack[i].target
           /\ stack'[i].port = stack[i].port /\ stack'[i].traced = stack[i].traced,
         \A i \in 1 .. Len(stack') : Traced(stack'[i]) =>
           \/ stack'[i].at \in {"prerun", "start", "close", "check"}
           \/ i \in 1 .. Len(stack) /\ Traced(stack[i]) /\ stack'[i].at = stack[i].at,
         At("bounds") => \A c \in Client : client'[c].session \in {client[c].session, 0}
  PROVE  Served' /\ AtRest'
<1>1. Live' = Live
  BY DEF Live
<1>2. ASSUME NEW s \in Live PROVE \E i \in 1 .. Len(stack') : Serving(s, stack[i])'
  <2>1. PICK i \in 1 .. Len(stack) : Serving(s, stack[i])
    BY DEF Served
  <2>2. /\ i \in 1 .. Len(stack') /\ stack'[i].at = stack[i].at
        /\ stack'[i].target = stack[i].target
        /\ stack'[i].port = stack[i].port /\ stack'[i].traced = stack[i].traced
    BY <2>1 DEF Serving
  <2>3. s \in Session /\ server'[s].at = server[s].at /\ server'[s].target = server[s].target
    BY DEF Live
  <2>4. Traced(stack'[i])
    BY <2>1, <2>2 DEF Serving, Traced
  <2>5. ASSUME stack[i].at = "bounds" PROVE \A c \in Client : client'[c].session # s
    <3>1. At("bounds")
      BY <2>5, InnerIs DEF At
    <3>2. s # 0
      BY <2>3, Constants
    <3> QED BY <2>1, <2>5, <3>1, <3>2 DEF Serving
  <2>6. Serving(s, stack[i])'
    BY <2>1, <2>2, <2>3, <2>4, <2>5 DEF Serving
  <2> QED BY <2>2, <2>6
<1>3. Served'
  BY <1>1, <1>2 DEF Served
<1>4. AtRest'
  BY <1>1 DEF AtRest
<1> QED BY <1>3, <1>4

(* The innermost call, a traced one, goes to another step.                 *)
LEMMA GotoTraced ==
  ASSUME Types, Calls, stack # <<>>, Traced(Top), NEW w \in Places, Goto(w)
  PROVE  \E n \in 1 .. Len(stack') :
           /\ stack'[n].at = w /\ stack'[n].target = Top.target /\ stack'[n].port = Top.port
           /\ stack'[n].traced = Top.traced /\ Traced(stack'[n])
           /\ \A i \in 1 .. Len(stack') : Traced(stack'[i]) => i = n
<1>1. Len(stack) \in 1 .. Len(stack) /\ Top = stack[Len(stack)]
  BY TopIs
<1>2. /\ Len(stack') = Len(stack)
      /\ \A i \in 1 .. Len(stack) : i # Len(stack) => stack'[i] = stack[i]
      /\ stack'[Len(stack)].at = w
      /\ stack'[Len(stack)].target = Top.target /\ stack'[Len(stack)].port = Top.port
      /\ stack'[Len(stack)].traced = Top.traced
      /\ Traced(stack'[Len(stack)])
  BY GotoIs
<1>3. \A i \in 1 .. Len(stack) : i # Len(stack) => ~Traced(stack'[i])
  <2>1. \A i \in 1 .. Len(stack) : i # Len(stack) => ~Traced(stack[i])
    BY <1>1, OneTraced
  <2> QED BY <1>2, <2>1
<1> QED BY <1>1, <1>2, <1>3

Rested == {"prerun", "start", "close", "check"}

(* It is then enough to look at that call.                                 *)
LEMMA GotoServed ==
  ASSUME Types, Calls, stack # <<>>, Traced(Top), NEW w \in Places, Goto(w),
         \A n \in 1 .. Len(stack') :
           /\ stack'[n].at = w /\ stack'[n].target = Top.target /\ stack'[n].port = Top.port
           /\ stack'[n].traced = Top.traced /\ Traced(stack'[n])
           => \A s \in Session : s \in Live' => Serving(s, stack[n])',
         Live' = {} => /\ w \in Rested
                       /\ kq' = 0 /\ selfpipe'.of = 0 /\ ~fence' /\ env' = 0
  PROVE  Served' /\ AtRest'
<1>1. PICK n \in 1 .. Len(stack') :
           /\ stack'[n].at = w /\ stack'[n].target = Top.target /\ stack'[n].port = Top.port
           /\ stack'[n].traced = Top.traced /\ Traced(stack'[n])
           /\ \A i \in 1 .. Len(stack') : Traced(stack'[i]) => i = n
  BY GotoTraced
<1>2. \A s \in Live' : Serving(s, stack[n])'
  BY <1>1 DEF Live
<1>3. Served'
  BY <1>2 DEF Served
<1>4. AtRest'
  BY <1>1 DEF AtRest, Rested
<1> QED BY <1>3, <1>4

(* The steps of a call with a session.                                     *)
LEMMA SessionStep ==
  ASSUME Types, Calls, Served, AtRest, Belongs,
         \/ StartSession \/ SetBounds \/ CloseFirst \/ CheckViolations \/ Stop \/ Clean \/ Release
         \/ SpuriousWakeup
         \/ (Finish /\ Traced(Top))
  PROVE  Served' /\ AtRest'
<1> DEFINE Goal == Served' /\ AtRest'
<1>1. stack # <<>>
  BY DEF StartSession, SetBounds, CloseFirst, CheckViolations, Stop, Clean, Release, SpuriousWakeup,
     Waits, Finish, At
<1>2. Top \in Frames /\ Top = stack[Len(stack)] /\ Len(stack) \in 1 .. Len(stack)
  BY <1>1, TopIs
<1>3. Traced(Top)
  <2>1. Traced(Top) \/ Top.at \notin {"prerun", "run"}
    BY DEF StartSession, SetBounds, CloseFirst, CheckViolations, Stop, Clean, Release, SpuriousWakeup,
       Waits, At
  <2> QED BY <1>1, <2>1, TopTraced
<1>4. /\ \A s \in Live : Serving(s, Top) /\ s \in Session \ {0}
      /\ \A s \in Live, t \in Live : s = t
  BY <1>1, <1>3, TopServes, LiveOne, Constants DEF Live
<1>5. Live = {} => /\ kq = 0 /\ selfpipe.of = 0 /\ ~fence /\ env = 0
                   /\ Top.at \in Rested
  BY <1>2, <1>3 DEF AtRest, Rested
<1>6. Top.port \in Port /\ server \in [Session -> Servers] /\ client \in [Client -> Clients]
  BY <1>2 DEF Types, Frames
<1>7. CASE StartSession
  <2>1. Top.at = "start" /\ Goto("bounds")
    BY <1>7 DEF StartSession, At
  <2>2. Live = {}
    BY <1>4, <2>1 DEF Serving, InSession, Early
  <2>3. PICK s \in Session :
          /\ server[s].at = "none"
          /\ server' = [server EXCEPT ![s].at = "posted", ![s].target = Top.target]
          /\ thread' = [thread EXCEPT ![Top.port] = s]
          /\ env' = s /\ name' = s /\ sock' = s /\ depends' = 0
    BY <1>7 DEF StartSession
  <2>4. /\ kq' = kq /\ selfpipe' = selfpipe /\ fence' = fence /\ client' = client
    BY <1>7 DEF StartSession
  <2>5. /\ server'[s].at = "posted" /\ server'[s].target = Top.target
        /\ \A t \in Session : t # s => server'[t] = server[t]
    BY <1>6, <2>3 DEF Servers
  <2>6. s \in Live' /\ \A t \in Session : t \in Live' => t = s
    BY <2>2, <2>5 DEF Live
  <2>7. \A c \in Client : client'[c].session # s
    BY <2>3, <2>4, Constants DEF Belongs
  <2>8. thread'[Top.port] = s
    BY <1>6, <2>3 DEF Types
  <2>9. ASSUME NEW n \in 1 .. Len(stack'),
               stack'[n].at = "bounds", stack'[n].target = Top.target, stack'[n].port = Top.port,
               Traced(stack'[n])
        PROVE  Serving(s, stack[n])'
    BY <1>5, <2>2, <2>3, <2>4, <2>5, <2>7, <2>8, <2>9 DEF Serving, InSession, Early
  <2> QED BY <1>1, <1>3, <2>1, <2>6, <2>9, GotoServed DEF Places, InSession, Early
<1>8. CASE SetBounds
  <2>1. Top.at = "bounds" /\ Goto("run")
    BY <1>8 DEF SetBounds, At
  <2>2. Live # {}
    BY <1>5, <2>1 DEF Rested
  <2>3. /\ sandbox' = thread[Top.port] /\ fence' = (fence \/ Fenced(Top.target))
        /\ depends' = IF HasDeps(Top.target) THEN thread[Top.port] ELSE depends
        /\ UNCHANGED <<thread, env, sock, name, kq, selfpipe, server, client>>
    BY <1>8 DEF SetBounds
  <2>4. Live' = Live
    BY <2>3 DEF Live
  <2>5. ASSUME NEW n \in 1 .. Len(stack'), NEW s \in Live,
               stack'[n].at = "run", stack'[n].target = Top.target, stack'[n].port = Top.port,
               Traced(stack'[n])
        PROVE  Serving(s, stack[n])'
    <3>1. Serving(s, Top)
      BY <1>4
    <3>2. fence' = Fenced(Top.target)
      <4>1. fence = FALSE
        BY <2>1, <3>1 DEF Serving, Types
      <4> DEFINE b == Fenced(Top.target)
      <4>2. b \in BOOLEAN /\ fence' = (fence \/ b)
        BY <2>3 DEF Fenced
      <4> HIDE DEF b
      <4>3. fence' = b
        BY <4>1, <4>2
      <4> QED BY <4>3 DEF b
    <3>3. /\ thread'[Top.port] = s /\ sandbox' = s
          /\ depends' = IF HasDeps(Top.target) THEN s ELSE 0
      BY <2>1, <2>3, <3>1 DEF Serving
    <3> HIDE DEF Fenced, HasDeps
    <3> QED BY <2>1, <2>3, <2>5, <3>1, <3>2, <3>3 DEF Serving, InSession, Early
  <2> QED BY <1>1, <1>3, <2>1, <2>2, <2>4, <2>5, GotoServed DEF Places, InSession, Early
<1>9. CASE CloseFirst
  <2>1. Top.at = "close"
    BY <1>9 DEF CloseFirst, At
  <2>2. UNCHANGED <<thread, env, name, kq, sandbox, fence, depends, server>>
    BY <1>9 DEF CloseFirst
  <2>3. Live' = Live
    BY <2>2 DEF Live
  <2>4. CASE kq # 0 /\ selfpipe.of # 0
    <3>1. Goto("wait") /\ selfpipe' = [selfpipe EXCEPT !.rung = TRUE] /\ sock' = sock
      BY <1>9, <2>4 DEF CloseFirst, CloseSocket
    <3>2. selfpipe'.of = selfpipe.of
      BY <3>1 DEF Types
    <3>3. ASSUME NEW n \in 1 .. Len(stack'), NEW s \in Live,
                 stack'[n].at = "wait", stack'[n].target = Top.target, stack'[n].port = Top.port,
                 Traced(stack'[n])
          PROVE  Serving(s, stack[n])'
      <4>1. Serving(s, Top)
        BY <1>4
      <4> QED BY <2>1, <2>2, <3>1, <3>2, <3>3, <4>1 DEF Serving, InSession, Early
    <3>4. Live # {}
      BY <1>5, <2>4
    <3> QED BY <1>1, <1>3, <2>3, <3>1, <3>3, <3>4, GotoServed DEF Places, InSession, Early
  <2>5. CASE ~(kq # 0 /\ selfpipe.of # 0)
    <3>1. Goto("check") /\ selfpipe' = selfpipe /\ sock' = 0
      BY <1>9, <2>5 DEF CloseFirst, CloseSocket
    <3>2. ASSUME NEW n \in 1 .. Len(stack'), NEW s \in Live,
                 stack'[n].at = "check", stack'[n].target = Top.target, stack'[n].port = Top.port,
                 Traced(stack'[n])
          PROVE  Serving(s, stack[n])'
      <4>1. Serving(s, Top)
        BY <1>4
      <4>2. server[s].at = "loop" => kq = s /\ selfpipe.of = 0
        BY <1>4, <2>5, <4>1 DEF Serving
      <4> QED BY <2>1, <2>2, <3>1, <3>2, <4>1, <4>2 DEF Serving, InSession, Early
    <3>3. Live = {} => "check" \in Rested /\ kq' = 0 /\ selfpipe'.of = 0 /\ ~fence' /\ env' = 0
      BY <1>5, <2>2, <3>1 DEF Rested
    <3> QED BY <1>1, <1>3, <2>3, <3>1, <3>2, <3>3, GotoServed DEF Places, InSession, Early
  <2> QED BY <2>4, <2>5
<1>10. CASE CheckViolations
  <2>1. Top.at = "check"
    BY <1>10 DEF CheckViolations, At
  <2>2. UNCHANGED <<thread, env, statics, server, client>>
    BY <1>10 DEF CheckViolations
  <2>3. Live' = Live
    BY <2>2 DEF Live
  <2> DEFINE t == thread[Top.port]
  <2>4. CASE t # 0 /\ server[t].at # "gone"
    <3>1. server[t].at = "idle" /\ Goto("stop")
      BY <1>10, <2>4 DEF CheckViolations
    <3>2. t \in Live
      BY <1>6, <2>4, <3>1 DEF Live, Types
    <3>3. ASSUME NEW n \in 1 .. Len(stack'), NEW s \in Live,
                 stack'[n].at = "stop", stack'[n].target = Top.target, stack'[n].port = Top.port,
                 Traced(stack'[n])
          PROVE  Serving(s, stack[n])'
      <4>1. Serving(s, Top) /\ server[s].at = "idle"
        BY <1>4, <3>1, <3>2
      <4> QED BY <2>1, <2>2, <3>3, <4>1 DEF Serving, InSession, Early, statics
    <3> QED BY <1>1, <1>3, <2>3, <3>1, <3>2, <3>3, GotoServed DEF Places, InSession
  <2>5. CASE ~(t # 0 /\ server[t].at # "gone")
    <3>1. Return
      BY <1>10, <2>5 DEF CheckViolations
    <3>2. Live = {}
      BY <1>4, <2>5 DEF Serving, Live
    <3>3. /\ Len(stack') = Len(stack) - 1 /\ Len(stack) \in 1 .. 3
          /\ \A i \in 1 .. Len(stack) - 1 : stack'[i] = stack[i]
      BY <1>1, <3>1, ReturnIs, TopIs
    <3>4. Served' /\ AtRest'
      BY <2>2, <2>3, <3>2, <3>3 DEF Served, AtRest, statics
    <3> QED BY <3>4
  <2> QED BY <2>4, <2>5
<1>11. CASE Stop
  <2>1. Top.at = "stop"
    BY <1>11 DEF Stop, At
  <2>2. /\ UNCHANGED <<thread, name, kq, sandbox, fence, depends, server>>
        /\ env' = 0
    BY <1>11 DEF Stop
  <2>3. Live' = Live /\ Live # {}
    BY <1>5, <2>1, <2>2 DEF Live, Rested
  <2>4. \A s \in Live : server[s].at = "idle" /\ kq = 0
    BY <1>4, <2>1 DEF Serving, Early
  <2>5. Goto("clean") /\ selfpipe' = selfpipe /\ sock' = 0
    BY <1>11, <2>3, <2>4 DEF Stop, CloseSocket
  <2>6. ASSUME NEW n \in 1 .. Len(stack'), NEW s \in Live,
               stack'[n].at = "clean", stack'[n].target = Top.target, stack'[n].port = Top.port,
               Traced(stack'[n])
        PROVE  Serving(s, stack[n])'
    <3>1. Serving(s, Top)
      BY <1>4
    <3> QED BY <2>2, <2>4, <2>5, <2>6, <3>1 DEF Serving, InSession, Early
  <2> QED BY <1>1, <1>3, <2>3, <2>5, <2>6, GotoServed DEF Places, InSession
<1>12. CASE Clean
  <2>1. Top.at = "clean" /\ Goto("release")
    BY <1>12 DEF Clean, At
  <2>2. /\ UNCHANGED <<thread, env, kq, selfpipe, sandbox, server>>
        /\ sock' = 0 /\ name' = 0 /\ depends' = 0 /\ fence' = FALSE
    BY <1>12 DEF Clean
  <2>3. Live' = Live /\ Live # {}
    BY <1>5, <2>1, <2>2 DEF Live, Rested
  <2>4. ASSUME NEW n \in 1 .. Len(stack'), NEW s \in Live,
               stack'[n].at = "release", stack'[n].target = Top.target, stack'[n].port = Top.port,
               Traced(stack'[n])
        PROVE  Serving(s, stack[n])'
    <3>1. Serving(s, Top) /\ server[s].at = "idle"
      BY <1>4, <2>1 DEF Serving, Early
    <3> QED BY <2>1, <2>2, <2>4, <3>1 DEF Serving, InSession, Early
  <2> QED BY <1>1, <1>3, <2>1, <2>3, <2>4, GotoServed DEF Places, InSession
<1>13. CASE Release
  <2>1. Top.at = "release" /\ Return
    BY <1>13 DEF Release, At
  <2>2. /\ UNCHANGED <<thread, env, statics>>
        /\ server' = [server EXCEPT ![thread[Top.port]].at = "gone"]
    BY <1>13 DEF Release
  <2>3. Live # {}
    BY <1>5, <2>1 DEF Rested
  <2>4. PICK s \in Live : Serving(s, Top)
    BY <1>4, <2>3
  <2>5. thread[Top.port] = s /\ s \in Session
    BY <2>4 DEF Serving, Live
  <2>6. server'[s].at = "gone" /\ \A u \in Session : u # s => server'[u] = server[u]
    BY <1>6, <2>2, <2>5 DEF Servers
  <2>7. Live' = {}
    BY <1>4, <2>6 DEF Live
  <2>8. kq = 0 /\ selfpipe.of = 0 /\ ~fence /\ env = 0
    <3>1. server[s].at = "idle"
      BY <2>1, <2>4 DEF Serving, Early, Live
    <3> QED BY <2>1, <2>4, <3>1 DEF Serving
  <2>9. /\ Len(stack') = Len(stack) - 1 /\ Len(stack) \in 1 .. 3
        /\ \A i \in 1 .. Len(stack) - 1 : stack'[i] = stack[i]
    BY <1>1, <2>1, ReturnIs, TopIs
  <2>10. \A i \in 1 .. Len(stack) - 1 : ~Traced(stack[i])
    BY <1>2, <1>3, <2>9, OneTraced
  <2>11. Served'
    BY <2>7 DEF Served
  <2>12. AtRest'
    BY <2>2, <2>8, <2>9, <2>10 DEF AtRest, statics
  <2> QED BY <2>11, <2>12
<1>14. CASE SpuriousWakeup \/ (Finish /\ Traced(Top))
  <2>1. UNCHANGED <<thread, env, statics, server, client>>
    BY <1>14 DEF SpuriousWakeup, Finish
  <2>2. Live' = Live
    BY <2>1 DEF Live
  <2>3. CASE Finish /\ Traced(Top)
    <3>1. Top.at = "run" /\ Goto("close")
      BY <2>3 DEF Finish, At
    <3>2. Live # {}
      BY <1>5, <3>1 DEF Rested
    <3>3. ASSUME NEW n \in 1 .. Len(stack'), NEW s \in Live,
                 stack'[n].at = "close", stack'[n].target = Top.target, stack'[n].port = Top.port,
                 Traced(stack'[n])
          PROVE  Serving(s, stack[n])'
      <4>1. Serving(s, Top)
        BY <1>4
      <4> QED BY <2>1, <3>1, <3>3, <4>1 DEF Serving, InSession, Early, statics
    <3> QED BY <1>1, <1>3, <2>2, <3>1, <3>2, <3>3, GotoServed DEF Places, InSession, Early
  <2>4. CASE SpuriousWakeup
    <3>1. Live # {}
      BY <1>5, <2>4 DEF SpuriousWakeup, Waits, At, Rested
    <3>2. Top.at # "waitStop"
      BY <1>4, <3>1 DEF Serving, InSession, Early
    <3>3. Top.at = "wait" /\ Goto("check")
      BY <2>4, <3>2 DEF SpuriousWakeup, Waits, Woken, At
    <3>4. ASSUME NEW n \in 1 .. Len(stack'), NEW s \in Live,
                 stack'[n].at = "check", stack'[n].target = Top.target, stack'[n].port = Top.port,
                 Traced(stack'[n])
          PROVE  Serving(s, stack[n])'
      <4>1. Serving(s, Top)
        BY <1>4
      <4> QED BY <2>1, <3>3, <3>4, <4>1 DEF Serving, InSession, Early, statics
    <3> QED BY <1>1, <1>3, <2>2, <3>1, <3>3, <3>4, GotoServed DEF Places, InSession, Early
  <2> QED BY <1>14, <2>3, <2>4
<1> QED BY <1>7, <1>8, <1>9, <1>10, <1>11, <1>12, <1>13, <1>14

(* The steps of the thread that set up and tear down its loop.             *)
LEMMA ThreadStep ==
  ASSUME Types, Calls, Served, AtRest, Belongs, NEW t \in Session,
         Setup(t) \/ SetupFails(t) \/ EndLoop(t) \/ AcceptFails(t) \/ Broadcast(t)
  PROVE  Served' /\ AtRest'
<1>1. /\ t \in Live /\ t # 0 /\ server \in [Session -> Servers]
      /\ server[t].at \in {"posted", "loop", "broadcast"}
  BY Constants DEF Setup, SetupFails, EndLoop, AcceptFails, Broadcast, Looping, Live, Types
<1>2. /\ \A s \in Live : s = t
      /\ \A s \in Session : s # t => server[s].at \in {"none", "gone"}
  BY <1>1, LiveOne DEF Live
<1>3. PICK i \in 1 .. Len(stack) : Serving(t, stack[i])
  BY <1>1 DEF Served
<1>4. stack[i].at \in Early
  BY <1>1, <1>3 DEF Serving
<1>5. /\ server'[t].at \in {"loop", "broadcast", "idle"} /\ server'[t].target = server[t].target
      /\ \A s \in Session : s # t => server'[s] = server[s]
  <2>1. ASSUME Setup(t) \/ SetupFails(t) \/ Broadcast(t)
        PROVE  /\ server'[t].at \in {"loop", "broadcast", "idle"}
               /\ server'[t].target = server[t].target
               /\ \A s \in Session : s # t => server'[s] = server[s]
    <3>1. \/ server' = [server EXCEPT ![t].at = "loop"]
          \/ server' = [server EXCEPT ![t].at = "broadcast"]
          \/ server' = [server EXCEPT ![t].at = "idle"]
      BY <2>1 DEF Setup, SetupFails, Broadcast
    <3> QED BY <1>1, <3>1 DEF Servers
  <2>2. ASSUME EndLoop(t) \/ AcceptFails(t)
        PROVE  /\ server'[t].at \in {"loop", "broadcast", "idle"}
               /\ server'[t].target = server[t].target
               /\ \A s \in Session : s # t => server'[s] = server[s]
    <3>1. server' = [server EXCEPT ![t] = [NoServer EXCEPT !.at = "broadcast",
                                                           !.target = server[t].target]]
      BY <2>2 DEF EndLoop, AcceptFails, Leave
    <3> QED BY <1>1, <3>1 DEF NoServer
  <2> QED BY <2>1, <2>2
<1>6. Live' = {t}
  BY <1>1, <1>2, <1>5 DEF Live
<1>7. AtRest'
  BY <1>6 DEF AtRest
<1>8. ASSUME NEW c \in Client PROVE client'[c].session \in {client[c].session, 0}
  BY ClientsAre DEF Setup, SetupFails, EndLoop, AcceptFails, Broadcast, Leave, Leftovers
<1>9. CASE stack' = stack
  <2>1. UNCHANGED <<thread, env, name, sandbox, fence, depends, sock>>
    BY DEF Setup, SetupFails, EndLoop, AcceptFails, Broadcast, Leave, main, statics
  <2>2. \/ /\ server'[t].at = "loop" /\ server[t].at = "posted" /\ kq' = t
           /\ selfpipe'.of = IF sock # 0 THEN t ELSE 0
        \/ server'[t].at # "loop" /\ kq' = 0 /\ selfpipe'.of = 0
        \/ server'[t].at # "loop" /\ server[t].at # "loop" /\ kq' = kq /\ selfpipe' = selfpipe
    <3>1. CASE Setup(t)
      BY <1>1, <3>1 DEF Setup, Servers
    <3>2. CASE SetupFails(t)
      <4>1. server'[t].at = "broadcast"
        BY <1>1, <3>2 DEF SetupFails, Servers
      <4> QED BY <3>2, <4>1 DEF SetupFails
    <3>3. CASE EndLoop(t) \/ AcceptFails(t)
      <4>1. server'[t].at = "broadcast"
        BY <1>1, <3>3 DEF EndLoop, AcceptFails, Leave, NoServer
      <4> QED BY <3>3, <4>1 DEF EndLoop, AcceptFails, Leave
    <3>4. CASE Broadcast(t)
      <4>1. server'[t].at = "idle" /\ server[t].at = "broadcast"
        BY <1>1, <3>4 DEF Broadcast, Servers
      <4> QED BY <3>4, <4>1 DEF Broadcast, statics
    <3> QED BY <3>1, <3>2, <3>3, <3>4
  <2>3. server'[t].at # "posted"
    BY <1>5
  <2>4. stack[i].at = "bounds" => \A c \in Client : client'[c].session # t
    BY <1>1, <1>3, <1>8 DEF Serving
  <2>5. Serving(t, stack[i])'
    BY <1>1, <1>3, <1>4, <1>5, <1>9, <2>1, <2>2, <2>3, <2>4 DEF Serving
  <2>6. Served'
    BY <1>6, <1>9, <2>5 DEF Served
  <2> QED BY <1>7, <2>6
<1>10. CASE Broadcast(t) /\ Waits
  <2>1. stack # <<>> /\ Traced(Top)
    BY <1>10, TopTraced DEF Waits, At
  <2>2. Serving(t, Top)
    BY <1>1, <2>1, TopServes
  <2>3. Top.at = "wait" /\ Goto("check")
    BY <1>10, <2>2 DEF Broadcast, Waits, Woken, At, Serving, InSession, Early
  <2>4. server'[t].at = "idle" /\ server[t].at = "broadcast"
    BY <1>1, <1>10 DEF Broadcast, Servers
  <2>5. UNCHANGED <<thread, env, statics, client>>
    BY <1>10 DEF Broadcast
  <2>6. ASSUME NEW n \in 1 .. Len(stack'),
               stack'[n].at = "check", stack'[n].target = Top.target, stack'[n].port = Top.port,
               Traced(stack'[n])
        PROVE  Serving(t, stack[n])'
    BY <1>5, <2>2, <2>3, <2>4, <2>5, <2>6 DEF Serving, InSession, Early, statics
  <2> QED BY <1>6, <2>1, <2>3, <2>6, GotoServed DEF Places, InSession, Early
<1>11. stack' = stack \/ (Broadcast(t) /\ Waits)
  BY DEF Setup, SetupFails, EndLoop, AcceptFails, Broadcast, Leave, main
<1> QED BY <1>9, <1>10, <1>11

(* A thread that looks at what is ready, or answers.                       *)
LEMMA QuietThread ==
  ASSUME Types, Calls, Served, AtRest, NEW t \in Session,
         \/ Kevent(t) \/ TakePipe(t) \/ Accept(t)
         \/ \E c \in Client : TakeClient(t, c) \/ Answer(t, c) \/ CloseClient(t, c)
  PROVE  Served' /\ AtRest'
<1>1. server \in [Session -> Servers]
  BY DEF Types
<1>2. \A s \in Session : server'[s].at = server[s].at /\ server'[s].target = server[s].target
  <2>1. ASSUME NEW b, NEW r,
               \/ server' = [server EXCEPT ![t].batch = b]
               \/ server' = [server EXCEPT ![t].batch = b, ![t].stop = TRUE]
               \/ server' = [server EXCEPT ![t].batch = b, ![t].reading = r]
               \/ server' = [server EXCEPT ![t].reading = r]
        PROVE  \A s \in Session : server'[s].at = server[s].at /\ server'[s].target = server[s].target
    BY <1>1, <2>1 DEF Servers
  <2>2. Kevent(t) => server' = [server EXCEPT ![t].batch = Ready(t)]
    BY DEF Kevent
  <2>3. TakePipe(t) => server' = [server EXCEPT ![t].batch = server[t].batch \ {Pipe}, ![t].stop = TRUE]
    BY <1>1 DEF TakePipe
  <2>4. Accept(t) => server' = [server EXCEPT ![t].batch = {}]
    BY DEF Accept
  <2>5. \A c \in Client : /\ TakeClient(t, c) =>
                               server' = [server EXCEPT ![t].batch = server[t].batch \ {c},
                                                        ![t].reading = c]
                          /\ Answer(t, c) \/ CloseClient(t, c) =>
                               server' = [server EXCEPT ![t].reading = None]
    BY <1>1 DEF TakeClient, Answer, CloseClient
  <2> QED BY <2>1, <2>2, <2>3, <2>4, <2>5
<1>3. UNCHANGED <<main, statics>>
  BY DEF Kevent, TakePipe, Accept, TakeClient, Answer, CloseClient
<1>4. ASSUME NEW c \in Client PROVE client'[c].session \in {client[c].session, 0}
  <2>1. CASE Kevent(t) \/ TakePipe(t) \/ \E d \in Client : TakeClient(t, d)
    BY <2>1 DEF Kevent, TakePipe, TakeClient
  <2>2. CASE Accept(t)
    BY <2>2 DEF Accept, Types, Clients
  <2>3. ASSUME NEW d \in Client, CloseClient(t, d)
        PROVE  client'[c].session \in {client[c].session, 0}
    BY <2>3, ClientsAre DEF CloseClient, Types
  <2>4. ASSUME NEW d \in Client, Answer(t, d)
        PROVE  client'[c].session \in {client[c].session, 0}
    <3>1. PICK m, e : client' = [client EXCEPT ![d].msg = "none", ![d].waits = FALSE,
                                  ![d].what = "none", ![d].map = m, ![d].deps = e]
      BY <2>4 DEF Answer
    <3> QED BY <3>1 DEF Types, Clients
  <2> QED BY <2>1, <2>2, <2>3, <2>4
<1> QED BY <1>2, <1>3, <1>4, QuietServed DEF main, statics

(* A call that has no session begins, goes on or returns.                  *)
LEMMA QuietCall ==
  ASSUME Types, Calls, Served, AtRest,
         \/ Ask \/ CallDeactivate \/ CallUnload \/ Prerun \/ PrerunFails
         \/ (Finish /\ ~Traced(Top))
  PROVE  Served' /\ AtRest'
<1>1. UNCHANGED <<thread, env, statics, server, client>>
  BY DEF Ask, CallDeactivate, CallUnload, Call, Prerun, PrerunFails, Finish
<1> DEFINE Keeps == \A i \in 1 .. Len(stack) : Traced(stack[i]) /\ stack[i].at \in InSession =>
                      /\ i \in 1 .. Len(stack') /\ stack'[i].at = stack[i].at
                      /\ stack'[i].target = stack[i].target
                      /\ stack'[i].port = stack[i].port /\ stack'[i].traced = stack[i].traced
           Begins == \A i \in 1 .. Len(stack') : Traced(stack'[i]) =>
                       \/ stack'[i].at \in {"prerun", "start", "close", "check"}
                       \/ i \in 1 .. Len(stack) /\ Traced(stack[i]) /\ stack'[i].at = stack[i].at
<1>2. CASE Ask
  <2>1. stack = <<>> /\ stack' = <<Frame(Head(plan.targets), 1, TRUE)>>
    BY <1>2 DEF Ask
  <2>2. Len(stack) = 0 /\ Len(stack') = 1 /\ stack'[1].at = "prerun"
    BY <2>1 DEF Frame
  <2>3. Keeps /\ Begins
    BY <2>2
  <2> QED BY <1>1, <2>3, QuietServed DEF statics
<1>3. CASE CallDeactivate \/ CallUnload
  <2>1. PICK f \in Frames : /\ At("run") /\ f.at = "prerun"
                            /\ stack' = Append([stack EXCEPT ![Len(stack)].called = TRUE], f)
    <3>1. At("run")
      BY <1>3 DEF CallDeactivate, CallUnload
    <3>2. Top \in Frames
      BY <3>1, TopIs DEF At
    <3>3. /\ Frame("deactivate", 2, DeactivatedTraced(Top)) \in Frames
          /\ Frame("deactivate", 2, DeactivatedTraced(Top)).at = "prerun"
      <4> DEFINE b == DeactivatedTraced(Top)
      <4>1. b \in BOOLEAN
        BY <3>2 DEF DeactivatedTraced, Frames
      <4> HIDE DEF b
      <4>2. Frame("deactivate", 2, b) \in Frames /\ Frame("deactivate", 2, b).at = "prerun"
        BY <4>1 DEF Frame, Frames, Port, Places, Target
      <4> QED BY <4>2 DEF b
    <3>4. /\ Frame("unload", Top.port, Top.traced) \in Frames
          /\ Frame("unload", Top.port, Top.traced).at = "prerun"
      BY <3>2 DEF Frame, Frames, Port, Places, Target
    <3> QED BY <1>3, <3>1, <3>3, <3>4 DEF CallDeactivate, CallUnload, Call
  <2>2. /\ Len(stack') = Len(stack) + 1
        /\ stack'[Len(stack) + 1] = f
        /\ \A i \in 1 .. Len(stack) :
             /\ stack'[i].at = stack[i].at /\ stack'[i].target = stack[i].target
             /\ stack'[i].port = stack[i].port /\ stack'[i].traced = stack[i].traced
    BY <2>1, CallIs
  <2>3. Len(stack) \in 1 .. 3
    BY <2>1, TopIs DEF At
  <2>4. Keeps /\ Begins
    BY <2>1, <2>2, <2>3 DEF Traced
  <2>5. ~At("bounds")
    BY <2>1 DEF At
  <2> QED BY <1>1, <2>4, <2>5, QuietServed DEF statics
<1>4. CASE Prerun \/ PrerunFails \/ (Finish /\ ~Traced(Top))
  <2>1. /\ stack # <<>> /\ Top.at \in {"prerun", "run"}
        /\ ~Traced(Top) \/ Top.at = "prerun"
    BY <1>4 DEF Prerun, PrerunFails, Finish, At
  <2>2. Top = stack[Len(stack)] /\ Len(stack) \in 1 .. 3
    BY <2>1, TopIs
  <2>3. ~At("bounds")
    BY <2>1 DEF At
  <2>4. CASE Return
    <3>1. /\ Len(stack') = Len(stack) - 1
          /\ \A i \in 1 .. Len(stack) - 1 : stack'[i] = stack[i]
      BY <2>1, <2>4, ReturnIs
    <3>2. Keeps /\ Begins
      BY <2>1, <2>2, <3>1 DEF InSession, Early
    <3> QED BY <1>1, <2>3, <3>2, QuietServed DEF statics
  <2>5. ASSUME NEW w \in {"start", "run", "close"}, Goto(w), w = "run" => ~Traced(Top)
        PROVE  Served' /\ AtRest'
    <3>1. /\ Len(stack') = Len(stack)
          /\ \A i \in 1 .. Len(stack) : i # Len(stack) => stack'[i] = stack[i]
          /\ stack'[Len(stack)].at = w
          /\ Traced(stack'[Len(stack)]) <=> Traced(Top)
      BY <2>1, <2>5, GotoIs DEF Places, InSession, Early
    <3>2. Keeps /\ Begins
      BY <2>1, <2>2, <2>5, <3>1 DEF InSession, Early
    <3> QED BY <1>1, <2>3, <3>2, QuietServed DEF statics
  <2>6. Return \/ (Traced(Top) /\ (Goto("start") \/ Goto("close"))) \/ (~Traced(Top) /\ Goto("run"))
    BY <1>4 DEF Prerun, PrerunFails, Finish
  <2> QED BY <2>4, <2>5, <2>6
<1> QED BY <1>2, <1>3, <1>4

(* A process does something.                                               *)
LEMMA QuietClient ==
  ASSUME Types, Calls, Served, AtRest, NEW c \in Client, NEW what \in {"filemap", "dep_check"},
         \/ SendPart(c, what) \/ Spawn(c) \/ Connect(c) \/ SendRest(c)
         \/ Exit(c) \/ Killed(c) \/ Abort(c)
  PROVE  Served' /\ AtRest'
<1>1. UNCHANGED <<main, statics, server>>
  BY DEF SendPart, Spawn, Connect, SendRest, Exit, Killed, Abort
<1>2. ASSUME ~Spawn(c), NEW d \in Client PROVE client'[d].session \in {client[d].session, 0}
  <2>0. client \in [Client -> Clients]
    BY DEF Types
  <2>1. CASE SendPart(c, what)
    <3>1. client' = [client EXCEPT ![c].msg = "part", ![c].what = what, ![c].waits = TRUE,
                                   ![c].asks = client[c].asks + 1]
      BY <2>0, <2>1 DEF SendPart
    <3> QED BY <2>0, <3>1 DEF Clients
  <2>2. CASE SendRest(c)
    BY <2>0, <2>2 DEF SendRest, Clients
  <2>3. CASE Connect(c) \/ Abort(c)
    <3>1. \/ client' = [client EXCEPT ![c] = [client[c] EXCEPT !.at = "queued"]]
          \/ client' = [client EXCEPT ![c] = Dead]
      BY <2>3 DEF Connect, Abort
    <3> QED BY <2>0, <3>1, ClientsAre DEF Clients
  <2>4. CASE Exit(c) \/ Killed(c)
    <3>1. client' = [client EXCEPT ![c] = Ended(c)]
      BY <2>4 DEF Exit, Killed
    <3>2. Ended(c).session \in {client[c].session, 0}
      BY EndedIs, ClientsAre
    <3> QED BY <2>0, <3>1, <3>2
  <2> QED BY <1>2, <2>1, <2>2, <2>3, <2>4
<1>3. Spawn(c) => ~At("bounds")
  BY DEF Spawn, At
<1> QED BY <1>1, <1>2, <1>3, QuietServed DEF main, statics

LEMMA ServedStep ==
  ASSUME Types, Calls, Served, AtRest, Belongs, Next
  PROVE  Served' /\ AtRest'
<1>1. CASE Ask \/ CallDeactivate \/ CallUnload \/ Prerun \/ PrerunFails \/ (Finish /\ ~Traced(Top))
  BY <1>1, QuietCall
<1>2. CASE \/ StartSession \/ SetBounds \/ CloseFirst \/ CheckViolations \/ Stop \/ Clean \/ Release
           \/ SpuriousWakeup \/ (Finish /\ Traced(Top))
  BY <1>2, SessionStep
<1>3. ASSUME NEW t \in Session, Serve(t) \/ SetupFails(t) \/ AcceptFails(t)
      PROVE  Served' /\ AtRest'
  <2>1. CASE Setup(t) \/ SetupFails(t) \/ EndLoop(t) \/ AcceptFails(t) \/ Broadcast(t)
    BY <2>1, ThreadStep
  <2>2. CASE \/ Kevent(t) \/ TakePipe(t) \/ Accept(t)
             \/ \E c \in Client : TakeClient(t, c) \/ Answer(t, c) \/ CloseClient(t, c)
    BY <2>2, QuietThread
  <2> QED BY <1>3, <2>1, <2>2 DEF Serve
<1>4. ASSUME NEW c \in Client,
             \/ \E what \in {"filemap", "dep_check"} : SendPart(c, what)
             \/ Spawn(c) \/ Connect(c) \/ SendRest(c) \/ Exit(c) \/ Killed(c) \/ Abort(c)
      PROVE  Served' /\ AtRest'
  BY <1>4, QuietClient
<1> QED BY <1>1, <1>2, <1>3, <1>4 DEF Next, Work

(* The steps of the calls.                                                 *)
LEMMA MainBelongs ==
  ASSUME Types, Calls, Belongs, Bounds,
         Ask \/ CallDeactivate \/ CallUnload \/ PrerunFails \/ SpuriousWakeup \/ Work
  PROVE  Belongs' /\ Bounds'
<1>0. server \in [Session -> Servers]
  BY DEF Types
<1>1. \A c \in Client : Moves(c)
  <2>1. CASE UNCHANGED client
    BY <2>1 DEF Moves
  <2>2. CASE CloseFirst \/ Stop \/ Clean
    <3>1. client' = CutQueue \/ client' = client
      BY <2>2 DEF CloseFirst, Stop, Clean, CloseSocket
    <3>2. ASSUME NEW c \in Client, client[c].at = "queued",
                 client'[c] = [client[c] EXCEPT !.at = "cut"]
          PROVE  Moves(c)
      <4>1. client[c] \in Clients
        BY DEF Types
      <4> QED BY <3>2, <4>1 DEF Moves, Clients
    <3> QED BY <3>1, <3>2, CutIs DEF Moves
  <2>3. UNCHANGED client \/ CloseFirst \/ Stop \/ Clean
    BY DEF Ask, CallDeactivate, CallUnload, Call, PrerunFails, SpuriousWakeup, Work, Prerun,
       StartSession, SetBounds, Finish, CheckViolations, Release
  <2> QED BY <2>1, <2>2, <2>3
<1>2. ASSUME NEW t \in Session PROVE Threads(t)
  <2>1. /\ server[t].at # "none" => server'[t].at # "none" /\ server'[t].target = server[t].target
        /\ server'[t].batch = server[t].batch /\ server'[t].reading = server[t].reading
    <3>1. CASE UNCHANGED server
      BY <3>1
    <3>2. CASE StartSession
      <4>1. PICK s \in Session :
              /\ server[s].at = "none"
              /\ server' = [server EXCEPT ![s].at = "posted", ![s].target = Top.target]
        BY <3>2 DEF StartSession
      <4> QED BY <1>0, <4>1 DEF Servers
    <3>3. CASE Release
      <4>1. server' = [server EXCEPT ![thread[Top.port]].at = "gone"]
        BY <3>3 DEF Release
      <4> QED BY <1>0, <4>1 DEF Servers
    <3>4. UNCHANGED server \/ StartSession \/ Release
      BY DEF Ask, CallDeactivate, CallUnload, Call, PrerunFails, SpuriousWakeup, Work, Prerun,
         SetBounds, Finish, CloseFirst, CheckViolations, Stop, Clean
    <3> QED BY <3>1, <3>2, <3>3, <3>4
  <2> QED BY <2>1, ThreadsAre
<1> QED BY <1>1, <1>2, ClientsKept

(* The steps of the threads but an answer.                                 *)
LEMMA ThreadBelongs ==
  ASSUME Types, Belongs, Bounds, NEW t \in Session,
         \/ Setup(t) \/ SetupFails(t) \/ Kevent(t) \/ TakePipe(t) \/ Accept(t) \/ EndLoop(t)
         \/ AcceptFails(t) \/ Broadcast(t)
         \/ \E c \in Client : TakeClient(t, c) \/ CloseClient(t, c)
  PROVE  Belongs' /\ Bounds'
<1>0. /\ server \in [Session -> Servers] /\ client \in [Client -> Clients]
      /\ server[t].at # "none" /\ \A c \in Client : c \notin {None, Listen, Pipe}
  BY Constants DEF Types, Setup, SetupFails, Kevent, TakePipe, Accept, EndLoop, AcceptFails, Broadcast,
     TakeClient, CloseClient, Looping
<1>1. CASE Setup(t) \/ SetupFails(t) \/ Broadcast(t) \/ TakePipe(t)
  <2>1. UNCHANGED client
    BY <1>1 DEF Setup, SetupFails, Broadcast, TakePipe
  <2>2. PICK a \in {"loop", "broadcast", "idle"} :
          \/ server' = [server EXCEPT ![t].at = a]
          \/ server' = [server EXCEPT ![t].batch = server[t].batch \ {Pipe}, ![t].stop = TRUE]
    BY <1>0, <1>1 DEF Setup, SetupFails, Broadcast, TakePipe
  <2>3. ASSUME NEW u \in Session PROVE Threads(u)
    <3>1. /\ server[u].at # "none" => server'[u].at # "none" /\ server'[u].target = server[u].target
          /\ server'[u].batch \subseteq server[u].batch /\ server'[u].reading = server[u].reading
      BY <1>0, <2>2 DEF Servers
    <3> QED BY <3>1, ThreadsAre
  <2> QED BY <2>1, <2>3, ClientsKept DEF Moves
<1>2. CASE EndLoop(t) \/ AcceptFails(t)
  <2>1. /\ server' = [server EXCEPT ![t] = [NoServer EXCEPT !.at = "broadcast",
                                                           !.target = server[t].target]]
        /\ client' = Leftovers(t)
    BY <1>2 DEF EndLoop, AcceptFails, Leave
  <2>2. /\ server'[t].at = "broadcast" /\ server'[t].target = server[t].target
        /\ server'[t].batch = {} /\ server'[t].reading = None
        /\ \A u \in Session : u # t => server'[u] = server[u]
    BY <1>0, <2>1 DEF NoServer
  <2>3. ASSUME NEW u \in Session PROVE Threads(u)
    BY <2>2, ThreadsAre
  <2>4. ASSUME NEW c \in Client PROVE Moves(c)
    <3>1. client'[c] = client[c] \/ (client'[c] = Dead /\ client[c].session = t)
      BY <2>1 DEF Leftovers, Connected
    <3>2. client[c].session = t =>
            \A u \in Session : c \notin server'[u].batch /\ server'[u].reading # c
      BY <1>0, <2>2 DEF Belongs
    <3> QED BY <3>1, <3>2 DEF Moves
  <2> QED BY <2>3, <2>4, ClientsKept
<1>3. CASE Kevent(t)
  <2>1. /\ server' = [server EXCEPT ![t].batch = Ready(t)] /\ UNCHANGED client
        /\ server[t].reading = None
    BY <1>3 DEF Kevent
  <2>2. \A c \in Client : c \in Ready(t) => client[c].session = t /\ client[c].at \in {"conn", "eof"}
    BY <1>0 DEF Ready, Connected
  <2> DEFINE r == Ready(t)
  <2> HIDE DEF r
  <2>3. /\ server'[t].batch = r /\ server'[t].reading = None /\ server'[t].at = server[t].at
        /\ server'[t].target = server[t].target
        /\ \A u \in Session : u # t => server'[u] = server[u]
    <3>1. server' = [server EXCEPT ![t].batch = r]
      BY <2>1 DEF r
    <3> QED BY <1>0, <2>1, <3>1 DEF Servers
  <2>4. ASSUME NEW u \in Session PROVE Threads(u)
    <3>1. CASE u = t
      BY <1>0, <2>2, <2>3, <3>1 DEF Threads, r
    <3>2. CASE u # t
      BY <2>3, <3>2, ThreadsAre
    <3> QED BY <3>1, <3>2
  <2> QED BY <2>1, <2>4, ClientsKept DEF Moves
<1>4. ASSUME NEW c \in Client, TakeClient(t, c)
      PROVE  Belongs' /\ Bounds'
  <2>1. /\ server' = [server EXCEPT ![t].batch = server[t].batch \ {c}, ![t].reading = c]
        /\ UNCHANGED client /\ c \in server[t].batch
    BY <1>0, <1>4 DEF TakeClient
  <2>2. /\ server'[t].batch = server[t].batch \ {c} /\ server'[t].reading = c
        /\ server'[t].at = server[t].at /\ server'[t].target = server[t].target
        /\ \A u \in Session : u # t => server'[u] = server[u]
    BY <1>0, <2>1 DEF Servers
  <2>3. ASSUME NEW u \in Session PROVE Threads(u)
    <3>1. CASE u = t
      BY <1>0, <2>1, <2>2, <3>1 DEF Threads, Belongs
    <3>2. CASE u # t
      BY <2>2, <3>2, ThreadsAre
    <3> QED BY <3>1, <3>2
  <2> QED BY <2>1, <2>3, ClientsKept DEF Moves
<1>5. ASSUME NEW c \in Client, CloseClient(t, c)
      PROVE  Belongs' /\ Bounds'
  <2>1. /\ server' = [server EXCEPT ![t].reading = None] /\ server[t].reading = c
        /\ client' = [client EXCEPT ![c] = Dead]
    BY <1>5 DEF CloseClient
  <2>2. /\ server'[t].batch = server[t].batch /\ server'[t].reading = None
        /\ server'[t].at = server[t].at /\ server'[t].target = server[t].target
        /\ \A u \in Session : u # t => server'[u] = server[u]
    BY <1>0, <2>1 DEF Servers
  <2>3. ASSUME NEW u \in Session PROVE Threads(u)
    BY <2>2, ThreadsAre
  <2>4. \A u \in Session : c \notin server'[u].batch /\ server'[u].reading # c
    BY <1>0, <2>1, <2>2 DEF Belongs
  <2>5. ASSUME NEW d \in Client PROVE Moves(d)
    BY <1>0, <2>1, <2>4 DEF Moves
  <2> QED BY <2>3, <2>5, ClientsKept
<1>6. CASE Accept(t)
  <2>1. /\ server' = [server EXCEPT ![t].batch = {}] /\ server[t].reading = None
        /\ client' = [c \in Client |-> IF c \in Queued THEN [client[c] EXCEPT !.at = "conn"]
                                                       ELSE client[c]]
    BY <1>6 DEF Accept
  <2>2. /\ server'[t].batch = {} /\ server'[t].reading = None
        /\ server'[t].at = server[t].at /\ server'[t].target = server[t].target
        /\ \A u \in Session : u # t => server'[u] = server[u]
    BY <1>0, <2>1 DEF Servers
  <2>3. ASSUME NEW u \in Session PROVE Threads(u)
    BY <2>2, ThreadsAre
  <2>4. ASSUME NEW c \in Client PROVE Moves(c)
    <3>1. client'[c] = client[c] \/ client'[c] = [client[c] EXCEPT !.at = "conn"]
      BY <2>1
    <3>2. client[c] \in Clients
      BY <1>0
    <3> QED BY <3>1, <3>2 DEF Moves, Clients
  <2> QED BY <2>3, <2>4, ClientsKept
<1> QED BY <1>1, <1>2, <1>3, <1>4, <1>5, <1>6

(* The steps of the processes but a start.                                 *)
LEMMA ClientBelongs ==
  ASSUME Types, Belongs, Bounds, NEW c \in Client, NEW what \in {"filemap", "dep_check"},
         \/ SendPart(c, what) \/ Connect(c) \/ SendRest(c)
         \/ Exit(c) \/ Killed(c) \/ Abort(c)
  PROVE  Belongs' /\ Bounds'
<1>0. client \in [Client -> Clients] /\ client[c] \in Clients
  BY DEF Types
<1>1. UNCHANGED server
  BY DEF SendPart, Connect, SendRest, Exit, Killed, Abort
<1>2. \A t \in Session : Threads(t)
  BY <1>1, ThreadsAre
<1>3. client[c].at \notin {"conn", "eof"} =>
        \A t \in Session : c \notin server'[t].batch /\ server'[t].reading # c
  BY <1>1 DEF Belongs
<1>4. Moves(c)
  <2>1. CASE SendPart(c, what)
    <3>1. client' = [client EXCEPT ![c].msg = "part", ![c].what = what, ![c].waits = TRUE,
                                   ![c].asks = client[c].asks + 1]
      BY <1>0, <2>1 DEF SendPart
    <3>2. client[c].at \in {"queued", "conn"}
      BY <2>1 DEF SendPart, Talks
    <3> QED BY <1>0, <3>1, <3>2 DEF Moves, Clients
  <2>2. CASE SendRest(c)
    BY <1>0, <2>2 DEF Moves, Clients, SendRest, Talks
  <2>3. CASE Connect(c)
    <3>1. client[c].at = "new" /\ (client'[c] = Dead \/ client'[c] = [client[c] EXCEPT !.at = "queued"])
      BY <1>0, <2>3 DEF Connect
    <3> QED BY <1>0, <1>3, <3>1 DEF Moves, Clients
  <2>4. CASE Abort(c)
    BY <1>0, <1>3, <2>4 DEF Moves, Abort
  <2>5. CASE Exit(c) \/ Killed(c)
    <3>1. client'[c] = Ended(c) /\ client[c].at \in {"new", "queued", "conn", "cut"}
      BY <1>0, <2>5 DEF Exit, Killed, Alive
    <3> QED BY <1>3, <3>1, EndedIs DEF Moves
  <2> QED BY <2>1, <2>2, <2>3, <2>4, <2>5
<1>5. ASSUME NEW d \in Client, d # c PROVE Moves(d)
  <2>1. client'[d] = client[d]
    BY <1>0, <1>5 DEF SendPart, Connect, SendRest, Exit, Killed, Abort
  <2> QED BY <2>1 DEF Moves
<1> QED BY <1>2, <1>4, <1>5, ClientsKept

(* A process starts in the session the environment names.                  *)
LEMMA SpawnBelongs ==
  ASSUME Types, Served, AtRest, Belongs, Bounds, NEW c \in Client, Spawn(c)
  PROVE  Belongs' /\ Bounds'
<1>1. /\ client' = [client EXCEPT ![c].at = "new", ![c].session = env] /\ UNCHANGED server
      /\ client[c] = NoClient /\ env # 0 /\ client \in [Client -> Clients]
  BY DEF Spawn, Belongs, Types
<1>2. env \in Live
  <2>1. PICK s \in Live : TRUE
    BY <1>1 DEF AtRest
  <2>2. PICK i \in 1 .. Len(stack) : Serving(s, stack[i])
    BY <2>1 DEF Served
  <2> QED BY <1>1, <2>1, <2>2 DEF Serving
<1>3. /\ client'[c].at = "new" /\ client'[c].session = env
      /\ client'[c].map = None /\ client'[c].deps = None
      /\ \A d \in Client : d # c => client'[d] = client[d]
  BY <1>1 DEF NoClient
<1>4. \A t \in Session : c \notin server'[t].batch /\ server'[t].reading # c
  BY <1>1 DEF Belongs, NoClient
<1>5. Belongs'
  BY <1>1, <1>2, <1>3, <1>4 DEF Belongs, Live
<1>6. Bounds'
  BY <1>1, <1>3 DEF Bounds, OwnBounds
<1> QED BY <1>5, <1>6

(* A request is answered with what the statics hold.                       *)
LEMMA AnswerBelongs ==
  ASSUME Types, Served, Belongs, Bounds, NEW t \in Session, NEW c \in Client, Answer(t, c)
  PROVE  Belongs' /\ Bounds'
<1>0. /\ server \in [Session -> Servers] /\ client \in [Client -> Clients] /\ client[c] \in Clients
      /\ server[t].reading = c /\ server[t].at = "loop" /\ c # None
  BY Constants DEF Types, Answer, Looping
<1>1. client[c].session = t /\ client[c].at = "conn"
  BY <1>0 DEF Belongs, Answer
<1> DEFINE m == IF client[c].what = "filemap" THEN (IF fence THEN sandbox ELSE 0) ELSE client[c].map
           d == IF client[c].what = "dep_check" THEN depends ELSE client[c].deps
           r == [client[c] EXCEPT !.msg = "none", !.waits = FALSE, !.what = "none",
                                  !.map = m, !.deps = d]
<1>2. client' = [client EXCEPT ![c] = r] /\ server' = [server EXCEPT ![t].reading = None]
  <2>1. client' = [client EXCEPT ![c].msg = "none", ![c].waits = FALSE, ![c].what = "none",
                                 ![c].map = m, ![c].deps = d]
    BY <1>0 DEF Answer
  <2>2. server' = [server EXCEPT ![t].reading = None]
    BY DEF Answer
  <2> HIDE DEF m, d
  <2> QED BY <2>1, <2>2
<1>3. PICK i \in 1 .. Len(stack) : Serving(t, stack[i])
  <2>1. t \in Live
    BY <1>0 DEF Live
  <2> QED BY <2>1 DEF Served
<1>4. stack[i].at \in Early \ {"bounds"}
  BY <1>0, <1>1, <1>3 DEF Serving
<1>5. /\ fence = Fenced(server[t].target) /\ sandbox = t
      /\ depends = IF HasDeps(server[t].target) THEN t ELSE 0
  BY <1>3, <1>4 DEF Serving
<1> DEFINE b == IF Fenced(server[t].target) THEN t ELSE 0
           e == IF HasDeps(server[t].target) THEN t ELSE 0
<1>6. client[c].map \in {None, b} /\ client[c].deps \in {None, e}
  <2>1. t # 0
    BY Constants
  <2> QED BY <1>1, <2>1 DEF Bounds, OwnBounds
<1>7. m \in {None, b} /\ d \in {None, e}
  BY <1>5, <1>6
<1>8. /\ r.at = "conn" /\ r.session = t /\ r.map = m /\ r.deps = d
  <2> HIDE DEF m, d
  <2> QED BY <1>0, <1>1 DEF Clients
<1> HIDE DEF r, m, d
<1>9. /\ client'[c] = r /\ \A x \in Client : x # c => client'[x] = client[x]
  BY <1>0, <1>2
<1>10. /\ server'[t].reading = None /\ server'[t].batch = server[t].batch
       /\ \A u \in Session : /\ server'[u].at = server[u].at /\ server'[u].target = server[u].target
                             /\ u # t => server'[u] = server[u]
  BY <1>0, <1>2 DEF Servers
<1>11. ASSUME NEW x \in Client
       PROVE  /\ client'[x].session = client[x].session
              /\ client[x].at \in {"conn", "eof"} => client'[x].at \in {"conn", "eof"}
              /\ client'[x].at = "none" => client'[x] = NoClient
  BY <1>1, <1>8, <1>9 DEF Belongs
<1>12. Belongs'
  <2>1. ASSUME NEW x \in Client
        PROVE  client'[x].session # 0 =>
                 client'[x].session \in Session /\ server'[client'[x].session].at # "none"
    BY <1>10, <1>11 DEF Belongs
  <2>2. ASSUME NEW x \in Client, NEW u \in Session
        PROVE  /\ x \in server'[u].batch \/ server'[u].reading = x =>
                    client'[x].session = u /\ client'[x].at \in {"conn", "eof"}
               /\ server'[u].reading = x => x \notin server'[u].batch
    <3>1. x # None
      BY Constants
    <3>2. /\ x \in server'[u].batch \/ server'[u].reading = x =>
               x \in server[u].batch \/ server[u].reading = x
          /\ server'[u].reading = x => server[u].reading = x
          /\ server'[u].batch = server[u].batch
      BY <1>10, <3>1
    <3> QED BY <1>11, <3>2 DEF Belongs
  <2> QED BY <1>11, <2>1, <2>2 DEF Belongs
<1>13. ASSUME NEW x \in Client, client'[x].session # 0
       PROVE  LET s == client'[x].session
                  target == server'[s].target
              IN /\ client'[x].map \in {None, IF Fenced(target) THEN s ELSE 0}
                 /\ client'[x].deps \in {None, IF HasDeps(target) THEN s ELSE 0}
  <2>1. client'[x].session = client[x].session /\ client[x].session \in Session
    BY <1>11, <1>13 DEF Belongs
  <2>2. server'[client[x].session].target = server[client[x].session].target
    BY <1>10, <2>1
  <2>3. CASE x = c
    <3>1. client'[x].session = t /\ client'[x].map \in {None, b} /\ client'[x].deps \in {None, e}
      BY <1>7, <1>8, <1>9, <2>3
    <3> QED BY <2>1, <2>2, <3>1
  <2>4. CASE x # c
    BY <1>9, <1>13, <2>2, <2>4 DEF Bounds, OwnBounds
  <2> QED BY <2>3, <2>4
<1>14. Bounds'
  BY <1>13 DEF Bounds, OwnBounds
<1> QED BY <1>12, <1>14

-----------------------------------------------------------------------------
(* The theorems.                                                           *)

LEMMA InitHolds ==
  ASSUME Init
  PROVE  IInv
<1>1. /\ stack = <<>> /\ Len(stack) = 0 /\ plan \in Plans /\ env = 0
      /\ thread = [p \in Port |-> 0]
      /\ sock = 0 /\ name = 0 /\ kq = 0 /\ sandbox = 0 /\ fence = FALSE /\ depends = 0
      /\ selfpipe = [of |-> 0, rung |-> FALSE]
      /\ server = [s \in Session |-> NoServer]
      /\ client = [c \in Client |-> NoClient]
  BY DEF Init
<1>2. plan \in [targets : Seq(Target), autostart : BOOLEAN]
  BY <1>1, ConstantsOK DEF ConstantsOK
<1>3. NoServer \in Servers
  BY DEF NoServer, Servers
<1>4. stack \in Seq(Frames) /\ thread \in [Port -> Session \cup {0}]
  BY <1>1
<1>5. server \in [Session -> Servers] /\ client \in [Client -> Clients]
  BY <1>1, <1>3, ClientsAre
<1>6. fence \in BOOLEAN /\ {env, sandbox, depends} \subseteq Nat
      /\ selfpipe \in [of : Nat, rung : BOOLEAN]
  <2>1. fence \in BOOLEAN
    BY <1>1
  <2>2. {env, sandbox, depends} \subseteq Nat /\ selfpipe \in [of : Nat, rung : BOOLEAN]
    BY <1>1
  <2> QED BY <2>1, <2>2
<1>7. Types
  BY <1>2, <1>4, <1>5, <1>6 DEF Types
<1>8. Calls
  BY <1>1 DEF Calls
<1>9. Live = {}
  BY <1>1 DEF Live, NoServer
<1>10. Served /\ AtRest
  BY <1>1, <1>9 DEF Served, AtRest
<1>11. Belongs
  <2>1. \A c \in Client : c # None
    BY Constants
  <2> QED BY <1>1, <2>1, ClientsAre DEF Belongs, NoServer
<1>12. Bounds
  BY <1>1, ClientsAre DEF Bounds, OwnBounds
<1> QED BY <1>7, <1>8, <1>10, <1>11, <1>12 DEF IInv, Unnested

(* Once a session was nested, that is not forgotten.                       *)
LEMMA NestingStays ==
  ASSUME [Next]_vars, nested
  PROVE  nested'
<1>1. CASE Ask \/ CallDeactivate \/ CallUnload \/ PrerunFails \/ SpuriousWakeup \/ UNCHANGED vars
  BY <1>1 DEF Ask, CallDeactivate, CallUnload, PrerunFails, SpuriousWakeup, vars
<1>2. CASE Work
  BY <1>2 DEF Work, Prerun, StartSession, SetBounds, Finish, CloseFirst, CheckViolations, Stop,
     Clean, Release
<1>3. ASSUME NEW t \in Session, Serve(t) \/ SetupFails(t) \/ AcceptFails(t) PROVE nested'
  BY <1>3 DEF Serve, Setup, Kevent, TakePipe, Accept, EndLoop, Leave, Broadcast, TakeClient,
     Answer, CloseClient, SetupFails, AcceptFails
<1>4. ASSUME NEW c \in Client,
             \/ \E what \in {"filemap", "dep_check"} : SendPart(c, what)
             \/ Spawn(c) \/ Connect(c) \/ SendRest(c) \/ Exit(c) \/ Killed(c) \/ Abort(c)
      PROVE  nested'
  BY <1>4 DEF SendPart, Spawn, Connect, SendRest, Exit, Killed, Abort
<1> QED BY <1>1, <1>2, <1>3, <1>4 DEF Next

LEMMA StepHolds ==
  ASSUME IInv, [Next]_vars
  PROVE  IInv'
<1> SUFFICES ASSUME ~nested' PROVE Unnested'
  BY DEF IInv
<1>a. ~nested
  BY NestingStays
<1>b. Unnested
  BY <1>a DEF IInv
<1> USE <1>b DEF Unnested
<1>1. CASE UNCHANGED vars
  <2>1. /\ UNCHANGED <<stack, plan, thread, env, client, server>>
        /\ UNCHANGED <<sock, name, kq, selfpipe, sandbox, fence, depends>>
    BY <1>1 DEF vars, main, statics
  <2>2. Types' /\ Calls'
    BY <2>1 DEF Types, Calls
  <2>3. Served' /\ AtRest'
    BY <2>1 DEF Served, Serving, AtRest, Live
  <2>4. Belongs' /\ Bounds'
    BY <2>1 DEF Belongs, Bounds, OwnBounds
  <2> QED BY <2>2, <2>3, <2>4
<1>2. CASE Next
  <2>1. Types'
    BY <1>2, TypesStep
  <2>2. Calls'
    BY <1>2, StackStep
  <2>3. Served' /\ AtRest'
    BY <1>2, ServedStep
  <2>4. Belongs' /\ Bounds'
    <3>1. CASE Ask \/ CallDeactivate \/ CallUnload \/ PrerunFails \/ SpuriousWakeup \/ Work
      BY <3>1, MainBelongs
    <3>2. ASSUME NEW t \in Session, Serve(t) \/ SetupFails(t) \/ AcceptFails(t)
          PROVE  Belongs' /\ Bounds'
      BY <3>2, ThreadBelongs, AnswerBelongs DEF Serve
    <3>3. ASSUME NEW c \in Client,
                 \/ \E what \in {"filemap", "dep_check"} : SendPart(c, what)
                 \/ Spawn(c) \/ Connect(c) \/ SendRest(c) \/ Exit(c) \/ Killed(c) \/ Abort(c)
          PROVE  Belongs' /\ Bounds'
      BY <3>3, ClientBelongs, SpawnBelongs
    <3> QED BY <1>2, <3>1, <3>2, <3>3 DEF Next
  <2> QED BY <2>1, <2>2, <2>3, <2>4
<1> QED BY <1>1, <1>2

(* The invariant of trace mode: the statics of tracelib are those of the   *)
(* one session there is, at each step of its call and of its thread.       *)
THEOREM Invariance == Spec => []IInv
<1>1. Init => IInv
  BY InitHolds
<1>2. IInv /\ [Next]_vars => IInv'
  BY StepHolds
<1> QED BY <1>1, <1>2, PTL DEF Spec

(* Two trace threads never serve at once (target_run), until a traced      *)
(* deactivation calls unload: of the nested calls of target_run, only one  *)
(* has started a session until then.                                       *)
THEOREM NoTwoTraceThreads == Spec => []OneTraceThread
<1>1. ASSUME Unnested PROVE OneTraceThread
  <2> DEFINE S == {t \in Session : server[t].at \in {"posted", "loop", "broadcast"}}
  <2>1. \A s \in S, t \in S : s = t
    <3>1. S \subseteq Live
      BY DEF Live
    <3> QED BY <1>1, <3>1, LiveOne DEF Unnested
  <2>2. CASE S = {}
    <3>1. Cardinality(S) = 0
      BY <2>2, FS_EmptySet
    <3> QED BY <3>1 DEF OneTraceThread
  <2>3. CASE S # {}
    <3>1. PICK s : S = {s}
      BY <2>1, <2>3
    <3>2. Cardinality(S) = 1
      BY <3>1, FS_Singleton
    <3> QED BY <3>2 DEF OneTraceThread
  <2> QED BY <2>2, <2>3
<1>2. IInv => OneTraceThread
  BY <1>1 DEF IInv, OneTraceThread
<1> QED BY <1>2, Invariance, PTL

(* tracelib clean, which takes no lock, never frees the socket or the name *)
(* under a loop that runs, even when the wait for the loop ended early or  *)
(* the session was closed before the loop was set up, while no session is  *)
(* nested.                                                                 *)
THEOREM DataOutlivesLoop == Spec => []CleanAfterLoop
<1>1. ASSUME Unnested, NEW t \in Session, server[t].at = "loop"
      PROVE  name = t /\ sock = IF selfpipe.of = t THEN t ELSE 0
  <2>1. t \in Live /\ t # 0
    BY <1>1, Constants DEF Live
  <2>2. PICK i \in 1 .. Len(stack) : Serving(t, stack[i])
    BY <1>1, <2>1 DEF Unnested, Served
  <2> QED BY <1>1, <2>1, <2>2 DEF Serving
<1>2. IInv => CleanAfterLoop
  BY <1>1 DEF IInv, CleanAfterLoop
<1> QED BY <1>2, Invariance, PTL

(* A process is only told the sandbox and the dependencies of the target   *)
(* that started it, though the statics that hold them outlive the session  *)
(* (send_file_map, dep_check), while no session is nested in another.      *)
THEOREM AnswersAreOwn == Spec => []RightBounds
<1>1. IInv => RightBounds
  BY DEF IInv, Unnested, Bounds, RightBounds
<1> QED BY <1>1, Invariance, PTL
=============================================================================
