------------------------- MODULE DesktopShellProofs -------------------------
(***************************************************************************)
(* Proofs about DesktopShell, for every broker, every set of slow commands *)
(* and every bound.                                                        *)
(***************************************************************************)
EXTENDS DesktopShell, SequenceTheorems, TLAPS

-----------------------------------------------------------------------------
(* The inductive invariant.                                                *)

Wire ==
  [at : {"idle", "send", "write", "sent", "stopping", "answered"},
   cmd : Commands \cup {"none"}, tries : 0..2, ran : Nat, state : Statuses \cup {"none"},
   link : BOOLEAN, failure : BOOLEAN]

Host ==
  [life : {"none", "alive", "dead"}, old : BOOLEAN, manager : BOOLEAN,
   last : {"stopped", "ready", "blocked"}, long : BOOLEAN]

View ==
  [prepared : BOOLEAN, open : BOOLEAN, status : Statuses, pending : Commands \cup {"none"},
   link : BOOLEAN]

\* A frame is written twice at most; a host has executed its command only when it has
\* answered, and not when the answer is that it does not know it, which is the only
\* one after which the frame is sent again.
WireInv ==
  /\ wire \in Wire
  /\ wire.at # "idle" => wire.cmd \in Commands
  /\ wire.at \in {"send", "write"} => wire.tries <= 1
  /\ wire.at # "answered" => wire.ran = 0
  /\ wire.at = "answered" =>
       /\ wire.ran <= 1 /\ wire.state \in Statuses
       /\ wire.state = "unknown_command" => wire.ran = 0

CallsInv == queue \in Seq(Commands) /\ Len(queue) <= MaxCalls

MachinesInv == host \in Host /\ server \in Server /\ orphans \in 0..MaxOrphans

BrokerInv == CallsInv /\ WireInv /\ MachinesInv /\ inbox \in Seq(Messages)

ViewInv == view \in View /\ (view.link => view.open) /\ polling \in BOOLEAN

ShellInv == BrokerInv /\ ViewInv /\ passes \in Brokers

-----------------------------------------------------------------------------
(* The parts of a step.                                                    *)

\* A server with some of its fields changed.
LEMMA ServerUpdates ==
  ASSUME NEW s \in Server, NEW state \in ServerStates, NEW held \in BOOLEAN,
         NEW alive \in BOOLEAN, NEW stopping \in BOOLEAN
  PROVE  /\ [s EXCEPT !.state = state] \in Server
         /\ [s EXCEPT !.alive = alive] \in Server
         /\ [s EXCEPT !.state = state, !.held = held] \in Server
         /\ [s EXCEPT !.state = state, !.stopping = stopping] \in Server
         /\ [s EXCEPT !.state = state, !.held = held, !.alive = alive] \in Server
         /\ [s EXCEPT !.state = state, !.stopping = stopping, !.held = held] \in Server
BY DEF Server

\* The manager's steps lead from servers to servers.
LEMMA StepsKeepServer ==
  ASSUME NEW s \in Server, NEW t \in Step(s)
  PROVE  t \in Server
<1>1. CASE t \in Started(s)
  <2>1. \/ t = [s EXCEPT !.state = "failed"]
        \/ \E born \in BOOLEAN :
             t = [s EXCEPT !.state = "starting", !.held = TRUE, !.alive = born]
    BY <1>1 DEF Started
  <2>2. "failed" \in ServerStates /\ "starting" \in ServerStates
    BY DEF ServerStates
  <2>3. CASE t = [s EXCEPT !.state = "failed"]
    BY <2>2, <2>3, ServerUpdates
  <2>4. ASSUME NEW born \in BOOLEAN,
               t = [s EXCEPT !.state = "starting", !.held = TRUE, !.alive = born]
        PROVE  t \in Server
    BY <2>2, <2>4, ServerUpdates
  <2> QED
    BY <2>1, <2>3, <2>4
<1>2. CASE t \in StopCalled(s)
  <2> DEFINE state == IF s.held THEN "stopping" ELSE "stopped"
             held == s.held
  <2>1. t = [s EXCEPT !.state = state, !.stopping = held]
    BY <1>2 DEF StopCalled
  <2>2. state \in ServerStates /\ held \in BOOLEAN
    BY DEF ServerStates, Server
  <2> HIDE DEF state, held
  <2> QED
    BY <2>1, <2>2, ServerUpdates
<1>3. CASE t \in StopEnded(s)
  <2>1. \/ t = [s EXCEPT !.state = "failed", !.stopping = FALSE]
        \/ \E state \in {"stopped", "failed"} :
             t = [s EXCEPT !.state = state, !.stopping = FALSE, !.held = FALSE]
    BY <1>3 DEF StopEnded
  <2>2. {"stopped", "failed"} \subseteq ServerStates
    BY DEF ServerStates
  <2> QED
    BY <2>1, <2>2, ServerUpdates
<1>4. CASE t \in Happened(s)
  <2> DEFINE ready == IF s.state = "starting" THEN "running" ELSE s.state
  <2>1. \/ t = [s EXCEPT !.alive = FALSE]
        \/ t = [s EXCEPT !.state = "crashed"]
        \/ t = [s EXCEPT !.state = ready]
        \/ \E state \in {"stopped", "crashed", "failed"} :
             t = [s EXCEPT !.state = state, !.held = FALSE]
    BY <1>4 DEF Happened
  <2>2. /\ ready \in ServerStates
        /\ {"stopped", "crashed", "failed"} \subseteq ServerStates
    BY DEF ServerStates, Server
  <2> HIDE DEF ready
  <2>3. CASE t = [s EXCEPT !.alive = FALSE]
    BY <2>2, <2>3, ServerUpdates
  <2>4. CASE t = [s EXCEPT !.state = "crashed"]
    BY <2>2, <2>4, ServerUpdates
  <2>5. CASE t = [s EXCEPT !.state = ready]
    BY <2>2, <2>5, ServerUpdates
  <2>6. ASSUME NEW state \in {"stopped", "crashed", "failed"},
               t = [s EXCEPT !.state = state, !.held = FALSE]
        PROVE  t \in Server
    BY <2>2, <2>6, ServerUpdates
  <2> QED
    BY <2>1, <2>3, <2>4, <2>5, <2>6
<1> QED
  BY <1>1, <1>2, <1>3, <1>4 DEF Step

\* The manager prints events.
LEMMA EventsAreMessages ==
  ASSUME NEW s \in Server, NEW t \in Server
  PROVE  printed(s, t) \in Seq(Messages)
<1>1. \A type \in {"ready", "crashed", "failure", "exit"}, state \in ServerStates :
        event(type, state) \in Messages
  BY DEF event, Messages
<1>2. t.state \in ServerStates /\ {"failed", "running", "crashed"} \subseteq ServerStates
  BY DEF Server, ServerStates
<1>3. \/ printed(s, t) = <<>>
      \/ \E type \in {"ready", "crashed", "failure", "exit"}, state \in ServerStates :
           printed(s, t) = <<event(type, state)>>
  BY <1>2 DEF printed
<1>4. <<>> \in Seq(Messages) /\ \A m \in Messages : <<m>> \in Seq(Messages)
  BY EmptySeq
<1> QED
  BY <1>1, <1>3, <1>4

\* Messages appended to messages.
LEMMA InboxGrows ==
  ASSUME NEW s \in Seq(Messages), NEW t \in Seq(Messages)
  PROVE  s \o t \in Seq(Messages)
BY ConcatProperties

\* An invocation that returns hands over a result and frees the broker.
LEMMA Returns ==
  ASSUME inbox \in Seq(Messages), NEW cmd \in Commands, NEW state \in Statuses,
         NEW link \in BOOLEAN, NEW failure \in BOOLEAN,
         return(result(cmd, state, link, failure))
  PROVE  WireInv' /\ inbox' \in Seq(Messages)
<1>1. result(cmd, state, link, failure) \in Messages
  BY DEF result, Messages
<1>2. inbox' \in Seq(Messages)
  BY <1>1, AppendProperties DEF return
<1>3. WireInv'
  BY DEF return, WireInv, Wire, NoWire
<1> QED
  BY <1>2, <1>3

\* The host has executed the command and answers.
LEMMA Answers ==
  ASSUME WireInv, wire.at \in {"sent", "stopping"},
         NEW state \in Statuses \ {"unknown_command"}, NEW link \in BOOLEAN,
         NEW failure \in BOOLEAN, answered(state, link, failure)
  PROVE  WireInv'
<1>1. wire \in Wire /\ wire.cmd \in Commands /\ wire.ran = 0
  BY DEF WireInv
<1>2. wire' = [wire EXCEPT !.at = "answered", !.state = state, !.link = link,
                           !.failure = failure, !.ran = 1]
  BY <1>1 DEF answered, Wire
<1>3. /\ wire' \in Wire /\ wire'.at = "answered" /\ wire'.cmd = wire.cmd
      /\ wire'.ran = 1 /\ wire'.state = state
  BY <1>1, <1>2 DEF Wire
<1> QED
  BY <1>1, <1>3 DEF WireInv

\* The host is gone, its server is not.
LEMMA HostGone ==
  ASSUME MachinesInv, serverLost
  PROVE  server' \in Server /\ orphans' \in 0..MaxOrphans
<1>1. NoServer \in Server
  BY DEF NoServer, Server, ServerStates
<1>2. MaxOrphans \in Nat
  BY BrokerAssumption
<1> QED
  BY <1>1, <1>2 DEF MachinesInv, serverLost

\* The broker clears its host.
LEMMA HostCleared ==
  ASSUME MachinesInv, clear_node_host
  PROVE  MachinesInv'
<1>1. NoHost \in Host
  BY DEF NoHost, Host
<1> QED
  BY <1>1, HostGone DEF MachinesInv, clear_node_host

\* The oldest invocation is taken.
LEMMA CallTaken ==
  ASSUME CallsInv, queue # <<>>, queue' = Tail(queue)
  PROVE  CallsInv' /\ Head(queue) \in Commands
<1>1. Len(queue) \in Nat /\ MaxCalls \in Nat
  BY BrokerAssumption, LenProperties DEF CallsInv
<1>2. Tail(queue) \in Seq(Commands) /\ Len(Tail(queue)) = Len(queue) - 1
  BY HeadTailProperties DEF CallsInv
<1>3. Head(queue) \in Commands
  BY HeadTailProperties DEF CallsInv
<1> QED
  BY <1>1, <1>2, <1>3 DEF CallsInv

\* Another invocation waits.
LEMMA CallMade ==
  ASSUME CallsInv, NEW cmd \in Commands, Len(queue) < MaxCalls, invoke(cmd)
  PROVE  CallsInv'
<1>1. Len(queue) \in Nat /\ MaxCalls \in Nat
  BY BrokerAssumption, LenProperties DEF CallsInv
<1>2. queue' \in Seq(Commands) /\ Len(queue') = Len(queue) + 1
  BY AppendProperties DEF CallsInv, invoke
<1> QED
  BY <1>1, <1>2 DEF CallsInv

\* The bridge reports one of the states of the server or of what came before it.
LEMMA HostStates ==
  ASSUME MachinesInv
  PROVE  hostState \in Statuses \ {"unknown_command"}
<1>1. server.state \in ServerStates /\ host.last \in {"stopped", "ready", "blocked"}
  BY DEF MachinesInv, Server, Host
<1> QED
  BY <1>1 DEF hostState, Statuses, ServerStates

-----------------------------------------------------------------------------
(* The broker's steps.                                                     *)

\* A request that the broker does not let through.
LEMMA RefuseKeeps == ASSUME BrokerInv, refuseRequest PROVE BrokerInv'
<1>1. /\ queue # <<>> /\ queue' = Tail(queue) /\ UNCHANGED <<host, server, orphans>>
      /\ return(result(Head(queue), "invalid_request", FALSE, TRUE))
  BY DEF refuseRequest, canTake
<1>2. CallsInv' /\ Head(queue) \in Commands
  BY <1>1, CallTaken DEF BrokerInv
<1>3. WireInv' /\ inbox' \in Seq(Messages)
  <2>1. "invalid_request" \in Statuses
    BY DEF Statuses
  <2> QED
    BY <1>1, <1>2, <2>1, Returns DEF BrokerInv
<1> QED
  BY <1>1, <1>2, <1>3 DEF BrokerInv, MachinesInv

\* A command that is to be sent, for the first time or again.
LEMMA Sending ==
  ASSUME NEW cmd \in Commands, NEW w,
         \/ w = [NoWire EXCEPT !.at = "send", !.cmd = cmd]
         \/ w = [NoWire EXCEPT !.at = "send", !.cmd = cmd, !.tries = 1, !.ran = 0]
  PROVE  w \in Wire /\ w.at = "send" /\ w.cmd = cmd /\ w.tries <= 1 /\ w.ran = 0
<1> DEFINE Sent(tries) ==
             [at |-> "send", cmd |-> cmd, tries |-> tries, ran |-> 0,
              state |-> "none", link |-> FALSE, failure |-> FALSE]
<1>1. CASE w = [NoWire EXCEPT !.at = "send", !.cmd = cmd]
  <2>1. w = Sent(0)
    BY <1>1, Zenon DEF NoWire
  <2> QED
    BY <2>1 DEF Wire
<1>2. CASE w = [NoWire EXCEPT !.at = "send", !.cmd = cmd, !.tries = 1, !.ran = 0]
  <2>1. w = Sent(1)
    BY <1>2, Zenon DEF NoWire
  <2> QED
    BY <2>1 DEF Wire
<1> QED
  BY <1>1, <1>2

\* An invocation that takes the mutex.
LEMMA InvokeKeeps == ASSUME BrokerInv, invoke_desktop_command PROVE BrokerInv'
<1>1. /\ queue # <<>> /\ queue' = Tail(queue) /\ UNCHANGED <<host, server, orphans, inbox>>
      /\ wire' = [NoWire EXCEPT !.at = "send", !.cmd = Head(queue)]
  BY DEF invoke_desktop_command, canTake
<1>2. CallsInv' /\ Head(queue) \in Commands
  BY <1>1, CallTaken DEF BrokerInv
<1>3. /\ wire' \in Wire /\ wire'.at = "send" /\ wire'.cmd = Head(queue)
      /\ wire'.tries <= 1 /\ wire'.ran = 0
  BY <1>1, <1>2, Sending
<1>4. WireInv'
  BY <1>2, <1>3 DEF WireInv
<1> QED
  BY <1>1, <1>2, <1>4 DEF BrokerInv, MachinesInv

\* A host is there, is started, or cannot be.
LEMMA EnsureKeeps == ASSUME BrokerInv, ensure_node_host PROVE BrokerInv'
<1>1. /\ wire.at = "send" /\ wire \in Wire /\ wire.cmd \in Commands /\ wire.tries <= 1
      /\ wire.ran = 0
  BY DEF ensure_node_host, BrokerInv, WireInv
<1>2. UNCHANGED <<queue, server, orphans>>
  BY DEF ensure_node_host
<1>3. CASE wire' = [wire EXCEPT !.at = "write"] /\ UNCHANGED inbox
  <2>1. WireInv'
    BY <1>1, <1>3 DEF WireInv, Wire
  <2>2. CASE host' = host
    BY <1>2, <1>3, <2>1, <2>2 DEF BrokerInv, CallsInv, MachinesInv
  <2>3. ASSUME NEW old \in BOOLEAN, host' = [NoHost EXCEPT !.life = "alive", !.old = old]
        PROVE  BrokerInv'
    <3>1. host' \in Host
      BY <2>3 DEF NoHost, Host
    <3> QED
      BY <1>2, <1>3, <2>1, <3>1 DEF BrokerInv, CallsInv, MachinesInv
  <2>4. \/ host' = host
        \/ \E old \in BOOLEAN : host' = [NoHost EXCEPT !.life = "alive", !.old = old]
    <3> DEFINE first == HostMayBeOld /\ wire.tries = 0
    <3>1. first \in BOOLEAN
      OBVIOUS
    <3>2. \/ host' = host
          \/ \E old \in {first, FALSE} : host' = [NoHost EXCEPT !.life = "alive", !.old = old]
      BY <1>3 DEF ensure_node_host, return, NoWire, Wire
    <3> HIDE DEF first
    <3> QED
      BY <3>1, <3>2
  <2> QED
    BY <2>2, <2>3, <2>4
<1>4. CASE host' = NoHost /\ return(result(wire.cmd, "blocked", FALSE, TRUE))
  <2>1. "blocked" \in Statuses /\ NoHost \in Host
    BY DEF Statuses, NoHost, Host
  <2>2. WireInv' /\ inbox' \in Seq(Messages)
    BY <1>1, <1>4, <2>1, Returns DEF BrokerInv
  <2> QED
    BY <1>2, <1>4, <2>1, <2>2 DEF BrokerInv, CallsInv, MachinesInv
<1> QED
  BY <1>3, <1>4 DEF ensure_node_host

\* The frame is written, or the host is found dead.
LEMMA SendKeeps == ASSUME BrokerInv, send_node_host_frame PROVE BrokerInv'
<1>1. /\ wire.at = "write" /\ wire \in Wire /\ wire.cmd \in Commands /\ wire.tries <= 1
      /\ wire.ran = 0 /\ queue' = queue
  BY DEF send_node_host_frame, BrokerInv, WireInv
<1>2. CASE /\ wire' = [wire EXCEPT !.at = "sent", !.tries = @ + 1]
           /\ UNCHANGED <<host, server, orphans, inbox>>
  <2>1. wire.tries \in 0..1 /\ wire.tries + 1 \in 0..2
    BY <1>1 DEF Wire
  <2>2. WireInv'
    BY <1>1, <1>2, <2>1 DEF WireInv, Wire
  <2> QED
    BY <1>1, <1>2, <2>2 DEF BrokerInv, CallsInv, MachinesInv
<1>3. CASE clear_node_host /\ return(result(wire.cmd, "blocked", FALSE, TRUE))
  <2>1. "blocked" \in Statuses
    BY DEF Statuses
  <2> QED
    BY <1>1, <1>3, <2>1, Returns, HostCleared DEF BrokerInv, CallsInv
<1> QED
  BY <1>2, <1>3 DEF send_node_host_frame

\* The broker waits no longer.
LEMMA TimeoutKeeps == ASSUME BrokerInv, recv_timeout PROVE BrokerInv'
<1>1. /\ clear_node_host /\ return(result(wire.cmd, "blocked", FALSE, TRUE))
      /\ queue' = queue /\ wire.at \in {"sent", "stopping", "answered"}
  BY DEF recv_timeout
<1>2. wire.cmd \in Commands /\ "blocked" \in Statuses
  BY <1>1 DEF BrokerInv, WireInv, Statuses
<1> QED
  BY <1>1, <1>2, Returns, HostCleared DEF BrokerInv, CallsInv

\* The frame is sent again, to a second host: the first did not execute it.
LEMMA RetryKeeps == ASSUME BrokerInv, retryFrame PROVE BrokerInv'
<1>1. /\ wire.at = "answered" /\ wire.state = "unknown_command" /\ clear_node_host
      /\ wire' = [NoWire EXCEPT !.at = "send", !.cmd = wire.cmd, !.tries = 1,
                                !.ran = wire.ran]
      /\ UNCHANGED <<queue, inbox>>
  BY DEF retryFrame, should_retry
<1>2. wire.ran = 0 /\ wire.cmd \in Commands
  BY <1>1 DEF BrokerInv, WireInv
<1>3. wire' = [NoWire EXCEPT !.at = "send", !.cmd = wire.cmd, !.tries = 1, !.ran = 0]
  BY <1>1, <1>2
<1>4. /\ wire' \in Wire /\ wire'.at = "send" /\ wire'.cmd = wire.cmd
      /\ wire'.tries <= 1 /\ wire'.ran = 0
  BY <1>2, <1>3, Sending
<1>5. WireInv'
  BY <1>2, <1>4 DEF WireInv
<1> QED
  BY <1>1, <1>5, HostCleared DEF BrokerInv, CallsInv

\* The answer reaches the webview.
LEMMA ResponseKeeps == ASSUME BrokerInv, parse_host_response PROVE BrokerInv'
<1> DEFINE link == wire.link /\ "relay.session" \in passes
<1>1. /\ wire.at = "answered" /\ UNCHANGED <<queue, host, server, orphans>>
      /\ return(result(wire.cmd, wire.state, link, wire.failure))
  BY DEF parse_host_response
<1>2. /\ wire.cmd \in Commands /\ wire.state \in Statuses /\ wire.failure \in BOOLEAN
      /\ link \in BOOLEAN
  BY <1>1 DEF BrokerInv, WireInv, Wire
<1> HIDE DEF link
<1>3. WireInv' /\ inbox' \in Seq(Messages)
  BY <1>1, <1>2, Returns DEF BrokerInv
<1> QED
  BY <1>1, <1>3 DEF BrokerInv, CallsInv, MachinesInv

-----------------------------------------------------------------------------
(* The host's steps.                                                       *)

\* A host of an older version does not know the command.
LEMMA UnknownKeeps == ASSUME BrokerInv, unknownCommand PROVE BrokerInv'
<1>1. /\ wire' = [wire EXCEPT !.at = "answered", !.state = "unknown_command",
                              !.failure = TRUE]
      /\ wire.at = "sent" /\ UNCHANGED <<queue, host, server, orphans, inbox>>
  BY DEF unknownCommand, executes
<1>2. wire \in Wire /\ wire.cmd \in Commands /\ wire.ran = 0
  BY <1>1 DEF BrokerInv, WireInv
<1>3. /\ wire' \in Wire /\ wire'.at = "answered" /\ wire'.cmd = wire.cmd
      /\ wire'.ran = 0 /\ wire'.state = "unknown_command" /\ wire'.state \in Statuses
  BY <1>1, <1>2 DEF Wire, Statuses
<1>4. WireInv'
  BY <1>2, <1>3 DEF WireInv
<1> QED
  BY <1>1, <1>4 DEF BrokerInv, CallsInv, MachinesInv

\* States a command is answered with, beside those of the bridge.
LEMMA AnswerStates ==
  {"ready", "blocked", "starting", "stopped", "failed", "idle"}
    \subseteq Statuses \ {"unknown_command"}
BY DEF Statuses, ServerStates

\* The room is materialised, or is not.
LEMMA PrepareKeeps == ASSUME BrokerInv, prepareRoom PROVE BrokerInv'
<1>1. wire.at = "sent" /\ UNCHANGED <<queue, server, orphans, inbox>>
  BY DEF prepareRoom, executes
<1>2. PICK state \in {"ready", "blocked"} :
        /\ host' = [host EXCEPT !.last = state]
        /\ answered(state, FALSE, state = "blocked")
  BY DEF prepareRoom
<1> DEFINE failed == state = "blocked"
<1>3. failed \in BOOLEAN /\ answered(state, FALSE, failed)
  BY <1>2
<1> HIDE DEF failed
<1>4. WireInv'
  BY <1>1, <1>3, AnswerStates, Answers DEF BrokerInv
<1>5. host' \in Host
  BY <1>2 DEF BrokerInv, MachinesInv, Host
<1> QED
  BY <1>1, <1>4, <1>5 DEF BrokerInv, CallsInv, MachinesInv

\* The room is opened, or is not.
LEMMA OpenKeeps == ASSUME BrokerInv, openRoom PROVE BrokerInv'
<1>1. wire.at \in {"sent", "stopping"} /\ UNCHANGED <<queue, orphans>>
  BY DEF openRoom, executes
<1>2. CASE /\ answered("blocked", FALSE, TRUE) /\ host' = [host EXCEPT !.last = "blocked"]
           /\ UNCHANGED <<server, inbox>>
  <2>1. WireInv'
    BY <1>1, <1>2, AnswerStates, Answers DEF BrokerInv
  <2>2. host' \in Host
    BY <1>2 DEF BrokerInv, MachinesInv, Host
  <2> QED
    BY <1>1, <1>2, <2>1, <2>2 DEF BrokerInv, CallsInv, MachinesInv
<1>3. ASSUME NEW next \in Started(server),
             server' = next, inbox' = inbox \o printed(server, next),
             host' = [host EXCEPT !.manager = TRUE],
             IF next.state = "starting" THEN answered("starting", FALSE, FALSE)
                                        ELSE answered("blocked", FALSE, TRUE)
      PROVE  BrokerInv'
  <2>1. server \in Server /\ next \in Server
    BY <1>3, StepsKeepServer DEF BrokerInv, MachinesInv, Step
  <2>2. inbox' \in Seq(Messages)
    BY <1>3, <2>1, EventsAreMessages, InboxGrows DEF BrokerInv
  <2>3. WireInv'
    <3>1. answered("starting", FALSE, FALSE) \/ answered("blocked", FALSE, TRUE)
      BY <1>3
    <3> QED
      BY <1>1, <3>1, AnswerStates, Answers DEF BrokerInv
  <2>4. host' \in Host
    BY <1>3 DEF BrokerInv, MachinesInv, Host
  <2> QED
    BY <1>1, <1>3, <2>1, <2>2, <2>3, <2>4 DEF BrokerInv, CallsInv, MachinesInv
<1> QED
  BY <1>2, <1>3 DEF openRoom

\* A server that is held is stopped first.
LEMMA StopKeeps == ASSUME BrokerInv, stopRoom PROVE BrokerInv'
<1>1. /\ server' \in StopCalled(server) /\ wire' = [wire EXCEPT !.at = "stopping"]
      /\ wire.at = "sent" /\ UNCHANGED <<queue, host, orphans, inbox>>
  BY DEF stopRoom, executes
<1>2. server' \in Server
  BY <1>1, StepsKeepServer DEF BrokerInv, MachinesInv, Step
<1>3. wire \in Wire /\ wire.cmd \in Commands /\ wire.ran = 0
  BY <1>1 DEF BrokerInv, WireInv
<1>4. WireInv'
  BY <1>1, <1>3 DEF WireInv, Wire
<1> QED
  BY <1>1, <1>2, <1>4 DEF BrokerInv, CallsInv, MachinesInv

\* The stop is over, and answered.
LEMMA StoppedKeeps == ASSUME BrokerInv, roomStopped PROVE BrokerInv'
<1>1. wire.at \in {"sent", "stopping"} /\ UNCHANGED <<queue, inbox>>
  BY DEF roomStopped, executes
<1>2. CASE wire.cmd = "reset"
  <2>1. /\ host' = [host EXCEPT !.manager = FALSE, !.last = "stopped"] /\ serverLost
        /\ answered("idle", FALSE, FALSE)
    BY <1>2 DEF roomStopped
  <2>2. WireInv'
    BY <1>1, <2>1, AnswerStates, Answers DEF BrokerInv
  <2>3. host' \in Host
    BY <2>1 DEF BrokerInv, MachinesInv, Host
  <2>4. MachinesInv'
    BY <2>1, <2>3, HostGone DEF BrokerInv, MachinesInv
  <2> QED
    BY <1>1, <2>2, <2>4 DEF BrokerInv, CallsInv
<1>3. CASE wire.cmd # "reset"
  <2>1. /\ host' = [host EXCEPT !.last = "stopped"]
        /\ server' = IF server.held THEN server ELSE [server EXCEPT !.state = "stopped"]
        /\ answered("stopped", FALSE, FALSE) \/ answered("failed", FALSE, TRUE)
        /\ orphans' = orphans
    BY <1>3 DEF roomStopped
  <2>2. WireInv'
    BY <1>1, <2>1, AnswerStates, Answers DEF BrokerInv
  <2>3. host' \in Host
    BY <2>1 DEF BrokerInv, MachinesInv, Host
  <2>4. server' \in Server
    BY <2>1 DEF BrokerInv, MachinesInv, Server, ServerStates
  <2> QED
    BY <1>1, <2>1, <2>2, <2>3, <2>4 DEF BrokerInv, CallsInv, MachinesInv
<1> QED
  BY <1>2, <1>3

\* A command of the console is answered with the state the bridge has.
LEMMA ConsoleKeeps == ASSUME BrokerInv, sendServerCommand PROVE BrokerInv'
<1> DEFINE refused == ~(server.held /\ server.state \in {"starting", "running"})
<1>1. /\ wire.at = "sent" /\ UNCHANGED <<queue, host, server, orphans, inbox>>
      /\ answered(hostState, FALSE, refused) /\ refused \in BOOLEAN
  BY DEF sendServerCommand, executes
<1> HIDE DEF refused
<1>2. WireInv'
  BY <1>1, HostStates, Answers DEF BrokerInv
<1> QED
  BY <1>1, <1>2 DEF BrokerInv, CallsInv, MachinesInv

\* So is a poll.
LEMMA StatusKeeps == ASSUME BrokerInv, statusRoom PROVE BrokerInv'
<1> DEFINE running == hostState = "running"
<1>1. /\ wire.at = "sent" /\ UNCHANGED <<queue, host, server, orphans, inbox>>
      /\ answered(hostState, running, FALSE) /\ running \in BOOLEAN
  BY DEF statusRoom, executes
<1> HIDE DEF running
<1>2. WireInv'
  BY <1>1, HostStates, Answers DEF BrokerInv
<1> QED
  BY <1>1, <1>2 DEF BrokerInv, CallsInv, MachinesInv

\* The host's process dies.
LEMMA DeathKeeps == ASSUME BrokerInv, hostDies PROVE BrokerInv'
<1>1. /\ host' = [NoHost EXCEPT !.life = "dead"] /\ serverLost
      /\ UNCHANGED <<queue, wire, inbox>>
  BY DEF hostDies
<1>2. host' \in Host
  BY <1>1 DEF NoHost, Host
<1> QED
  BY <1>1, <1>2, HostGone DEF BrokerInv, CallsInv, MachinesInv, WireInv

\* The manager takes a step, and prints it.
LEMMA ServerStepKeeps ==
  ASSUME BrokerInv, NEW next \in Step(server), serverStep(next),
         UNCHANGED <<queue, wire, orphans>>
  PROVE  BrokerInv'
<1>1. server \in Server /\ next \in Server
  BY StepsKeepServer DEF BrokerInv, MachinesInv
<1>2. /\ server' = next /\ inbox' = inbox \o printed(server, next)
      /\ host' = host \/ host' = [host EXCEPT !.long = TRUE]
  BY DEF serverStep
<1>3. inbox' \in Seq(Messages)
  BY <1>1, <1>2, EventsAreMessages, InboxGrows DEF BrokerInv
<1>4. host' \in Host
  BY <1>2 DEF BrokerInv, MachinesInv, Host
<1> QED
  BY <1>1, <1>2, <1>3, <1>4 DEF BrokerInv, CallsInv, MachinesInv, WireInv

\* Every step of the broker, the host and the server.
LEMMA BrokerNextKeeps == ASSUME BrokerInv, BrokerNext PROVE BrokerInv'
<1>1. CASE Invocation
  BY <1>1, RefuseKeeps, InvokeKeeps, EnsureKeeps, SendKeeps, RetryKeeps, ResponseKeeps,
     UnknownKeeps, PrepareKeeps, OpenKeeps, StopKeeps, StoppedKeeps, ConsoleKeeps, StatusKeeps
     DEF Invocation
<1>2. CASE serverHappens
  BY <1>2, ServerStepKeeps DEF serverHappens, Step
<1>3. CASE serverStops
  BY <1>3, ServerStepKeeps DEF serverStops, Step
<1>4. CASE orphanDies
  <2>1. orphans' = orphans - 1 /\ orphans > 0 /\ UNCHANGED <<queue, wire, host, server, inbox>>
    BY <1>4 DEF orphanDies
  <2>2. orphans' \in 0..MaxOrphans
    <3>1. MaxOrphans \in Nat /\ orphans \in 0..MaxOrphans
      BY BrokerAssumption DEF BrokerInv, MachinesInv
    <3> QED
      BY <2>1, <3>1
  <2> QED
    BY <2>1, <2>2 DEF BrokerInv, CallsInv, MachinesInv, WireInv
<1> QED
  BY <1>1, <1>2, <1>3, <1>4, TimeoutKeeps, DeathKeeps DEF BrokerNext

-----------------------------------------------------------------------------
(* The renderer's steps.                                                   *)

\* What the renderer shows of a command under way.
LEMMA PendingShown ==
  ASSUME ViewInv, NEW cmd \in Buttons \ {"reset"}
  PROVE  LET v == bridgePending(view, cmd)
         IN v \in View /\ (v.link => v.open)
<1> DEFINE status == IF cmd = "send" THEN view.status ELSE pendingStatus[cmd]
<1>1. status \in Statuses
  BY DEF ViewInv, View, Buttons, Commands, Configured, pendingStatus, Statuses
<1>2. bridgePending(view, cmd) = [view EXCEPT !.pending = cmd, !.status = status]
  BY DEF bridgePending
<1> HIDE DEF status
<1>3. view \in View /\ (view.link => view.open) /\ cmd \in Commands
  BY DEF ViewInv, Buttons
<1> QED
  BY <1>1, <1>2, <1>3 DEF View

\* A view with its open and its link set together.
LEMMA ShownView ==
  ASSUME NEW prepared \in BOOLEAN, NEW open \in BOOLEAN, NEW status \in Statuses,
         NEW link \in BOOLEAN, link => open
  PROVE  LET v == [prepared |-> prepared, open |-> open, status |-> status,
                   pending |-> "none", link |-> link]
         IN v \in View /\ (v.link => v.open)
BY DEF View

\* What the renderer shows of a result: its link only with a room that is open.
LEMMA ResultShown ==
  ASSUME ViewInv, NEW r \in Messages, r.kind = "result"
  PROVE  LET v == applyBridgeResult(view, r)
         IN v \in View /\ (v.link => v.open)
<1>1. /\ r.state \in Statuses /\ r.link \in BOOLEAN /\ r.failure \in BOOLEAN
  BY DEF Messages
<1> DEFINE preserve == r.cmd = "send" /\ r.failure
           status == IF preserve /\ shown(r.state) \in {"blocked", "failed"}
                     THEN view.status ELSE shown(r.state)
           running == status = "running"
           open == IF preserve THEN view.open ELSE running
           prepared == view.prepared \/ open \/ status \in {"ready", "starting", "running"}
           link == open /\ r.link
<1>2. status \in Statuses
  BY <1>1 DEF ViewInv, View, shown, Statuses
<1>3. preserve \in BOOLEAN /\ running \in BOOLEAN /\ view.open \in BOOLEAN
  BY DEF ViewInv, View
<1>4. open \in BOOLEAN
  BY <1>3
<1>5. prepared \in BOOLEAN /\ link \in BOOLEAN /\ (link => open)
  OBVIOUS
<1>6. applyBridgeResult(view, r) = [prepared |-> prepared, open |-> open,
        status |-> status, pending |-> "none", link |-> link]
  BY DEF applyBridgeResult
<1> HIDE DEF status, open, prepared, link
<1> QED
  BY <1>2, <1>4, <1>5, <1>6, ShownView

\* What it shows of an event.
LEMMA EventShown ==
  ASSUME ViewInv, NEW e \in Messages, e.kind = "event"
  PROVE  LET v == applyRuntimeEvent(view, e)
         IN v \in View /\ (v.link => v.open)
<1>1. e.state \in Statuses /\ "running" \in Statuses
  BY DEF Messages, Statuses, ServerStates
<1>2. view \in View /\ (view.link => view.open)
  BY DEF ViewInv
<1>3. CASE e.type = "ready"
  <2>1. applyRuntimeEvent(view, e)
          = [view EXCEPT !.status = "running", !.open = TRUE, !.prepared = TRUE]
    BY <1>3 DEF applyRuntimeEvent
  <2> QED
    BY <1>1, <1>2, <2>1 DEF View
<1>4. CASE e.type # "ready"
  <2>1. applyRuntimeEvent(view, e)
          = [view EXCEPT !.status = e.state, !.open = FALSE, !.link = FALSE]
    BY <1>4 DEF applyRuntimeEvent
  <2> QED
    BY <1>1, <1>2, <2>1 DEF View
<1> QED
  BY <1>3, <1>4

-----------------------------------------------------------------------------
(* The invariant holds in every state.                                     *)

\* Nothing is asked, and nothing is shown.
LEMMA InitShellInv == ASSUME Init PROVE ShellInv
<1>1. /\ queue = <<>> /\ wire = NoWire /\ host = NoHost /\ server = NoServer /\ orphans = 0
      /\ inbox = <<>> /\ passes \in Brokers /\ view = InitialView /\ polling = FALSE
  BY DEF Init, BrokerInit
<1>2. MaxCalls \in Nat /\ MaxOrphans \in Nat
  BY BrokerAssumption
<1>3. CallsInv /\ inbox \in Seq(Messages)
  BY <1>1, <1>2, EmptySeq DEF CallsInv
<1>4. WireInv
  BY <1>1 DEF WireInv, Wire, NoWire
<1>5. MachinesInv
  BY <1>1, <1>2 DEF MachinesInv, Host, NoHost, Server, NoServer, ServerStates
<1>6. ViewInv
  BY <1>1 DEF ViewInv, View, InitialView, Statuses
<1> QED
  BY <1>1, <1>3, <1>4, <1>5, <1>6 DEF ShellInv, BrokerInv

\* Every step keeps the invariant.
LEMMA NextShellInv == ASSUME ShellInv, [Next]_vars PROVE ShellInv'
<1>1. ASSUME NEW cmd \in Buttons \ {"reset"}, runBridgeCommand(cmd)
      PROVE  ShellInv'
  <2>1. /\ Len(queue) < MaxCalls /\ view' = bridgePending(view, cmd) /\ invoke(cmd)
        /\ UNCHANGED <<wire, host, server, orphans, inbox, passes, polling>>
    BY <1>1 DEF runBridgeCommand
  <2>2. CallsInv'
    BY <2>1, CallMade DEF ShellInv, BrokerInv, Buttons
  <2>3. ViewInv'
    <3>1. view' \in View /\ (view'.link => view'.open)
      BY <2>1, PendingShown DEF ShellInv
    <3> QED
      BY <2>1, <3>1 DEF ShellInv, ViewInv
  <2> QED
    BY <2>1, <2>2, <2>3 DEF ShellInv, BrokerInv, WireInv, MachinesInv
<1>2. CASE resetClicked
  <2>1. /\ Len(queue) < MaxCalls /\ view' = InitialView /\ invoke("reset")
        /\ polling' = FALSE /\ UNCHANGED <<wire, host, server, orphans, inbox, passes>>
    BY <1>2 DEF resetClicked
  <2>2. CallsInv'
    <3>1. "reset" \in Commands
      BY DEF Commands
    <3> QED
      BY <2>1, <3>1, CallMade DEF ShellInv, BrokerInv
  <2>3. ViewInv'
    BY <2>1 DEF ViewInv, View, InitialView, Statuses
  <2> QED
    BY <2>1, <2>2, <2>3 DEF ShellInv, BrokerInv, WireInv, MachinesInv
<1>3. CASE refreshStatus
  <2>1. /\ UNCHANGED <<wire, host, server, orphans, inbox, passes, view>>
        /\ \/ polling' = FALSE /\ queue' = queue
           \/ Len(queue) < MaxCalls /\ invoke("status") /\ polling' = polling
    BY <1>3 DEF refreshStatus
  <2>2. CallsInv'
    <3>1. "status" \in Commands
      BY DEF Commands
    <3>2. CASE queue' = queue
      BY <3>2 DEF ShellInv, BrokerInv, CallsInv
    <3> QED
      BY <2>1, <3>1, <3>2, CallMade DEF ShellInv, BrokerInv
  <2>3. ViewInv'
    BY <2>1 DEF ShellInv, ViewInv
  <2> QED
    BY <2>1, <2>2, <2>3 DEF ShellInv, BrokerInv, WireInv, MachinesInv
<1>4. CASE dispatch
  <2> DEFINE m == Head(inbox)
  <2>1. /\ inbox # <<>> /\ inbox' = Tail(inbox)
        /\ UNCHANGED <<queue, wire, host, server, orphans, passes>>
    BY <1>4 DEF dispatch
  <2>2. m \in Messages /\ inbox' \in Seq(Messages)
    BY <2>1, HeadTailProperties DEF ShellInv, BrokerInv
  <2>3. \/ m.kind = "event" /\ view' = applyRuntimeEvent(view, m)
        \/ m.kind = "result" /\ view' = applyBridgeResult(view, m)
        \/ view' = view
    <3>1. m.kind \in {"event", "result"}
      BY <2>2 DEF Messages
    <3> QED
      BY <1>4, <3>1 DEF dispatch
  <2>4. polling' \in BOOLEAN
    BY <1>4 DEF dispatch
  <2> HIDE DEF m
  <2>5. view' \in View /\ (view'.link => view'.open)
    BY <2>2, <2>3, EventShown, ResultShown DEF ShellInv, ViewInv
  <2> QED
    BY <2>1, <2>2, <2>4, <2>5
       DEF ShellInv, BrokerInv, CallsInv, WireInv, MachinesInv, ViewInv
<1>5. CASE broker(BrokerNext)
  <2>1. BrokerNext /\ UNCHANGED <<passes, view, polling>>
    BY <1>5 DEF broker
  <2>2. BrokerInv'
    BY <2>1, BrokerNextKeeps DEF ShellInv
  <2> QED
    BY <2>1, <2>2 DEF ShellInv, ViewInv
<1>6. CASE UNCHANGED vars
  BY <1>6 DEF vars, ShellInv, BrokerInv, CallsInv, WireInv, MachinesInv, ViewInv
<1> QED
  BY <1>1, <1>2, <1>3, <1>4, <1>5, <1>6 DEF Next

-----------------------------------------------------------------------------
(* The theorems.                                                           *)

\* Broker, host, server and renderer keep the joint invariant.
THEOREM ShellInvariant == Spec => []ShellInv
<1>1. Init => ShellInv
  BY InitShellInv
<1>2. ShellInv /\ [Next]_vars => ShellInv'
  BY NextShellInv
<1> QED
  BY <1>1, <1>2, PTL DEF Spec

\* A command is executed at most once, although its frame may be sent twice (main.rs
\* should_retry_after_stale_host_response).
THEOREM CommandsRunOnce == LiveSpec => []ExecutedOnce
<1>1. ShellInv => ExecutedOnce
  <2>1. ASSUME ShellInv
        PROVE  ExecutedOnce
    <3>1. wire.ran = 0 \/ wire.ran <= 1
      BY <2>1 DEF ShellInv, BrokerInv, WireInv
    <3> QED
      BY <3>1 DEF ExecutedOnce
  <2> QED
    BY <2>1
<1> QED
  BY <1>1, ShellInvariant, PTL DEF LiveSpec

\* The invite link is shown only with a room that is shown open (state.js
\* inviteReadinessComplete, applyRuntimeEvent).
THEOREM LinksAreOfOpenRooms == LiveSpec => []LinkOnlyForOpenRooms
<1>1. ShellInv => LinkOnlyForOpenRooms
  <2>1. ASSUME ShellInv
        PROVE  LinkOnlyForOpenRooms
    <3>1. \A i \in DOMAIN inbox : inbox[i] \in Messages
      <4>1. inbox \in Seq(Messages) /\ DOMAIN inbox = 1..Len(inbox)
        BY <2>1, LenProperties DEF ShellInv, BrokerInv
      <4> QED
        BY <4>1, ElementOfSeq
    <3> QED
      BY <2>1, <3>1 DEF ShellInv, BrokerInv, CallsInv, WireInv, Wire, MachinesInv, Host,
         ViewInv, View, LinkOnlyForOpenRooms, TypeOK
  <2> QED
    BY <2>1
<1> QED
  BY <1>1, ShellInvariant, PTL DEF LiveSpec
=============================================================================
