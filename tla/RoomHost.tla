------------------------------ MODULE RoomHost ------------------------------
(***************************************************************************)
(* The Node host of the desktop: the command frames it answers, the room   *)
(* controller that gives a running server a room, a relay tunnel and an    *)
(* invite, and the runtime bridge that drives the server.                  *)
(*                                                                         *)
(* Sources, in apps/desktop/src/runtime: desktop-command-host-process.mjs, *)
(* desktop-command-host.mjs, desktop-room-controller.mjs,                  *)
(* desktop-runtime-bridge.mjs, control-plane-boundary-adapter.mjs.         *)
(*                                                                         *)
(* One frame is handled at a time and each await of its handler is where   *)
(* the server may change by itself, so a handler is a chain of actions, one *)
(* from each await to the next; frame says which comes next.  The server   *)
(* is ServerContract's.  The control plane and the relay are the services  *)
(* given by options (external): a call of theirs may be refused or fail,   *)
(* and a room, its tunnel and its invite have one identity, the roomId.    *)
(***************************************************************************)
EXTENDS Naturals, ServerContract

CONSTANTS
  Signatures,     (* runtimePlanSignature: version and catalog mod          *)
  DefaultSignature,    (* of the options the host was started with          *)
  RoomIds, None,
  ServicesFail,   (* BOOLEAN: calls to the relay and control plane may fail *)
  HostMayDie,     (* BOOLEAN: the broker kills the host on a timeout        *)
  MaxOrphans      (* bound: unheld servers are counted up to it             *)

ASSUME RoomHostAssumption ==
  /\ DefaultSignature \in Signatures
  /\ None \notin RoomIds
  /\ ServicesFail \in BOOLEAN
  /\ HostMayDie \in BOOLEAN
  /\ MaxOrphans \in Nat

VARIABLES
  signature,                        (* of the current bridge and controller *)
  server, manager,                  (* lifecycleManager, and "it exists"    *)
  lastState, lastFailure,           (* the bridge's own variables           *)
  active,                           (* emptyActiveRoom() and after          *)
  relay,                            (* lastRelaySnapshot                    *)
  cleanupPending,
  frame, answer,                    (* being handled; just written          *)
  tunnels, invites, orphans         (* outside: open, live, unheld          *)

bridgeVars == <<server, manager, lastState, lastFailure>>
roomVars == <<active, relay, cleanupPending>>
worldVars == <<tunnels, invites, orphans>>
vars == <<signature, bridgeVars, roomVars, frame, answer, worldVars>>

Configured == {"prepare", "open", "restart"}
Commands == Configured \cup {"close", "send", "status", "reset"}

NoRoom == [room |-> None, relay |-> None, token |-> None, tunnel |-> None,
           invite |-> None, link |-> None]

\* at: the await whose end comes next; failed: provisionOpenRoom is failing
\* closed; dto: the state the answer will carry.
Idle == [cmd |-> "none", at |-> "idle", failed |-> FALSE, dto |-> "none"]

NoAnswer == [cmd |-> "none", state |-> "none", link |-> None, failure |-> FALSE]

Init ==
  /\ signature = DefaultSignature
  /\ server = NoServer
  /\ manager = FALSE
  /\ lastState = "stopped"
  /\ lastFailure = FALSE
  /\ active = NoRoom
  /\ relay = "closed"
  /\ cleanupPending = FALSE
  /\ frame = Idle
  /\ answer = NoAnswer
  /\ tunnels = {}
  /\ invites = {}
  /\ orphans = 0

at(cmds, where) == frame.cmd \in cmds /\ frame.at = where

goto(where) == frame' = [frame EXCEPT !.at = where]

\* Writes the answer and ends the frame.  failure: the dto carries one.
reply(state, link, failure) ==
  /\ answer' = [cmd |-> frame.cmd, state |-> state, link |-> link, failure |-> failure]
  /\ frame' = Idle

\* status() of the bridge.
statusState == IF manager THEN server.state ELSE lastState

isRuntimeReadyForInvite(state) == state = "running"

\* Fault: a running server does not keep its bridge and controller.
isBusyFault(state) == state \in {"starting", "stopping", "restarting"}

\* The states in which configureRuntimeForRequest refuses another signature.
isBusy(state) == state \in {"starting", "running", "stopping", "restarting"}

isOpenState(state) == state \in {"starting", "running", "stopping"}

-----------------------------------------------------------------------------
(* Frames.                                                                 *)

\* New bridge and controller for a signature.  What the old ones held is no
\* longer held by anyone.
replaceRuntime(next) ==
  /\ signature' = next
  /\ orphans' = IF server.alive /\ orphans < MaxOrphans THEN orphans + 1 ELSE orphans
  /\ server' = NoServer
  /\ manager' = FALSE
  /\ lastState' = "stopped"
  /\ lastFailure' = FALSE
  /\ active' = NoRoom
  /\ relay' = "closed"
  /\ cleanupPending' = FALSE
  /\ UNCHANGED <<tunnels, invites>>

\* The next frame: a command that carries a version and a catalog mod goes
\* through configureRuntimeForRequest first.
receive(cmd, requested) ==
  /\ frame = Idle
  /\ LET begun == [Idle EXCEPT !.cmd = cmd, !.at = "begin"]
     IN \/ /\ cmd \in Configured => requested = signature
           /\ frame' = begun
           /\ answer' = NoAnswer
           /\ UNCHANGED <<signature, bridgeVars, roomVars, worldVars>>
        \/ /\ cmd \in Configured
           /\ requested # signature
           /\ ~isBusy(statusState)
           /\ replaceRuntime(requested)
           /\ frame' = begun
           /\ answer' = NoAnswer
        \/ /\ cmd \in Configured
           /\ requested # signature
           /\ isBusy(statusState)
           /\ answer' = [NoAnswer EXCEPT !.cmd = cmd, !.state = "blocked", !.failure = TRUE]
           /\ UNCHANGED <<signature, bridgeVars, roomVars, frame, worldVars>>

-----------------------------------------------------------------------------
(* The bridge.                                                             *)

rememberFailure(state) == lastState' = state /\ lastFailure' = TRUE

\* The controller goes on with what the bridge answered.  openRoom answers
\* without a link, since start() is never the one that reports "running";
\* restartRoom clears the old room first; closeRoom and a failing provision end.
bridgeAnswered(state, failure) ==
  \/ /\ frame.cmd = "restart"
     /\ frame' = [frame EXCEPT !.at = "closeRelay", !.dto = state]
     /\ UNCHANGED answer
  \/ frame.cmd = "open" /\ reply(state, None, failure)

\* Java detection and materialisation, whatever state the server is in.
prepareRoom ==
  /\ at({"prepare"}, "begin")
  /\ \/ rememberFailure("blocked")
     \/ lastState' = "ready" /\ lastFailure' = FALSE
  /\ reply(lastState', active.link, lastFailure')
  /\ UNCHANGED <<signature, server, manager, roomVars, worldVars>>

\* openRoom and restartRoom of the controller are refused while a tunnel of the
\* previous room may still be open.
blockedByCleanup ==
  /\ at({"open", "restart"}, "begin")
  /\ cleanupPending
  /\ reply("blocked", None, TRUE)
  /\ UNCHANGED <<signature, bridgeVars, roomVars, worldVars>>

opens == frame.cmd = "open" \/ (frame.cmd = "restart" /\ ~manager)

\* openRoom of a bridge whose server is there already.
duplicateOpen ==
  /\ at({"open"}, "begin")
  /\ ~cleanupPending
  /\ manager
  /\ isOpenState(server.state) \/ server.held
  /\ reply("blocked", None, TRUE)
  /\ UNCHANGED <<signature, bridgeVars, roomVars, worldVars>>

\* detectJava, bootstrapFabricServer and materializeRoom succeed, and the
\* manager is created unless there is one; or one of them fails.
openRoom ==
  /\ at({"open", "restart"}, "begin")
  /\ opens
  /\ ~cleanupPending
  /\ manager => ~isOpenState(server.state) /\ ~server.held
  /\ \/ /\ manager' = TRUE
        /\ goto("start")
        /\ UNCHANGED <<lastState, lastFailure, answer>>
     \/ /\ rememberFailure("blocked")
        /\ bridgeAnswered("blocked", TRUE)
        /\ UNCHANGED manager
  /\ UNCHANGED <<signature, server, roomVars, worldVars>>

startServer ==
  /\ at({"open", "restart"}, "start")
  /\ server' \in Started(server)
  /\ IF server'.state = "starting"
     THEN lastState' = "starting" /\ lastFailure' = FALSE
     ELSE rememberFailure(IF frame.dto = "restarting" THEN "failed" ELSE "blocked")
  /\ bridgeAnswered(lastState', lastFailure')
  /\ UNCHANGED <<signature, manager, roomVars, worldVars>>

\* restartRoom with a manager: its stop(), and start() only after a clean stop.
restartRoom ==
  /\ at({"restart"}, "begin")
  /\ ~cleanupPending
  /\ manager
  /\ server' \in StopCalled(server)
  /\ lastState' = "restarting"
  /\ frame' = [frame EXCEPT !.at = "stopped", !.dto = "restarting"]
  /\ UNCHANGED <<signature, manager, lastFailure, roomVars, answer, worldVars>>

restartStopped ==
  /\ at({"restart"}, "stopped")
  /\ ~frame.failed
  /\ ~server.stopping
  /\ IF server.state = "stopped"
     THEN goto("start") /\ UNCHANGED <<lastState, lastFailure, answer>>
     ELSE rememberFailure("failed") /\ bridgeAnswered("failed", TRUE)
  /\ UNCHANGED <<signature, server, manager, roomVars, worldVars>>

canSendServerCommand ==
  manager /\ server.held /\ server.state \in {"starting", "running"}

\* The write of sendCommand is awaited; its answer has the state of that time.
sendServerCommand ==
  /\ at({"send"}, "begin")
  /\ IF canSendServerCommand
     THEN goto("sent") /\ UNCHANGED answer
     ELSE reply(statusState, None, TRUE)
  /\ UNCHANGED <<signature, bridgeVars, roomVars, worldVars>>

serverCommandSent ==
  /\ at({"send"}, "sent")
  /\ \/ /\ lastFailure' = FALSE
        /\ lastState' = server.state
        /\ reply(server.state, None, FALSE)
     \/ /\ reply(server.state, None, TRUE)
        /\ UNCHANGED <<lastState, lastFailure>>
  /\ UNCHANGED <<signature, server, manager, roomVars, worldVars>>

-----------------------------------------------------------------------------
(* The controller: a room for a running server.                            *)

\* statusRoom: a server that runs without a room is given one.
statusRoom ==
  /\ at({"status"}, "begin")
  /\ IF ~isRuntimeReadyForInvite(statusState)
     THEN reply(statusState, None, lastFailure)
     ELSE IF active.link # None /\ relay = "open"
     THEN reply("running", active.link, lastFailure)
     ELSE frame' = [frame EXCEPT !.at = "room", !.dto = "running"] /\ UNCHANGED answer
  /\ UNCHANGED <<signature, bridgeVars, roomVars, worldVars>>

\* A roomId that is not in use.
fresh(r) ==
  /\ r \notin tunnels \cup invites
  /\ r \notin {active.room, active.relay, active.token, active.tunnel, active.invite}

failClosed == frame' = [frame EXCEPT !.at = "closeRelay", !.failed = TRUE]

createRoom ==
  /\ frame.at = "room"
  /\ \/ \E r \in RoomIds :
          /\ fresh(r)
          /\ active' = [active EXCEPT !.room = r]
          /\ goto("relay")
     \/ ServicesFail /\ failClosed /\ UNCHANGED active
  /\ UNCHANGED <<signature, bridgeVars, relay, cleanupPending, answer, worldVars>>

\* createHostTunnelToken and relayFactory.
createRelay ==
  /\ frame.at = "relay"
  /\ \/ /\ active' = [active EXCEPT !.token = active.room, !.relay = active.room]
        /\ goto("tunnel")
     \/ /\ ServicesFail
        /\ active' = [active EXCEPT !.token = active.room]
        /\ failClosed
  /\ UNCHANGED <<signature, bridgeVars, relay, cleanupPending, answer,
                 worldVars>>

openHostTunnel ==
  /\ frame.at = "tunnel"
  /\ \/ /\ tunnels' = tunnels \cup {active.room}
        /\ active' = [active EXCEPT !.tunnel = active.room]
        /\ relay' = "open"
        /\ goto("invite")
     \/ ServicesFail /\ failClosed /\ UNCHANGED <<tunnels, active, relay>>
  /\ UNCHANGED <<signature, bridgeVars, cleanupPending, answer,
                 invites, orphans>>

createInvite ==
  /\ frame.at = "invite"
  /\ \/ /\ invites' = invites \cup {active.room}
        /\ active' = [active EXCEPT !.invite = active.room, !.link = active.room]
        /\ goto("heartbeat")
     \/ ServicesFail /\ failClosed /\ UNCHANGED <<invites, active>>
  /\ UNCHANGED <<signature, bridgeVars, relay, cleanupPending, answer, tunnels, orphans>>

\* The one heartbeat of the room; a refusal is not looked at, an exception is.
heartbeatHost ==
  /\ frame.at = "heartbeat"
  /\ \/ reply(frame.dto, active.link, lastFailure)
     \/ ServicesFail /\ failClosed /\ UNCHANGED answer
  /\ UNCHANGED <<signature, bridgeVars, roomVars, worldVars>>

-----------------------------------------------------------------------------
(* The controller: closing, and cleaning up after a failure.               *)

\* closeRoom and reset close the relay first and the server last, and so does a
\* provision that failed; a restart only clears the old room.
closeRoom ==
  /\ at({"close", "reset"}, "begin")
  /\ goto("closeRelay")
  /\ UNCHANGED <<signature, bridgeVars, roomVars, answer, worldVars>>

\* The tunnel closeHostTunnel finds: by tunnelId, else by roomId, in the relay
\* that active.relay is, with the token of its room.
closable ==
  LET t == IF active.tunnel # None THEN active.tunnel ELSE active.room
  IN {t} \cap {active.relay} \cap {active.token} \cap tunnels

closeRelayTunnel ==
  /\ frame.at = "closeRelay"
  /\ IF active.relay = None \/ active.room = None
     THEN relay' = "closed" /\ UNCHANGED tunnels
     ELSE \/ /\ closable # {}
             /\ relay' = "closed"
             /\ tunnels' = tunnels \ closable
          \/ /\ closable = {} \/ ServicesFail
             /\ relay' = "failed"
             /\ UNCHANGED tunnels
  /\ goto("revoke")
  /\ UNCHANGED <<signature, bridgeVars, active, cleanupPending, answer,
                 invites, orphans>>

\* Fault: a room whose tunnel did not close is forgotten all the same.
clearedFault(room) ==
  IF frame.cmd \in {"close", "reset"}
  THEN active' = [room EXCEPT !.invite = None, !.link = None]
       /\ UNCHANGED cleanupPending
  ELSE cleanupPending' = (relay # "closed") /\ active' = NoRoom

\* Fault: the link survives the revocation.
clearedLinkFault(room) ==
  IF frame.cmd \in {"close", "reset"}
  THEN active' = [room EXCEPT !.invite = None] /\ UNCHANGED cleanupPending
  ELSE /\ cleanupPending' = (relay # "closed")
       /\ active' = IF relay = "closed" THEN NoRoom ELSE [room EXCEPT !.invite = None]

\* After the revocation: clearOpenRoomSideEffects forgets the room when its
\* tunnel closed, and closeRoom does so only after the server has stopped.
cleared(room) ==
  LET unlinked == [room EXCEPT !.invite = None, !.link = None]
  IN IF frame.cmd \in {"close", "reset"}
     THEN active' = unlinked /\ UNCHANGED cleanupPending
     ELSE /\ cleanupPending' = (relay # "closed")
          /\ active' = IF relay = "closed" THEN NoRoom ELSE unlinked

\* A revocation that fails is swallowed.
revokeInvite ==
  /\ frame.at = "revoke"
  /\ \/ invites' = IF active.room = None THEN invites ELSE invites \ {active.invite}
     \/ ServicesFail /\ UNCHANGED invites
  /\ cleared(active)
  /\ IF frame.cmd = "restart" /\ ~frame.failed
     THEN reply(frame.dto, None, lastFailure)
     ELSE goto("stop") /\ UNCHANGED answer
  /\ UNCHANGED <<signature, bridgeVars, relay, tunnels, orphans>>

\* Fault: the server whose room failed is left running.
stopServerFault ==
  /\ frame.at = "stop"
  /\ server' \in IF manager /\ ~frame.failed THEN StopCalled(server) ELSE {server}
  /\ lastState' = "closing"
  /\ goto("stopped")
  /\ UNCHANGED <<signature, manager, lastFailure, roomVars, answer, worldVars>>

\* closeRoom of the bridge.
stopServer ==
  /\ frame.at = "stop"
  /\ server' \in IF manager THEN StopCalled(server) ELSE {server}
  /\ lastState' = "closing"
  /\ goto("stopped")
  /\ UNCHANGED <<signature, manager, lastFailure, roomVars, answer, worldVars>>

stopRemembered ==
  IF manager /\ server.state # "stopped"
  THEN rememberFailure("failed")
  ELSE lastState' = "stopped" /\ lastFailure' = FALSE

\* A provision that failed is answered when its server has been stopped.
failedClosed ==
  /\ frame.at = "stopped"
  /\ frame.failed
  /\ ~server.stopping
  /\ stopRemembered
  /\ reply("blocked", None, TRUE)
  /\ UNCHANGED <<signature, server, manager, roomVars, worldVars>>

roomClosed ==
  /\ at({"close"}, "stopped")
  /\ ~server.stopping
  /\ stopRemembered
  /\ IF relay = "closed"
     THEN /\ cleanupPending' = FALSE
          /\ active' = NoRoom
          /\ reply(lastState', None, lastFailure')
     ELSE /\ cleanupPending' = TRUE
          /\ reply("blocked", None, TRUE)
          /\ UNCHANGED active
  /\ UNCHANGED <<signature, server, manager, relay, worldVars>>

\* resetRoom does not look at what closeRoom answered.
resetRoom ==
  /\ at({"reset"}, "stopped")
  /\ ~server.stopping
  /\ replaceRuntime(DefaultSignature)
  /\ reply("idle", None, FALSE)

-----------------------------------------------------------------------------
(* What happens meanwhile.                                                 *)

serverHappens ==
  /\ server' \in Happened(server) \ {server}
  /\ UNCHANGED <<signature, manager, lastState, lastFailure, roomVars, frame, answer,
                 worldVars>>

serverStops ==
  /\ server' \in StopEnded(server)
  /\ UNCHANGED <<signature, manager, lastState, lastFailure, roomVars, frame, answer,
                 worldVars>>

orphanDies ==
  /\ orphans > 0
  /\ orphans' = orphans - 1
  /\ UNCHANGED <<signature, bridgeVars, roomVars, frame, answer, tunnels, invites>>

\* The broker gives up on the frame, kills the host, and starts another one for
\* the next command.  The server is not the host's to take along.
hostKilled ==
  /\ HostMayDie
  /\ frame # Idle
  /\ replaceRuntime(DefaultSignature)
  /\ frame' = Idle
  /\ answer' = NoAnswer

Handle ==
  \/ prepareRoom \/ blockedByCleanup \/ duplicateOpen \/ openRoom \/ startServer
  \/ restartRoom \/ restartStopped \/ sendServerCommand \/ serverCommandSent
  \/ statusRoom \/ createRoom \/ createRelay \/ openHostTunnel \/ createInvite
  \/ heartbeatHost \/ closeRoom \/ closeRelayTunnel \/ revokeInvite \/ stopServer
  \/ failedClosed \/ roomClosed \/ resetRoom

Next ==
  \/ \E cmd \in Commands, requested \in Signatures : receive(cmd, requested)
  \/ Handle
  \/ serverHappens \/ serverStops \/ orphanDies \/ hostKilled

\* Services answer, files are written and stop() is bounded by its hard timeout
\* (CommandsEnd of ServerLifecycle); users send what they like or nothing.
Fairness == WF_vars(Handle) /\ WF_vars(serverStops)

Spec == Init /\ [][Next]_vars /\ Fairness
\* For CleanupCanFinish: the user closes the room again and again, and the relay
\* does not fail for ever.
Retrying ==
  /\ SF_vars(\E requested \in Signatures : receive("close", requested))
  /\ SF_vars(closeRelayTunnel /\ relay' = "closed")

RetryingSpec == Spec /\ Retrying

-----------------------------------------------------------------------------
(* Properties.                                                             *)

\* Variables have the shape the code gives them, and only a manager has a server.
TypeOK ==
  /\ signature \in Signatures
  /\ server \in Server
  /\ manager \in BOOLEAN
  /\ ~manager => server = NoServer
  /\ lastState \in {"stopped", "ready", "blocked", "starting", "running", "stopping",
                    "restarting", "closing", "crashed", "failed"}
  /\ lastFailure \in BOOLEAN
  /\ active \in [DOMAIN NoRoom -> RoomIds \cup {None}]
  /\ relay \in {"closed", "open", "failed"}
  /\ cleanupPending \in BOOLEAN
  /\ frame.cmd \in Commands \cup {"none"}
  /\ answer.link \in RoomIds \cup {None}
  /\ tunnels \subseteq RoomIds
  /\ invites \subseteq RoomIds
  /\ orphans \in 0..MaxOrphans

Answered == frame # Idle /\ frame' = Idle /\ answer' # NoAnswer

\* An invite link is only ever answered while its invite is live and its tunnel
\* open, and both still are when the next command comes, whatever failed before:
\* the link, the invite and the tunnel are three records cleared by different
\* awaits of close, restart and fail-closed.
UsableLinks ==
  /\ TypeOK
  /\ answer.link # None => answer.link \in tunnels \cap invites

\* When giving a running server its room fails halfway, the answer comes with the
\* server no longer open, without a link, and with the tunnel closed or its
\* cleanup pending ("fail-closes when relay host tunnel cannot open").
FailsClosed ==
  [][Answered /\ frame.failed =>
       /\ ~isOpenState(server.state)
       /\ answer'.link = None
       /\ active'.tunnel \in tunnels => cleanupPending']_vars

\* The controller lets go of an open tunnel only with its whole runtime, or when
\* a status poll gives a restarted server a new room while the old room's cleanup
\* is pending.
TunnelsAreKept ==
  [][\A t \in tunnels \cap tunnels' :
       active.tunnel = t /\ active'.tunnel # t =>
         \/ \E s \in Signatures : replaceRuntime(s)
         \/ frame.at = "tunnel" /\ cleanupPending]_vars

\* No command leaves a server behind that is starting, running or stopping: only
\* the end of the host process does.  Commands that replace the bridge read a
\* state that may say "crashed" or "failed" of a server that still lives.
OnlyFailedServersAreOrphaned ==
  [][orphans' > orphans => hostKilled \/ server.state \in {"crashed", "failed"}]_vars

\* Every room that is closed can be closed to the end ("Finish closing the
\* previous room before opening a new one."), once the relay answers again.
CleanupCanFinish == cleanupPending ~> ~cleanupPending

\* One host runs one server ("prevents duplicate opens while a lifecycle is
\* running"; "Close the current room before changing the selected mods.").
\* The code does not keep it (README, section 4).
OneServer == orphans = 0 \/ ~server.alive
=============================================================================
