--------------------------- MODULE RoomHostProofs ---------------------------
(***************************************************************************)
(* Proofs about RoomHost, for every set of rooms and runtime signatures,   *)
(* services that may fail and a host that may die at any await.            *)
(*                                                                         *)
(* A handler is a chain of awaits, so the inductive invariant says for     *)
(* each await what the steps before it have left behind.                   *)
(***************************************************************************)
EXTENDS RoomHost, TLAPS

-----------------------------------------------------------------------------
(* The inductive invariant.                                                *)

Places == {"idle", "begin", "start", "stopped", "sent", "room", "relay", "tunnel", "invite",
           "heartbeat", "closeRelay", "revoke", "stop"}

Frame == [cmd : Commands \cup {"none"}, at : Places, failed : BOOLEAN,
          dto : {"none", "restarting"} \cup ServerStates \cup {"blocked"}]

\* A server that is alive is held, and is not called stopped (LiveServerIsHeld of
\* the lifecycle manager, in the words of its contract).
Sane(s) == s.alive => s.held /\ s.state # "stopped"

\* stop() has been called, and has not been answered or has ended it.
Halted(s) == /\ s.state \notin {"starting", "running"}
             /\ s.state = "stopping" => s.stopping

\* The frame is whole, and nothing is answered while it is handled.
FrameInv ==
  /\ frame \in Frame
  /\ frame.at = "idle" => frame = Idle
  /\ frame.at # "idle" => answer = NoAnswer
  /\ frame.failed =>
       frame.cmd = "status" /\ frame.at \in {"closeRelay", "revoke", "stop", "stopped"}
  /\ frame.at \in {"room", "relay", "tunnel", "invite", "heartbeat"} => frame.cmd = "status"
  /\ frame.at \in {"closeRelay", "revoke", "stop"} =>
       \/ frame.cmd \in {"close", "reset"} \/ frame.failed
       \/ frame.cmd = "restart" /\ frame.at # "stop"

\* What the awaits of a stop leave of the server.
ServerInv ==
  /\ Sane(server)
  /\ frame.at = "stopped" => Halted(server)
  /\ frame.at = "start" \/ (frame.cmd = "restart" /\ frame.at = "stopped") => manager

\* What the awaits of a room leave of its link.
LinkInv ==
  /\ frame.at \in {"relay", "tunnel", "invite", "heartbeat"} => active.room \in RoomIds
  /\ frame.at \in {"invite", "heartbeat"} => active.room \in tunnels
  /\ active.link # None /\ frame.at # "revoke" => active.link \in tunnels \cap invites
  /\ answer.link # None => answer.link \in tunnels \cap invites

closing == frame.cmd \in {"close", "reset"} /\ frame.at \in {"stop", "stopped"}

\* What they leave of its tunnel.
TunnelInv ==
  /\ active.tunnel # None => active.relay # None /\ active.room # None
  /\ frame.at = "tunnel" => active.relay # None
  /\ frame.at = "invite" => relay = "open"
  /\ frame.at \in {"room", "relay", "tunnel"} => active.link = None \/ relay # "open"
  /\ (frame.at = "revoke" \/ closing) /\ relay = "closed" => active.tunnel \notin tunnels
  /\ frame.failed /\ frame.at \in {"stop", "stopped"} => active.link = None
  /\ active.tunnel \in tunnels =>
       \/ cleanupPending
       \/ active.link # None /\ relay = "open"
       \/ frame.at \in {"invite", "closeRelay", "revoke"}
       \/ closing

RoomHostInv == TypeOK /\ FrameInv /\ ServerInv /\ LinkInv /\ TunnelInv

-----------------------------------------------------------------------------
(* The server, whose states are ServerContract's.                          *)

\* The fields of a server after each way the contract changes them.
Fields(t, state, held, alive, stopping) ==
  /\ t \in Server /\ t.state = state
  /\ (t.held <=> held) /\ (t.alive <=> alive) /\ (t.stopping <=> stopping)

\* A new state alone.
LEMMA StateFields ==
  ASSUME NEW s \in Server, NEW state \in ServerStates, NEW t, t = [s EXCEPT !.state = state]
  PROVE  Fields(t, state, s.held, s.alive, s.stopping)
BY DEF Server, Fields

\* The process dies.
LEMMA AliveFields ==
  ASSUME NEW s \in Server, NEW alive \in BOOLEAN, NEW t, t = [s EXCEPT !.alive = alive]
  PROVE  Fields(t, s.state, s.held, alive, s.stopping)
BY DEF Server, Fields

\* The manager lets go of its process.
LEMMA HeldFields ==
  ASSUME NEW s \in Server, NEW state \in ServerStates, NEW held \in BOOLEAN, NEW t,
         t = [s EXCEPT !.state = state, !.held = held]
  PROVE  Fields(t, state, held, s.alive, s.stopping)
BY DEF Server, Fields

\* A stop() begins, or ends with its process still held.
LEMMA StoppingFields ==
  ASSUME NEW s \in Server, NEW state \in ServerStates, NEW stopping \in BOOLEAN, NEW t,
         t = [s EXCEPT !.state = state, !.stopping = stopping]
  PROVE  Fields(t, state, s.held, s.alive, stopping)
BY DEF Server, Fields

\* A process is launched.
LEMMA StartedFields ==
  ASSUME NEW s \in Server, NEW state \in ServerStates,
         NEW held \in BOOLEAN, NEW alive \in BOOLEAN, NEW t,
         t = [s EXCEPT !.state = state, !.held = held, !.alive = alive]
  PROVE  Fields(t, state, held, alive, s.stopping)
BY DEF Server, Fields

\* A stop() ends with its process gone.
LEMMA EndedFields ==
  ASSUME NEW s \in Server, NEW state \in ServerStates,
         NEW stopping \in BOOLEAN, NEW held \in BOOLEAN, NEW t,
         t = [s EXCEPT !.state = state, !.stopping = stopping, !.held = held]
  PROVE  Fields(t, state, held, s.alive, stopping)
BY DEF Server, Fields

\* The server of a manager that has not started one.
LEMMA NoServerIsSane == NoServer \in Server /\ Sane(NoServer) /\ Halted(NoServer)
BY DEF NoServer, Server, ServerStates, Sane, Halted

\* start() of the lifecycle manager.
LEMMA StartKeeps ==
  ASSUME NEW s \in Server, Sane(s), NEW t \in Started(s)
  PROVE  t \in Server /\ Sane(t) /\ ~s.held
<1>1. ~s.held
  BY DEF Started
<1>2. CASE t = [s EXCEPT !.state = "failed"]
  BY <1>1, <1>2, StateFields DEF Fields, ServerStates, Sane
<1>3. CASE \E born \in BOOLEAN :
             t = [s EXCEPT !.state = "starting", !.held = TRUE, !.alive = born]
  <2>1. PICK born \in BOOLEAN :
               t = [s EXCEPT !.state = "starting", !.held = TRUE, !.alive = born]
    BY <1>3
  <2>2. Fields(t, "starting", TRUE, born, s.stopping)
    BY <2>1, StartedFields DEF ServerStates
  <2> QED
    BY <1>1, <2>2 DEF Fields, Sane
<1> QED
  BY <1>1, <1>2, <1>3 DEF Started

\* stop() leaves no server that is starting or running.
LEMMA StopHalts ==
  ASSUME NEW s \in Server, Sane(s), NEW t \in StopCalled(s)
  PROVE  t \in Server /\ Sane(t) /\ Halted(t)
<1> DEFINE state == IF s.held THEN "stopping" ELSE "stopped"
<1> DEFINE held == s.held
<1>1. t = [s EXCEPT !.state = state, !.stopping = held] /\ ~s.stopping
  BY DEF StopCalled
<1>2. held \in BOOLEAN /\ state \in ServerStates /\ (held <=> s.held)
  BY DEF Server, ServerStates
<1>3. held => state = "stopping"
  OBVIOUS
<1>4. ~held => state = "stopped"
  OBVIOUS
<1> HIDE DEF state, held
<1>5. Fields(t, state, s.held, s.alive, held)
  BY <1>1, <1>2, StoppingFields
<1> QED
  BY <1>2, <1>3, <1>4, <1>5 DEF Fields, Sane, Halted

\* What happens to it while a stop() waits brings none back, nor does its end.
LEMMA EndKeeps ==
  ASSUME NEW s \in Server, Sane(s), NEW t \in StopEnded(s)
  PROVE  t \in Server /\ Sane(t) /\ Halted(t)
<1>1. CASE t = [s EXCEPT !.state = "failed", !.stopping = FALSE]
  <2>1. Fields(t, "failed", s.held, s.alive, FALSE)
    BY <1>1, StoppingFields DEF ServerStates
  <2> QED
    BY <2>1 DEF Fields, Sane, Halted
<1>2. CASE /\ ~s.alive
           /\ \E state \in {"stopped", "failed"} :
                t = [s EXCEPT !.state = state, !.stopping = FALSE, !.held = FALSE]
  <2>1. PICK state \in {"stopped", "failed"} :
               t = [s EXCEPT !.state = state, !.stopping = FALSE, !.held = FALSE]
    BY <1>2
  <2>2. Fields(t, state, FALSE, s.alive, FALSE)
    BY <2>1, EndedFields DEF ServerStates
  <2> QED
    BY <1>2, <2>1, <2>2 DEF Fields, Sane, Halted
<1> QED
  BY <1>1, <1>2 DEF StopEnded

\* What the process does by itself.
LEMMA HappenedKeeps ==
  ASSUME NEW s \in Server, Sane(s), NEW t \in Happened(s)
  PROVE  t \in Server /\ Sane(t) /\ s.held /\ (Halted(s) => Halted(t))
<1>1. s.held
  BY DEF Happened
<1>2. CASE t = [s EXCEPT !.alive = FALSE]
  <2>1. Fields(t, s.state, s.held, FALSE, s.stopping)
    BY <1>2, AliveFields
  <2> QED
    BY <1>1, <2>1 DEF Fields, Sane, Halted
<1>3. CASE t = [s EXCEPT !.state = "crashed"]
  BY <1>1, <1>3, StateFields DEF Fields, ServerStates, Sane, Halted
<1>4. CASE t = [s EXCEPT !.state = IF s.state = "starting" THEN "running" ELSE s.state]
  <2>1. CASE s.state = "starting"
    BY <1>1, <1>4, <2>1, StateFields DEF Fields, ServerStates, Sane, Halted
  <2>2. CASE s.state # "starting"
    BY <1>1, <1>4, <2>2, StateFields DEF Fields, Server, Sane, Halted
  <2> QED
    BY <2>1, <2>2
<1>5. CASE /\ ~(s.alive \/ s.stopping)
           /\ \E state \in {"stopped", "crashed", "failed"} :
                t = [s EXCEPT !.state = state, !.held = FALSE]
  <2>1. PICK state \in {"stopped", "crashed", "failed"} :
               t = [s EXCEPT !.state = state, !.held = FALSE]
    BY <1>5
  <2>2. Fields(t, state, FALSE, s.alive, s.stopping)
    BY <2>1, HeldFields DEF ServerStates
  <2> QED
    BY <1>1, <1>5, <2>1, <2>2 DEF Fields, Sane, Halted
<1>6. \/ t = [s EXCEPT !.alive = FALSE]
      \/ t = [s EXCEPT !.state = "crashed"]
      \/ t = [s EXCEPT !.state = IF s.state = "starting" THEN "running" ELSE s.state]
      \/ /\ ~(s.alive \/ s.stopping)
         /\ \E state \in {"stopped", "crashed", "failed"} :
              t = [s EXCEPT !.state = state, !.held = FALSE]
  BY <1>1 DEF Happened
<1> QED
  BY <1>1, <1>2, <1>3, <1>4, <1>5, <1>6

-----------------------------------------------------------------------------
(* The frame.                                                              *)

\* No frame is being handled.
LEMMA IdleFrame == Idle \in Frame /\ Idle.at = "idle" /\ ~Idle.failed /\ Idle.cmd = "none"
BY DEF Idle, Frame, Places

\* A frame that begins.
LEMMA BegunFrame ==
  ASSUME NEW cmd \in Commands, NEW f, f = [Idle EXCEPT !.cmd = cmd, !.at = "begin"]
  PROVE  f \in Frame /\ f.cmd = cmd /\ f.at = "begin" /\ ~f.failed
BY DEF Idle, Frame, Places

\* A frame that goes on to its next await.
LEMMA GotoFrame ==
  ASSUME frame \in Frame, NEW where \in Places, goto(where)
  PROVE  /\ frame' \in Frame /\ frame'.cmd = frame.cmd /\ frame'.at = where
         /\ (frame'.failed <=> frame.failed) /\ frame'.dto = frame.dto
BY DEF Frame, goto

\* A frame whose provision of a room fails closed.
LEMMA FailFrame ==
  ASSUME frame \in Frame, failClosed
  PROVE  /\ frame' \in Frame /\ frame'.cmd = frame.cmd /\ frame'.at = "closeRelay"
         /\ frame'.failed
<1>1. \A b \in BOOLEAN : frame' = [frame EXCEPT !.at = "closeRelay", !.failed = b] =>
        /\ frame' \in Frame /\ frame'.cmd = frame.cmd /\ frame'.at = "closeRelay"
        /\ (frame'.failed <=> b)
  BY DEF Frame, Places
<1> QED
  BY <1>1 DEF failClosed

\* A frame that goes on with the state its answer will have.
LEMMA DtoFrame ==
  ASSUME frame \in Frame, NEW where \in Places,
         NEW state \in {"none", "restarting", "blocked"} \cup ServerStates,
         frame' = [frame EXCEPT !.at = where, !.dto = state]
  PROVE  /\ frame' \in Frame /\ frame'.cmd = frame.cmd /\ frame'.at = where
         /\ (frame'.failed <=> frame.failed)
BY DEF Frame

\* The fields of a reply.
LEMMA ReplyFields ==
  ASSUME NEW state, NEW link, NEW failure, reply(state, link, failure)
  PROVE  frame' = Idle /\ answer'.link = link
BY DEF reply

\* Nothing has been answered.
LEMMA NoAnswerFields == NoAnswer.link = None
BY DEF NoAnswer

\* A command that is refused for its signature carries no link.
LEMMA RefusalFields ==
  ASSUME NEW cmd, NEW state, NEW failure \in BOOLEAN, NEW a,
         a = [NoAnswer EXCEPT !.cmd = cmd, !.state = state, !.failure = failure]
  PROVE  a.link = None
BY DEF NoAnswer

\* emptyActiveRoom().
LEMMA RoomFields == DOMAIN NoRoom = {"room", "relay", "token", "tunnel", "invite", "link"}
BY DEF NoRoom

\* A room that is forgotten has no part left.
LEMMA NoRoomFields ==
  /\ NoRoom \in [DOMAIN NoRoom -> RoomIds \cup {None}]
  /\ NoRoom.room = None /\ NoRoom.relay = None /\ NoRoom.token = None
  /\ NoRoom.tunnel = None /\ NoRoom.invite = None /\ NoRoom.link = None
BY DEF NoRoom

\* What receive does to the frame and the answer.
LEMMA ReceivedFrame ==
  ASSUME NEW cmd \in Commands, NEW requested, receive(cmd, requested)
  PROVE  /\ frame = Idle /\ answer'.link = None
         /\ \/ frame' \in Frame /\ frame'.cmd = cmd /\ frame'.at = "begin" /\ ~frame'.failed
            \/ frame' = frame
         /\ replaceRuntime(requested) \/ UNCHANGED <<signature, bridgeVars, roomVars, worldVars>>
<1>1. /\ frame = Idle
      /\ frame' = [Idle EXCEPT !.cmd = cmd, !.at = "begin"] \/ frame' = frame
      /\ \/ answer' = NoAnswer
         \/ answer' = [NoAnswer EXCEPT !.cmd = cmd, !.state = "blocked", !.failure = TRUE]
      /\ replaceRuntime(requested) \/ UNCHANGED <<signature, bridgeVars, roomVars, worldVars>>
  BY DEF receive
<1>2. CASE answer' = NoAnswer
  BY <1>1, <1>2, NoAnswerFields, BegunFrame
<1>3. CASE answer' = [NoAnswer EXCEPT !.cmd = cmd, !.state = "blocked", !.failure = TRUE]
  <2>1. answer'.link = None
    BY <1>3, RefusalFields
  <2> QED
    BY <1>1, <2>1, BegunFrame
<1> QED
  BY <1>1, <1>2, <1>3

\* The host as it starts.
LEMMA InitRoomHostInv == Init => RoomHostInv
<1> SUFFICES ASSUME Init PROVE RoomHostInv
  OBVIOUS
<1>1. TypeOK
  <2>1. active \in [DOMAIN NoRoom -> RoomIds \cup {None}] /\ server \in Server
    BY NoRoomFields, NoServerIsSane DEF Init
  <2>2. answer.link \in RoomIds \cup {None} /\ frame.cmd \in Commands \cup {"none"}
    BY NoAnswerFields, IdleFrame DEF Init
  <2>3. 0 \in 0..MaxOrphans /\ DefaultSignature \in Signatures
    BY RoomHostAssumption
  <2> QED
    BY <2>1, <2>2, <2>3 DEF Init, TypeOK
<1>2. FrameInv /\ ServerInv
  BY NoServerIsSane, IdleFrame DEF Init, FrameInv, ServerInv
<1>3. LinkInv /\ TunnelInv
  BY IdleFrame, NoRoomFields, NoAnswerFields DEF Init, LinkInv, TunnelInv, closing
<1> QED
  BY <1>1, <1>2, <1>3 DEF RoomHostInv

\* The types of the variables, by the object that keeps them.
LastStates == {"stopped", "ready", "blocked", "starting", "running", "stopping", "restarting",
               "closing", "crashed", "failed"}

BridgeType ==
  /\ signature \in Signatures
  /\ server \in Server
  /\ manager \in BOOLEAN
  /\ ~manager => server = NoServer
  /\ lastState \in LastStates
  /\ lastFailure \in BOOLEAN

RoomType ==
  /\ active \in [DOMAIN NoRoom -> RoomIds \cup {None}]
  /\ relay \in {"closed", "open", "failed"}
  /\ cleanupPending \in BOOLEAN

WorldType ==
  /\ answer.link \in RoomIds \cup {None}
  /\ tunnels \subseteq RoomIds
  /\ invites \subseteq RoomIds
  /\ orphans \in 0..MaxOrphans

\* TypeOK is these, and the command of the frame.
LEMMA Types ==
  TypeOK <=> BridgeType /\ RoomType /\ WorldType /\ frame.cmd \in Commands \cup {"none"}
BY DEF TypeOK, BridgeType, RoomType, WorldType, LastStates

\* The parts of the active room.
LEMMA ActiveFields ==
  ASSUME RoomType
  PROVE  /\ active.room \in RoomIds \cup {None} /\ active.link \in RoomIds \cup {None}
         /\ active.relay \in RoomIds \cup {None} /\ active.tunnel \in RoomIds \cup {None}
BY RoomFields DEF RoomType

\* Whatever of the room is kept after the revocation, it has no link.
LEMMA RevokedLink ==
  ASSUME RoomType, cleared(active)
  PROVE  /\ active'.link = None
         /\ \/ active' = NoRoom
            \/ /\ active'.room = active.room /\ active'.relay = active.relay
               /\ active'.tunnel = active.tunnel
<1> DEFINE unlinked == [active EXCEPT !.invite = None, !.link = None]
<1>1. active' = unlinked \/ active' = NoRoom
  BY DEF cleared
<1>2. /\ unlinked.link = None /\ unlinked.room = active.room
      /\ unlinked.relay = active.relay /\ unlinked.tunnel = active.tunnel
  BY RoomFields DEF RoomType
<1> QED
  BY <1>1, <1>2, NoRoomFields

\* Servers that are left behind are counted up to the bound.
LEMMA OrphansAreCounted ==
  ASSUME WorldType, NEW next, replaceRuntime(next)
  PROVE  /\ orphans' \in 0..MaxOrphans /\ UNCHANGED <<tunnels, invites>>
         /\ orphans' > orphans => server.alive
         /\ server' = NoServer /\ active' = NoRoom
BY RoomHostAssumption DEF replaceRuntime, WorldType

-----------------------------------------------------------------------------
(* Every step keeps the invariant.                                         *)

\* The frame.
LEMMA NextFrameInv ==
  ASSUME RoomHostInv, [Next]_vars
  PROVE  FrameInv'
<1> USE DEF RoomHostInv
<1>1. CASE \E cmd \in Commands, requested \in Signatures : receive(cmd, requested)
  BY <1>1, IdleFrame, ReceivedFrame DEF receive, replaceRuntime, FrameInv, Frame, Places
<1>2. CASE prepareRoom
  BY <1>2, IdleFrame, GotoFrame, ReplyFields, FailFrame DEF prepareRoom, at, rememberFailure,
          FrameInv, Frame, Places
<1>3. CASE blockedByCleanup
  BY <1>3, IdleFrame, GotoFrame, ReplyFields, FailFrame DEF blockedByCleanup, at, FrameInv,
          Frame, Places
<1>4. CASE duplicateOpen
  BY <1>4, IdleFrame, GotoFrame, ReplyFields, FailFrame DEF duplicateOpen, at, FrameInv, Frame,
          Places
<1>5. CASE openRoom
  BY <1>5, IdleFrame, GotoFrame, DtoFrame, ReplyFields DEF openRoom, at, bridgeAnswered,
          rememberFailure, FrameInv, Frame, Places, ServerStates
<1>6. CASE startServer
  <2>1. lastState' \in {"starting", "failed", "blocked"}
    BY <1>6 DEF startServer, rememberFailure
  <2>2. \/ frame.cmd = "restart" /\ UNCHANGED answer
              /\ frame' = [frame EXCEPT !.at = "closeRelay", !.dto = lastState']
        \/ frame.cmd = "open" /\ frame' = Idle
    BY <1>6, ReplyFields DEF startServer, bridgeAnswered
  <2> QED
    BY <1>6, <2>1, <2>2, IdleFrame, DtoFrame
       DEF startServer, at, FrameInv, Frame, Places, ServerStates
<1>7. CASE restartRoom
  BY <1>7, IdleFrame, DtoFrame DEF restartRoom, at, FrameInv, Frame, Places
<1>8. CASE restartStopped
  BY <1>8, IdleFrame, GotoFrame, DtoFrame, ReplyFields DEF restartStopped, at, bridgeAnswered,
          rememberFailure, FrameInv, Frame, Places, ServerStates
<1>9. CASE sendServerCommand
  BY <1>9, IdleFrame, GotoFrame, ReplyFields, FailFrame DEF sendServerCommand, at, FrameInv,
          Frame, Places
<1>10. CASE serverCommandSent
  BY <1>10, IdleFrame, GotoFrame, ReplyFields, FailFrame DEF serverCommandSent, at, FrameInv,
          Frame, Places
<1>11. CASE statusRoom
  BY <1>11, IdleFrame, DtoFrame, ReplyFields DEF statusRoom, at, FrameInv, Frame, Places,
          ServerStates
<1>12. CASE createRoom
  BY <1>12, IdleFrame, GotoFrame, ReplyFields, FailFrame DEF createRoom, fresh, FrameInv,
          Frame, Places
<1>13. CASE createRelay
  BY <1>13, IdleFrame, GotoFrame, ReplyFields, FailFrame DEF createRelay, FrameInv, Frame,
          Places
<1>14. CASE openHostTunnel
  BY <1>14, IdleFrame, GotoFrame, ReplyFields, FailFrame DEF openHostTunnel, FrameInv, Frame,
          Places
<1>15. CASE createInvite
  BY <1>15, IdleFrame, GotoFrame, ReplyFields, FailFrame DEF createInvite, FrameInv, Frame,
          Places
<1>16. CASE heartbeatHost
  BY <1>16, IdleFrame, GotoFrame, ReplyFields, FailFrame DEF heartbeatHost, FrameInv, Frame,
          Places
<1>17. CASE closeRoom
  BY <1>17, IdleFrame, GotoFrame, ReplyFields, FailFrame DEF closeRoom, at, FrameInv, Frame,
          Places
<1>18. CASE closeRelayTunnel
  BY <1>18, IdleFrame, GotoFrame, ReplyFields, FailFrame DEF closeRelayTunnel, FrameInv, Frame,
          Places
<1>19. CASE revokeInvite
  BY <1>19, IdleFrame, GotoFrame, ReplyFields, FailFrame DEF revokeInvite, cleared, FrameInv,
          Frame, Places
<1>20. CASE stopServer
  BY <1>20, IdleFrame, GotoFrame, ReplyFields, FailFrame DEF stopServer, FrameInv, Frame,
          Places
<1>21. CASE failedClosed
  BY <1>21, IdleFrame, GotoFrame, ReplyFields, FailFrame DEF failedClosed, stopRemembered,
          rememberFailure, FrameInv, Frame, Places
<1>22. CASE roomClosed
  BY <1>22, IdleFrame, GotoFrame, ReplyFields, FailFrame DEF roomClosed, at, stopRemembered,
          rememberFailure, FrameInv, Frame, Places
<1>23. CASE resetRoom
  BY <1>23, IdleFrame, GotoFrame, ReplyFields, FailFrame DEF resetRoom, at, replaceRuntime,
          FrameInv, Frame, Places
<1>24. CASE serverHappens
  BY <1>24, IdleFrame DEF serverHappens, FrameInv, Frame, Places
<1>25. CASE serverStops
  BY <1>25, IdleFrame DEF serverStops, FrameInv, Frame, Places
<1>26. CASE orphanDies
  BY <1>26, IdleFrame DEF orphanDies, FrameInv, Frame, Places
<1>27. CASE hostKilled
  BY <1>27, IdleFrame DEF hostKilled, replaceRuntime, FrameInv, Frame, Places
<1>28. CASE UNCHANGED vars
  BY <1>28, IdleFrame DEF vars, FrameInv, Frame, Places
<1> QED
  BY <1>1, <1>2, <1>3, <1>4, <1>5, <1>6, <1>7, <1>8, <1>9, <1>10, <1>11, <1>12, <1>13, <1>14, <1>15, <1>16, <1>17, <1>18, <1>19, <1>20, <1>21, <1>22, <1>23, <1>24, <1>25, <1>26, <1>27, <1>28 DEF Next, Handle

\* The bridge.
LEMMA NextBridge ==
  ASSUME RoomHostInv, [Next]_vars
  PROVE  BridgeType' /\ Sane(server')
<1> USE DEF RoomHostInv
<1>1. CASE UNCHANGED <<signature, bridgeVars>>
  BY <1>1, Types DEF BridgeType, bridgeVars, ServerInv
<1>2. CASE blockedByCleanup \/ duplicateOpen \/ sendServerCommand \/ statusRoom \/ createRoom
           \/ createRelay \/ openHostTunnel \/ createInvite \/ heartbeatHost \/ closeRoom
           \/ closeRelayTunnel \/ revokeInvite \/ orphanDies
  BY <1>1, <1>2 DEF blockedByCleanup, duplicateOpen, sendServerCommand, statusRoom, createRoom,
          createRelay, openHostTunnel, createInvite, heartbeatHost, closeRoom,
          closeRelayTunnel, revokeInvite, orphanDies
<1>3. CASE \E cmd \in Commands, requested \in Signatures : receive(cmd, requested)
  BY <1>3, <1>1, Types, NoServerIsSane DEF receive, replaceRuntime, BridgeType, LastStates
<1>4. CASE prepareRoom
  BY <1>4, Types DEF prepareRoom, at, rememberFailure, BridgeType, LastStates, ServerInv
<1>5. CASE openRoom
  <2>1. CASE manager' = TRUE /\ UNCHANGED <<lastState, lastFailure>>
    BY <1>5, <2>1, Types DEF openRoom, BridgeType, ServerInv
  <2>2. CASE rememberFailure("blocked") /\ UNCHANGED manager
    BY <1>5, <2>2, Types DEF openRoom, rememberFailure, BridgeType, LastStates, ServerInv
  <2> QED
    BY <1>5, <2>1, <2>2 DEF openRoom
<1>6. CASE startServer
  BY <1>6, Types, StartKeeps DEF startServer, at, bridgeAnswered, rememberFailure, BridgeType,
          LastStates, ServerInv
<1>7. CASE restartRoom
  BY <1>7, Types, StopHalts DEF restartRoom, at, BridgeType, LastStates, ServerInv
<1>8. CASE restartStopped
  BY <1>8, Types DEF restartStopped, at, bridgeAnswered, rememberFailure, BridgeType,
          LastStates, ServerInv
<1>9. CASE serverCommandSent
  BY <1>9, Types DEF serverCommandSent, at, BridgeType, LastStates, ServerInv, Server,
          ServerStates
<1>10. CASE stopServer
  BY <1>10, Types, StopHalts DEF stopServer, BridgeType, LastStates, ServerInv
<1>11. CASE failedClosed
  BY <1>11, Types DEF failedClosed, stopRemembered, rememberFailure, BridgeType, LastStates,
          ServerInv
<1>12. CASE roomClosed
  BY <1>12, Types DEF roomClosed, at, stopRemembered, rememberFailure, BridgeType, LastStates,
          ServerInv
<1>13. CASE resetRoom
  BY <1>13, RoomHostAssumption, NoServerIsSane DEF resetRoom, at, replaceRuntime, BridgeType,
          LastStates
<1>14. CASE serverHappens
  BY <1>14, Types, HappenedKeeps DEF serverHappens, BridgeType, ServerInv, NoServer
<1>15. CASE serverStops
  <2>1. server.stopping
    BY <1>15 DEF serverStops, StopEnded
  <2>2. manager
    BY <2>1, Types DEF BridgeType, NoServer
  <2> QED
    BY <1>15, <2>2, Types, EndKeeps DEF serverStops, BridgeType, ServerInv
<1>16. CASE hostKilled
  BY <1>16, RoomHostAssumption, NoServerIsSane DEF hostKilled, replaceRuntime, BridgeType,
          LastStates
<1> QED
  BY <1>1, <1>2, <1>3, <1>4, <1>5, <1>6, <1>7, <1>8, <1>9, <1>10, <1>11, <1>12, <1>13, <1>14, <1>15, <1>16
     DEF Next, Handle, vars, bridgeVars, roomVars, worldVars

\* The room.
LEMMA NextRoomType ==
  ASSUME RoomHostInv, [Next]_vars
  PROVE  RoomType'
<1> USE DEF RoomHostInv
<1>1. CASE UNCHANGED roomVars
  BY <1>1, Types DEF RoomType, roomVars
<1>2. CASE prepareRoom \/ blockedByCleanup \/ duplicateOpen \/ openRoom \/ startServer
           \/ restartRoom \/ restartStopped \/ sendServerCommand \/ serverCommandSent
           \/ statusRoom \/ heartbeatHost \/ closeRoom \/ stopServer \/ failedClosed
           \/ serverHappens \/ serverStops \/ orphanDies
  BY <1>1, <1>2 DEF prepareRoom, blockedByCleanup, duplicateOpen, openRoom, startServer,
          restartRoom, restartStopped, sendServerCommand, serverCommandSent, statusRoom,
          heartbeatHost, closeRoom, stopServer, failedClosed, serverHappens, serverStops,
          orphanDies
<1>3. CASE \E cmd \in Commands, requested \in Signatures : receive(cmd, requested)
  BY <1>3, <1>1, Types, NoRoomFields DEF receive, replaceRuntime, RoomType
<1>4. CASE createRoom
  BY <1>4, Types, RoomFields DEF createRoom, fresh, RoomType
<1>5. CASE createRelay
  BY <1>5, Types, RoomFields DEF createRelay, RoomType
<1>6. CASE openHostTunnel
  BY <1>6, Types, RoomFields DEF openHostTunnel, RoomType
<1>7. CASE createInvite
  BY <1>7, Types, RoomFields DEF createInvite, RoomType
<1>8. CASE closeRelayTunnel
  BY <1>8, Types DEF closeRelayTunnel, RoomType
<1>9. CASE revokeInvite
  BY <1>9, Types, RoomFields, NoRoomFields DEF revokeInvite, cleared, RoomType
<1>10. CASE roomClosed
  BY <1>10, Types, NoRoomFields DEF roomClosed, at, stopRemembered, rememberFailure, RoomType
<1>11. CASE resetRoom
  BY <1>11, NoRoomFields DEF resetRoom, at, replaceRuntime, RoomType
<1>12. CASE hostKilled
  BY <1>12, NoRoomFields DEF hostKilled, replaceRuntime, RoomType
<1> QED
  BY <1>1, <1>2, <1>3, <1>4, <1>5, <1>6, <1>7, <1>8, <1>9, <1>10, <1>11, <1>12
     DEF Next, Handle, vars, bridgeVars, roomVars, worldVars

\* The answer and the world.
LEMMA NextWorldType ==
  ASSUME RoomHostInv, [Next]_vars
  PROVE  WorldType'
<1> USE DEF RoomHostInv
<1>1. CASE UNCHANGED <<answer, worldVars>>
  BY <1>1, Types DEF WorldType, worldVars
<1>2. CASE restartRoom \/ createRoom \/ createRelay \/ closeRoom \/ stopServer
           \/ serverHappens \/ serverStops
  BY <1>1, <1>2 DEF restartRoom, createRoom, createRelay, closeRoom, stopServer, serverHappens,
          serverStops, worldVars
<1>3. CASE \E cmd \in Commands, requested \in Signatures : receive(cmd, requested)
  <2>1. PICK cmd \in Commands, requested \in Signatures : receive(cmd, requested)
    BY <1>3
  <2>2. answer'.link = None
    BY <2>1, ReceivedFrame
  <2>3. CASE replaceRuntime(requested)
    BY <2>2, <2>3, Types, OrphansAreCounted DEF WorldType
  <2>4. CASE UNCHANGED worldVars
    BY <2>2, <2>4, Types DEF WorldType, worldVars
  <2> QED
    BY <2>1, <2>3, <2>4, ReceivedFrame
<1>4. CASE prepareRoom
  BY <1>4, Types, ReplyFields, ActiveFields DEF prepareRoom, at, rememberFailure, WorldType,
          worldVars
<1>5. CASE blockedByCleanup
  BY <1>5, Types, ReplyFields DEF blockedByCleanup, at, WorldType, worldVars
<1>6. CASE duplicateOpen
  BY <1>6, Types, ReplyFields DEF duplicateOpen, at, WorldType, worldVars
<1>7. CASE openRoom
  BY <1>7, Types, ReplyFields DEF openRoom, at, bridgeAnswered, rememberFailure, WorldType,
          worldVars
<1>8. CASE startServer
  BY <1>8, Types, ReplyFields DEF startServer, at, bridgeAnswered, rememberFailure, WorldType,
          worldVars
<1>9. CASE restartStopped
  BY <1>9, Types, ReplyFields DEF restartStopped, at, bridgeAnswered, rememberFailure,
          WorldType, worldVars
<1>10. CASE sendServerCommand
  BY <1>10, Types, ReplyFields DEF sendServerCommand, at, WorldType, worldVars
<1>11. CASE serverCommandSent
  BY <1>11, Types, ReplyFields DEF serverCommandSent, at, WorldType, worldVars
<1>12. CASE statusRoom
  BY <1>12, Types, ReplyFields, ActiveFields DEF statusRoom, at, WorldType, worldVars
<1>13. CASE heartbeatHost
  BY <1>13, Types, ReplyFields, ActiveFields DEF heartbeatHost, WorldType, worldVars
<1>14. CASE revokeInvite
  BY <1>14, Types, ReplyFields DEF revokeInvite, cleared, WorldType, worldVars
<1>15. CASE failedClosed
  BY <1>15, Types, ReplyFields DEF failedClosed, stopRemembered, rememberFailure, WorldType,
          worldVars
<1>16. CASE roomClosed
  BY <1>16, Types, ReplyFields DEF roomClosed, at, stopRemembered, rememberFailure, WorldType,
          worldVars
<1>17. CASE openHostTunnel
  BY <1>17, Types DEF openHostTunnel, WorldType, LinkInv
<1>18. CASE createInvite
  BY <1>18, Types DEF createInvite, WorldType, LinkInv
<1>19. CASE closeRelayTunnel
  BY <1>19, Types DEF closeRelayTunnel, WorldType, LinkInv
<1>20. CASE orphanDies
  BY <1>20, Types, RoomHostAssumption DEF orphanDies, WorldType
<1>21. CASE resetRoom
  BY <1>21, Types, OrphansAreCounted, ReplyFields DEF resetRoom, WorldType
<1>22. CASE hostKilled
  BY <1>22, Types, OrphansAreCounted, NoAnswerFields DEF hostKilled, WorldType
<1> QED
  BY <1>1, <1>2, <1>3, <1>4, <1>5, <1>6, <1>7, <1>8, <1>9, <1>10, <1>11, <1>12, <1>13, <1>14, <1>15, <1>16, <1>17, <1>18, <1>19, <1>20, <1>21, <1>22
     DEF Next, Handle, vars, bridgeVars, roomVars, worldVars

\* The server at the awaits.
LEMMA NextServerInv ==
  ASSUME RoomHostInv, [Next]_vars
  PROVE  ServerInv'
<1> USE DEF RoomHostInv
<1>1. CASE UNCHANGED <<frame, server, manager>>
  BY <1>1 DEF ServerInv
<1>2. CASE sendServerCommand \/ createRoom \/ createRelay \/ openHostTunnel \/ createInvite
           \/ heartbeatHost \/ closeRoom \/ closeRelayTunnel \/ revokeInvite \/ orphanDies
  BY <1>1, <1>2 , GotoFrame, FailFrame, ReplyFields, IdleFrame DEF sendServerCommand,
          createRoom, createRelay, openHostTunnel, createInvite, heartbeatHost, closeRoom,
          closeRelayTunnel, revokeInvite, orphanDies, ServerInv, FrameInv, Places, at,
          bridgeVars
<1>3. CASE \E cmd \in Commands, requested \in Signatures : receive(cmd, requested)
  <2>1. PICK cmd \in Commands, requested \in Signatures : receive(cmd, requested)
    BY <1>3
  <2>2. CASE UNCHANGED <<server, manager>>
    BY <2>1, <2>2, NextBridge, ReceivedFrame DEF ServerInv
  <2>3. CASE replaceRuntime(requested)
    BY <2>1, <2>3, NextBridge, ReceivedFrame, IdleFrame DEF ServerInv
  <2> QED
    BY <2>1, <2>2, <2>3, ReceivedFrame DEF bridgeVars
<1>4. CASE prepareRoom
  BY <1>4, NextBridge, ReplyFields, IdleFrame DEF prepareRoom, at, rememberFailure, ServerInv
<1>5. CASE blockedByCleanup
  BY <1>5, NextBridge, ReplyFields, IdleFrame DEF blockedByCleanup, at, ServerInv
<1>6. CASE duplicateOpen
  BY <1>6, NextBridge, ReplyFields, IdleFrame DEF duplicateOpen, at, ServerInv
<1>7. CASE serverCommandSent
  BY <1>7, NextBridge, ReplyFields, IdleFrame DEF serverCommandSent, at, ServerInv
<1>8. CASE failedClosed
  BY <1>8, NextBridge, ReplyFields, IdleFrame DEF failedClosed, stopRemembered,
          rememberFailure, ServerInv
<1>9. CASE roomClosed
  BY <1>9, NextBridge, ReplyFields, IdleFrame DEF roomClosed, at, stopRemembered,
          rememberFailure, ServerInv
<1>10. CASE resetRoom
  BY <1>10, NextBridge, ReplyFields, IdleFrame DEF resetRoom, at, replaceRuntime, ServerInv
<1>11. CASE openRoom
  BY <1>11, NextBridge, ReplyFields, GotoFrame, DtoFrame, IdleFrame DEF openRoom, at,
          bridgeAnswered, rememberFailure, ServerInv, FrameInv, Places, ServerStates
<1>12. CASE restartStopped
  BY <1>12, NextBridge, ReplyFields, GotoFrame, DtoFrame, IdleFrame DEF restartStopped, at,
          bridgeAnswered, rememberFailure, ServerInv, FrameInv, Places, ServerStates
<1>13. CASE startServer
  <2>1. lastState' \in {"starting", "failed", "blocked"}
    BY <1>13 DEF startServer, rememberFailure
  <2>2. \/ frame' = [frame EXCEPT !.at = "closeRelay", !.dto = lastState']
        \/ frame' = Idle
    BY <1>13, ReplyFields DEF startServer, bridgeAnswered
  <2> QED
    BY <2>1, <2>2, NextBridge, DtoFrame, IdleFrame DEF ServerInv, FrameInv, Places, ServerStates
<1>14. CASE restartRoom
  BY <1>14, NextBridge, StopHalts, DtoFrame, Types DEF restartRoom, at, ServerInv, FrameInv,
          Places, BridgeType
<1>15. CASE stopServer
  <2>1. frame'.at = "stopped" /\ frame'.cmd = frame.cmd
    BY <1>15, GotoFrame DEF stopServer, FrameInv, Places
  <2>2. Halted(server')
    BY <1>15, StopHalts, NoServerIsSane, Types DEF stopServer, ServerInv, BridgeType
  <2>3. frame.cmd # "restart" \/ manager'
    BY <1>15 DEF stopServer, FrameInv
  <2> QED
    BY <2>1, <2>2, <2>3, NextBridge DEF ServerInv
<1>16. CASE statusRoom
  BY <1>16, NextBridge, ReplyFields, DtoFrame, IdleFrame DEF statusRoom, at, ServerInv,
          FrameInv, Places, ServerStates
<1>17. CASE serverHappens
  BY <1>17, NextBridge, HappenedKeeps, Types DEF serverHappens, ServerInv, BridgeType
<1>18. CASE serverStops
  BY <1>18, NextBridge, EndKeeps, Types DEF serverStops, ServerInv, BridgeType
<1>19. CASE hostKilled
  BY <1>19, NextBridge, NoServerIsSane, IdleFrame DEF hostKilled, replaceRuntime, ServerInv
<1> QED
  BY <1>1, <1>2, <1>3, <1>4, <1>5, <1>6, <1>7, <1>8, <1>9, <1>10, <1>11, <1>12, <1>13, <1>14, <1>15, <1>16, <1>17, <1>18, <1>19
     DEF Next, Handle, vars, bridgeVars, roomVars, worldVars

\* The link of the room.
LEMMA NextLinkInv ==
  ASSUME RoomHostInv, [Next]_vars
  PROVE  LinkInv'
<1> USE DEF RoomHostInv
<1>1. CASE UNCHANGED <<active, tunnels, invites, answer, frame>>
  BY <1>1 DEF LinkInv
<1>2. CASE serverHappens \/ serverStops \/ orphanDies
  BY <1>1, <1>2 DEF serverHappens, serverStops, orphanDies, roomVars, worldVars
<1>3. CASE \E cmd \in Commands, requested \in Signatures : receive(cmd, requested)
  <2>1. PICK cmd \in Commands, requested \in Signatures : receive(cmd, requested)
    BY <1>3
  <2>2. frame'.at \notin {"relay", "tunnel", "invite", "heartbeat", "revoke"}
    BY <2>1, ReceivedFrame, IdleFrame
  <2>3. CASE UNCHANGED <<roomVars, worldVars>>
    BY <2>1, <2>2, <2>3, ReceivedFrame, IdleFrame DEF LinkInv, roomVars, worldVars
  <2>4. CASE replaceRuntime(requested)
    BY <2>1, <2>2, <2>4, ReceivedFrame, NoRoomFields DEF LinkInv, replaceRuntime
  <2> QED
    BY <2>1, <2>3, <2>4, ReceivedFrame
<1>4. CASE blockedByCleanup
  BY <1>4, NextFrameInv, ReplyFields, IdleFrame DEF blockedByCleanup, at, LinkInv, FrameInv,
          Places, roomVars, worldVars, ServerStates
<1>5. CASE duplicateOpen
  BY <1>5, NextFrameInv, ReplyFields, IdleFrame DEF duplicateOpen, at, LinkInv, FrameInv,
          Places, roomVars, worldVars, ServerStates
<1>6. CASE restartStopped
  BY <1>6, NextFrameInv, ReplyFields, IdleFrame, GotoFrame, DtoFrame DEF restartStopped, at,
          bridgeAnswered, rememberFailure, LinkInv, FrameInv, Places, roomVars, worldVars,
          ServerStates
<1>7. CASE sendServerCommand
  BY <1>7, NextFrameInv, ReplyFields, IdleFrame, GotoFrame DEF sendServerCommand, at, LinkInv,
          FrameInv, Places, roomVars, worldVars, ServerStates
<1>8. CASE serverCommandSent
  BY <1>8, NextFrameInv, ReplyFields, IdleFrame DEF serverCommandSent, at, LinkInv, FrameInv,
          Places, roomVars, worldVars, ServerStates
<1>9. CASE openRoom
  BY <1>9, NextFrameInv, ReplyFields, IdleFrame, GotoFrame, DtoFrame DEF openRoom, at,
          bridgeAnswered, rememberFailure, LinkInv, FrameInv, Places, roomVars, worldVars,
          ServerStates
<1>10. CASE failedClosed
  BY <1>10, NextFrameInv, ReplyFields, IdleFrame DEF failedClosed, stopRemembered,
          rememberFailure, LinkInv, FrameInv, Places, roomVars, worldVars, ServerStates
<1>11. CASE restartRoom
  BY <1>11, NextFrameInv, ReplyFields, IdleFrame, DtoFrame DEF restartRoom, at, LinkInv,
          FrameInv, Places, roomVars, worldVars, ServerStates
<1>12. CASE startServer
  <2>1. lastState' \in {"starting", "failed", "blocked"}
    BY <1>12 DEF startServer, rememberFailure
  <2>2. \/ frame' = [frame EXCEPT !.at = "closeRelay", !.dto = lastState'] /\ UNCHANGED answer
        \/ frame' = Idle /\ answer'.link = None
    BY <1>12, ReplyFields DEF startServer, bridgeAnswered
  <2>3. UNCHANGED <<active, tunnels, invites>>
    BY <1>12 DEF startServer, roomVars, worldVars
  <2>4. frame'.at \in {"closeRelay", "idle"} /\ frame.at = "start"
    BY <1>12, <2>1, <2>2, DtoFrame, IdleFrame DEF startServer, at, FrameInv, Places, ServerStates
  <2> QED
    BY <2>2, <2>3, <2>4 DEF LinkInv
<1>13. CASE prepareRoom
  BY <1>13, ReplyFields, IdleFrame DEF prepareRoom, at, rememberFailure, LinkInv, roomVars,
          worldVars
<1>14. CASE statusRoom
  BY <1>14, ReplyFields, DtoFrame, IdleFrame DEF statusRoom, at, LinkInv, roomVars, worldVars,
          FrameInv, Places, ServerStates
<1>15. CASE createRoom
  BY <1>15, GotoFrame, FailFrame, RoomFields, Types DEF createRoom, fresh, LinkInv, FrameInv,
          Places, RoomType, worldVars
<1>16. CASE createRelay
  BY <1>16, GotoFrame, FailFrame, RoomFields, Types DEF createRelay, LinkInv, FrameInv, Places,
          RoomType, worldVars
<1>17. CASE openHostTunnel
  BY <1>17, GotoFrame, FailFrame, RoomFields, Types DEF openHostTunnel, LinkInv, FrameInv,
          Places, RoomType, worldVars
<1>18. CASE createInvite
  BY <1>18, GotoFrame, FailFrame, RoomFields, Types DEF createInvite, LinkInv, FrameInv,
          Places, RoomType, worldVars
<1>19. CASE heartbeatHost
  BY <1>19, FailFrame, ReplyFields, IdleFrame DEF heartbeatHost, LinkInv, FrameInv, Places,
          roomVars, worldVars
<1>20. CASE closeRoom
  BY <1>20, GotoFrame DEF closeRoom, at, LinkInv, FrameInv, Places, roomVars, worldVars
<1>21. CASE closeRelayTunnel
  BY <1>21, GotoFrame DEF closeRelayTunnel, LinkInv, FrameInv, Places, NoAnswer
<1>22. CASE revokeInvite
  <2>1. frame'.at \in {"stop", "idle"}
    BY <1>22, GotoFrame, ReplyFields, IdleFrame DEF revokeInvite, FrameInv, Places
  <2>2. answer'.link = None
    BY <1>22, ReplyFields, NoAnswerFields DEF revokeInvite, FrameInv
  <2>3. active'.link = None
    BY <1>22, RevokedLink, Types DEF revokeInvite
  <2> QED
    BY <2>1, <2>2, <2>3 DEF LinkInv
<1>23. CASE stopServer
  BY <1>23, GotoFrame DEF stopServer, LinkInv, FrameInv, Places, roomVars, worldVars
<1>24. CASE roomClosed
  BY <1>24, ReplyFields, IdleFrame, NoRoomFields DEF roomClosed, at, stopRemembered,
          rememberFailure, LinkInv, worldVars
<1>25. CASE resetRoom
  BY <1>25, ReplyFields, IdleFrame, NoRoomFields DEF resetRoom, at, replaceRuntime, LinkInv
<1>26. CASE hostKilled
  BY <1>26, NoAnswerFields, IdleFrame, NoRoomFields DEF hostKilled, replaceRuntime, LinkInv
<1> QED
  BY <1>1, <1>2, <1>3, <1>4, <1>5, <1>6, <1>7, <1>8, <1>9, <1>10, <1>11, <1>12, <1>13, <1>14, <1>15, <1>16, <1>17, <1>18, <1>19, <1>20, <1>21, <1>22, <1>23, <1>24, <1>25, <1>26
     DEF Next, Handle, vars, bridgeVars, roomVars, worldVars

\* The tunnel of the room.
LEMMA NextTunnelInv ==
  ASSUME RoomHostInv, [Next]_vars
  PROVE  TunnelInv'
<1> USE DEF RoomHostInv
<1>1. CASE UNCHANGED <<active, relay, cleanupPending, tunnels, frame>>
  BY <1>1 DEF TunnelInv, closing
<1>2. CASE serverHappens \/ serverStops \/ orphanDies
  BY <1>1, <1>2 DEF serverHappens, serverStops, orphanDies, roomVars, worldVars
<1>3. CASE \E cmd \in Commands, requested \in Signatures : receive(cmd, requested)
  <2>1. PICK cmd \in Commands, requested \in Signatures : receive(cmd, requested)
    BY <1>3
  <2>2. frame' = frame \/ (frame'.at = "begin" /\ frame.at = "idle")
    BY <2>1, ReceivedFrame, IdleFrame
  <2>3. CASE UNCHANGED <<roomVars, worldVars>>
    BY <2>2, <2>3 DEF TunnelInv, closing, roomVars, worldVars
  <2>4. CASE replaceRuntime(requested)
    <3>1. active'.tunnel = None /\ active'.link = None /\ None \notin tunnels'
      BY <2>4, Types, NoRoomFields, RoomHostAssumption DEF replaceRuntime, WorldType
    <3>2. frame'.at \in {"begin", "idle"}
      BY <2>1, ReceivedFrame, IdleFrame
    <3> QED
      BY <3>1, <3>2 DEF TunnelInv
  <2>5. replaceRuntime(requested) \/ UNCHANGED <<roomVars, worldVars>>
    BY <2>1, ReceivedFrame
  <2> QED
    BY <2>3, <2>4, <2>5
<1>4. CASE blockedByCleanup
  BY <1>4, ReplyFields, IdleFrame DEF blockedByCleanup, at, TunnelInv, closing, FrameInv,
          Places, roomVars, worldVars, ServerStates
<1>5. CASE duplicateOpen
  BY <1>5, ReplyFields, IdleFrame DEF duplicateOpen, at, TunnelInv, closing, FrameInv, Places,
          roomVars, worldVars, ServerStates
<1>6. CASE restartStopped
  BY <1>6, ReplyFields, IdleFrame, GotoFrame, DtoFrame DEF restartStopped, at, bridgeAnswered,
          rememberFailure, TunnelInv, closing, FrameInv, Places, roomVars, worldVars,
          ServerStates
<1>7. CASE sendServerCommand
  BY <1>7, ReplyFields, IdleFrame, GotoFrame DEF sendServerCommand, at, TunnelInv, closing,
          FrameInv, Places, roomVars, worldVars, ServerStates
<1>8. CASE serverCommandSent
  BY <1>8, ReplyFields, IdleFrame DEF serverCommandSent, at, TunnelInv, closing, FrameInv,
          Places, roomVars, worldVars, ServerStates
<1>9. CASE openRoom
  BY <1>9, ReplyFields, IdleFrame, GotoFrame, DtoFrame DEF openRoom, at, bridgeAnswered,
          rememberFailure, TunnelInv, closing, FrameInv, Places, roomVars, worldVars,
          ServerStates
<1>10. CASE failedClosed
  BY <1>10, ReplyFields, IdleFrame DEF failedClosed, stopRemembered, rememberFailure,
          TunnelInv, closing, FrameInv, Places, roomVars, worldVars, ServerStates
<1>11. CASE restartRoom
  BY <1>11, ReplyFields, IdleFrame, DtoFrame DEF restartRoom, at, TunnelInv, closing, FrameInv,
          Places, roomVars, worldVars, ServerStates
<1>12. CASE prepareRoom
  BY <1>12, ReplyFields, IdleFrame DEF prepareRoom, at, rememberFailure, TunnelInv, closing,
          FrameInv, Places, roomVars, worldVars, ServerStates
<1>13. CASE heartbeatHost
  BY <1>13, FailFrame, ReplyFields, IdleFrame DEF heartbeatHost, TunnelInv, closing, FrameInv,
          Places, roomVars, worldVars
<1>14. CASE startServer
  <2>1. lastState' \in {"starting", "failed", "blocked"}
    BY <1>14 DEF startServer, rememberFailure
  <2>2. \/ frame' = [frame EXCEPT !.at = "closeRelay", !.dto = lastState']
        \/ frame' = Idle
    BY <1>14, ReplyFields DEF startServer, bridgeAnswered
  <2>3. UNCHANGED <<active, relay, cleanupPending, tunnels>>
    BY <1>14 DEF startServer, roomVars, worldVars
  <2>4. frame'.at \in {"closeRelay", "idle"} /\ frame.at = "start"
    BY <1>14, <2>1, <2>2, DtoFrame, IdleFrame DEF startServer, at, FrameInv, Places, ServerStates
  <2> QED
    BY <2>3, <2>4 DEF TunnelInv, closing
<1>15. CASE statusRoom
  BY <1>15, ReplyFields, DtoFrame, IdleFrame DEF statusRoom, at, TunnelInv, closing, roomVars,
          worldVars, FrameInv, Places, ServerStates
<1>16. CASE createRoom
  BY <1>16, GotoFrame, FailFrame, RoomFields, Types, RoomHostAssumption DEF createRoom, fresh,
          TunnelInv, closing, FrameInv, Places, RoomType, worldVars
<1>17. CASE createRelay
  BY <1>17, GotoFrame, FailFrame, RoomFields, Types, RoomHostAssumption DEF createRelay,
          TunnelInv, closing, LinkInv, FrameInv, Places, RoomType, worldVars
<1>18. CASE openHostTunnel
  BY <1>18, GotoFrame, FailFrame, RoomFields, Types, RoomHostAssumption DEF openHostTunnel,
          TunnelInv, closing, LinkInv, FrameInv, Places, RoomType, worldVars
<1>19. CASE createInvite
  BY <1>19, GotoFrame, FailFrame, RoomFields, Types, RoomHostAssumption DEF createInvite,
          TunnelInv, closing, LinkInv, FrameInv, Places, RoomType, worldVars
<1>20. CASE closeRoom
  BY <1>20, GotoFrame DEF closeRoom, at, TunnelInv, closing, FrameInv, Places, roomVars,
          worldVars
<1>21. CASE closeRelayTunnel
  <2>1. frame'.at = "revoke" /\ UNCHANGED <<active, cleanupPending>>
    BY <1>21, GotoFrame DEF closeRelayTunnel, FrameInv, Places
  <2>2. ASSUME relay' = "closed"
        PROVE  active.tunnel \notin tunnels'
    <3>1. CASE active.tunnel = None
      BY <1>21, <3>1, Types, RoomHostAssumption DEF closeRelayTunnel, WorldType
    <3>2. CASE active.tunnel # None
      BY <1>21, <2>2, <3>2 DEF closeRelayTunnel, closable, TunnelInv
    <3> QED
      BY <3>1, <3>2
  <2> QED
    BY <2>1, <2>2 DEF TunnelInv
<1>22. CASE revokeInvite
  <2>1. /\ frame.at = "revoke"
        /\ \/ /\ frame'.at = "stop" /\ frame'.cmd = frame.cmd
              /\ frame'.failed <=> frame.failed
           \/ frame'.at = "idle" /\ frame.cmd = "restart"
    BY <1>22, GotoFrame, ReplyFields, IdleFrame DEF revokeInvite, FrameInv, Places
  <2>2. /\ active'.link = None
        /\ \/ active' = NoRoom
           \/ /\ active'.room = active.room /\ active'.relay = active.relay
              /\ active'.tunnel = active.tunnel
    BY <1>22, RevokedLink, Types DEF revokeInvite
  <2>3. None \notin tunnels
    BY Types, RoomHostAssumption DEF WorldType
  <2>4. /\ UNCHANGED <<relay, tunnels>>
        /\ frame.cmd \notin {"close", "reset"} =>
              /\ cleanupPending' = (relay # "closed")
              /\ relay = "closed" => active' = NoRoom
    BY <1>22 DEF revokeInvite, cleared
  <2>5. active'.tunnel \in tunnels => relay # "closed"
    BY <2>1, <2>2, <2>3, NoRoomFields, <1>22 DEF TunnelInv, revokeInvite
  <2>6. frame.cmd \notin {"close", "reset"} => (active'.tunnel \in tunnels => cleanupPending')
    BY <2>4, <2>5
  <2>7. active'.tunnel # None => active'.relay # None /\ active'.room # None
    BY <2>2, NoRoomFields DEF TunnelInv
  <2> QED
    BY <2>1, <2>2, <2>4, <2>5, <2>6, <2>7 DEF TunnelInv, closing
<1>23. CASE stopServer
  BY <1>23, GotoFrame DEF stopServer, TunnelInv, closing, FrameInv, Places, roomVars, worldVars
<1>24. CASE roomClosed
  BY <1>24, ReplyFields, IdleFrame, NoRoomFields, RoomHostAssumption, Types DEF roomClosed, at,
          stopRemembered, rememberFailure, TunnelInv, closing, worldVars, WorldType
<1>25. CASE resetRoom
  BY <1>25, ReplyFields, IdleFrame, NoRoomFields, RoomHostAssumption, Types DEF resetRoom, at,
          replaceRuntime, TunnelInv, closing, WorldType
<1>26. CASE hostKilled
  BY <1>26, IdleFrame, NoRoomFields, RoomHostAssumption, Types DEF hostKilled, replaceRuntime,
          TunnelInv, closing, WorldType
<1> QED
  BY <1>1, <1>2, <1>3, <1>4, <1>5, <1>6, <1>7, <1>8, <1>9, <1>10, <1>11, <1>12, <1>13, <1>14, <1>15, <1>16, <1>17, <1>18, <1>19, <1>20, <1>21, <1>22, <1>23, <1>24, <1>25, <1>26
     DEF Next, Handle, vars, bridgeVars, roomVars, worldVars

\* Every step of every handler, and of the server and the world meanwhile.
LEMMA NextRoomHostInv == RoomHostInv /\ [Next]_vars => RoomHostInv'
<1> SUFFICES ASSUME RoomHostInv, [Next]_vars
             PROVE  RoomHostInv'
  OBVIOUS
<1>1. FrameInv' /\ frame'.cmd \in Commands \cup {"none"}
  BY NextFrameInv DEF FrameInv, Frame
<1>2. TypeOK'
  BY <1>1, NextBridge, NextRoomType, NextWorldType
     DEF TypeOK, BridgeType, RoomType, WorldType, LastStates
<1> QED
  BY <1>1, <1>2, NextServerInv, NextLinkInv, NextTunnelInv DEF RoomHostInv

\* At every await, what the earlier awaits of the handler left holds.
THEOREM RoomHostInvariant == Spec => []RoomHostInv
BY InitRoomHostInv, NextRoomHostInv, PTL DEF Spec

-----------------------------------------------------------------------------
(* What users and the shell are promised.                                  *)

\* An invite link is only answered while its invite is live and its tunnel open,
\* and both still are when the next command comes.
THEOREM AnsweredLinksAreUsable == Spec => []UsableLinks
<1>1. RoomHostInv => UsableLinks
  BY DEF RoomHostInv, LinkInv, UsableLinks
<1> QED
  BY <1>1, RoomHostInvariant, PTL

\* A frame that fails closed is only answered by failedClosed.
LEMMA FailStep ==
  ASSUME RoomHostInv, [Next]_vars
  PROVE  Answered /\ frame.failed =>
            /\ ~isOpenState(server.state)
            /\ answer'.link = None
            /\ active'.tunnel \in tunnels => cleanupPending'
<1> USE DEF RoomHostInv
<1>1. CASE UNCHANGED frame \/ frame.at \notin {"closeRelay", "revoke", "stop", "stopped"} \/ answer' = NoAnswer
  BY <1>1 DEF Answered, FrameInv
<1>2. CASE prepareRoom \/ blockedByCleanup \/ duplicateOpen \/ openRoom \/ startServer
           \/ restartRoom \/ sendServerCommand \/ serverCommandSent \/ statusRoom
           \/ createRoom \/ createRelay \/ openHostTunnel \/ createInvite \/ heartbeatHost
           \/ closeRoom \/ serverHappens \/ serverStops \/ orphanDies \/ hostKilled
  BY <1>1, <1>2 DEF prepareRoom, blockedByCleanup, duplicateOpen, openRoom, startServer,
          restartRoom, sendServerCommand, serverCommandSent, statusRoom, createRoom,
          createRelay, openHostTunnel, createInvite, heartbeatHost, closeRoom, serverHappens,
          serverStops, orphanDies, hostKilled, at
<1>3. CASE \E cmd \in Commands, requested \in Signatures : receive(cmd, requested)
  BY <1>3, ReceivedFrame, IdleFrame DEF Answered
<1>4. CASE closeRelayTunnel
  BY <1>4, GotoFrame, IdleFrame DEF closeRelayTunnel, Answered, FrameInv, Places
<1>5. CASE stopServer
  BY <1>5, GotoFrame, IdleFrame DEF stopServer, Answered, FrameInv, Places
<1>6. CASE revokeInvite
  BY <1>6, GotoFrame, IdleFrame DEF revokeInvite, cleared, Answered, FrameInv, Places
<1>7. CASE restartStopped
  BY <1>7, Types DEF restartStopped, at, bridgeAnswered, rememberFailure
<1>8. CASE roomClosed
  BY <1>8, Types DEF roomClosed, at, stopRemembered, rememberFailure, FrameInv
<1>9. CASE resetRoom
  BY <1>9, Types DEF resetRoom, at, replaceRuntime, FrameInv
<1>10. CASE failedClosed
  <2>1. /\ frame.at = "stopped" /\ frame.failed /\ ~server.stopping
        /\ UNCHANGED <<active, cleanupPending>>
    BY <1>10 DEF failedClosed, roomVars
  <2>2. answer'.link = None
    BY <1>10, ReplyFields DEF failedClosed
  <2>3. ~isOpenState(server.state)
    BY <2>1 DEF ServerInv, Halted, isOpenState
  <2>4. active.tunnel \in tunnels => cleanupPending
    BY <2>1 DEF TunnelInv, FrameInv, closing
  <2> QED
    BY <2>1, <2>2, <2>3, <2>4
<1> QED
  BY <1>1, <1>2, <1>3, <1>4, <1>5, <1>6, <1>7, <1>8, <1>9, <1>10
     DEF Next, Handle, vars, bridgeVars, roomVars, worldVars

\* A room that fails halfway is answered with its server no longer open, without a
\* link, and with its tunnel closed or its cleanup pending (provisionOpenRoom).
THEOREM RoomsFailClosed == Spec => FailsClosed
<1>1. RoomHostInv /\ [Next]_vars =>
        [Answered /\ frame.failed =>
            /\ ~isOpenState(server.state)
            /\ answer'.link = None
            /\ active'.tunnel \in tunnels => cleanupPending']_vars
  BY FailStep
<1> QED
  BY <1>1, RoomHostInvariant, PTL DEF Spec, FailsClosed

\* Only openHostTunnel and a new runtime let go of an open tunnel.
LEMMA KeepStep ==
  ASSUME RoomHostInv, [Next]_vars
  PROVE  \A t \in tunnels \cap tunnels' :
            active.tunnel = t /\ active'.tunnel # t =>
              \/ \E s \in Signatures : replaceRuntime(s)
              \/ frame.at = "tunnel" /\ cleanupPending
<1> USE DEF RoomHostInv
<1>1. CASE active'.tunnel = active.tunnel
  BY <1>1
<1>2. CASE prepareRoom \/ blockedByCleanup \/ duplicateOpen \/ openRoom \/ startServer
           \/ restartRoom \/ restartStopped \/ sendServerCommand \/ serverCommandSent
           \/ statusRoom \/ heartbeatHost \/ closeRoom \/ closeRelayTunnel \/ stopServer
           \/ failedClosed \/ serverHappens \/ serverStops \/ orphanDies
  BY <1>1, <1>2 DEF prepareRoom, blockedByCleanup, duplicateOpen, openRoom, startServer,
          restartRoom, restartStopped, sendServerCommand, serverCommandSent, statusRoom,
          heartbeatHost, closeRoom, closeRelayTunnel, stopServer, failedClosed, serverHappens,
          serverStops, orphanDies, roomVars
<1>3. CASE \E cmd \in Commands, requested \in Signatures : receive(cmd, requested)
  BY <1>1, <1>3, ReceivedFrame DEF roomVars
<1>4. CASE createRoom
  BY <1>4, <1>1, RoomFields, Types DEF createRoom, fresh, RoomType
<1>5. CASE createRelay
  BY <1>5, <1>1, RoomFields, Types DEF createRelay, RoomType
<1>6. CASE createInvite
  BY <1>6, <1>1, RoomFields, Types DEF createInvite, RoomType
<1>7. CASE openHostTunnel
  BY <1>7, <1>1 DEF openHostTunnel, TunnelInv, closing
<1>8. CASE revokeInvite
  <2>1. active'.tunnel = active.tunnel \/ active' = NoRoom
    BY <1>8, RevokedLink, Types DEF revokeInvite
  <2>2. active' = NoRoom => relay = "closed" \/ active'.tunnel = active.tunnel
    BY <1>8, RoomFields, Types DEF revokeInvite, cleared, RoomType
  <2>3. relay = "closed" => active.tunnel \notin tunnels
    BY <1>8 DEF revokeInvite, TunnelInv
  <2> QED
    BY <2>1, <2>2, <2>3
<1>9. CASE roomClosed
  BY <1>9, <1>1 DEF roomClosed, at, stopRemembered, rememberFailure, TunnelInv, closing
<1>10. CASE resetRoom
  <2>1. replaceRuntime(DefaultSignature) /\ DefaultSignature \in Signatures
    BY <1>10, RoomHostAssumption DEF resetRoom
  <2> QED
    BY <2>1
<1>11. CASE hostKilled
  <2>1. replaceRuntime(DefaultSignature) /\ DefaultSignature \in Signatures
    BY <1>11, RoomHostAssumption DEF hostKilled
  <2> QED
    BY <2>1
<1> QED
  BY <1>1, <1>2, <1>3, <1>4, <1>5, <1>6, <1>7, <1>8, <1>9, <1>10, <1>11
     DEF Next, Handle, vars, bridgeVars, roomVars, worldVars

\* The controller lets go of an open tunnel only with its whole runtime, or when
\* a status poll gives a restarted server a new room while the old one's cleanup
\* is pending.
THEOREM TunnelsAreNotForgotten == Spec => TunnelsAreKept
<1>1. RoomHostInv /\ [Next]_vars =>
        [\A t \in tunnels \cap tunnels' :
            active.tunnel = t /\ active'.tunnel # t =>
              \/ \E s \in Signatures : replaceRuntime(s)
              \/ frame.at = "tunnel" /\ cleanupPending]_vars
  BY KeepStep
<1> QED
  BY <1>1, RoomHostInvariant, PTL DEF Spec, TunnelsAreKept

\* Only commands that find a runtime not busy replace it.
LEMMA OrphanStep ==
  ASSUME RoomHostInv, [Next]_vars
  PROVE  orphans' > orphans => hostKilled \/ server.state \in {"crashed", "failed"}
<1> USE DEF RoomHostInv
<1>1. CASE orphans' = orphans
  BY <1>1, Types, RoomHostAssumption DEF WorldType
<1>2. CASE prepareRoom \/ blockedByCleanup \/ duplicateOpen \/ openRoom \/ startServer
           \/ restartRoom \/ restartStopped \/ sendServerCommand \/ serverCommandSent
           \/ statusRoom \/ createRoom \/ createRelay \/ openHostTunnel \/ createInvite
           \/ heartbeatHost \/ closeRoom \/ closeRelayTunnel \/ revokeInvite \/ stopServer
           \/ failedClosed \/ roomClosed \/ serverHappens \/ serverStops
  BY <1>1, <1>2 DEF prepareRoom, blockedByCleanup, duplicateOpen, openRoom, startServer,
          restartRoom, restartStopped, sendServerCommand, serverCommandSent, statusRoom,
          createRoom, createRelay, openHostTunnel, createInvite, heartbeatHost, closeRoom,
          closeRelayTunnel, revokeInvite, stopServer, failedClosed, roomClosed, serverHappens,
          serverStops, worldVars
<1>3. CASE \E cmd \in Commands, requested \in Signatures : receive(cmd, requested)
  <2>1. PICK cmd \in Commands, requested \in Signatures : receive(cmd, requested)
    BY <1>3
  <2>2. CASE UNCHANGED worldVars
    BY <1>1, <2>2 DEF worldVars
  <2>3. CASE replaceRuntime(requested) /\ ~isBusy(statusState)
    <3>1. SUFFICES ASSUME orphans' > orphans
                   PROVE  server.state \in {"crashed", "failed"}
      OBVIOUS
    <3>2. server.alive
      BY <2>3, <3>1, OrphansAreCounted, Types
    <3>3. manager /\ server.state \in ServerStates /\ server.state # "stopped"
      BY <3>2, Types DEF BridgeType, ServerInv, Sane, NoServer, Server
    <3> QED
      BY <2>3, <3>3 DEF statusState, isBusy, ServerStates
  <2> QED
    BY <2>1, <2>2, <2>3 DEF receive
<1>4. CASE resetRoom
  <2>1. SUFFICES ASSUME orphans' > orphans
                 PROVE  server.state \in {"crashed", "failed"}
    OBVIOUS
  <2>2. server.alive
    BY <1>4, <2>1, OrphansAreCounted, Types DEF resetRoom
  <2>3. server.state \in ServerStates /\ server.state # "stopped"
    BY <2>2, Types DEF BridgeType, ServerInv, Sane, Server
  <2>4. server.state \notin {"starting", "running", "stopping"}
    BY <1>4 DEF resetRoom, at, ServerInv, Halted
  <2> QED
    BY <2>3, <2>4 DEF ServerStates
<1>5. CASE orphanDies
  BY <1>5, Types, RoomHostAssumption DEF orphanDies, WorldType
<1>6. CASE hostKilled
  BY <1>6
<1> QED
  BY <1>1, <1>2, <1>3, <1>4, <1>5, <1>6
     DEF Next, Handle, vars, bridgeVars, roomVars, worldVars

\* No command leaves a server behind that is starting, running or stopping: a
\* command that replaces the runtime has read that it is not (isBusy, the end of
\* the stop of resetRoom), and a stopped server is not alive.
THEOREM LiveServersAreNotReplaced == Spec => OnlyFailedServersAreOrphaned
<1>1. RoomHostInv /\ [Next]_vars =>
        [orphans' > orphans => hostKilled \/ server.state \in {"crashed", "failed"}]_vars
  BY OrphanStep
<1> QED
  BY <1>1, RoomHostInvariant, PTL DEF Spec, OnlyFailedServersAreOrphaned
=============================================================================
