---------------------------- MODULE HttpBoundary ----------------------------
(***************************************************************************)
(* The HTTP boundary over the control plane: its handlers hide invite and  *)
(* session ids behind random handles, and remember for every join request  *)
(* the room, invite and identity it was made with, so that the service     *)
(* that asks for a session names only the request.                         *)
(*                                                                         *)
(* Source: services/control-plane/src/http/handlers.mjs.  Each handler     *)
(* runs to completion without an await, so each is one action that makes   *)
(* its simulation call and updates its own map.  A refused request (4xx)   *)
(* changes nothing.                                                        *)
(***************************************************************************)
EXTENDS ControlPlane

CONSTANTS
  ActorTypes,       (* values of x-actor-type, "service" among them        *)
  InviteHandles, SessionHandles    (* randomUUID pools                     *)

ASSUME ActorTypeAssumption == "service" \in ActorTypes

VARIABLES
  inviteHandles,    (* Map inviteHandle -> { inviteId, roomId }            *)
  requestBindings,  (* Map requestId -> { roomId, inviteId, minecraftUuid } *)
  sessionHandles    (* Map sessionHandle -> { sessionId, requestId }       *)

handleVars == <<inviteHandles, requestBindings, sessionHandles>>

httpVars == <<vars, handleVars>>

HttpInit ==
  /\ Init
  /\ inviteHandles = EmptyMap
  /\ requestBindings = EmptyMap
  /\ sessionHandles = EmptyMap

-----------------------------------------------------------------------------
(* Handlers.                                                               *)

postRoom(actorId, roomId) ==
  /\ createRoom(actorId, roomId)
  /\ UNCHANGED handleVars

postHeartbeat(actorId, roomId) ==
  /\ heartbeatHost(actorId, roomId)
  /\ UNCHANGED handleVars

postInvite(actorId, roomId, inviteId, handle) ==
  /\ handle \notin DOMAIN inviteHandles
  /\ createInvite(actorId, roomId, inviteId)
  /\ inviteHandles' = Put(inviteHandles, handle,
                          [inviteId |-> inviteId, roomId |-> roomId])
  /\ UNCHANGED <<requestBindings, sessionHandles>>

postInviteRevoke(actorId, handle) ==
  /\ handle \in DOMAIN inviteHandles
  /\ revokeInvite(actorId, inviteHandles[handle].inviteId)
  /\ UNCHANGED handleVars

\* Fault: the request's binding is not kept.
postJoinRequestFault(handle, minecraftUuid, requestId) ==
  /\ handle \in DOMAIN inviteHandles
  /\ createJoinRequest(inviteHandles[handle].inviteId, minecraftUuid, requestId)
  /\ UNCHANGED handleVars

postJoinRequest(handle, minecraftUuid, requestId) ==
  /\ handle \in DOMAIN inviteHandles
  /\ createJoinRequest(inviteHandles[handle].inviteId, minecraftUuid, requestId)
  /\ requestBindings' = Put(requestBindings, requestId,
                            [roomId |-> inviteHandles[handle].roomId,
                             inviteId |-> inviteHandles[handle].inviteId,
                             minecraftUuid |-> minecraftUuid])
  /\ UNCHANGED <<inviteHandles, sessionHandles>>

postDecision(actorId, requestId, decision) ==
  /\ decideJoinRequest(actorId, requestId, decision)
  /\ UNCHANGED handleVars

postSession(actorType, requestId, minecraftUuid, sessionId, handle) ==
  /\ actorType = "service"
  /\ requestId \in DOMAIN requestBindings
  /\ handle \notin DOMAIN sessionHandles
  /\ issueSession(requestId, requestBindings[requestId].roomId,
                  requestBindings[requestId].inviteId, minecraftUuid, sessionId)
  /\ sessionHandles' = Put(sessionHandles, handle,
                           [sessionId |-> sessionId, requestId |-> requestId])
  /\ UNCHANGED <<inviteHandles, requestBindings>>

httpClock ==
  /\ advanceClock
  /\ UNCHANGED handleVars

HttpNext ==
  \/ \E a \in ActorIds, r \in RoomIds : postRoom(a, r) \/ postHeartbeat(a, r)
  \/ \E a \in ActorIds, r \in RoomIds, i \in InviteIds, h \in InviteHandles :
        postInvite(a, r, i, h)
  \/ \E a \in ActorIds, h \in InviteHandles : postInviteRevoke(a, h)
  \/ \E h \in InviteHandles, u \in Uuids, q \in RequestIds : postJoinRequest(h, u, q)
  \/ \E a \in ActorIds, q \in RequestIds, d \in Decisions : postDecision(a, q, d)
  \/ \E t \in ActorTypes, q \in RequestIds, u \in Uuids, s \in SessionIds,
        h \in SessionHandles : postSession(t, q, u, s, h)
  \/ httpClock

HttpSpec == HttpInit /\ [][HttpNext]_httpVars

-----------------------------------------------------------------------------
(* Properties.                                                             *)

\* The maps of the handlers and the tables of the simulation, which are written one
\* after the other by every handler, never drift apart: each request has the
\* binding its session will be asked with, each session and each invite exactly
\* one handle, that names its request or its room.
MapsMirrorTables ==
  /\ TypeOK
  /\ requestBindings =
       [q \in DOMAIN approvals |->
          [roomId |-> approvals[q].roomId, inviteId |-> approvals[q].inviteId,
           minecraftUuid |-> approvals[q].minecraftUuid]]
  /\ \A s \in DOMAIN sessions :
       \E h \in DOMAIN sessionHandles :
         /\ sessionHandles[h] = [sessionId |-> s, requestId |-> sessions[s].requestId]
         /\ \A k \in DOMAIN sessionHandles :
              sessionHandles[k].requestId = sessions[s].requestId => k = h
  /\ \A i \in DOMAIN invites :
       \E h \in DOMAIN inviteHandles :
         /\ inviteHandles[h] = [inviteId |-> i, roomId |-> invites[i].roomId]
         /\ \A k \in DOMAIN inviteHandles : inviteHandles[k].inviteId = i => k = h
=============================================================================
