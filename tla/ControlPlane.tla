---------------------------- MODULE ControlPlane ----------------------------
(***************************************************************************)
(* The in-memory control plane of services/control-plane: rooms with a     *)
(* host presence timeout, invites with an expiry, join requests the host   *)
(* decides, and sessions issued for approved requests.                     *)
(*                                                                         *)
(* Source: services/control-plane/src/domain/simulation.mjs.  Every        *)
(* operation is synchronous, so each is one action; a call that is refused *)
(* returns { ok: false } and changes nothing.  An invite's random token is *)
(* one-to-one with the invite, so presenting a token is naming an invite.  *)
(***************************************************************************)
EXTENDS Naturals, Maps

CONSTANTS
  ActorIds,    (* people: hosts of rooms                              *)
  Uuids,       (* Minecraft identities                                *)
  RoomIds, InviteIds, RequestIds, SessionIds,   (* randomUUID pools   *)
  InviteTtl, PresenceTtl, SessionTtl,
  MaxTime      (* bound on the clock                                  *)

ASSUME TtlAssumption ==
  /\ InviteTtl \in Nat \ {0}
  /\ PresenceTtl \in Nat
  /\ SessionTtl \in Nat
  /\ MaxTime \in Nat

Decisions == {"approved", "denied", "blocked"}

VARIABLES
  now,         (* clock.now()                                         *)
  rooms,       (* Map roomId -> room                                  *)
  invites,     (* Map inviteId -> invite                              *)
  approvals,   (* Map requestId -> join request                       *)
  sessions     (* Map sessionId -> session                            *)

vars == <<now, rooms, invites, approvals, sessions>>

Room == [hostId : ActorIds, state : {"open"}, hostLastSeenAt : Nat]

Invite == [roomId : RoomIds, state : {"active", "revoked"}, expiresAt : Nat]

Approval == [roomId : RoomIds, inviteId : InviteIds, minecraftUuid : Uuids,
             state : Decisions \cup {"pending"}, sessionIssued : BOOLEAN]

Session == [roomId : RoomIds, inviteId : InviteIds, requestId : RequestIds,
            minecraftUuid : Uuids, state : {"issued"},
            issuedAt : Nat, expiresAt : Nat]

Init ==
  /\ now = 0
  /\ rooms = EmptyMap
  /\ invites = EmptyMap
  /\ approvals = EmptyMap
  /\ sessions = EmptyMap

-----------------------------------------------------------------------------
(* Conditions the operations test.                                         *)

\* Fault: the presence timeout is never tested.
isHostOnlineFault(room) == room.state = "open"

isHostOnline(room) ==
  /\ room.state = "open"
  /\ now <= room.hostLastSeenAt + PresenceTtl

isInviteActive(invite) ==
  /\ invite.state = "active"
  /\ invite.expiresAt > now

\* canActorPerform(Actors.HOST, ...) on the host's own room
hostOwns(actorId, roomId) ==
  /\ roomId \in DOMAIN rooms
  /\ rooms[roomId].hostId = actorId

\* readSession: what a holder of the session id is still told
readSession(sessionId) ==
  /\ sessionId \in DOMAIN sessions
  /\ sessions[sessionId].expiresAt > now
  /\ sessions[sessionId].state = "issued"

-----------------------------------------------------------------------------
(* Operations.                                                             *)

createRoom(hostId, roomId) ==
  /\ roomId \notin DOMAIN rooms
  /\ rooms' = Put(rooms, roomId,
                  [hostId |-> hostId, state |-> "open", hostLastSeenAt |-> now])
  /\ UNCHANGED <<now, invites, approvals, sessions>>

heartbeatHost(actorId, roomId) ==
  /\ hostOwns(actorId, roomId)
  /\ rooms' = [rooms EXCEPT ![roomId].hostLastSeenAt = now,
                            ![roomId].state = "open"]
  /\ UNCHANGED <<now, invites, approvals, sessions>>

createInvite(actorId, roomId, inviteId) ==
  /\ hostOwns(actorId, roomId)
  /\ inviteId \notin DOMAIN invites
  /\ invites' = Put(invites, inviteId,
                    [roomId |-> roomId, state |-> "active",
                     expiresAt |-> now + InviteTtl])
  /\ UNCHANGED <<now, rooms, approvals, sessions>>

revokeInvite(actorId, inviteId) ==
  /\ inviteId \in DOMAIN invites
  /\ hostOwns(actorId, invites[inviteId].roomId)
  /\ invites' = [invites EXCEPT ![inviteId].state = "revoked"]
  /\ UNCHANGED <<now, rooms, approvals, sessions>>

createJoinRequest(inviteId, minecraftUuid, requestId) ==
  /\ requestId \notin DOMAIN approvals
  /\ inviteId \in DOMAIN invites
  /\ isInviteActive(invites[inviteId])
  /\ invites[inviteId].roomId \in DOMAIN rooms
  /\ isHostOnline(rooms[invites[inviteId].roomId])
  /\ approvals' = Put(approvals, requestId,
                      [roomId |-> invites[inviteId].roomId,
                       inviteId |-> inviteId,
                       minecraftUuid |-> minecraftUuid,
                       state |-> "pending", sessionIssued |-> FALSE])
  /\ UNCHANGED <<now, rooms, invites, sessions>>

\* Fault: a request decided already can be decided again.
decideJoinRequestFault(actorId, requestId, decision) ==
  /\ requestId \in DOMAIN approvals
  /\ hostOwns(actorId, approvals[requestId].roomId)
  /\ approvals' = [approvals EXCEPT ![requestId].state = decision]
  /\ UNCHANGED <<now, rooms, invites, sessions>>

decideJoinRequest(actorId, requestId, decision) ==
  /\ requestId \in DOMAIN approvals
  /\ hostOwns(actorId, approvals[requestId].roomId)
  /\ approvals[requestId].state = "pending"
  /\ approvals' = [approvals EXCEPT ![requestId].state = decision]
  /\ UNCHANGED <<now, rooms, invites, sessions>>

\* Fault: the decision is not part of the binding.
identityBoundFault(requestId, roomId, inviteId, minecraftUuid) ==
  /\ requestId \in DOMAIN approvals
  /\ approvals[requestId].roomId = roomId
  /\ approvals[requestId].inviteId = inviteId
  /\ approvals[requestId].minecraftUuid = minecraftUuid
  /\ ~approvals[requestId].sessionIssued
  /\ isInviteActive(invites[inviteId])

\* The caller names the room, invite and identity it believes the request has.
identityBound(requestId, roomId, inviteId, minecraftUuid) ==
  /\ requestId \in DOMAIN approvals
  /\ approvals[requestId].roomId \in DOMAIN rooms
  /\ approvals[requestId].inviteId \in DOMAIN invites
  /\ approvals[requestId].state = "approved"
  /\ approvals[requestId].roomId = roomId
  /\ approvals[requestId].inviteId = inviteId
  /\ approvals[requestId].minecraftUuid = minecraftUuid
  /\ ~approvals[requestId].sessionIssued
  /\ isInviteActive(invites[inviteId])

\* Fault: the request is not marked when its session is issued.
issueSessionFault(requestId, roomId, inviteId, minecraftUuid, sessionId) ==
  /\ sessionId \notin DOMAIN sessions
  /\ identityBound(requestId, roomId, inviteId, minecraftUuid)
  /\ isHostOnline(rooms[roomId])
  /\ sessions' = Put(sessions, sessionId,
                     [roomId |-> roomId, inviteId |-> inviteId,
                      requestId |-> requestId, minecraftUuid |-> minecraftUuid,
                      state |-> "issued", issuedAt |-> now,
                      expiresAt |-> now + SessionTtl])
  /\ UNCHANGED <<now, rooms, invites, approvals>>

issueSession(requestId, roomId, inviteId, minecraftUuid, sessionId) ==
  /\ sessionId \notin DOMAIN sessions
  /\ identityBound(requestId, roomId, inviteId, minecraftUuid)
  /\ isHostOnline(rooms[roomId])
  /\ approvals' = [approvals EXCEPT ![requestId].sessionIssued = TRUE]
  /\ sessions' = Put(sessions, sessionId,
                     [roomId |-> roomId, inviteId |-> inviteId,
                      requestId |-> requestId, minecraftUuid |-> minecraftUuid,
                      state |-> "issued", issuedAt |-> now,
                      expiresAt |-> now + SessionTtl])
  /\ UNCHANGED <<now, rooms, invites>>

\* Time passes; the clock stops at the bound.
advanceClock ==
  /\ now < MaxTime
  /\ now' = now + 1
  /\ UNCHANGED <<rooms, invites, approvals, sessions>>

Next ==
  \/ \E a \in ActorIds, r \in RoomIds : createRoom(a, r) \/ heartbeatHost(a, r)
  \/ \E a \in ActorIds, r \in RoomIds, i \in InviteIds : createInvite(a, r, i)
  \/ \E a \in ActorIds, i \in InviteIds : revokeInvite(a, i)
  \/ \E i \in InviteIds, u \in Uuids, q \in RequestIds : createJoinRequest(i, u, q)
  \/ \E a \in ActorIds, q \in RequestIds, d \in Decisions : decideJoinRequest(a, q, d)
  \/ \E q \in RequestIds, r \in RoomIds, i \in InviteIds, u \in Uuids,
        s \in SessionIds : issueSession(q, r, i, u, s)
  \/ advanceClock

Spec == Init /\ [][Next]_vars

-----------------------------------------------------------------------------
(* Properties.                                                             *)

\* Every table holds records of the shape the operations build, under ids
\* they issued (the Maps and object literals of simulation.mjs).
TypeOK ==
  /\ now \in Nat
  /\ DOMAIN rooms \subseteq RoomIds
  /\ \A r \in DOMAIN rooms : rooms[r] \in Room
  /\ DOMAIN invites \subseteq InviteIds
  /\ \A i \in DOMAIN invites : invites[i] \in Invite
  /\ DOMAIN approvals \subseteq RequestIds
  /\ \A q \in DOMAIN approvals : approvals[q] \in Approval
  /\ DOMAIN sessions \subseteq SessionIds
  /\ \A s \in DOMAIN sessions : sessions[s] \in Session

\* The Permission Rule (docs/architecture/protocol.md): whoever holds a session
\* asked through an invite of that very room, under that identity, and the host
\* approved that request.  createInvite, createJoinRequest, decideJoinRequest
\* and issueSession must all carry the binding for this to hold.
PermissionRule ==
  \A s \in DOMAIN sessions :
    LET session == sessions[s] IN
      /\ session.requestId \in DOMAIN approvals
      /\ session.inviteId \in DOMAIN invites
      /\ approvals[session.requestId].state = "approved"
      /\ approvals[session.requestId].roomId = session.roomId
      /\ approvals[session.requestId].inviteId = session.inviteId
      /\ approvals[session.requestId].minecraftUuid = session.minecraftUuid
      /\ invites[session.inviteId].roomId = session.roomId

\* One approval is worth one session, however often issueSession is called for
\* it: the sessionIssued flag and the sessions table cannot drift apart.
OneSessionPerRequest ==
  \A s, t \in DOMAIN sessions :
    sessions[s].requestId = sessions[t].requestId => s = t

\* A session that readSession still vouches for was issued to a room whose host
\* was present and through an invite not yet expired, so it cannot be honoured
\* for longer than its own TTL past either: three timeouts that are set, renewed
\* and tested by different operations.
ReadableSessionIsFresh ==
  \A s \in SessionIds :
    readSession(s) =>
      /\ now < rooms[sessions[s].roomId].hostLastSeenAt + PresenceTtl + SessionTtl
      /\ now < invites[sessions[s].inviteId].expiresAt + SessionTtl

\* The admission contract the control plane implements.
A == INSTANCE Admission WITH
       Invites  <- InviteIds,
       Requests <- RequestIds,
       Sessions <- SessionIds,
       NoInvite <- "no invite",
       open     <- {i \in DOMAIN invites : isInviteActive(invites[i])},
       retired  <- {i \in DOMAIN invites : ~isInviteActive(invites[i])},
       verdict  <- [q \in RequestIds |->
                      IF q \in DOMAIN approvals THEN approvals[q].state ELSE "none"],
       inviteOf <- [q \in RequestIds |->
                      IF q \in DOMAIN approvals THEN approvals[q].inviteId
                                                ELSE "no invite"],
       admitted <- {<<s, sessions[s].requestId>> : s \in DOMAIN sessions}

\* Whatever order hosts, friends, the service and the clock take, the control
\* plane only takes steps the admission contract allows: decisions are final, a
\* revoked or expired invite takes no request and admits nobody, and a session
\* needs an approval made while its invite is still open.
ImplementsAdmission == A!Spec
=============================================================================
