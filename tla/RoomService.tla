---------------------------- MODULE RoomService ----------------------------
(***************************************************************************)
(* The room service over its repository: the asynchronous control plane    *)
(* that is to replace the in-memory simulation.                            *)
(*                                                                         *)
(* Source: services/control-plane/src/services/room-service.mjs over       *)
(* persistence/postgres/repository.mjs (schema.sql) or over                *)
(* persistence/memory-store.mjs.  Every repository call is awaited, so     *)
(* calls overlap.  In PostgreSQL each call is one READ COMMITTED           *)
(* transaction: a statement reads what is committed when it runs, writes   *)
(* lock their rows and show at the commit, and an error rolls all of them  *)
(* back.  The memory store has no transactions: a write shows at once and  *)
(* stays.                                                                  *)
(*                                                                         *)
(* A call that only writes a fresh row, or writes what no read of it can   *)
(* make stale, is one action.  createJoinRequest and decideJoinRequest act *)
(* on what they read some awaits before, so they are split where they read *)
(* and where they write.  Rows that cleanupExpiredState deletes are kept   *)
(* in the tables and marked: no operation finds them any more.             *)
(***************************************************************************)
EXTENDS Naturals, FiniteSets, Maps

CONSTANTS
  ActorIds, Uuids, Devices,   (* hosts, identities, ip-and-device signals   *)
  RoomIds, InviteIds, RequestIds, SessionIds,
  CallIds,            (* service calls that can be in flight                *)
  Stores,             (* services: the kind of repository each was created  *)
                      (* over, and whether other calls, and time, come      *)
                      (* between the steps of a call (overlapping)          *)
  InviteTtl, PresenceTtl, SessionTtl,
  JoinRequestLimit, JoinRequestWindow,
  MaxTime, MaxCount   (* bounds on the clock and on a rate-limit counter    *)

ASSUME RoomServiceAssumption ==
  /\ Stores \subseteq [kind : {"postgres", "memory"}, overlapping : BOOLEAN]
  /\ {InviteTtl, PresenceTtl, SessionTtl, JoinRequestLimit, JoinRequestWindow}
       \subseteq Nat \ {0}
  /\ {MaxTime, MaxCount} \subseteq Nat
  \* the ids of a table have its prefix
  /\ InviteIds \cap RequestIds = {} /\ InviteIds \cap SessionIds = {}
  /\ RequestIds \cap SessionIds = {}

Decisions == {"approved", "denied", "blocked"}

VARIABLES
  store,       (* the service: its kind of repository, see Stores          *)
  now,
  rooms,       (* table rooms: roomId -> hostId                             *)
  invites, approvals, sessions,       (* the tables, by primary key         *)
  deleted,     (* ids of invites, approvals and sessions no longer there    *)
  presence,    (* table presence: roomId -> expiresAt                       *)
  rateLimits,  (* table rate_limit_counters: signal -> [count, resetAt]     *)
  calls        (* createJoinRequest and decideJoinRequest calls in flight   *)

tables == <<rooms, invites, approvals, sessions, deleted, presence, rateLimits>>

vars == <<store, now, tables, calls>>

Transactional == store.kind = "postgres"

Invite == [roomId : RoomIds, state : {"active", "revoked"}, expiresAt : Nat]

Approval == [roomId : RoomIds, inviteId : InviteIds, minecraftUuid : Uuids,
             device : Devices, state : Decisions \cup {"pending"}, createdAt : Nat]

Session == [roomId : RoomIds, inviteId : InviteIds, requestId : RequestIds,
            minecraftUuid : Uuids, expiresAt : Nat]

Signal == ({"join_request.invite"} \X InviteIds)
            \cup ({"join_request.ip_device"} \X Devices)
            \cup ({"join_request.minecraft_identity"} \X Uuids)

\* A call keeps what it has read; "saved" is a memory-store approval whose
\* session is still to be saved.
Call ==
  {[at |-> "idle"]}
    \cup [at : {"invite read"}, inviteId : InviteIds, minecraftUuid : Uuids,
          device : Devices]
    \cup [at : {"approval read"}, requestId : RequestIds, decision : Decisions,
          minecraftUuid : Uuids]
    \cup [at : {"prepared", "saved"}, requestId : RequestIds,
          decision : {"approved"}, expiresAt : Nat]

Idle == [at |-> "idle"]

Init ==
  /\ store \in Stores
  /\ now = 0
  /\ rooms = EmptyMap
  /\ invites = EmptyMap
  /\ approvals = EmptyMap
  /\ sessions = EmptyMap
  /\ deleted = {}
  /\ presence = EmptyMap
  /\ rateLimits = EmptyMap
  /\ calls = [c \in CallIds |-> Idle]

-----------------------------------------------------------------------------
(* What a statement finds.                                                 *)

found(id, table) == id \in DOMAIN table \ deleted

\* canActorPerform(Actors.HOST, ...) on the host's own room
hostOwns(actorId, roomId) == roomId \in DOMAIN rooms /\ rooms[roomId] = actorId

isInviteActive(inviteId) ==
  /\ found(inviteId, invites)
  /\ invites[inviteId].state = "active"
  /\ invites[inviteId].expiresAt > now

\* isRoomAvailable: rooms are only ever open; the memory store has no presence.
isRoomAvailable(roomId) ==
  Transactional => roomId \in DOMAIN presence /\ presence[roomId] > now

-----------------------------------------------------------------------------
(* Calls that are one action.                                              *)

createRoom(actorId, roomId) ==
  /\ roomId \notin DOMAIN rooms
  /\ rooms' = Put(rooms, roomId, actorId)
  /\ UNCHANGED <<store, now, invites, approvals, sessions, deleted, presence,
                 rateLimits, calls>>

newInvite(roomId) ==
  [roomId |-> roomId, state |-> "active", expiresAt |-> now + InviteTtl]

createInvite(actorId, roomId, inviteId) ==
  /\ hostOwns(actorId, roomId)
  /\ inviteId \notin DOMAIN invites
  /\ invites' = Put(invites, inviteId, newInvite(roomId))
  /\ UNCHANGED <<store, now, rooms, approvals, sessions, deleted, presence,
                 rateLimits, calls>>

readAuthorizedInvite(actorId, inviteId) ==
  /\ found(inviteId, invites)
  /\ hostOwns(actorId, invites[inviteId].roomId)

revokeInvite(actorId, inviteId) ==
  /\ readAuthorizedInvite(actorId, inviteId)
  /\ invites' = [invites EXCEPT ![inviteId].state = "revoked"]
  /\ UNCHANGED <<store, now, rooms, approvals, sessions, deleted, presence,
                 rateLimits, calls>>

\* An invite already revoked or expired can be regenerated too.
regenerateInvite(actorId, inviteId, nextInviteId) ==
  /\ readAuthorizedInvite(actorId, inviteId)
  /\ nextInviteId \notin DOMAIN invites
  /\ invites' = Put([invites EXCEPT ![inviteId].state = "revoked"], nextInviteId,
                    newInvite(invites[inviteId].roomId))
  /\ UNCHANGED <<store, now, rooms, approvals, sessions, deleted, presence,
                 rateLimits, calls>>

-----------------------------------------------------------------------------
(* createJoinRequest.                                                      *)

beginJoinRequest(c, inviteId, minecraftUuid, device) ==
  /\ calls[c] = Idle
  /\ isInviteActive(inviteId)
  /\ isRoomAvailable(invites[inviteId].roomId)
  /\ calls' = [calls EXCEPT ![c] = [at |-> "invite read", inviteId |-> inviteId,
                                    minecraftUuid |-> minecraftUuid,
                                    device |-> device]]
  /\ UNCHANGED <<store, now, tables>>

\* incrementRateLimitCounter: the counter, restarted when its window is over
countUp(signal) ==
  IF signal \in DOMAIN rateLimits /\ rateLimits[signal].resetAt > now
  THEN [rateLimits[signal] EXCEPT !.count = @ + 1]
  ELSE [count |-> 1, resetAt |-> now + JoinRequestWindow]

\* Fault: off by one in the limit.
overLimitFault(signal) == countUp(signal).count > JoinRequestLimit + 1

overLimit(signal) == countUp(signal).count > JoinRequestLimit

\* The signals in the order applyJoinRequestRateLimits counts them
signalsOf(call) ==
  <<<<"join_request.invite", call.inviteId>>,
    <<"join_request.ip_device", call.device>>,
    <<"join_request.minecraft_identity", call.minecraftUuid>>>>

\* It counts up to and including the first signal that is over its limit.
applyJoinRequestRateLimits(signals) ==
  LET counted == {signals[k] : k \in {m \in 1..3 :
                                        \A n \in 1..(m - 1) : ~overLimit(signals[n])}}
  IN rateLimits' = [s \in DOMAIN rateLimits \cup counted |->
                      IF s \in counted THEN countUp(s) ELSE rateLimits[s]]

rateLimited(signals) == \E k \in 1..3 : overLimit(signals[k])

\* Either the request is limited, and the transaction commits the counters
\* alone, or the pending approval is inserted, which fails and rolls back when
\* its invite is gone.
finishJoinRequest(c, requestId) ==
  /\ calls[c].at = "invite read"
  /\ \A k \in 1..3 : countUp(signalsOf(calls[c])[k]).count <= MaxCount
  /\ applyJoinRequestRateLimits(signalsOf(calls[c]))
  /\ \/ /\ rateLimited(signalsOf(calls[c]))
        /\ UNCHANGED approvals
     \/ /\ ~rateLimited(signalsOf(calls[c]))
        /\ found(calls[c].inviteId, invites)
        /\ requestId \notin DOMAIN approvals
        /\ approvals' = Put(approvals, requestId,
                            [roomId |-> invites[calls[c].inviteId].roomId,
                             inviteId |-> calls[c].inviteId,
                             minecraftUuid |-> calls[c].minecraftUuid,
                             device |-> calls[c].device,
                             state |-> "pending", createdAt |-> now])
  /\ calls' = [calls EXCEPT ![c] = Idle]
  /\ UNCHANGED <<store, now, rooms, invites, sessions, deleted, presence>>

-----------------------------------------------------------------------------
(* decideJoinRequest.                                                      *)

\* Fault: a request decided already can be decided again.
beginDecisionFault(c, actorId, requestId, decision, minecraftUuid) ==
  /\ calls[c] = Idle
  /\ found(requestId, approvals)
  /\ hostOwns(actorId, approvals[requestId].roomId)
  /\ calls' = [calls EXCEPT ![c] = [at |-> "approval read", requestId |-> requestId,
                                    decision |-> decision,
                                    minecraftUuid |-> minecraftUuid]]
  /\ UNCHANGED <<store, now, tables>>

\* The approval is read and found pending.
beginDecision(c, actorId, requestId, decision, minecraftUuid) ==
  /\ calls[c] = Idle
  /\ found(requestId, approvals)
  /\ hostOwns(actorId, approvals[requestId].roomId)
  /\ approvals[requestId].state = "pending"
  /\ calls' = [calls EXCEPT ![c] = [at |-> "approval read", requestId |-> requestId,
                                    decision |-> decision,
                                    minecraftUuid |-> minecraftUuid]]
  /\ UNCHANGED <<store, now, tables>>

\* prepareSessionForApproval: checks made before anything is written
prepareSession(c) ==
  /\ calls[c].at = "approval read"
  /\ calls[c].decision = "approved"
  /\ LET approval == approvals[calls[c].requestId] IN
       /\ approval.minecraftUuid = calls[c].minecraftUuid
       /\ isInviteActive(approval.inviteId)
       /\ isRoomAvailable(approval.roomId)
  /\ calls' = [calls EXCEPT ![c] = [at |-> "prepared", requestId |-> @.requestId,
                                    decision |-> "approved",
                                    expiresAt |-> now + SessionTtl]]
  /\ UNCHANGED <<store, now, tables>>

\* saveApproval: an upsert that matches on the request's identity, not on the
\* state it was read in.
saveApproval(call) ==
  /\ found(call.requestId, approvals)
  /\ approvals' = [approvals EXCEPT ![call.requestId].state = call.decision]

\* saveSession, with what was prepared from the approval
saveSession(call, sessionId) ==
  /\ sessionId \notin DOMAIN sessions
  /\ sessions' = Put(sessions, sessionId,
                     [roomId |-> approvals[call.requestId].roomId,
                      inviteId |-> approvals[call.requestId].inviteId,
                      requestId |-> call.requestId,
                      minecraftUuid |-> approvals[call.requestId].minecraftUuid,
                      expiresAt |-> call.expiresAt])

\* sessions.request_id is UNIQUE
requestIsUnique(requestId) ==
  \A s \in DOMAIN sessions \ deleted : sessions[s].requestId # requestId

\* A denial or a block commits its one write.
decide(c) ==
  /\ calls[c].at = "approval read"
  /\ calls[c].decision # "approved"
  /\ saveApproval(calls[c])
  /\ calls' = [calls EXCEPT ![c] = Idle]
  /\ UNCHANGED <<store, now, rooms, invites, sessions, deleted, presence,
                 rateLimits>>

\* Fault: the decision commits in a transaction of its own.
approveFault(c, sessionId) ==
  /\ Transactional
  /\ calls[c].at = "prepared"
  /\ saveApproval(calls[c])
  /\ calls' = [calls EXCEPT ![c].at = "saved"]
  /\ UNCHANGED <<store, now, rooms, invites, sessions, deleted, presence,
                 rateLimits>>

\* An approval commits together with its session.
approve(c, sessionId) ==
  /\ Transactional
  /\ calls[c].at = "prepared"
  /\ saveApproval(calls[c])
  /\ requestIsUnique(calls[c].requestId)
  /\ saveSession(calls[c], sessionId)
  /\ calls' = [calls EXCEPT ![c] = Idle]
  /\ UNCHANGED <<store, now, rooms, invites, deleted, presence, rateLimits>>

\* In the memory store the approval shows before its session is saved.
approveInMemory(c) ==
  /\ ~Transactional
  /\ calls[c].at = "prepared"
  /\ saveApproval(calls[c])
  /\ calls' = [calls EXCEPT ![c].at = "saved"]
  /\ UNCHANGED <<store, now, rooms, invites, sessions, deleted, presence,
                 rateLimits>>

saveSessionInMemory(c, sessionId) ==
  /\ calls[c].at = "saved"
  /\ saveSession(calls[c], sessionId)
  /\ calls' = [calls EXCEPT ![c] = Idle]
  /\ UNCHANGED <<store, now, rooms, invites, approvals, deleted, presence,
                 rateLimits>>

\* A failed check, a quota hook that says no, an SQL error, a lost connection or
\* the end of the process: nothing the call has not committed remains.
abandon(c) ==
  /\ calls[c] # Idle
  /\ calls' = [calls EXCEPT ![c] = Idle]
  /\ UNCHANGED <<store, now, tables>>

-----------------------------------------------------------------------------
(* Presence, cleanup and the clock.                                        *)

savePresence(roomId) ==
  /\ Transactional
  /\ roomId \in DOMAIN rooms
  /\ presence' = Put(presence, roomId, now + PresenceTtl)
  /\ UNCHANGED <<store, now, rooms, invites, approvals, sessions, deleted,
                 rateLimits, calls>>

\* Fault: expired invites go whether or not a session hangs on them.
cleanupExpiredStateFault ==
  /\ Transactional
  /\ LET oldSessions == {s \in DOMAIN sessions : sessions[s].expiresAt <= now}
         oldInvites == {i \in DOMAIN invites : invites[i].expiresAt <= now}
         oldApprovals == {q \in DOMAIN approvals : approvals[q].inviteId \in oldInvites}
     IN deleted' = deleted \cup oldSessions \cup oldInvites \cup oldApprovals
  /\ UNCHANGED <<store, now, rooms, invites, approvals, sessions, presence,
                 rateLimits, calls>>

\* Expired sessions go first; an expired invite goes when no session is left
\* for it, and takes its approvals along (ON DELETE CASCADE).
cleanupExpiredState ==
  /\ Transactional
  /\ LET oldSessions == {s \in DOMAIN sessions : sessions[s].expiresAt <= now}
         inUse  == {sessions[s].inviteId : s \in DOMAIN sessions \ (deleted \cup oldSessions)}
         oldInvites == {i \in DOMAIN invites : invites[i].expiresAt <= now} \ inUse
         oldApprovals == {q \in DOMAIN approvals : approvals[q].inviteId \in oldInvites}
     IN deleted' = deleted \cup oldSessions \cup oldInvites \cup oldApprovals
  /\ presence' = KeepKeys(presence, {r \in DOMAIN presence : presence[r] > now})
  /\ rateLimits' = KeepKeys(rateLimits, {s \in DOMAIN rateLimits :
                                           rateLimits[s].resetAt > now})
  /\ UNCHANGED <<store, now, rooms, invites, approvals, sessions, calls>>

advanceClock ==
  /\ now < MaxTime
  /\ now' = now + 1
  /\ UNCHANGED <<store, tables, calls>>

mayInterrupt == store.overlapping \/ \A c \in CallIds : calls[c] = Idle

RoomStep ==
  \E a \in ActorIds, r \in RoomIds :
    createRoom(a, r) \/ \E i \in InviteIds : createInvite(a, r, i)

InviteStep ==
  \E a \in ActorIds, i \in InviteIds :
    revokeInvite(a, i) \/ \E j \in InviteIds : regenerateInvite(a, i, j)

JoinStep ==
  \E c \in CallIds :
    \/ /\ mayInterrupt
       /\ \E i \in InviteIds, u \in Uuids, d \in Devices : beginJoinRequest(c, i, u, d)
    \/ \E q \in RequestIds : finishJoinRequest(c, q)

DecisionStep ==
  \E c \in CallIds :
    \/ /\ mayInterrupt
       /\ \E a \in ActorIds, q \in RequestIds, d \in Decisions, u \in Uuids :
            beginDecision(c, a, q, d, u)
    \/ prepareSession(c) \/ decide(c) \/ approveInMemory(c)
    \/ \E s \in SessionIds : approve(c, s) \/ saveSessionInMemory(c, s)

OtherStep ==
  \/ \E r \in RoomIds : savePresence(r)
  \/ cleanupExpiredState \/ advanceClock

Next ==
  \/ JoinStep \/ DecisionStep
  \/ \E c \in CallIds : abandon(c)
  \/ mayInterrupt /\ (RoomStep \/ InviteStep \/ OtherStep)

Spec == Init /\ [][Next]_vars

-----------------------------------------------------------------------------
(* Properties.                                                             *)

\* The tables hold rows of the shape the service builds (schema.sql), and calls
\* in flight hold what they have read.
TypeOK ==
  /\ store \in Stores
  /\ now \in Nat
  /\ DOMAIN rooms \subseteq RoomIds
  /\ \A r \in DOMAIN rooms : rooms[r] \in ActorIds
  /\ DOMAIN invites \subseteq InviteIds
  /\ \A i \in DOMAIN invites : invites[i] \in Invite
  /\ DOMAIN approvals \subseteq RequestIds
  /\ \A q \in DOMAIN approvals : approvals[q] \in Approval
  /\ DOMAIN sessions \subseteq SessionIds
  /\ \A s \in DOMAIN sessions : sessions[s] \in Session
  /\ deleted \subseteq DOMAIN invites \cup DOMAIN approvals \cup DOMAIN sessions
  /\ DOMAIN presence \subseteq DOMAIN rooms
  /\ \A r \in DOMAIN presence : presence[r] \in Nat
  /\ DOMAIN rateLimits \subseteq Signal
  /\ \A s \in DOMAIN rateLimits : rateLimits[s] \in [count : Nat, resetAt : Nat]
  /\ calls \in [CallIds -> Call]

\* "approval decision and first session commit atomically" (test of
\* postgres-repository): nobody ever sees an approved request without the
\* session that was issued for it, whatever fails or is rolled back, nor two live
\* sessions of one request, even when two approvals of it overlap.  (The memory
\* store has no transactions.)
ApprovedHasSession ==
  /\ TypeOK
  /\ \A q \in DOMAIN approvals :
       Transactional /\ approvals[q].state = "approved" =>
         \E s \in DOMAIN sessions :
           /\ sessions[s].requestId = q
           /\ sessions[s].inviteId = approvals[q].inviteId
           /\ sessions[s].minecraftUuid = approvals[q].minecraftUuid
           /\ invites[sessions[s].inviteId].roomId = sessions[s].roomId
  /\ \A s, t \in DOMAIN sessions \ deleted :
       sessions[s].requestId = sessions[t].requestId => s = t

\* A session that can still be used keeps its whole chain of rows: cleanup
\* removes an expired invite, and with it the request, only when no session
\* hangs on it.
LiveSessionsKeepTheirRows ==
  \A s \in DOMAIN sessions \ deleted :
    /\ found(sessions[s].requestId, approvals)
    /\ found(sessions[s].inviteId, invites)

signalOf(q) ==
  {<<"join_request.invite", approvals[q].inviteId>>,
   <<"join_request.ip_device", approvals[q].device>>,
   <<"join_request.minecraft_identity", approvals[q].minecraftUuid>>}

\* In the window of a counter no more join requests carry its signal than it
\* counted, and never more than the limit, though counters restart, are cleaned
\* up and are shared by calls in flight.
WindowsAreLimited ==
  \A signal \in DOMAIN rateLimits :
    LET inWindow == {q \in DOMAIN approvals :
                       /\ signal \in signalOf(q)
                       /\ approvals[q].createdAt + JoinRequestWindow
                            >= rateLimits[signal].resetAt}
    IN /\ Cardinality(inWindow) <= rateLimits[signal].count
       /\ Cardinality(inWindow) <= JoinRequestLimit

\* The Permission Rule (docs/architecture/protocol.md): a session belongs to an
\* approved request.  Two decisions in flight for one request can break it.
SessionsAreApproved ==
  \A s \in DOMAIN sessions : approvals[sessions[s].requestId].state = "approved"

\* The admission contract; rows cleaned up are over, not undone.
A == INSTANCE Admission WITH
       Invites  <- InviteIds,
       Requests <- RequestIds,
       Sessions <- SessionIds,
       NoInvite <- "no invite",
       open     <- {i \in InviteIds : isInviteActive(i)},
       retired  <- {i \in DOMAIN invites : ~isInviteActive(i)},
       verdict  <- [q \in RequestIds |->
                      IF q \in DOMAIN approvals THEN approvals[q].state ELSE "none"],
       inviteOf <- [q \in RequestIds |->
                      IF q \in DOMAIN approvals THEN approvals[q].inviteId
                                                ELSE "no invite"],
       admitted <- {<<s, sessions[s].requestId>> : s \in DOMAIN sessions}

\* With one call at a time (not overlapping) the service keeps the contract the
\* simulation keeps, over either repository: it starts and steps as Admission does.
ImplementsAdmission ==
  /\ store.overlapping \/ A!Init
  /\ [][store.overlapping \/ A!Next]_(A!vars)
=============================================================================
