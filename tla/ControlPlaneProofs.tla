------------------------- MODULE ControlPlaneProofs -------------------------
(***************************************************************************)
(* Proofs about ControlPlane, for every set of hosts, identities and ids   *)
(* and every value of the three timeouts, and about HttpBoundary, whose    *)
(* handlers make the control plane's calls.                                *)
(***************************************************************************)
EXTENDS HttpBoundary, TLAPS

-----------------------------------------------------------------------------
\* A new Map has no keys.
LEMMA EmptyMapFacts == DOMAIN EmptyMap = {}
BY DEF EmptyMap

-----------------------------------------------------------------------------
(* Type correctness.                                                       *)

\* The tables createControlPlaneSimulation starts with are empty Maps.
LEMMA InitTypeOK == Init => TypeOK
BY EmptyMapFacts DEF Init, TypeOK

\* Every operation builds records of the shape it found.
LEMMA NextTypeOK == TypeOK /\ [Next]_vars => TypeOK'
<1> SUFFICES ASSUME TypeOK, [Next]_vars
             PROVE  TypeOK'
  OBVIOUS
<1> USE TtlAssumption DEF TypeOK
<1>1. ASSUME NEW a \in ActorIds, NEW r \in RoomIds, createRoom(a, r)
      PROVE  TypeOK'
  <2>1. /\ DOMAIN rooms' = DOMAIN rooms \cup {r}
        /\ rooms'[r] \in Room
        /\ \A k \in DOMAIN rooms : k # r => rooms'[k] = rooms[k]
    BY <1>1 DEF createRoom, Room, Put
  <2> QED
    BY <1>1, <2>1 DEF createRoom
<1>2. ASSUME NEW a \in ActorIds, NEW r \in RoomIds, heartbeatHost(a, r)
      PROVE  TypeOK'
  BY <1>2 DEF heartbeatHost, hostOwns, Room
<1>3. ASSUME NEW a \in ActorIds, NEW r \in RoomIds, NEW i \in InviteIds,
             createInvite(a, r, i)
      PROVE  TypeOK'
  <2>1. /\ DOMAIN invites' = DOMAIN invites \cup {i}
        /\ invites'[i] \in Invite
        /\ \A k \in DOMAIN invites : k # i => invites'[k] = invites[k]
    BY <1>3 DEF createInvite, Invite, Put
  <2> QED
    BY <1>3, <2>1 DEF createInvite
<1>4. ASSUME NEW a \in ActorIds, NEW i \in InviteIds, revokeInvite(a, i)
      PROVE  TypeOK'
  BY <1>4 DEF revokeInvite, Invite
<1>5. ASSUME NEW i \in InviteIds, NEW u \in Uuids, NEW q \in RequestIds,
             createJoinRequest(i, u, q)
      PROVE  TypeOK'
  <2>1. /\ DOMAIN approvals' = DOMAIN approvals \cup {q}
        /\ approvals'[q] \in Approval
        /\ \A k \in DOMAIN approvals : k # q => approvals'[k] = approvals[k]
    BY <1>5 DEF createJoinRequest, Approval, Invite, Put
  <2> QED
    BY <1>5, <2>1 DEF createJoinRequest
<1>6. ASSUME NEW a \in ActorIds, NEW q \in RequestIds, NEW d \in Decisions,
             decideJoinRequest(a, q, d)
      PROVE  TypeOK'
  BY <1>6 DEF decideJoinRequest, Approval
<1>7. ASSUME NEW q \in RequestIds, NEW r \in RoomIds, NEW i \in InviteIds,
             NEW u \in Uuids, NEW s \in SessionIds,
             issueSession(q, r, i, u, s)
      PROVE  TypeOK'
  <2>1. /\ DOMAIN sessions' = DOMAIN sessions \cup {s}
        /\ sessions'[s] \in Session
        /\ \A k \in DOMAIN sessions : k # s => sessions'[k] = sessions[k]
    BY <1>7 DEF issueSession, Session, Put
  <2>2. /\ DOMAIN approvals' = DOMAIN approvals
        /\ \A k \in DOMAIN approvals : approvals'[k] \in Approval
    BY <1>7 DEF issueSession, identityBound, Approval
  <2> QED
    BY <1>7, <2>1, <2>2 DEF issueSession
<1>8. CASE advanceClock
  BY <1>8 DEF advanceClock
<1>9. CASE UNCHANGED vars
  BY <1>9 DEF vars
<1> QED
  BY <1>1, <1>2, <1>3, <1>4, <1>5, <1>6, <1>7, <1>8, <1>9 DEF Next

\* The tables of simulation.mjs only ever hold the records its operations build.
THEOREM TypeCorrect == Spec => []TypeOK
<1>1. Init => TypeOK
  BY InitTypeOK
<1>2. TypeOK /\ [Next]_vars => TypeOK'
  BY NextTypeOK
<1> QED
  BY <1>1, <1>2, PTL DEF Spec

-----------------------------------------------------------------------------
(* The inductive invariant of admission.  PermissionRule and               *)
(* OneSessionPerRequest are not inductive alone: issueSession may only be  *)
(* trusted if the request it reads points at a live invite of its own room *)
(* and if the sessionIssued flag says exactly whether a session exists.    *)

\* Records point at records: no operation ever deletes a room or an invite.
References ==
  /\ \A i \in DOMAIN invites : invites[i].roomId \in DOMAIN rooms
  /\ \A q \in DOMAIN approvals :
       /\ approvals[q].inviteId \in DOMAIN invites
       /\ approvals[q].roomId = invites[approvals[q].inviteId].roomId

\* A request with a session is flagged.
SessionFlags ==
  \A s \in DOMAIN sessions : approvals[sessions[s].requestId].sessionIssued

\* When a session was issued its host was present and its invite unexpired.
Timestamps ==
  /\ \A r \in DOMAIN rooms : rooms[r].hostLastSeenAt <= now
  /\ \A s \in DOMAIN sessions :
       /\ sessions[s].expiresAt = sessions[s].issuedAt + SessionTtl
       /\ sessions[s].issuedAt < invites[sessions[s].inviteId].expiresAt
       /\ sessions[s].issuedAt <= rooms[sessions[s].roomId].hostLastSeenAt + PresenceTtl

AdmissionInv ==
  /\ TypeOK
  /\ References
  /\ PermissionRule
  /\ OneSessionPerRequest
  /\ SessionFlags
  /\ Timestamps

\* The empty tables of createControlPlaneSimulation break none of the parts.
LEMMA InitAdmissionInv == Init => AdmissionInv
<1> SUFFICES ASSUME Init
             PROVE  AdmissionInv
  OBVIOUS
<1>1. TypeOK
  BY InitTypeOK
<1>2. /\ DOMAIN rooms = {} /\ DOMAIN invites = {}
      /\ DOMAIN approvals = {} /\ DOMAIN sessions = {}
  BY EmptyMapFacts DEF Init
<1> QED
  BY <1>1, <1>2 DEF AdmissionInv, References, PermissionRule,
                    OneSessionPerRequest, SessionFlags, Timestamps

\* One step per operation; only issueSession can threaten the sessions.
LEMMA NextAdmissionInv == AdmissionInv /\ [Next]_vars => AdmissionInv'
<1> SUFFICES ASSUME AdmissionInv, [Next]_vars
             PROVE  AdmissionInv'
  OBVIOUS
<1> USE TtlAssumption
<1>0. TypeOK'
  BY NextTypeOK DEF AdmissionInv
<1>1. ASSUME NEW a \in ActorIds, NEW r \in RoomIds, createRoom(a, r)
      PROVE  AdmissionInv'
  <2>1. /\ r \notin DOMAIN rooms
        /\ DOMAIN rooms' = DOMAIN rooms \cup {r}
        /\ rooms'[r].hostLastSeenAt = now
        /\ \A k \in DOMAIN rooms : rooms'[k] = rooms[k]
        /\ UNCHANGED <<now, invites, approvals, sessions>>
    BY <1>1 DEF createRoom, Put
  <2>2. References' /\ PermissionRule' /\ OneSessionPerRequest' /\ SessionFlags'
    BY <2>1 DEF AdmissionInv, References, PermissionRule, OneSessionPerRequest,
                SessionFlags
  <2>3. \A s \in DOMAIN sessions : sessions[s].roomId \in DOMAIN rooms
    BY DEF AdmissionInv, References, PermissionRule
  <2>4. Timestamps'
    BY <2>1, <2>3 DEF AdmissionInv, Timestamps, TypeOK
  <2> QED
    BY <1>0, <2>2, <2>4 DEF AdmissionInv
<1>2. ASSUME NEW a \in ActorIds, NEW r \in RoomIds, heartbeatHost(a, r)
      PROVE  AdmissionInv'
  <2>1. /\ DOMAIN rooms' = DOMAIN rooms
        /\ \A k \in DOMAIN rooms :
             rooms[k].hostLastSeenAt <= rooms'[k].hostLastSeenAt
             /\ rooms'[k].hostLastSeenAt <= now
        /\ UNCHANGED <<now, invites, approvals, sessions>>
    BY <1>2 DEF heartbeatHost, hostOwns, AdmissionInv, Timestamps, TypeOK, Room
  <2>2. References' /\ PermissionRule' /\ OneSessionPerRequest' /\ SessionFlags'
    BY <2>1 DEF AdmissionInv, References, PermissionRule, OneSessionPerRequest,
                SessionFlags
  <2>3. \A s \in DOMAIN sessions : sessions[s].roomId \in DOMAIN rooms
    BY DEF AdmissionInv, References, PermissionRule
  <2>4. Timestamps'
    BY <1>0, <2>1, <2>3 DEF AdmissionInv, Timestamps, TypeOK, Room, Session
  <2> QED
    BY <1>0, <2>2, <2>4 DEF AdmissionInv
<1>3. ASSUME NEW a \in ActorIds, NEW r \in RoomIds, NEW i \in InviteIds,
             createInvite(a, r, i)
      PROVE  AdmissionInv'
  <2>1. /\ r \in DOMAIN rooms
        /\ i \notin DOMAIN invites
        /\ DOMAIN invites' = DOMAIN invites \cup {i}
        /\ invites'[i].roomId = r
        /\ \A k \in DOMAIN invites : invites'[k] = invites[k]
        /\ UNCHANGED <<now, rooms, approvals, sessions>>
    BY <1>3 DEF createInvite, hostOwns, Put
  <2>2. References' /\ PermissionRule' /\ OneSessionPerRequest' /\ SessionFlags'
    BY <2>1 DEF AdmissionInv, References, PermissionRule, OneSessionPerRequest,
                SessionFlags
  <2>3. \A s \in DOMAIN sessions : sessions[s].inviteId \in DOMAIN invites
    BY DEF AdmissionInv, PermissionRule
  <2>4. Timestamps'
    BY <2>1, <2>3 DEF AdmissionInv, Timestamps
  <2> QED
    BY <1>0, <2>2, <2>4 DEF AdmissionInv
<1>4. ASSUME NEW a \in ActorIds, NEW i \in InviteIds, revokeInvite(a, i)
      PROVE  AdmissionInv'
  <2>1. /\ DOMAIN invites' = DOMAIN invites
        /\ \A k \in DOMAIN invites : /\ invites'[k].roomId = invites[k].roomId
                                      /\ invites'[k].expiresAt = invites[k].expiresAt
        /\ UNCHANGED <<now, rooms, approvals, sessions>>
    BY <1>4 DEF revokeInvite, AdmissionInv, TypeOK, Invite
  <2>2. References' /\ PermissionRule' /\ OneSessionPerRequest' /\ SessionFlags'
    BY <2>1 DEF AdmissionInv, References, PermissionRule, OneSessionPerRequest,
                SessionFlags
  <2>3. Timestamps'
    BY <2>1 DEF AdmissionInv, Timestamps, PermissionRule
  <2> QED
    BY <1>0, <2>2, <2>3 DEF AdmissionInv
<1>5. ASSUME NEW i \in InviteIds, NEW u \in Uuids, NEW q \in RequestIds,
             createJoinRequest(i, u, q)
      PROVE  AdmissionInv'
  <2>1. /\ q \notin DOMAIN approvals
        /\ DOMAIN approvals' = DOMAIN approvals \cup {q}
        /\ i \in DOMAIN invites
        /\ approvals'[q].inviteId = i
        /\ approvals'[q].roomId = invites[i].roomId
        /\ \A k \in DOMAIN approvals : approvals'[k] = approvals[k]
        /\ UNCHANGED <<now, rooms, invites, sessions>>
    BY <1>5 DEF createJoinRequest, Put
  <2>2. References' /\ PermissionRule' /\ OneSessionPerRequest' /\ SessionFlags'
    BY <2>1 DEF AdmissionInv, References, PermissionRule, OneSessionPerRequest,
                SessionFlags
  <2>3. Timestamps'
    BY <2>1 DEF AdmissionInv, Timestamps
  <2> QED
    BY <1>0, <2>2, <2>3 DEF AdmissionInv
<1>6. ASSUME NEW a \in ActorIds, NEW q \in RequestIds, NEW d \in Decisions,
             decideJoinRequest(a, q, d)
      PROVE  AdmissionInv'
  <2>1. /\ q \in DOMAIN approvals
        /\ approvals[q].state = "pending"
        /\ DOMAIN approvals' = DOMAIN approvals
        /\ \A k \in DOMAIN approvals :
             /\ approvals'[k].inviteId = approvals[k].inviteId
             /\ approvals'[k].roomId = approvals[k].roomId
             /\ approvals'[k].minecraftUuid = approvals[k].minecraftUuid
             /\ approvals'[k].sessionIssued = approvals[k].sessionIssued
             /\ k # q => approvals'[k] = approvals[k]
        /\ UNCHANGED <<now, rooms, invites, sessions>>
    BY <1>6 DEF decideJoinRequest, AdmissionInv, TypeOK, Approval
  <2>2. \A s \in DOMAIN sessions : sessions[s].requestId # q
    BY <2>1 DEF AdmissionInv, PermissionRule
  <2>3. References' /\ PermissionRule' /\ OneSessionPerRequest' /\ SessionFlags'
    BY <2>1, <2>2 DEF AdmissionInv, References, PermissionRule,
                      OneSessionPerRequest, SessionFlags
  <2>4. Timestamps'
    BY <2>1 DEF AdmissionInv, Timestamps
  <2> QED
    BY <1>0, <2>3, <2>4 DEF AdmissionInv
<1>7. ASSUME NEW q \in RequestIds, NEW r \in RoomIds, NEW i \in InviteIds,
             NEW u \in Uuids, NEW s \in SessionIds,
             issueSession(q, r, i, u, s)
      PROVE  AdmissionInv'
  <2>1. /\ s \notin DOMAIN sessions
        /\ DOMAIN sessions' = DOMAIN sessions \cup {s}
        /\ sessions'[s] = [roomId |-> r, inviteId |-> i, requestId |-> q,
                           minecraftUuid |-> u, state |-> "issued",
                           issuedAt |-> now, expiresAt |-> now + SessionTtl]
        /\ \A t \in DOMAIN sessions : sessions'[t] = sessions[t]
        /\ UNCHANGED <<now, rooms, invites>>
    BY <1>7 DEF issueSession, Put
  <2>2. /\ q \in DOMAIN approvals
        /\ i \in DOMAIN invites
        /\ approvals[q].state = "approved"
        /\ approvals[q].roomId = r
        /\ approvals[q].inviteId = i
        /\ approvals[q].minecraftUuid = u
        /\ ~approvals[q].sessionIssued
        /\ invites[i].expiresAt > now
        /\ now <= rooms[r].hostLastSeenAt + PresenceTtl
    BY <1>7 DEF issueSession, identityBound, isInviteActive, isHostOnline
  <2>3. /\ DOMAIN approvals' = DOMAIN approvals
        /\ approvals'[q].sessionIssued
        /\ \A k \in DOMAIN approvals :
             /\ approvals'[k].inviteId = approvals[k].inviteId
             /\ approvals'[k].roomId = approvals[k].roomId
             /\ approvals'[k].minecraftUuid = approvals[k].minecraftUuid
             /\ approvals'[k].state = approvals[k].state
             /\ k # q => approvals'[k] = approvals[k]
    BY <1>7, <2>2 DEF issueSession, AdmissionInv, TypeOK, Approval
  <2>4. \A t \in DOMAIN sessions : sessions[t].requestId # q
    BY <2>2 DEF AdmissionInv, SessionFlags
  <2>5. References'
    BY <2>1, <2>3 DEF AdmissionInv, References
  <2>6. PermissionRule'
    BY <2>1, <2>2, <2>3 DEF AdmissionInv, References, PermissionRule
  <2>7. OneSessionPerRequest' /\ SessionFlags'
    BY <2>1, <2>3, <2>4 DEF AdmissionInv, PermissionRule, OneSessionPerRequest,
                            SessionFlags
  <2>8. Timestamps'
    BY <2>1, <2>2 DEF AdmissionInv, Timestamps
  <2> QED
    BY <1>0, <2>5, <2>6, <2>7, <2>8 DEF AdmissionInv
<1>8. CASE advanceClock
  <2>1. /\ now' = now + 1
        /\ UNCHANGED <<rooms, invites, approvals, sessions>>
    BY <1>8 DEF advanceClock
  <2>2. References' /\ PermissionRule' /\ OneSessionPerRequest' /\ SessionFlags'
    BY <2>1 DEF AdmissionInv, References, PermissionRule, OneSessionPerRequest,
                SessionFlags
  <2>3. Timestamps'
    BY <2>1 DEF AdmissionInv, Timestamps, TypeOK, Room
  <2> QED
    BY <1>0, <2>2, <2>3 DEF AdmissionInv
<1>9. CASE UNCHANGED vars
  BY <1>0, <1>9 DEF vars, AdmissionInv, References, PermissionRule,
                    OneSessionPerRequest, SessionFlags, Timestamps
<1> QED
  BY <1>1, <1>2, <1>3, <1>4, <1>5, <1>6, <1>7, <1>8, <1>9 DEF Next

\* The inductive invariant holds in every state that the calls of
\* simulation.mjs and the clock can reach; the safety theorems follow from it.
THEOREM AdmissionInvariant == Spec => []AdmissionInv
<1>1. AdmissionInv /\ [Next]_vars => AdmissionInv'
  BY NextAdmissionInv
<1> QED
  BY <1>1, InitAdmissionInv, PTL DEF Spec

\* The Permission Rule of docs/architecture/protocol.md holds of every session
\* the control plane ever issues.
THEOREM SessionsObeyPermissionRule == Spec => []PermissionRule
<1>1. AdmissionInv => PermissionRule
  BY DEF AdmissionInv
<1> QED
  BY <1>1, AdmissionInvariant, PTL

\* An approved request is exchanged for a session at most once.
THEOREM OneSession == Spec => []OneSessionPerRequest
<1>1. AdmissionInv => OneSessionPerRequest
  BY DEF AdmissionInv
<1> QED
  BY <1>1, AdmissionInvariant, PTL

\* No readable session is staler than the three timeouts allow, whatever their
\* values.
THEOREM ReadableSessionsAreFresh == Spec => []ReadableSessionIsFresh
<1>1. AdmissionInv => ReadableSessionIsFresh
  <2> SUFFICES ASSUME AdmissionInv, NEW s \in SessionIds, readSession(s)
               PROVE  /\ now < rooms[sessions[s].roomId].hostLastSeenAt
                                + PresenceTtl + SessionTtl
                      /\ now < invites[sessions[s].inviteId].expiresAt + SessionTtl
    BY DEF ReadableSessionIsFresh
  <2>1. /\ s \in DOMAIN sessions
        /\ sessions[s].expiresAt > now
    BY DEF readSession
  <2>2. /\ sessions[s].roomId \in DOMAIN rooms
        /\ sessions[s].inviteId \in DOMAIN invites
    BY <2>1 DEF AdmissionInv, PermissionRule, References
  <2>3. /\ now \in Nat
        /\ sessions[s].issuedAt \in Nat
        /\ rooms[sessions[s].roomId].hostLastSeenAt \in Nat
        /\ invites[sessions[s].inviteId].expiresAt \in Nat
    BY <2>1, <2>2 DEF AdmissionInv, TypeOK, Session, Room, Invite
  <2> QED
    BY <2>1, <2>2, <2>3, TtlAssumption DEF AdmissionInv, Timestamps
<1> QED
  BY <1>1, AdmissionInvariant, PTL

-----------------------------------------------------------------------------
(* Refinement of the admission contract.                                   *)

\* An empty control plane is the contract's initial state.
LEMMA InitImplements == Init => A!Init
<1> SUFFICES ASSUME Init
             PROVE  A!Init
  OBVIOUS
<1>1. /\ DOMAIN invites = {} /\ DOMAIN approvals = {} /\ DOMAIN sessions = {}
  BY EmptyMapFacts DEF Init
<1> QED
  BY <1>1 DEF A!Init

\* Every operation is a step of the contract, or changes nothing it mentions.
LEMMA NextImplements == AdmissionInv /\ [Next]_vars => [A!Next]_(A!vars)
<1> SUFFICES ASSUME AdmissionInv, [Next]_vars
             PROVE  [A!Next]_(A!vars)
  OBVIOUS
<1> USE TtlAssumption
<1>1. ASSUME NEW a \in ActorIds, NEW r \in RoomIds,
             createRoom(a, r) \/ heartbeatHost(a, r)
      PROVE  UNCHANGED A!vars
  <2>1. UNCHANGED <<now, invites, approvals, sessions>>
    BY <1>1 DEF createRoom, heartbeatHost
  <2> QED
    BY <2>1 DEF A!vars, isInviteActive
<1>3. ASSUME NEW a \in ActorIds, NEW r \in RoomIds, NEW i \in InviteIds,
             createInvite(a, r, i)
      PROVE  A!Publish(i)
  <2>1. /\ i \notin DOMAIN invites
        /\ DOMAIN invites' = DOMAIN invites \cup {i}
        /\ invites'[i].state = "active"
        /\ invites'[i].expiresAt = now + InviteTtl
        /\ \A k \in DOMAIN invites : invites'[k] = invites[k]
        /\ UNCHANGED <<now, approvals, sessions>>
    BY <1>3 DEF createInvite, Put
  <2>2. now + InviteTtl > now
    BY DEF AdmissionInv, TypeOK
  <2> QED
    BY <2>1, <2>2 DEF A!Publish, isInviteActive
<1>4. ASSUME NEW a \in ActorIds, NEW i \in InviteIds, revokeInvite(a, i)
      PROVE  A!Next \/ UNCHANGED A!vars
  <2>1. /\ i \in DOMAIN invites
        /\ DOMAIN invites' = DOMAIN invites
        /\ invites'[i].state = "revoked"
        /\ \A k \in DOMAIN invites : k # i => invites'[k] = invites[k]
        /\ UNCHANGED <<now, approvals, sessions>>
    BY <1>4 DEF revokeInvite, AdmissionInv, TypeOK, Invite
  <2>2. CASE isInviteActive(invites[i])
    <3>1. A!Retire({i})
      BY <2>1, <2>2 DEF A!Retire, isInviteActive
    <3>2. {i} \in SUBSET {j \in DOMAIN invites : isInviteActive(invites[j])}
      BY <2>1, <2>2
    <3> QED
      BY <3>1, <3>2 DEF A!Next
  <2>3. CASE ~isInviteActive(invites[i])
    BY <2>1, <2>3 DEF A!vars, isInviteActive
  <2> QED
    BY <2>2, <2>3
<1>5. ASSUME NEW i \in InviteIds, NEW u \in Uuids, NEW q \in RequestIds,
             createJoinRequest(i, u, q)
      PROVE  A!Ask(q, i)
  <2>1. /\ q \notin DOMAIN approvals
        /\ i \in DOMAIN invites
        /\ isInviteActive(invites[i])
        /\ DOMAIN approvals' = DOMAIN approvals \cup {q}
        /\ approvals'[q].state = "pending"
        /\ approvals'[q].inviteId = i
        /\ \A k \in DOMAIN approvals : approvals'[k] = approvals[k]
        /\ UNCHANGED <<now, invites, sessions>>
    BY <1>5 DEF createJoinRequest, Put
  <2> QED
    BY <2>1 DEF A!Ask, isInviteActive
<1>6. ASSUME NEW a \in ActorIds, NEW q \in RequestIds, NEW d \in Decisions,
             decideJoinRequest(a, q, d)
      PROVE  A!Decide(q, d)
  <2>1. /\ q \in DOMAIN approvals
        /\ approvals[q].state = "pending"
        /\ DOMAIN approvals' = DOMAIN approvals
        /\ approvals'[q].state = d
        /\ approvals'[q].inviteId = approvals[q].inviteId
        /\ \A k \in DOMAIN approvals : k # q => approvals'[k] = approvals[k]
        /\ UNCHANGED <<now, invites, sessions>>
    BY <1>6 DEF decideJoinRequest, AdmissionInv, TypeOK, Approval
  <2> QED
    BY <2>1 DEF A!Decide, isInviteActive
<1>7. ASSUME NEW q \in RequestIds, NEW r \in RoomIds, NEW i \in InviteIds,
             NEW u \in Uuids, NEW s \in SessionIds,
             issueSession(q, r, i, u, s)
      PROVE  A!Admit(s, q)
  <2>1. /\ s \notin DOMAIN sessions
        /\ DOMAIN sessions' = DOMAIN sessions \cup {s}
        /\ sessions'[s].requestId = q
        /\ \A t \in DOMAIN sessions : sessions'[t] = sessions[t]
        /\ UNCHANGED <<now, rooms, invites>>
    BY <1>7 DEF issueSession, Put
  <2>2. /\ q \in DOMAIN approvals
        /\ i \in DOMAIN invites
        /\ isInviteActive(invites[i])
        /\ approvals[q].state = "approved"
        /\ approvals[q].inviteId = i
        /\ ~approvals[q].sessionIssued
    BY <1>7 DEF issueSession, identityBound
  <2>3. /\ DOMAIN approvals' = DOMAIN approvals
        /\ \A k \in DOMAIN approvals :
             /\ approvals'[k].inviteId = approvals[k].inviteId
             /\ approvals'[k].state = approvals[k].state
    BY <1>7, <2>2 DEF issueSession, AdmissionInv, TypeOK, Approval
  <2>4. \A t \in DOMAIN sessions : t # s /\ sessions[t].requestId # q
    BY <2>1, <2>2 DEF AdmissionInv, SessionFlags
  <2>5. A!Admits(s, q)
    BY <2>1, <2>2, <2>4 DEF A!Admits
  <2> QED
    BY <2>1, <2>2, <2>3, <2>5 DEF A!Admit, isInviteActive
<1>8. ASSUME advanceClock
      PROVE  A!Next
  <2> DEFINE Expired == {i \in DOMAIN invites : /\ isInviteActive(invites[i])
                                               /\ invites[i].expiresAt = now + 1}
  <2>1. /\ now' = now + 1
        /\ UNCHANGED <<invites, approvals, sessions>>
    BY <1>8 DEF advanceClock
  <2>2. now \in Nat /\ \A i \in DOMAIN invites : invites[i].expiresAt \in Nat
    BY DEF AdmissionInv, TypeOK, Invite
  <2>3. A!Retire(Expired)
    BY <2>1, <2>2 DEF A!Retire, isInviteActive
  <2>4. Expired \in SUBSET {j \in DOMAIN invites : isInviteActive(invites[j])}
    OBVIOUS
  <2> QED
    BY <2>3, <2>4 DEF A!Next
<1>9. CASE UNCHANGED vars
  BY <1>9 DEF vars, A!vars, isInviteActive
<1> QED
  BY <1>1, <1>3, <1>4, <1>5, <1>6, <1>7, <1>8, <1>9
     DEF Next, A!Next, A!Verdicts, Decisions

\* The control plane implements the admission contract.
THEOREM Refinement == Spec => ImplementsAdmission
<1>1. Init => A!Init
  BY InitImplements
<1>2. AdmissionInv /\ [Next]_vars => [A!Next]_(A!vars)
  BY NextImplements
<1> QED
  BY <1>1, <1>2, AdmissionInvariant, PTL DEF Spec, ImplementsAdmission, A!Spec

-----------------------------------------------------------------------------
(* The HTTP boundary.  A handler is a call of the simulation with a write  *)
(* to one of its own maps, so the admission invariant carries over; the    *)
(* mirror of the maps needs it, to know that a request asked for a session *)
(* has none yet, and needs that every handle names a record.               *)

\* The handlers never point a handle at a record the simulation does not have.
HandlesName ==
  /\ \A h \in DOMAIN inviteHandles : inviteHandles[h].inviteId \in DOMAIN invites
  /\ \A h \in DOMAIN sessionHandles :
       /\ sessionHandles[h].sessionId \in DOMAIN sessions
       /\ sessionHandles[h].requestId
            = sessions[sessionHandles[h].sessionId].requestId

HttpInv ==
  /\ AdmissionInv
  /\ HandlesName
  /\ MapsMirrorTables

\* Every handler of handlers.mjs takes a step of the simulation: the ids it reads
\* from its maps are ids of the tables.
LEMMA HandlersCallTheSimulation == HttpInv /\ [HttpNext]_httpVars => [Next]_vars
<1> SUFFICES ASSUME HttpInv, [HttpNext]_httpVars
             PROVE  [Next]_vars
  OBVIOUS
<1>1. ASSUME NEW h \in DOMAIN inviteHandles
      PROVE  inviteHandles[h].inviteId \in InviteIds
  BY <1>1 DEF HttpInv, HandlesName, AdmissionInv, TypeOK
<1>2. ASSUME NEW q \in DOMAIN requestBindings
      PROVE  requestBindings[q].roomId \in RoomIds /\ requestBindings[q].inviteId \in InviteIds
  BY <1>2 DEF HttpInv, MapsMirrorTables, TypeOK, Approval
<1>3. ASSUME NEW a \in ActorIds, NEW h \in InviteHandles, postInviteRevoke(a, h)
      PROVE  Next
  BY <1>1, <1>3 DEF postInviteRevoke, Next
<1>4. ASSUME NEW h \in InviteHandles, NEW u \in Uuids, NEW q \in RequestIds,
             postJoinRequest(h, u, q)
      PROVE  Next
  BY <1>1, <1>4 DEF postJoinRequest, Next
<1>5. ASSUME NEW t \in ActorTypes, NEW q \in RequestIds, NEW u \in Uuids,
             NEW s \in SessionIds, NEW h \in SessionHandles,
             postSession(t, q, u, s, h)
      PROVE  Next
  BY <1>2, <1>5 DEF postSession, Next
<1> QED
  BY <1>3, <1>4, <1>5
     DEF HttpNext, Next, httpVars, postRoom, postHeartbeat, postInvite, postDecision, httpClock

\* The handlers start with empty maps over an empty simulation.
LEMMA InitHttpInv == HttpInit => HttpInv
<1> SUFFICES ASSUME HttpInit
             PROVE  HttpInv
  OBVIOUS
<1>1. AdmissionInv
  BY InitAdmissionInv DEF HttpInit
<1>2. /\ DOMAIN invites = {} /\ DOMAIN approvals = {} /\ DOMAIN sessions = {}
      /\ DOMAIN inviteHandles = {} /\ DOMAIN sessionHandles = {}
  BY EmptyMapFacts DEF HttpInit, Init
<1>3. requestBindings = [q \in DOMAIN approvals |->
          [roomId |-> approvals[q].roomId, inviteId |-> approvals[q].inviteId,
           minecraftUuid |-> approvals[q].minecraftUuid]]
  BY EmptyMapFacts DEF HttpInit, Init, EmptyMap
<1> QED
  BY <1>1, <1>2, <1>3 DEF HttpInv, HandlesName, MapsMirrorTables, AdmissionInv

\* One step per handler; each conjunct of the mirror is disturbed by one of them.
LEMMA NextHttpInv == HttpInv /\ [HttpNext]_httpVars => HttpInv'
<1> SUFFICES ASSUME HttpInv, [HttpNext]_httpVars
             PROVE  HttpInv'
  OBVIOUS
<1> DEFINE Binding(q) ==
             [roomId |-> approvals[q].roomId, inviteId |-> approvals[q].inviteId,
              minecraftUuid |-> approvals[q].minecraftUuid]
           Bound == requestBindings = [q \in DOMAIN approvals |-> Binding(q)]
           OneSessionHandle ==
             \A s \in DOMAIN sessions :
               \E h \in DOMAIN sessionHandles :
                 /\ sessionHandles[h] = [sessionId |-> s,
                                         requestId |-> sessions[s].requestId]
                 /\ \A k \in DOMAIN sessionHandles :
                      sessionHandles[k].requestId = sessions[s].requestId => k = h
           OneInviteHandle ==
             \A i \in DOMAIN invites :
               \E h \in DOMAIN inviteHandles :
                 /\ inviteHandles[h] = [inviteId |-> i, roomId |-> invites[i].roomId]
                 /\ \A k \in DOMAIN inviteHandles :
                      inviteHandles[k].inviteId = i => k = h
<1>a. AdmissionInv'
  BY HandlersCallTheSimulation, NextAdmissionInv DEF HttpInv
<1>b. TypeOK /\ TypeOK'
  BY <1>a DEF HttpInv, AdmissionInv
<1>c. Bound /\ OneSessionHandle /\ OneInviteHandle
  BY DEF HttpInv, MapsMirrorTables
<1>d. ASSUME HandlesName', Bound', OneSessionHandle', OneInviteHandle'
      PROVE  HttpInv'
  BY <1>a, <1>b, <1>d DEF HttpInv, MapsMirrorTables
<1>1. ASSUME NEW a \in ActorIds, NEW r \in RoomIds,
             postRoom(a, r) \/ postHeartbeat(a, r)
      PROVE  HttpInv'
  <2>1. UNCHANGED <<invites, approvals, sessions, inviteHandles, requestBindings,
                    sessionHandles>>
    BY <1>1 DEF postRoom, postHeartbeat, createRoom, heartbeatHost, handleVars
  <2> QED
    BY <1>c, <1>d, <2>1 DEF HttpInv, HandlesName
<1>2. ASSUME NEW a \in ActorIds, NEW r \in RoomIds, NEW i \in InviteIds,
             NEW h \in InviteHandles, postInvite(a, r, i, h)
      PROVE  HttpInv'
  <2>1. /\ i \notin DOMAIN invites
        /\ DOMAIN invites' = DOMAIN invites \cup {i}
        /\ invites'[i].roomId = r
        /\ \A k \in DOMAIN invites : invites'[k] = invites[k]
        /\ UNCHANGED <<approvals, sessions>>
    BY <1>2 DEF postInvite, createInvite, Put
  <2>2. /\ h \notin DOMAIN inviteHandles
        /\ DOMAIN inviteHandles' = DOMAIN inviteHandles \cup {h}
        /\ inviteHandles'[h] = [inviteId |-> i, roomId |-> r]
        /\ \A k \in DOMAIN inviteHandles : inviteHandles'[k] = inviteHandles[k]
        /\ UNCHANGED <<requestBindings, sessionHandles>>
    BY <1>2 DEF postInvite, Put
  <2>3. HandlesName'
    BY <2>1, <2>2 DEF HttpInv, HandlesName
  <2>4. Bound' /\ OneSessionHandle'
    BY <1>c, <2>1, <2>2
  <2>5. \A k \in DOMAIN inviteHandles : inviteHandles[k].inviteId # i
    BY <2>1 DEF HttpInv, HandlesName
  <2>6. OneInviteHandle'
    BY <1>c, <2>1, <2>2, <2>5
  <2> QED
    BY <1>d, <2>3, <2>4, <2>6
<1>3. ASSUME NEW a \in ActorIds, NEW h \in InviteHandles, postInviteRevoke(a, h)
      PROVE  HttpInv'
  <2>1. /\ DOMAIN invites' = DOMAIN invites
        /\ \A k \in DOMAIN invites : invites'[k].roomId = invites[k].roomId
        /\ UNCHANGED <<approvals, sessions, inviteHandles, requestBindings,
                       sessionHandles>>
    BY <1>3, <1>b DEF postInviteRevoke, revokeInvite, handleVars, TypeOK, Invite
  <2>2. HandlesName' /\ Bound' /\ OneSessionHandle'
    BY <1>c, <2>1 DEF HttpInv, HandlesName
  <2>3. OneInviteHandle'
    BY <1>c, <2>1
  <2> QED
    BY <1>d, <2>2, <2>3
<1>4. ASSUME NEW h \in InviteHandles, NEW u \in Uuids, NEW q \in RequestIds,
             postJoinRequest(h, u, q)
      PROVE  HttpInv'
  <2> DEFINE i == inviteHandles[h].inviteId
  <2>1. h \in DOMAIN inviteHandles /\ i \in DOMAIN invites
    BY <1>4 DEF postJoinRequest, HttpInv, HandlesName
  <2>2. inviteHandles[h].roomId = invites[i].roomId
    BY <1>c, <2>1
  <2>3. /\ approvals' = Put(approvals, q,
                            [roomId |-> invites[i].roomId, inviteId |-> i,
                             minecraftUuid |-> u, state |-> "pending",
                             sessionIssued |-> FALSE])
        /\ requestBindings' = Put(requestBindings, q,
                                  [roomId |-> inviteHandles[h].roomId,
                                   inviteId |-> i, minecraftUuid |-> u])
        /\ UNCHANGED <<invites, sessions, inviteHandles, sessionHandles>>
    BY <1>4 DEF postJoinRequest, createJoinRequest
  <2>4. HandlesName' /\ OneSessionHandle' /\ OneInviteHandle'
    BY <1>c, <2>3 DEF HttpInv, HandlesName
  <2>5. /\ DOMAIN approvals' = DOMAIN approvals \cup {q}
        /\ Binding(q)' = [roomId |-> invites[i].roomId, inviteId |-> i,
                          minecraftUuid |-> u]
        /\ \A k \in DOMAIN approvals : k # q => Binding(k)' = Binding(k)
    BY <2>3 DEF Put
  <2>6. Bound'
    BY <1>c, <2>2, <2>3, <2>5 DEF Put
  <2> QED
    BY <1>d, <2>4, <2>6
<1>5. ASSUME NEW a \in ActorIds, NEW q \in RequestIds, NEW d \in Decisions,
             postDecision(a, q, d)
      PROVE  HttpInv'
  <2>1. /\ DOMAIN approvals' = DOMAIN approvals
        /\ \A k \in DOMAIN approvals : Binding(k)' = Binding(k)
        /\ UNCHANGED <<invites, sessions, inviteHandles, requestBindings,
                       sessionHandles>>
    BY <1>5, <1>b DEF postDecision, decideJoinRequest, handleVars, TypeOK, Approval
  <2>2. HandlesName' /\ OneSessionHandle' /\ OneInviteHandle'
    BY <1>c, <2>1 DEF HttpInv, HandlesName
  <2>3. Bound'
    BY <1>c, <2>1
  <2> QED
    BY <1>d, <2>2, <2>3
<1>6. ASSUME NEW t \in ActorTypes, NEW q \in RequestIds, NEW u \in Uuids,
             NEW s \in SessionIds, NEW h \in SessionHandles,
             postSession(t, q, u, s, h)
      PROVE  HttpInv'
  <2>1. /\ s \notin DOMAIN sessions
        /\ DOMAIN sessions' = DOMAIN sessions \cup {s}
        /\ sessions'[s].requestId = q
        /\ \A k \in DOMAIN sessions : sessions'[k] = sessions[k]
        /\ UNCHANGED invites
    BY <1>6 DEF postSession, issueSession, Put
  <2>2. /\ h \notin DOMAIN sessionHandles
        /\ DOMAIN sessionHandles' = DOMAIN sessionHandles \cup {h}
        /\ sessionHandles'[h] = [sessionId |-> s, requestId |-> q]
        /\ \A k \in DOMAIN sessionHandles : sessionHandles'[k] = sessionHandles[k]
        /\ UNCHANGED <<inviteHandles, requestBindings>>
    BY <1>6 DEF postSession, Put
  <2>3. /\ DOMAIN approvals' = DOMAIN approvals
        /\ \A k \in DOMAIN approvals : Binding(k)' = Binding(k)
        /\ q \in DOMAIN approvals
        /\ ~approvals[q].sessionIssued
    BY <1>6, <1>b DEF postSession, issueSession, identityBound, TypeOK, Approval
  <2>4. \A k \in DOMAIN sessions : sessions[k].requestId # q
    BY <2>3 DEF HttpInv, AdmissionInv, SessionFlags
  <2>5. \A k \in DOMAIN sessionHandles : sessionHandles[k].requestId # q
    BY <2>4 DEF HttpInv, HandlesName
  <2>6. HandlesName' /\ OneInviteHandle'
    BY <1>c, <2>1, <2>2 DEF HttpInv, HandlesName
  <2>7. Bound'
    BY <1>c, <2>2, <2>3
  <2>8. OneSessionHandle'
    BY <1>c, <2>1, <2>2, <2>4, <2>5
  <2> QED
    BY <1>d, <2>6, <2>7, <2>8
<1>7. CASE httpClock
  <2>1. UNCHANGED <<invites, approvals, sessions, inviteHandles, requestBindings,
                    sessionHandles>>
    BY <1>7 DEF httpClock, advanceClock, handleVars
  <2> QED
    BY <1>c, <1>d, <2>1 DEF HttpInv, HandlesName
<1>8. CASE UNCHANGED httpVars
  <2>1. UNCHANGED <<invites, approvals, sessions, inviteHandles, requestBindings,
                    sessionHandles>>
    BY <1>8 DEF httpVars, vars, handleVars
  <2> QED
    BY <1>c, <1>d, <2>1 DEF HttpInv, HandlesName
<1> QED
  BY <1>1, <1>2, <1>3, <1>4, <1>5, <1>6, <1>7, <1>8 DEF HttpNext

\* The handlers' maps mirror the simulation's tables in every reachable state:
\* no order of requests leaves a request without its binding, or an invite or a
\* session without its one handle.
THEOREM MapsNeverDrift == HttpSpec => []MapsMirrorTables
<1>1. HttpInv /\ [HttpNext]_httpVars => HttpInv'
  BY NextHttpInv
<1>2. HttpInv => MapsMirrorTables
  BY DEF HttpInv
<1> QED
  BY <1>1, <1>2, InitHttpInv, PTL DEF HttpSpec

\* Everything proved of the simulation holds behind HTTP: what goes through the
\* handlers is a behaviour of the simulation.
THEOREM HttpImplementsSimulation == HttpSpec => Spec
<1>1. HttpInit => Init
  BY DEF HttpInit
<1>2. HttpInv /\ [HttpNext]_httpVars => [Next]_vars
  BY HandlersCallTheSimulation
<1>3. HttpInv /\ [HttpNext]_httpVars => HttpInv'
  BY NextHttpInv
<1> QED
  BY <1>1, <1>2, <1>3, InitHttpInv, PTL DEF HttpSpec, Spec
=============================================================================
