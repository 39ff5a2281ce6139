------------------------- MODULE RoomServiceProofs -------------------------
(***************************************************************************)
(* Proofs about RoomService, for every set of hosts, identities and ids,   *)
(* every number of calls in flight, every lifetime and limit, and services *)
(* over either repository, with calls that overlap or are serialised.      *)
(***************************************************************************)
EXTENDS RoomService, FiniteSetTheorems, TLAPS

-----------------------------------------------------------------------------
(* The inductive invariant.                                                *)

\* Rows name rows of the other tables, and agree with them.
RequestRefs ==
  \A q \in DOMAIN approvals :
    /\ approvals[q].inviteId \in DOMAIN invites
    /\ approvals[q].roomId = invites[approvals[q].inviteId].roomId

SessionRefs ==
  \A s \in DOMAIN sessions :
    /\ sessions[s].requestId \in DOMAIN approvals
    /\ sessions[s].roomId = approvals[sessions[s].requestId].roomId
    /\ sessions[s].inviteId = approvals[sessions[s].requestId].inviteId
    /\ sessions[s].minecraftUuid = approvals[sessions[s].requestId].minecraftUuid
    /\ approvals[sessions[s].requestId].state # "pending"

\* Calls in flight name approvals that were there.
CallRefs ==
  \A c \in CallIds :
    /\ calls[c].at \in {"approval read", "prepared", "saved"} =>
         calls[c].requestId \in DOMAIN approvals
    /\ calls[c].at = "saved" =>
         ~Transactional /\ approvals[calls[c].requestId].state # "pending"

RowsAgree == RequestRefs /\ SessionRefs /\ CallRefs

\* What cleanup leaves: an approval with its invite, a session with both.
RowsLive ==
  /\ ~Transactional => deleted = {}
  /\ \A q \in DOMAIN approvals \ deleted : approvals[q].inviteId \notin deleted
  /\ \A s \in DOMAIN sessions \ deleted :
       sessions[s].requestId \notin deleted /\ sessions[s].inviteId \notin deleted

\* What commits together shows together.
SessionsIssued ==
  \A q \in DOMAIN approvals :
    Transactional /\ approvals[q].state = "approved" =>
      \E s \in DOMAIN sessions : sessions[s].requestId = q

RowsSound == RowsAgree /\ RowsLive /\ SessionsIssued

RowsInv == TypeOK /\ RowsSound

\* What a call has read is still so.
FreshCall(c) ==
  /\ calls[c].at = "invite read" => isInviteActive(calls[c].inviteId)
  /\ calls[c].at \in {"approval read", "prepared"} =>
       approvals[calls[c].requestId].state = "pending"
  /\ calls[c].at \in {"prepared", "saved"} =>
       isInviteActive(approvals[calls[c].requestId].inviteId)
  /\ calls[c].at = "saved" =>
       /\ approvals[calls[c].requestId].state = "approved"
       /\ \A s \in DOMAIN sessions : sessions[s].requestId # calls[c].requestId

\* Where nothing comes between the steps of a call, what it has read stays.
NothingIsStale ==
  ~store.overlapping =>
    /\ \A c, d \in CallIds : calls[c] # Idle /\ calls[d] # Idle => c = d
    /\ \A c \in CallIds : FreshCall(c)

\* sessions.request_id is UNIQUE among the rows there are.
OneLiveSession ==
  \A s, t \in DOMAIN sessions \ deleted :
    sessions[s].requestId = sessions[t].requestId => s = t

\* The requests that a counter has to answer for.
windowOf(signal) ==
  {q \in DOMAIN approvals :
     /\ signal \in signalOf(q)
     /\ approvals[q].createdAt + JoinRequestWindow >= rateLimits[signal].resetAt}

\* A request made now has its counters still, so a counter that restarts has
\* nothing to answer for.
RequestsCounted ==
  \A q \in DOMAIN approvals :
    /\ approvals[q].createdAt <= now
    /\ approvals[q].createdAt = now =>
         \A signal \in signalOf(q) :
           signal \in DOMAIN rateLimits /\ rateLimits[signal].resetAt > now

WindowsCounted ==
  \A signal \in DOMAIN rateLimits :
    /\ Cardinality(windowOf(signal)) <= rateLimits[signal].count
    /\ Cardinality(windowOf(signal)) <= JoinRequestLimit

WindowInv == IsFiniteSet(DOMAIN approvals) /\ RequestsCounted /\ WindowsCounted


-----------------------------------------------------------------------------
(* The tables.                                                             *)

\* A table that was just created has no rows.
LEMMA EmptyMapFacts == DOMAIN EmptyMap = {}
BY DEF EmptyMap

\* A call that has not begun, or has ended.
LEMMA IdleCall == Idle.at = "idle"
BY DEF Idle

\* Lifetimes and limits are positive.
LEMMA Lifetimes ==
  /\ InviteTtl \in Nat /\ PresenceTtl \in Nat /\ SessionTtl \in Nat
  /\ JoinRequestLimit \in Nat /\ JoinRequestWindow \in Nat
  /\ InviteTtl > 0 /\ JoinRequestLimit > 0 /\ JoinRequestWindow > 0
BY RoomServiceAssumption

\* What a call holds at each of its awaits.
LEMMA CallShape ==
  ASSUME TypeOK, NEW c \in CallIds
  PROVE  /\ calls[c].at \in {"idle", "invite read", "approval read", "prepared", "saved"}
         /\ calls[c].at = "idle" <=> calls[c] = Idle
         /\ calls[c].at = "invite read" =>
              /\ calls[c].inviteId \in InviteIds
              /\ calls[c].minecraftUuid \in Uuids /\ calls[c].device \in Devices
         /\ calls[c].at = "approval read" =>
              /\ calls[c].requestId \in RequestIds /\ calls[c].decision \in Decisions
              /\ calls[c].minecraftUuid \in Uuids
         /\ calls[c].at \in {"prepared", "saved"} =>
              /\ calls[c].requestId \in RequestIds /\ calls[c].decision = "approved"
              /\ calls[c].expiresAt \in Nat
<1>1. calls[c] \in Call
  BY DEF TypeOK
<1>2. CASE calls[c] = Idle
  BY <1>2, IdleCall
<1>3. CASE calls[c] \in [at : {"invite read"}, inviteId : InviteIds, minecraftUuid : Uuids,
                         device : Devices]
  BY <1>3, IdleCall
<1>4. CASE calls[c] \in [at : {"approval read"}, requestId : RequestIds,
                         decision : Decisions, minecraftUuid : Uuids]
  BY <1>4, IdleCall
<1>5. CASE calls[c] \in [at : {"prepared", "saved"}, requestId : RequestIds,
                         decision : {"approved"}, expiresAt : Nat]
  BY <1>5, IdleCall
<1> QED
  BY <1>1, <1>2, <1>3, <1>4, <1>5 DEF Call, Idle

\* A call goes on.
LEMMA CallGoesOn ==
  ASSUME TypeOK, NEW c \in CallIds, NEW call \in Call, calls' = [calls EXCEPT ![c] = call]
  PROVE  /\ calls' \in [CallIds -> Call] /\ calls'[c] = call
         /\ \A d \in CallIds : d # c => calls'[d] = calls[d]
BY DEF TypeOK

\* It ends.
LEMMA CallEnds ==
  ASSUME TypeOK, NEW c \in CallIds, calls' = [calls EXCEPT ![c] = Idle]
  PROVE  /\ calls' \in [CallIds -> Call] /\ calls'[c] = Idle /\ calls'[c].at = "idle"
         /\ \A d \in CallIds : d # c => calls'[d] = calls[d]
<1>1. Idle \in Call /\ Idle.at = "idle"
  BY DEF Idle, Call
<1> QED
  BY <1>1, CallGoesOn

\* The approval a memory store has saved waits for its session.
LEMMA CallSaved ==
  ASSUME TypeOK, NEW c \in CallIds, calls[c].at = "prepared",
         calls' = [calls EXCEPT ![c].at = "saved"]
  PROVE  /\ calls' \in [CallIds -> Call] /\ calls'[c].at = "saved"
         /\ calls'[c].requestId = calls[c].requestId
         /\ \A d \in CallIds : d # c => calls'[d] = calls[d]
<1> DEFINE call == [calls[c] EXCEPT !.at = "saved"]
<1>1. calls[c] \in [at : {"prepared", "saved"}, requestId : RequestIds,
                    decision : {"approved"}, expiresAt : Nat]
  <2>1. calls[c] \in Call /\ calls[c] # Idle
    BY IdleCall DEF TypeOK
  <2> QED
    BY <2>1 DEF Call, Idle
<1>2. /\ call \in [at : {"prepared", "saved"}, requestId : RequestIds,
                   decision : {"approved"}, expiresAt : Nat]
      /\ call.at = "saved" /\ call.requestId = calls[c].requestId
  BY <1>1
<1>3. call \in Call
  BY <1>2 DEF Call
<1>4. calls' = [calls EXCEPT ![c] = call]
  OBVIOUS
<1> HIDE DEF call
<1> QED
  BY <1>2, <1>3, <1>4, CallGoesOn

\* Invites are added and revoked, and stay invites of their room.
LEMMA InvitesKept ==
  ASSUME TypeOK, NEW a, NEW r, NEW i \in InviteIds, NEW j \in InviteIds,
         createInvite(a, r, i) \/ revokeInvite(a, i) \/ regenerateInvite(a, i, j)
  PROVE  /\ DOMAIN invites \subseteq DOMAIN invites' /\ DOMAIN invites' \subseteq InviteIds
         /\ \A k \in DOMAIN invites' : invites'[k] \in Invite
         /\ \A k \in DOMAIN invites : invites'[k].roomId = invites[k].roomId
         /\ DOMAIN invites' \cap deleted = DOMAIN invites \cap deleted
<1> DEFINE revoked == [invites EXCEPT ![i].state = "revoked"]
<1>1. ASSUME i \in DOMAIN invites
      PROVE  /\ DOMAIN revoked = DOMAIN invites
             /\ \A k \in DOMAIN invites :
                  revoked[k] \in Invite /\ revoked[k].roomId = invites[k].roomId
  BY <1>1 DEF TypeOK, Invite
<1>2. ASSUME NEW room \in RoomIds
      PROVE  newInvite(room) \in Invite
  BY RoomServiceAssumption DEF newInvite, Invite, TypeOK
<1>3. \A k \in InviteIds : k \notin DOMAIN invites => k \notin deleted
  BY RoomServiceAssumption DEF TypeOK
<1>4. CASE createInvite(a, r, i)
  BY <1>2, <1>3, <1>4 DEF createInvite, hostOwns, Put, TypeOK
<1>5. CASE revokeInvite(a, i)
  <2>1. i \in DOMAIN invites /\ invites' = revoked
    BY <1>5 DEF revokeInvite, readAuthorizedInvite, found
  <2> QED
    BY <1>1, <2>1 DEF TypeOK
<1>6. CASE regenerateInvite(a, i, j)
  <2>1. /\ i \in DOMAIN invites /\ j \notin DOMAIN invites
        /\ invites' = Put(revoked, j, newInvite(invites[i].roomId))
    BY <1>6 DEF regenerateInvite, readAuthorizedInvite, found
  <2>2. newInvite(invites[i].roomId) \in Invite
    BY <1>2, <2>1 DEF TypeOK, Invite
  <2> HIDE DEF revoked
  <2> QED
    BY <1>1, <1>3, <2>1, <2>2 DEF Put, TypeOK
<1> QED
  BY <1>4, <1>5, <1>6

\* The upsert of an approval changes its state and nothing else.
LEMMA ApprovalSaved ==
  ASSUME TypeOK, NEW c \in CallIds,
         calls[c].at \in {"approval read", "prepared"}, saveApproval(calls[c])
  PROVE  LET q == calls[c].requestId
         IN /\ q \in DOMAIN approvals \ deleted
            /\ DOMAIN approvals' = DOMAIN approvals
            /\ approvals'[q] \in Approval /\ approvals'[q].state = calls[c].decision
            /\ approvals'[q].roomId = approvals[q].roomId
            /\ approvals'[q].inviteId = approvals[q].inviteId
            /\ approvals'[q].minecraftUuid = approvals[q].minecraftUuid
            /\ approvals'[q].device = approvals[q].device
            /\ approvals'[q].createdAt = approvals[q].createdAt
            /\ \A p \in DOMAIN approvals : p # q => approvals'[p] = approvals[p]
BY CallShape DEF saveApproval, found, TypeOK, Approval, Decisions

\* The session of an approval is a new row with what the approval says.
LEMMA SessionSaved ==
  ASSUME TypeOK, NEW c \in CallIds, NEW s \in SessionIds,
         calls[c].at \in {"prepared", "saved"}, saveSession(calls[c], s),
         calls[c].requestId \in DOMAIN approvals
  PROVE  LET q == calls[c].requestId
         IN /\ s \notin DOMAIN sessions /\ s \notin deleted
            /\ DOMAIN sessions' = DOMAIN sessions \cup {s}
            /\ sessions'[s] \in Session
            /\ sessions'[s].requestId = q
            /\ sessions'[s].roomId = approvals[q].roomId
            /\ sessions'[s].inviteId = approvals[q].inviteId
            /\ sessions'[s].minecraftUuid = approvals[q].minecraftUuid
            /\ \A t \in DOMAIN sessions : sessions'[t] = sessions[t]
<1>1. s \notin deleted
  BY RoomServiceAssumption DEF saveSession, TypeOK
<1>2. approvals[calls[c].requestId] \in Approval
  BY DEF TypeOK
<1> QED
  BY <1>1, <1>2, CallShape DEF saveSession, Put, Session, Approval

\* The pending approval of a join request.
LEMMA RequestFinished ==
  ASSUME TypeOK, NEW c \in CallIds, NEW q \in RequestIds, finishJoinRequest(c, q)
  PROVE  LET signals == signalsOf(calls[c])
         IN /\ \/ approvals' = approvals /\ rateLimited(signals)
               \/ /\ ~rateLimited(signals)
                  /\ q \notin DOMAIN approvals /\ q \notin deleted
                  /\ calls[c].inviteId \in DOMAIN invites \ deleted
                  /\ DOMAIN approvals' = DOMAIN approvals \cup {q}
                  /\ approvals'[q] \in Approval /\ approvals'[q].state = "pending"
                  /\ approvals'[q].inviteId = calls[c].inviteId
                  /\ approvals'[q].roomId = invites[calls[c].inviteId].roomId
                  /\ approvals'[q].minecraftUuid = calls[c].minecraftUuid
                  /\ approvals'[q].device = calls[c].device
                  /\ approvals'[q].createdAt = now
                  /\ \A p \in DOMAIN approvals : approvals'[p] = approvals[p]
            /\ applyJoinRequestRateLimits(signals)
            /\ calls[c].at = "invite read" /\ calls' = [calls EXCEPT ![c] = Idle]
            /\ UNCHANGED <<store, now, rooms, invites, sessions, deleted, presence>>
<1>1. q \notin DOMAIN approvals => q \notin deleted
  BY RoomServiceAssumption DEF TypeOK
<1>2. CASE rateLimited(signalsOf(calls[c]))
  BY <1>2 DEF finishJoinRequest
<1>3. CASE ~rateLimited(signalsOf(calls[c]))
  <2>1. /\ calls[c].at = "invite read"
        /\ calls[c].inviteId \in DOMAIN invites \ deleted /\ q \notin DOMAIN approvals
        /\ invites[calls[c].inviteId].roomId \in RoomIds
    BY <1>3 DEF finishJoinRequest, found, TypeOK, Invite
  <2> DEFINE row == [roomId |-> invites[calls[c].inviteId].roomId,
                     inviteId |-> calls[c].inviteId,
                     minecraftUuid |-> calls[c].minecraftUuid,
                     device |-> calls[c].device,
                     state |-> "pending", createdAt |-> now]
  <2>2. row \in Approval
    BY <2>1, CallShape DEF Approval, TypeOK
  <2>3. approvals' = Put(approvals, q, row)
    BY <1>3 DEF finishJoinRequest
  <2>4. DOMAIN approvals' = DOMAIN approvals \cup {q} /\ approvals'[q] = row
        /\ \A p \in DOMAIN approvals : approvals'[p] = approvals[p]
    BY <2>1, <2>3 DEF Put
  <2>5. /\ row.state = "pending" /\ row.inviteId = calls[c].inviteId
        /\ row.roomId = invites[calls[c].inviteId].roomId
        /\ row.minecraftUuid = calls[c].minecraftUuid
        /\ row.device = calls[c].device /\ row.createdAt = now
    OBVIOUS
  <2> HIDE DEF row
  <2>6. /\ applyJoinRequestRateLimits(signalsOf(calls[c]))
        /\ calls' = [calls EXCEPT ![c] = Idle]
        /\ UNCHANGED <<store, now, rooms, invites, sessions, deleted, presence>>
    BY DEF finishJoinRequest
  <2> QED
    BY <1>1, <1>3, <2>1, <2>2, <2>4, <2>5, <2>6
<1> QED
  BY <1>2, <1>3

\* The counters that are counted up, restarted or left.
LEMMA CountersCount ==
  ASSUME TypeOK, NEW call, applyJoinRequestRateLimits(signalsOf(call)),
         call.inviteId \in InviteIds, call.minecraftUuid \in Uuids, call.device \in Devices
  PROVE  /\ DOMAIN rateLimits' \subseteq Signal
         /\ \A s \in DOMAIN rateLimits' : rateLimits'[s] \in [count : Nat, resetAt : Nat]
         /\ DOMAIN rateLimits \subseteq DOMAIN rateLimits'
         /\ \A s \in DOMAIN rateLimits' :
              \/ s \in DOMAIN rateLimits /\ rateLimits'[s] = rateLimits[s]
              \/ rateLimits'[s] = countUp(s)
         /\ ~rateLimited(signalsOf(call)) =>
              \A k \in 1..3 : /\ signalsOf(call)[k] \in DOMAIN rateLimits'
                              /\ rateLimits'[signalsOf(call)[k]] = countUp(signalsOf(call)[k])
<1> DEFINE counted == {signalsOf(call)[k] :
                         k \in {m \in 1..3 :
                                  \A n \in 1..(m - 1) : ~overLimit(signalsOf(call)[n])}}
<1>1. rateLimits' = [s \in DOMAIN rateLimits \cup counted |->
                       IF s \in counted THEN countUp(s) ELSE rateLimits[s]]
  BY DEF applyJoinRequestRateLimits
<1>2. \A k \in 1..3 : signalsOf(call)[k] \in Signal
  BY DEF signalsOf, Signal
<1>3. counted \subseteq Signal
  BY <1>2
<1>4. \A s \in Signal : countUp(s) \in [count : Nat, resetAt : Nat]
  BY RoomServiceAssumption DEF countUp, TypeOK
<1>5. ~rateLimited(signalsOf(call)) => \A k \in 1..3 : signalsOf(call)[k] \in counted
  BY DEF rateLimited
<1> HIDE DEF counted
<1> QED
  BY <1>1, <1>3, <1>4, <1>5 DEF TypeOK

\* A call that only reads: what it holds after.
LEMMA RequestBegun ==
  ASSUME TypeOK, NEW c \in CallIds, NEW i \in InviteIds, NEW u \in Uuids, NEW d \in Devices,
         beginJoinRequest(c, i, u, d)
  PROVE  /\ calls' \in [CallIds -> Call] /\ calls'[c].at = "invite read"
         /\ calls'[c].inviteId = i
         /\ \A e \in CallIds : e # c => calls'[e] = calls[e]
         /\ isInviteActive(i) /\ UNCHANGED <<store, now, tables>>
<1> DEFINE call == [at |-> "invite read", inviteId |-> i, minecraftUuid |-> u, device |-> d]
<1>1. call \in Call /\ call.at = "invite read" /\ call.inviteId = i
  BY DEF Call
<1>2. calls' = [calls EXCEPT ![c] = call]
  BY DEF beginJoinRequest
<1> HIDE DEF call
<1> QED
  BY <1>1, <1>2, CallGoesOn DEF beginJoinRequest

\* The approval a decision is about is there and pending.
LEMMA DecisionBegun ==
  ASSUME TypeOK, NEW c \in CallIds, NEW a, NEW q \in RequestIds, NEW d \in Decisions,
         NEW u \in Uuids, beginDecision(c, a, q, d, u)
  PROVE  /\ calls' \in [CallIds -> Call] /\ calls'[c].at = "approval read"
         /\ calls'[c].requestId = q
         /\ \A e \in CallIds : e # c => calls'[e] = calls[e]
         /\ q \in DOMAIN approvals /\ approvals[q].state = "pending"
         /\ UNCHANGED <<store, now, tables>>
<1> DEFINE call == [at |-> "approval read", requestId |-> q, decision |-> d,
                    minecraftUuid |-> u]
<1>1. call \in Call /\ call.at = "approval read" /\ call.requestId = q
  BY DEF Call
<1>2. calls' = [calls EXCEPT ![c] = call]
  BY DEF beginDecision
<1> HIDE DEF call
<1> QED
  BY <1>1, <1>2, CallGoesOn DEF beginDecision, found

\* A session is prepared while the invite of its approval is active.
LEMMA SessionPrepared ==
  ASSUME TypeOK, NEW c \in CallIds, prepareSession(c)
  PROVE  /\ calls' \in [CallIds -> Call] /\ calls'[c].at = "prepared"
         /\ calls'[c].requestId = calls[c].requestId
         /\ \A e \in CallIds : e # c => calls'[e] = calls[e]
         /\ calls[c].at = "approval read"
         /\ isInviteActive(approvals[calls[c].requestId].inviteId)
         /\ UNCHANGED <<store, now, tables>>
<1> DEFINE call == [at |-> "prepared", requestId |-> calls[c].requestId,
                    decision |-> "approved", expiresAt |-> now + SessionTtl]
<1>1. calls[c].at = "approval read"
  BY DEF prepareSession
<1>2. call.at = "prepared" /\ call.requestId = calls[c].requestId
  OBVIOUS
<1> HIDE DEF call
<1>4. call \in Call
  <2>1. now + SessionTtl \in Nat /\ calls[c].requestId \in RequestIds
    <3>1. calls[c].requestId \in RequestIds
      BY <1>1, CallShape
    <3>2. now \in Nat
      BY DEF TypeOK
    <3> QED
      BY <3>1, <3>2, Lifetimes
  <2>2. call \in [at : {"prepared", "saved"}, requestId : RequestIds,
                   decision : {"approved"}, expiresAt : Nat]
    BY <2>1 DEF call
  <2> QED
    BY <2>2 DEF Call
<1>3. calls' = [calls EXCEPT ![c] = call]
  BY DEF prepareSession, call
<1> QED
  BY <1>1, <1>2, <1>3, <1>4, CallGoesOn DEF prepareSession

\* The writes of an approval with its session, in one transaction or in two.
LEMMA Approved ==
  ASSUME TypeOK, RowsAgree, NEW c \in CallIds, NEW s \in SessionIds, approve(c, s)
  PROVE  LET q == calls[c].requestId
         IN /\ Transactional /\ calls[c].at = "prepared"
            /\ q \in DOMAIN approvals \ deleted /\ requestIsUnique(q)
            /\ DOMAIN approvals' = DOMAIN approvals
            /\ approvals'[q] \in Approval /\ approvals'[q].state = "approved"
            /\ approvals'[q].roomId = approvals[q].roomId
            /\ approvals'[q].inviteId = approvals[q].inviteId
            /\ approvals'[q].minecraftUuid = approvals[q].minecraftUuid
            /\ approvals'[q].device = approvals[q].device
            /\ approvals'[q].createdAt = approvals[q].createdAt
            /\ \A p \in DOMAIN approvals : p # q => approvals'[p] = approvals[p]
            /\ s \notin DOMAIN sessions /\ s \notin deleted
            /\ DOMAIN sessions' = DOMAIN sessions \cup {s}
            /\ sessions'[s] \in Session
            /\ sessions'[s].requestId = q
            /\ sessions'[s].roomId = approvals[q].roomId
            /\ sessions'[s].inviteId = approvals[q].inviteId
            /\ sessions'[s].minecraftUuid = approvals[q].minecraftUuid
            /\ \A t \in DOMAIN sessions : sessions'[t] = sessions[t]
            /\ calls' = [calls EXCEPT ![c] = Idle]
            /\ UNCHANGED <<store, now, rooms, invites, deleted, presence, rateLimits>>
<1>1. /\ Transactional /\ calls[c].at = "prepared" /\ saveApproval(calls[c])
      /\ requestIsUnique(calls[c].requestId) /\ saveSession(calls[c], s)
      /\ calls' = [calls EXCEPT ![c] = Idle]
      /\ UNCHANGED <<store, now, rooms, invites, deleted, presence, rateLimits>>
  BY DEF approve
<1>2. calls[c].requestId \in DOMAIN approvals
  BY <1>1 DEF RowsAgree, CallRefs
<1>3. calls[c].decision = "approved"
  BY <1>1, CallShape
<1> QED
  BY <1>1, <1>2, <1>3, ApprovalSaved, SessionSaved

\* A table that has no row yet holds nothing of the wrong type.
LEMMA InitTypeOK == Init => TypeOK
<1> SUFFICES ASSUME Init PROVE TypeOK
  OBVIOUS
<1>1. Idle \in Call
  BY DEF Idle, Call
<1> QED
  BY <1>1, EmptyMapFacts DEF Init, TypeOK

\* The rows every step writes have the shape of their table.
LEMMA NextTypeOK == TypeOK /\ RowsAgree /\ [Next]_vars => TypeOK'
<1> SUFFICES ASSUME TypeOK, RowsAgree, [Next]_vars
             PROVE  TypeOK'
  OBVIOUS
<1>1. ASSUME NEW c \in CallIds, NEW i \in InviteIds, NEW u \in Uuids, NEW d \in Devices,
             beginJoinRequest(c, i, u, d)
      PROVE  TypeOK'
  <2>1. calls' \in [CallIds -> Call] /\ UNCHANGED <<store, now, tables>>
    BY <1>1, RequestBegun
  <2> QED
    BY <2>1 DEF TypeOK, tables
<1>2. ASSUME NEW c \in CallIds, NEW q \in RequestIds, finishJoinRequest(c, q)
      PROVE  TypeOK'
  <2>1. calls[c].at = "invite read" /\ calls' \in [CallIds -> Call]
    BY <1>2, RequestFinished, CallEnds
  <2>2. /\ DOMAIN rateLimits' \subseteq Signal
        /\ \A s \in DOMAIN rateLimits' : rateLimits'[s] \in [count : Nat, resetAt : Nat]
    BY <1>2, <2>1, RequestFinished, CallShape, CountersCount
  <2>3. /\ DOMAIN approvals \subseteq DOMAIN approvals' /\ DOMAIN approvals' \subseteq RequestIds
        /\ \A p \in DOMAIN approvals' : approvals'[p] \in Approval
    <3>1. CASE approvals' = approvals
      BY <3>1 DEF TypeOK
    <3>2. CASE approvals' # approvals
      <4>1. /\ DOMAIN approvals' = DOMAIN approvals \cup {q} /\ approvals'[q] \in Approval
            /\ \A p \in DOMAIN approvals : approvals'[p] = approvals[p]
        BY <1>2, <3>2, RequestFinished
      <4> QED
        BY <4>1 DEF TypeOK
    <3> QED
      BY <3>1, <3>2
  <2>4. UNCHANGED <<store, now, rooms, invites, sessions, deleted, presence>>
    BY <1>2, RequestFinished
  <2> QED
    BY <2>1, <2>2, <2>3, <2>4 DEF TypeOK
<1>3. ASSUME NEW c \in CallIds, NEW a, NEW q \in RequestIds, NEW d \in Decisions,
             NEW u \in Uuids, beginDecision(c, a, q, d, u)
      PROVE  TypeOK'
  <2>1. calls' \in [CallIds -> Call] /\ UNCHANGED <<store, now, tables>>
    BY <1>3, DecisionBegun
  <2> QED
    BY <2>1 DEF TypeOK, tables
<1>4. ASSUME NEW c \in CallIds, prepareSession(c)
      PROVE  TypeOK'
  <2>1. calls' \in [CallIds -> Call] /\ UNCHANGED <<store, now, tables>>
    BY <1>4, SessionPrepared
  <2> QED
    BY <2>1 DEF TypeOK, tables
<1>5. ASSUME NEW c \in CallIds, decide(c) \/ approveInMemory(c)
      PROVE  TypeOK'
  <2>1. /\ calls[c].at \in {"approval read", "prepared"} /\ saveApproval(calls[c])
        /\ UNCHANGED <<store, now, rooms, invites, sessions, deleted, presence, rateLimits>>
    BY <1>5 DEF decide, approveInMemory
  <2>2. calls' \in [CallIds -> Call]
    BY <1>5, CallEnds, CallSaved DEF decide, approveInMemory
  <2>3. /\ DOMAIN approvals' = DOMAIN approvals
        /\ \A p \in DOMAIN approvals' : approvals'[p] \in Approval
    BY <2>1, ApprovalSaved DEF TypeOK
  <2> QED
    BY <2>1, <2>2, <2>3 DEF TypeOK
<1>6. ASSUME NEW c \in CallIds, NEW s \in SessionIds, approve(c, s)
      PROVE  TypeOK'
  <2>1. /\ DOMAIN approvals' = DOMAIN approvals
        /\ \A p \in DOMAIN approvals' : approvals'[p] \in Approval
        /\ DOMAIN sessions' = DOMAIN sessions \cup {s}
        /\ \A t \in DOMAIN sessions' : sessions'[t] \in Session
        /\ UNCHANGED <<store, now, rooms, invites, deleted, presence, rateLimits>>
    <3>1. \A p \in DOMAIN approvals : approvals'[p] \in Approval
      BY <1>6, Approved DEF TypeOK
    <3>2. \A t \in DOMAIN sessions \cup {s} : sessions'[t] \in Session
      BY <1>6, Approved DEF TypeOK
    <3> QED
      BY <1>6, <3>1, <3>2, Approved
  <2>2. calls' \in [CallIds -> Call]
    BY <1>6, CallEnds DEF approve
  <2> QED
    BY <2>1, <2>2 DEF TypeOK
<1>7. ASSUME NEW c \in CallIds, NEW s \in SessionIds, saveSessionInMemory(c, s)
      PROVE  TypeOK'
  <2>1. /\ calls[c].at = "saved" /\ saveSession(calls[c], s)
        /\ calls' = [calls EXCEPT ![c] = Idle]
        /\ UNCHANGED <<store, now, rooms, invites, approvals, deleted, presence, rateLimits>>
    BY <1>7 DEF saveSessionInMemory
  <2>2. /\ DOMAIN sessions' = DOMAIN sessions \cup {s}
        /\ \A t \in DOMAIN sessions' : sessions'[t] \in Session
    BY <2>1, SessionSaved DEF TypeOK, RowsAgree, CallRefs
  <2> QED
    BY <2>1, <2>2, CallEnds DEF TypeOK
<1>8. ASSUME NEW c \in CallIds, abandon(c)
      PROVE  TypeOK'
  BY <1>8, CallEnds DEF abandon, TypeOK, tables
<1>9. ASSUME NEW a \in ActorIds, NEW r \in RoomIds, createRoom(a, r)
      PROVE  TypeOK'
  <2>1. /\ DOMAIN rooms' = DOMAIN rooms \cup {r}
        /\ \A p \in DOMAIN rooms' : rooms'[p] \in ActorIds
    BY <1>9 DEF createRoom, Put, TypeOK
  <2> QED
    BY <1>9, <2>1 DEF createRoom, TypeOK
<1>10. ASSUME NEW a, NEW r, NEW i \in InviteIds, NEW j \in InviteIds,
              createInvite(a, r, i) \/ revokeInvite(a, i) \/ regenerateInvite(a, i, j)
       PROVE  TypeOK'
  <2>1. UNCHANGED <<store, now, rooms, approvals, sessions, deleted, presence,
                    rateLimits, calls>>
    BY <1>10 DEF createInvite, revokeInvite, regenerateInvite
  <2>2. /\ DOMAIN invites \subseteq DOMAIN invites' /\ DOMAIN invites' \subseteq InviteIds
        /\ \A k \in DOMAIN invites' : invites'[k] \in Invite
    BY <1>10, InvitesKept
  <2> QED
    BY <2>1, <2>2 DEF TypeOK
<1>11. ASSUME NEW r \in RoomIds, savePresence(r)
       PROVE  TypeOK'
  <2>1. /\ DOMAIN presence' = DOMAIN presence \cup {r} /\ r \in DOMAIN rooms
        /\ \A p \in DOMAIN presence' : presence'[p] \in Nat
    BY <1>11, RoomServiceAssumption DEF savePresence, Put, TypeOK
  <2> QED
    BY <1>11, <2>1 DEF savePresence, TypeOK
<1>12. CASE cleanupExpiredState
  <2>1. deleted' \subseteq DOMAIN invites \cup DOMAIN approvals \cup DOMAIN sessions
    BY <1>12 DEF cleanupExpiredState, TypeOK
  <2>2. /\ DOMAIN presence' \subseteq DOMAIN presence
        /\ \A r \in DOMAIN presence' : presence'[r] = presence[r]
        /\ DOMAIN rateLimits' \subseteq DOMAIN rateLimits
        /\ \A s \in DOMAIN rateLimits' : rateLimits'[s] = rateLimits[s]
    BY <1>12 DEF cleanupExpiredState, KeepKeys
  <2>3. UNCHANGED <<store, now, rooms, invites, approvals, sessions, calls>>
    BY <1>12 DEF cleanupExpiredState
  <2> QED
    BY <2>1, <2>2, <2>3 DEF TypeOK
<1>13. CASE advanceClock
  BY <1>13 DEF advanceClock, TypeOK, tables
<1>14. CASE UNCHANGED vars
  BY <1>14 DEF vars, TypeOK, tables
<1> QED
  BY <1>1, <1>2, <1>3, <1>4, <1>5, <1>6, <1>7, <1>8, <1>9, <1>10, <1>11, <1>12, <1>13, <1>14
     DEF Next, JoinStep, DecisionStep, RoomStep, InviteStep, OtherStep

-----------------------------------------------------------------------------
(* Rows and their references.                                              *)

\* Empty tables refer to nothing.
LEMMA InitRowsInv == Init => RowsInv
<1> SUFFICES ASSUME Init PROVE RowsInv
  OBVIOUS
<1>1. TypeOK
  BY InitTypeOK
<1>2. /\ DOMAIN invites = {} /\ DOMAIN approvals = {} /\ DOMAIN sessions = {}
      /\ deleted = {} /\ \A c \in CallIds : calls[c].at = "idle"
  BY EmptyMapFacts, IdleCall DEF Init
<1> QED
  BY <1>1, <1>2 DEF RowsInv, RowsSound, RowsAgree, RequestRefs, SessionRefs, CallRefs, RowsLive,
                    SessionsIssued

\* The steps that leave invites, approvals and sessions as they are.
LEMMA CallsKeepRows ==
  ASSUME RowsInv, NEW c \in CallIds, UNCHANGED <<store, tables>>,
         \A d \in CallIds : d # c => calls'[d] = calls[d],
         \/ calls'[c].at \in {"idle", "invite read"}
         \/ calls'[c].at \in {"approval read", "prepared"} /\ calls'[c].requestId \in DOMAIN approvals
  PROVE  RowsSound'
<1>1. CallRefs'
  BY DEF RowsInv, RowsSound, RowsAgree, CallRefs, tables, Transactional
<1>2. RequestRefs' /\ SessionRefs' /\ RowsLive' /\ SessionsIssued'
  BY DEF RowsInv, RowsSound, RowsAgree, RequestRefs, SessionRefs, RowsLive, SessionsIssued,
         tables, Transactional
<1> QED
  BY <1>1, <1>2 DEF RowsSound, RowsAgree

\* References are never broken, cleanup cascades, and what commits together shows
\* together.
LEMMA NextRowsInv == RowsInv /\ [Next]_vars => RowsInv'
<1> SUFFICES ASSUME RowsInv, [Next]_vars
             PROVE  RowsInv'
  OBVIOUS
<1>0. TypeOK /\ RowsAgree /\ RowsLive /\ SessionsIssued
  BY DEF RowsInv, RowsSound
<1> SUFFICES RowsSound'
  BY <1>0, NextTypeOK DEF RowsInv
<1>1. ASSUME NEW c \in CallIds, NEW i \in InviteIds, NEW u \in Uuids, NEW d \in Devices,
             beginJoinRequest(c, i, u, d)
      PROVE  RowsSound'
  BY <1>0, <1>1, RequestBegun, CallsKeepRows
<1>2. ASSUME NEW c \in CallIds, NEW q \in RequestIds, finishJoinRequest(c, q)
      PROVE  RowsSound'
  <2>1. /\ calls'[c].at = "idle" /\ \A d \in CallIds : d # c => calls'[d] = calls[d]
        /\ UNCHANGED <<store, invites, sessions, deleted>>
    BY <1>0, <1>2, RequestFinished, CallEnds
  <2>2. CASE approvals' = approvals
    BY <1>0, <2>1, <2>2 DEF RowsSound, RowsAgree, RequestRefs, SessionRefs, CallRefs, RowsLive,
                            SessionsIssued, Transactional
  <2>3. CASE approvals' # approvals
    <3>1. /\ q \notin DOMAIN approvals /\ q \notin deleted
          /\ calls[c].inviteId \in DOMAIN invites \ deleted
          /\ DOMAIN approvals' = DOMAIN approvals \cup {q}
          /\ approvals'[q].state = "pending"
          /\ approvals'[q].inviteId = calls[c].inviteId
          /\ approvals'[q].roomId = invites[calls[c].inviteId].roomId
          /\ \A p \in DOMAIN approvals : approvals'[p] = approvals[p]
      BY <1>0, <1>2, <2>3, RequestFinished
    <3>2. RowsAgree'
      <4>1. RequestRefs'
        BY <1>0, <2>1, <3>1 DEF RowsAgree, RequestRefs
      <4>2. SessionRefs'
        BY <1>0, <2>1, <3>1 DEF RowsAgree, SessionRefs
      <4>3. ASSUME NEW d \in CallIds, d # c
            PROVE  /\ calls[d].at \in {"approval read", "prepared", "saved"} =>
                        calls[d].requestId \in DOMAIN approvals'
                   /\ calls[d].at = "saved" =>
                        ~Transactional /\ approvals'[calls[d].requestId].state # "pending"
        BY <1>0, <3>1, <4>3 DEF RowsAgree, CallRefs
      <4>4. CallRefs'
        BY <2>1, <4>3 DEF CallRefs, Transactional
      <4> QED
        BY <4>1, <4>2, <4>4 DEF RowsAgree
    <3>3. RowsLive'
      BY <1>0, <2>1, <3>1 DEF RowsLive, RowsAgree, RequestRefs, SessionRefs, Transactional
    <3>4. SessionsIssued'
      BY <1>0, <2>1, <3>1 DEF SessionsIssued, Transactional
    <3> QED
      BY <3>2, <3>3, <3>4 DEF RowsSound
  <2> QED
    BY <2>2, <2>3
<1>3. ASSUME NEW c \in CallIds, NEW a, NEW q \in RequestIds, NEW d \in Decisions,
             NEW u \in Uuids, beginDecision(c, a, q, d, u)
      PROVE  RowsSound'
  BY <1>0, <1>3, DecisionBegun, CallsKeepRows
<1>4. ASSUME NEW c \in CallIds, prepareSession(c)
      PROVE  RowsSound'
  <2>1. calls[c].requestId \in DOMAIN approvals
    BY <1>0, <1>4, SessionPrepared DEF RowsAgree, CallRefs
  <2> QED
    BY <1>0, <1>4, <2>1, SessionPrepared, CallsKeepRows
<1>5. ASSUME NEW c \in CallIds, decide(c) \/ approveInMemory(c)
      PROVE  RowsSound'
  <2> DEFINE r == calls[c].requestId
  <2>1. /\ calls[c].at \in {"approval read", "prepared"} /\ saveApproval(calls[c])
        /\ UNCHANGED <<store, invites, sessions, deleted>>
    BY <1>5 DEF decide, approveInMemory
  <2>2. /\ \A d \in CallIds : d # c => calls'[d] = calls[d]
        /\ \/ calls'[c].at = "idle"
           \/ calls'[c].at = "saved" /\ calls'[c].requestId = r /\ ~Transactional
    BY <1>0, <1>5, CallEnds, CallSaved DEF decide, approveInMemory
  <2>3. /\ r \in DOMAIN approvals \ deleted
        /\ DOMAIN approvals' = DOMAIN approvals
        /\ approvals'[r].state = calls[c].decision
        /\ approvals'[r].roomId = approvals[r].roomId
        /\ approvals'[r].inviteId = approvals[r].inviteId
        /\ approvals'[r].minecraftUuid = approvals[r].minecraftUuid
        /\ \A p \in DOMAIN approvals : p # r => approvals'[p] = approvals[p]
    BY <1>0, <2>1, ApprovalSaved
  <2>4. /\ calls[c].decision # "pending"
        /\ Transactional => calls[c].decision # "approved"
    BY <1>0, <1>5, CallShape DEF decide, approveInMemory, Decisions
  <2> HIDE DEF r
  <2>5. RowsAgree'
    <3>1. \A p \in DOMAIN approvals' :
            /\ approvals'[p].inviteId = approvals[p].inviteId
            /\ approvals'[p].roomId = approvals[p].roomId
            /\ approvals'[p].minecraftUuid = approvals[p].minecraftUuid
            /\ approvals[p].state # "pending" => approvals'[p].state # "pending"
      BY <2>3, <2>4
    <3>2. RequestRefs'
      BY <1>0, <2>1, <2>3, <3>1 DEF RowsAgree, RequestRefs
    <3>3. SessionRefs'
      <4>1. ASSUME NEW s \in DOMAIN sessions
            PROVE  /\ sessions[s].requestId \in DOMAIN approvals'
                   /\ sessions[s].roomId = approvals'[sessions[s].requestId].roomId
                   /\ sessions[s].inviteId = approvals'[sessions[s].requestId].inviteId
                   /\ sessions[s].minecraftUuid
                        = approvals'[sessions[s].requestId].minecraftUuid
                   /\ approvals'[sessions[s].requestId].state # "pending"
        <5>1. /\ sessions[s].requestId \in DOMAIN approvals
              /\ sessions[s].roomId = approvals[sessions[s].requestId].roomId
              /\ sessions[s].inviteId = approvals[sessions[s].requestId].inviteId
              /\ sessions[s].minecraftUuid = approvals[sessions[s].requestId].minecraftUuid
              /\ approvals[sessions[s].requestId].state # "pending"
          BY <1>0 DEF RowsAgree, SessionRefs
        <5> QED
          BY <2>3, <3>1, <5>1
      <4> QED
        BY <2>1, <4>1 DEF SessionRefs
    <3>4. ASSUME NEW d \in CallIds, d # c
          PROVE  /\ calls[d].at \in {"approval read", "prepared", "saved"} =>
                      calls[d].requestId \in DOMAIN approvals'
                 /\ calls[d].at = "saved" =>
                      ~Transactional /\ approvals'[calls[d].requestId].state # "pending"
      BY <1>0, <2>3, <3>1, <3>4 DEF RowsAgree, CallRefs
    <3>5. CallRefs'
      BY <2>1, <2>2, <2>3, <2>4, <3>4 DEF CallRefs, Transactional
    <3> QED
      BY <3>2, <3>3, <3>5 DEF RowsAgree
  <2>6. RowsLive'
    BY <1>0, <2>1, <2>3 DEF RowsLive, Transactional
  <2>7. SessionsIssued'
    <3>1. ASSUME Transactional, NEW p \in DOMAIN approvals', approvals'[p].state = "approved"
          PROVE  \E s \in DOMAIN sessions' : sessions'[s].requestId = p
      <4>1. p # r /\ p \in DOMAIN approvals /\ approvals[p].state = "approved"
        BY <2>3, <2>4, <3>1
      <4> QED
        BY <1>0, <2>1, <3>1, <4>1 DEF SessionsIssued
    <3> QED
      BY <2>1, <3>1 DEF SessionsIssued, Transactional
  <2> QED
    BY <2>5, <2>6, <2>7 DEF RowsSound
<1>6. ASSUME NEW c \in CallIds, NEW s \in SessionIds, approve(c, s)
      PROVE  RowsSound'
  <2> DEFINE r == calls[c].requestId
  <2>1. /\ r \in DOMAIN approvals \ deleted
        /\ DOMAIN approvals' = DOMAIN approvals
        /\ approvals'[r].state = "approved"
        /\ approvals'[r].roomId = approvals[r].roomId
        /\ approvals'[r].inviteId = approvals[r].inviteId
        /\ approvals'[r].minecraftUuid = approvals[r].minecraftUuid
        /\ \A p \in DOMAIN approvals : p # r => approvals'[p] = approvals[p]
        /\ UNCHANGED <<store, invites, deleted>>
    BY <1>0, <1>6, Approved
  <2>2. /\ s \notin DOMAIN sessions
        /\ DOMAIN sessions' = DOMAIN sessions \cup {s}
        /\ sessions'[s].requestId = r
        /\ sessions'[s].roomId = approvals[r].roomId
        /\ sessions'[s].inviteId = approvals[r].inviteId
        /\ sessions'[s].minecraftUuid = approvals[r].minecraftUuid
        /\ \A t \in DOMAIN sessions : sessions'[t] = sessions[t]
    BY <1>0, <1>6, Approved
  <2>3. calls'[c].at = "idle" /\ \A d \in CallIds : d # c => calls'[d] = calls[d]
    BY <1>0, <1>6, CallEnds DEF approve
  <2> HIDE DEF r
  <2>4. RowsAgree'
    <3>1. \A p \in DOMAIN approvals' :
            /\ approvals'[p].inviteId = approvals[p].inviteId
            /\ approvals'[p].roomId = approvals[p].roomId
            /\ approvals'[p].minecraftUuid = approvals[p].minecraftUuid
            /\ approvals[p].state # "pending" => approvals'[p].state # "pending"
      BY <2>1
    <3>2. RequestRefs'
      BY <1>0, <2>1, <3>1 DEF RowsAgree, RequestRefs
    <3>3. SessionRefs'
      BY <1>0, <2>1, <2>2, <3>1 DEF RowsAgree, SessionRefs
    <3>4. CallRefs'
      BY <1>0, <2>1, <2>3, <3>1 DEF RowsAgree, CallRefs, Transactional
    <3> QED
      BY <3>2, <3>3, <3>4 DEF RowsAgree
  <2>5. RowsLive'
    BY <1>0, <2>1, <2>2 DEF RowsLive, Transactional
  <2>6. SessionsIssued'
    BY <1>0, <2>1, <2>2 DEF SessionsIssued, Transactional
  <2> QED
    BY <2>4, <2>5, <2>6 DEF RowsSound
<1>7. ASSUME NEW c \in CallIds, NEW s \in SessionIds, saveSessionInMemory(c, s)
      PROVE  RowsSound'
  <2> DEFINE r == calls[c].requestId
  <2>1. /\ calls[c].at = "saved" /\ saveSession(calls[c], s)
        /\ calls' = [calls EXCEPT ![c] = Idle]
        /\ UNCHANGED <<store, invites, approvals, deleted>>
    BY <1>7 DEF saveSessionInMemory
  <2>2. /\ r \in DOMAIN approvals
        /\ s \notin DOMAIN sessions
        /\ DOMAIN sessions' = DOMAIN sessions \cup {s}
        /\ sessions'[s].requestId = r
        /\ sessions'[s].roomId = approvals[r].roomId
        /\ sessions'[s].inviteId = approvals[r].inviteId
        /\ sessions'[s].minecraftUuid = approvals[r].minecraftUuid
        /\ \A t \in DOMAIN sessions : sessions'[t] = sessions[t]
    BY <1>0, <2>1, SessionSaved DEF RowsAgree, CallRefs
  <2>3. calls'[c].at = "idle" /\ \A d \in CallIds : d # c => calls'[d] = calls[d]
    BY <1>0, <2>1, CallEnds
  <2>4. ~Transactional /\ approvals[r].state # "pending"
    BY <1>0, <2>1 DEF RowsAgree, CallRefs
  <2> HIDE DEF r
  <2>5. RequestRefs' /\ SessionsIssued'
    BY <1>0, <2>1, <2>4 DEF RowsAgree, RequestRefs, SessionsIssued, Transactional
  <2>6. SessionRefs'
    BY <1>0, <2>1, <2>2, <2>4 DEF RowsAgree, SessionRefs
  <2>7. CallRefs'
    BY <1>0, <2>1, <2>3 DEF RowsAgree, CallRefs, Transactional
  <2>8. RowsLive'
    BY <1>0, <2>1, <2>4 DEF RowsLive, Transactional
  <2> QED
    BY <2>5, <2>6, <2>7, <2>8 DEF RowsSound, RowsAgree
<1>8. ASSUME NEW c \in CallIds, abandon(c)
      PROVE  RowsSound'
  BY <1>0, <1>8, CallEnds, CallsKeepRows DEF abandon
<1>9. ASSUME NEW a, NEW r, NEW i \in InviteIds, NEW j \in InviteIds,
             createInvite(a, r, i) \/ revokeInvite(a, i) \/ regenerateInvite(a, i, j)
      PROVE  RowsSound'
  <2>1. UNCHANGED <<store, approvals, sessions, deleted, calls>>
    BY <1>9 DEF createInvite, revokeInvite, regenerateInvite
  <2>2. /\ DOMAIN invites \subseteq DOMAIN invites'
        /\ \A k \in DOMAIN invites : invites'[k].roomId = invites[k].roomId
    BY <1>0, <1>9, InvitesKept
  <2> QED
    BY <1>0, <2>1, <2>2 DEF RowsSound, RowsAgree, RequestRefs, SessionRefs, CallRefs, RowsLive,
                            SessionsIssued, Transactional
<1>10. ASSUME UNCHANGED <<store, invites, approvals, sessions, deleted, calls>>
       PROVE  RowsSound'
  BY <1>0, <1>10 DEF RowsSound, RowsAgree, RequestRefs, SessionRefs, CallRefs, RowsLive,
                       SessionsIssued, Transactional
<1>11. CASE cleanupExpiredState
  <2> DEFINE oldSessions == {s \in DOMAIN sessions : sessions[s].expiresAt <= now}
             inUse == {sessions[s].inviteId : s \in DOMAIN sessions \ (deleted \cup oldSessions)}
             oldInvites == {i \in DOMAIN invites : invites[i].expiresAt <= now} \ inUse
             oldApprovals == {q \in DOMAIN approvals : approvals[q].inviteId \in oldInvites}
  <2>1. /\ Transactional
        /\ deleted' = deleted \cup oldSessions \cup oldInvites \cup oldApprovals
        /\ UNCHANGED <<store, invites, approvals, sessions, calls>>
    BY <1>11 DEF cleanupExpiredState
  <2>2. /\ oldInvites \subseteq InviteIds /\ oldSessions \subseteq SessionIds
        /\ oldApprovals \subseteq RequestIds
    BY <1>0 DEF TypeOK
  <2>3. \A q \in oldApprovals : approvals[q].inviteId \in oldInvites
    OBVIOUS
  <2>4. \A q \in DOMAIN approvals \ oldApprovals : approvals[q].inviteId \notin oldInvites
    OBVIOUS
  <2>5. \A s \in DOMAIN sessions \ (deleted \cup oldSessions) :
          sessions[s].inviteId \notin oldInvites
    OBVIOUS
  <2> HIDE DEF oldSessions, inUse, oldInvites, oldApprovals
  <2>6. RowsAgree' /\ SessionsIssued'
    BY <1>0, <2>1 DEF RowsAgree, RequestRefs, SessionRefs, CallRefs, SessionsIssued, Transactional
  <2>7. \A q \in DOMAIN approvals :
          q \in RequestIds /\ approvals[q].inviteId \in InviteIds
    BY <1>0 DEF TypeOK, Approval
  <2>8. \A q \in DOMAIN approvals \ deleted' : approvals[q].inviteId \notin deleted'
    BY <1>0, <2>1, <2>2, <2>4, <2>7, RoomServiceAssumption DEF RowsLive
  <2>9. ASSUME NEW s \in DOMAIN sessions \ deleted'
        PROVE  sessions[s].requestId \notin deleted' /\ sessions[s].inviteId \notin deleted'
    <3>1. /\ sessions[s].requestId \in DOMAIN approvals
          /\ sessions[s].inviteId = approvals[sessions[s].requestId].inviteId
      BY <1>0 DEF RowsAgree, SessionRefs
    <3>2. sessions[s].inviteId \notin oldInvites
      BY <2>1, <2>5
    <3>3. sessions[s].requestId \notin oldApprovals
      BY <2>3, <3>1, <3>2
    <3>4. sessions[s].requestId \in RequestIds /\ sessions[s].inviteId \in InviteIds
      BY <2>7, <3>1
    <3>5. sessions[s].requestId \notin deleted /\ sessions[s].inviteId \notin deleted
      BY <1>0, <2>1 DEF RowsLive
    <3> QED
      BY <2>1, <2>2, <3>2, <3>3, <3>4, <3>5, RoomServiceAssumption
  <2>10. RowsLive'
    <3>1. Transactional'
      BY <2>1 DEF Transactional
    <3>2. \A q \in DOMAIN approvals' \ deleted' : approvals'[q].inviteId \notin deleted'
      BY <2>1, <2>8
    <3>3. \A s \in DOMAIN sessions' \ deleted' :
            sessions'[s].requestId \notin deleted' /\ sessions'[s].inviteId \notin deleted'
      BY <2>1, <2>9
    <3> QED
      BY <3>1, <3>2, <3>3 DEF RowsLive
  <2> QED
    BY <2>6, <2>10 DEF RowsSound
<1>12. CASE JoinStep
  BY <1>1, <1>2, <1>12 DEF JoinStep
<1>13. CASE DecisionStep
  BY <1>3, <1>4, <1>5, <1>6, <1>7, <1>13 DEF DecisionStep
<1>14. CASE RoomStep
  <2>1. PICK a \in ActorIds, r \in RoomIds :
          createRoom(a, r) \/ \E i \in InviteIds : createInvite(a, r, i)
    BY <1>14 DEF RoomStep
  <2>2. CASE createRoom(a, r)
    BY <1>10, <2>2 DEF createRoom
  <2> QED
    BY <1>9, <2>1, <2>2
<1>15. CASE InviteStep
  BY <1>9, <1>15 DEF InviteStep
<1>16. CASE OtherStep
  <2>1. CASE \E r \in RoomIds : savePresence(r)
    BY <1>10, <2>1 DEF savePresence
  <2>2. CASE advanceClock
    BY <1>10, <2>2 DEF advanceClock, tables
  <2> QED
    BY <1>11, <1>16, <2>1, <2>2 DEF OtherStep
<1>17. CASE UNCHANGED vars
  BY <1>10, <1>17 DEF vars, tables
<1> QED
  BY <1>8, <1>12, <1>13, <1>14, <1>15, <1>16, <1>17 DEF Next

\* References hold in every table, and what cleanup leaves is whole.
THEOREM RowsAreWhole == Spec => []RowsInv
BY InitRowsInv, NextRowsInv, PTL DEF Spec

\* A session that can still be used keeps its request and its invite
\* (cleanupExpiredState, ON DELETE CASCADE).
THEOREM LiveSessionsAreWhole == Spec => []LiveSessionsKeepTheirRows
<1>1. RowsInv => LiveSessionsKeepTheirRows
  BY DEF RowsInv, RowsSound, RowsAgree, RequestRefs, SessionRefs, RowsLive,
         LiveSessionsKeepTheirRows, found
<1> QED
  BY <1>1, RowsAreWhole, PTL

-----------------------------------------------------------------------------
(* What a serialised call has read.                                        *)

\* Where one call runs at a time, its step leaves the other calls idle.
LEMMA OthersAreIdle ==
  ASSUME NothingIsStale, ~store.overlapping, NEW c \in CallIds,
         calls[c] # Idle \/ \A d \in CallIds : calls[d] = Idle,
         \A d \in CallIds : d # c => calls'[d] = calls[d]
  PROVE  \A d \in CallIds : d # c => calls'[d] = Idle
BY DEF NothingIsStale

\* Then only that call has read anything.
LEMMA OneCallReads ==
  ASSUME NEW c \in CallIds, \A d \in CallIds : d # c => calls'[d] = Idle,
         FreshCall(c)'
  PROVE  NothingIsStale'
<1>1. \A d \in CallIds : d # c => FreshCall(d)'
  BY IdleCall DEF FreshCall
<1> QED
  BY <1>1 DEF NothingIsStale

\* An ended call holds nothing.
LEMMA NoCallReads ==
  ASSUME NEW c \in CallIds, \A d \in CallIds : d # c => calls'[d] = Idle,
         calls'[c].at = "idle"
  PROVE  NothingIsStale'
<1>1. FreshCall(c)'
  BY DEF FreshCall
<1> QED
  BY <1>1, OneCallReads

\* Nor does anything that waits for its turn.
LEMMA IdleCallsReadNothing ==
  ASSUME \A c \in CallIds : calls'[c] = Idle
  PROVE  NothingIsStale'
BY IdleCall DEF NothingIsStale, FreshCall

\* No call is in flight at first.
LEMMA InitNothingIsStale == Init => NothingIsStale
<1> SUFFICES ASSUME Init PROVE NothingIsStale
  OBVIOUS
<1>1. \A c \in CallIds : calls[c] = Idle
  BY DEF Init
<1> QED
  BY <1>1, IdleCall DEF NothingIsStale, FreshCall

\* A service keeps its kind of repository.
LEMMA StoreIsKept == [Next]_vars => store' = store
BY DEF Next, JoinStep, DecisionStep, RoomStep, InviteStep, OtherStep, vars,
       beginJoinRequest, finishJoinRequest, beginDecision, prepareSession, decide,
       approveInMemory, approve, saveSessionInMemory, abandon, createRoom, createInvite,
       revokeInvite, regenerateInvite, savePresence, cleanupExpiredState, advanceClock

\* Other steps, and time, wait for the end of a call.
LEMMA NextNothingIsStale == RowsInv /\ NothingIsStale /\ [Next]_vars => NothingIsStale'
<1> SUFFICES ASSUME RowsInv, NothingIsStale, [Next]_vars, ~store'.overlapping
             PROVE  NothingIsStale'
  BY DEF NothingIsStale
<1>0. TypeOK /\ RowsAgree /\ ~store.overlapping
  BY StoreIsKept DEF RowsInv, RowsSound
<1>a. mayInterrupt <=> \A c \in CallIds : calls[c] = Idle
  BY <1>0 DEF mayInterrupt
<1>1. ASSUME mayInterrupt, NEW c \in CallIds, NEW i \in InviteIds, NEW u \in Uuids,
             NEW d \in Devices, beginJoinRequest(c, i, u, d)
      PROVE  NothingIsStale'
  <2>1. /\ \A e \in CallIds : e # c => calls'[e] = calls[e]
        /\ calls'[c].at = "invite read" /\ calls'[c].inviteId = i
        /\ isInviteActive(i) /\ UNCHANGED <<store, now, tables>>
    BY <1>0, <1>1, RequestBegun
  <2>2. \A e \in CallIds : e # c => calls'[e] = Idle
    BY <1>0, <1>1, <1>a, <2>1, OthersAreIdle
  <2>3. FreshCall(c)'
    BY <2>1 DEF FreshCall, isInviteActive, found, tables
  <2> QED
    BY <2>2, <2>3, OneCallReads
<1>2. ASSUME NEW c \in CallIds, calls[c] # Idle, calls' = [calls EXCEPT ![c] = Idle]
      PROVE  NothingIsStale'
  <2>1. calls'[c].at = "idle" /\ \A d \in CallIds : d # c => calls'[d] = calls[d]
    BY <1>0, <1>2, CallEnds
  <2>2. \A d \in CallIds : d # c => calls'[d] = Idle
    BY <1>0, <1>2, <2>1, OthersAreIdle
  <2> QED
    BY <2>1, <2>2, NoCallReads
<1>3. ASSUME mayInterrupt, NEW c \in CallIds, NEW a, NEW q \in RequestIds,
             NEW d \in Decisions, NEW u \in Uuids, beginDecision(c, a, q, d, u)
      PROVE  NothingIsStale'
  <2>1. /\ calls'[c].at = "approval read" /\ calls'[c].requestId = q
        /\ \A e \in CallIds : e # c => calls'[e] = calls[e]
        /\ q \in DOMAIN approvals /\ approvals[q].state = "pending"
        /\ UNCHANGED <<store, now, tables>>
    BY <1>0, <1>3, DecisionBegun
  <2>2. \A e \in CallIds : e # c => calls'[e] = Idle
    BY <1>0, <1>3, <1>a, <2>1, OthersAreIdle
  <2>3. FreshCall(c)'
    BY <2>1 DEF FreshCall, tables
  <2> QED
    BY <2>2, <2>3, OneCallReads
<1>4. ASSUME NEW c \in CallIds, prepareSession(c)
      PROVE  NothingIsStale'
  <2>1. /\ calls'[c].at = "prepared" /\ calls'[c].requestId = calls[c].requestId
        /\ \A e \in CallIds : e # c => calls'[e] = calls[e]
        /\ calls[c].at = "approval read"
        /\ isInviteActive(approvals[calls[c].requestId].inviteId)
        /\ UNCHANGED <<store, now, tables>>
    BY <1>0, <1>4, SessionPrepared
  <2>2. calls[c] # Idle /\ approvals[calls[c].requestId].state = "pending"
    BY <1>0, <2>1, IdleCall DEF NothingIsStale, FreshCall
  <2>3. \A e \in CallIds : e # c => calls'[e] = Idle
    BY <1>0, <2>1, <2>2, OthersAreIdle
  <2>4. FreshCall(c)'
    BY <2>1, <2>2 DEF FreshCall, isInviteActive, found, tables
  <2> QED
    BY <2>3, <2>4, OneCallReads
<1>5. ASSUME NEW c \in CallIds, approveInMemory(c)
      PROVE  NothingIsStale'
  <2> DEFINE q == calls[c].requestId
  <2>1. /\ calls[c].at = "prepared" /\ saveApproval(calls[c])
        /\ calls' = [calls EXCEPT ![c].at = "saved"]
        /\ UNCHANGED <<store, now, invites, sessions, deleted>>
    BY <1>5 DEF approveInMemory
  <2>2. /\ calls'[c].at = "saved" /\ calls'[c].requestId = q
        /\ \A d \in CallIds : d # c => calls'[d] = calls[d]
    BY <1>0, <2>1, CallSaved
  <2>3. /\ q \in DOMAIN approvals
        /\ approvals'[q].state = "approved" /\ approvals'[q].inviteId = approvals[q].inviteId
    BY <1>0, <2>1, ApprovalSaved, CallShape
  <2>4. /\ calls[c] # Idle /\ approvals[q].state = "pending"
        /\ isInviteActive(approvals[q].inviteId)
    BY <1>0, <2>1, IdleCall DEF NothingIsStale, FreshCall
  <2> HIDE DEF q
  <2>5. \A s \in DOMAIN sessions : sessions[s].requestId # q
    BY <1>0, <2>4 DEF RowsAgree, SessionRefs
  <2>6. \A d \in CallIds : d # c => calls'[d] = Idle
    BY <1>0, <2>2, <2>4, OthersAreIdle
  <2>7. FreshCall(c)'
    BY <2>1, <2>2, <2>3, <2>4, <2>5 DEF FreshCall, isInviteActive, found
  <2> QED
    BY <2>6, <2>7, OneCallReads
<1>6. ASSUME mayInterrupt, UNCHANGED calls
      PROVE  NothingIsStale'
  BY <1>6, <1>a, IdleCallsReadNothing
<1>7. CASE JoinStep
  <2>1. ASSUME NEW c \in CallIds, NEW q \in RequestIds, finishJoinRequest(c, q)
        PROVE  NothingIsStale'
    BY <1>2, <2>1, IdleCall DEF finishJoinRequest
  <2> QED
    BY <1>1, <1>7, <2>1 DEF JoinStep
<1>8. CASE DecisionStep
  <2>1. ASSUME NEW c \in CallIds, NEW s,
               decide(c) \/ approve(c, s) \/ saveSessionInMemory(c, s)
        PROVE  NothingIsStale'
    BY <1>2, <2>1, IdleCall DEF decide, approve, saveSessionInMemory
  <2> QED
    BY <1>3, <1>4, <1>5, <1>8, <2>1 DEF DecisionStep
<1>9. CASE \E c \in CallIds : abandon(c)
  BY <1>2, <1>9 DEF abandon
<1>10. CASE mayInterrupt /\ (RoomStep \/ InviteStep \/ OtherStep)
  BY <1>6, <1>10 DEF RoomStep, InviteStep, OtherStep, createRoom, createInvite, revokeInvite,
                     regenerateInvite, savePresence, cleanupExpiredState, advanceClock
<1>11. CASE UNCHANGED vars
  BY <1>0, <1>11 DEF NothingIsStale, FreshCall, isInviteActive, found, vars, tables
<1> QED
  BY <1>7, <1>8, <1>9, <1>10, <1>11 DEF Next

-----------------------------------------------------------------------------
(* One live session for one request.                                       *)

\* PostgreSQL refuses the second session of a request; a memory store has no such
\* check, and relies on the request having been pending.
LEMMA NextOneLiveSession ==
  ASSUME \A x \in Stores : x.kind = "memory" => ~x.overlapping,
         RowsInv, NothingIsStale, OneLiveSession, [Next]_vars
  PROVE  OneLiveSession'
<1>0. TypeOK /\ RowsAgree
  BY DEF RowsInv, RowsSound
<1>1. ASSUME NEW s \in SessionIds, NEW q, s \notin DOMAIN sessions,
             \A t \in DOMAIN sessions \ deleted : sessions[t].requestId # q,
             DOMAIN sessions' = DOMAIN sessions \cup {s}, sessions'[s].requestId = q,
             \A t \in DOMAIN sessions : sessions'[t] = sessions[t], deleted' = deleted
      PROVE  OneLiveSession'
  <2>1. ASSUME NEW t \in DOMAIN sessions' \ deleted', NEW u \in DOMAIN sessions' \ deleted',
               sessions'[t].requestId = sessions'[u].requestId
        PROVE  t = u
    BY <1>1, <2>1 DEF OneLiveSession
  <2> QED
    BY <2>1 DEF OneLiveSession
<1>2. ASSUME NEW c \in CallIds, NEW s \in SessionIds, approve(c, s)
      PROVE  OneLiveSession'
  <2>1. /\ s \notin DOMAIN sessions /\ requestIsUnique(calls[c].requestId)
        /\ DOMAIN sessions' = DOMAIN sessions \cup {s}
        /\ sessions'[s].requestId = calls[c].requestId
        /\ \A t \in DOMAIN sessions : sessions'[t] = sessions[t]
        /\ deleted' = deleted
    BY <1>0, <1>2, Approved
  <2> QED
    BY <1>1, <2>1 DEF requestIsUnique
<1>3. ASSUME NEW c \in CallIds, NEW s \in SessionIds, saveSessionInMemory(c, s)
      PROVE  OneLiveSession'
  <2>1. /\ calls[c].at = "saved" /\ saveSession(calls[c], s)
        /\ deleted' = deleted
    BY <1>3 DEF saveSessionInMemory
  <2>2. calls[c].requestId \in DOMAIN approvals /\ ~Transactional
    BY <1>0, <2>1 DEF RowsAgree, CallRefs
  <2>3. ~store.overlapping
    BY <1>0, <2>2, RoomServiceAssumption DEF TypeOK, Transactional
  <2>4. \A t \in DOMAIN sessions : sessions[t].requestId # calls[c].requestId
    BY <2>1, <2>3 DEF NothingIsStale, FreshCall
  <2>5. /\ s \notin DOMAIN sessions
        /\ DOMAIN sessions' = DOMAIN sessions \cup {s}
        /\ sessions'[s].requestId = calls[c].requestId
        /\ \A t \in DOMAIN sessions : sessions'[t] = sessions[t]
    BY <1>0, <2>1, <2>2, SessionSaved
  <2> QED
    BY <1>1, <2>1, <2>4, <2>5
<1>4. ASSUME UNCHANGED sessions, deleted \subseteq deleted'
      PROVE  OneLiveSession'
  BY <1>4 DEF OneLiveSession
<1>5. CASE JoinStep
  BY <1>4, <1>5 DEF JoinStep, beginJoinRequest, finishJoinRequest, tables
<1>6. CASE DecisionStep
  <2>1. ASSUME NEW c \in CallIds, NEW a, NEW q, NEW d, NEW u,
               \/ beginDecision(c, a, q, d, u) \/ prepareSession(c)
               \/ decide(c) \/ approveInMemory(c)
        PROVE  OneLiveSession'
    BY <1>4, <2>1 DEF beginDecision, prepareSession, decide, approveInMemory, tables
  <2> QED
    BY <1>2, <1>3, <1>6, <2>1 DEF DecisionStep
<1>7. CASE \E c \in CallIds : abandon(c)
  BY <1>4, <1>7 DEF abandon, tables
<1>8. CASE RoomStep \/ InviteStep \/ OtherStep
  <2>1. CASE cleanupExpiredState
    BY <1>4, <2>1 DEF cleanupExpiredState
  <2> QED
    BY <1>4, <1>8, <2>1 DEF RoomStep, InviteStep, OtherStep, createRoom, createInvite,
                            revokeInvite, regenerateInvite, savePresence, advanceClock, tables
<1>9. CASE UNCHANGED vars
  BY <1>4, <1>9 DEF vars, tables
<1> QED
  BY <1>5, <1>6, <1>7, <1>8, <1>9 DEF Next

\* Nobody ever sees an approved request without the session issued for it, nor two
\* live sessions of one request (repository.mjs: one transaction, request_id
\* UNIQUE).  Over the memory store, which has neither, this takes calls that do not
\* overlap.
THEOREM ApprovalsComeWithSessions ==
  ASSUME \A x \in Stores : x.kind = "memory" => ~x.overlapping
  PROVE  Spec => []ApprovedHasSession
<1>1. Init => OneLiveSession
  BY EmptyMapFacts DEF Init, OneLiveSession
<1>2. RowsInv /\ NothingIsStale /\ OneLiveSession /\ [Next]_vars => OneLiveSession'
  BY NextOneLiveSession
<1>3. RowsInv /\ OneLiveSession => ApprovedHasSession
  <2> SUFFICES ASSUME RowsInv, OneLiveSession
               PROVE  ApprovedHasSession
    OBVIOUS
  <2>1. ASSUME NEW q \in DOMAIN approvals, Transactional, approvals[q].state = "approved"
        PROVE  \E s \in DOMAIN sessions :
                 /\ sessions[s].requestId = q
                 /\ sessions[s].inviteId = approvals[q].inviteId
                 /\ sessions[s].minecraftUuid = approvals[q].minecraftUuid
                 /\ invites[sessions[s].inviteId].roomId = sessions[s].roomId
    <3>1. PICK s \in DOMAIN sessions : sessions[s].requestId = q
      BY <2>1 DEF RowsInv, RowsSound, SessionsIssued
    <3>2. /\ sessions[s].inviteId = approvals[q].inviteId
          /\ sessions[s].minecraftUuid = approvals[q].minecraftUuid
          /\ sessions[s].roomId = approvals[q].roomId
      BY <3>1 DEF RowsInv, RowsSound, RowsAgree, SessionRefs
    <3>3. approvals[q].roomId = invites[approvals[q].inviteId].roomId
      BY DEF RowsInv, RowsSound, RowsAgree, RequestRefs
    <3> QED
      BY <3>1, <3>2, <3>3
  <2>2. TypeOK
    BY DEF RowsInv
  <2>3. \A s, t \in DOMAIN sessions \ deleted :
          sessions[s].requestId = sessions[t].requestId => s = t
    BY DEF OneLiveSession
  <2> QED
    BY <2>1, <2>2, <2>3 DEF ApprovedHasSession
<1> QED
  BY <1>1, <1>2, <1>3, InitRowsInv, NextRowsInv, InitNothingIsStale, NextNothingIsStale,
     PTL DEF Spec

-----------------------------------------------------------------------------
(* Serialised calls keep the admission contract.                           *)

\* What the contract sees of a step that leaves the rows alone.
LEMMA NothingAdmitted ==
  ASSUME UNCHANGED <<now, invites, approvals, sessions, deleted>>
  PROVE  UNCHANGED A!vars
BY DEF A!vars, isInviteActive, found

\* An invite is active while its row is as it was.
LEMMA ActiveWhileKept ==
  ASSUME UNCHANGED <<now, deleted>>, NEW i, i \in DOMAIN invites, i \in DOMAIN invites',
         invites'[i] = invites[i]
  PROVE  isInviteActive(i)' <=> isInviteActive(i)
BY DEF isInviteActive, found

\* An empty service is the contract's initial state.
LEMMA InitImplements == Init => A!Init
<1> SUFFICES ASSUME Init
             PROVE  A!Init
  OBVIOUS
<1>1. DOMAIN invites = {} /\ DOMAIN approvals = {} /\ DOMAIN sessions = {}
  BY EmptyMapFacts DEF Init
<1> QED
  BY <1>1 DEF A!Init, isInviteActive, found

\* Creating, revoking and regenerating an invite.
LEMMA InviteStepsImplement ==
  ASSUME TypeOK, NEW a, NEW r, NEW i \in InviteIds, NEW j \in InviteIds,
         createInvite(a, r, i) \/ revokeInvite(a, i) \/ regenerateInvite(a, i, j)
  PROVE  A!Next \/ UNCHANGED A!vars
<1> DEFINE revoked == [invites EXCEPT ![i].state = "revoked"]
<1>1. /\ UNCHANGED <<now, approvals, sessions, deleted>>
  BY DEF createInvite, revokeInvite, regenerateInvite
<1>2. ASSUME NEW k \in InviteIds, NEW room, k \notin DOMAIN invites,
             k \in DOMAIN invites', invites'[k] = newInvite(room)
      PROVE  isInviteActive(k)'
  <2>1. now \in Nat /\ k \notin deleted
    BY <1>2, RoomServiceAssumption DEF TypeOK
  <2>2. now + InviteTtl > now
    BY <2>1, Lifetimes
  <2> QED
    BY <1>1, <1>2, <2>1, <2>2 DEF isInviteActive, found, newInvite
<1>3. ASSUME i \in DOMAIN invites
      PROVE  /\ DOMAIN revoked = DOMAIN invites /\ revoked[i].state = "revoked"
             /\ \A k \in DOMAIN invites : k # i => revoked[k] = invites[k]
  BY <1>3 DEF TypeOK, Invite
<1>4. CASE createInvite(a, r, i)
  <2>1. /\ i \notin DOMAIN invites /\ DOMAIN invites' = DOMAIN invites \cup {i}
        /\ invites'[i] = newInvite(r)
        /\ \A k \in DOMAIN invites : invites'[k] = invites[k]
    BY <1>4 DEF createInvite, Put
  <2>2. isInviteActive(i)' /\ ~isInviteActive(i)
    BY <1>2, <2>1 DEF isInviteActive, found
  <2>3. \A k \in InviteIds : k # i => (isInviteActive(k)' <=> isInviteActive(k))
    BY <1>1, <2>1, ActiveWhileKept DEF isInviteActive, found
  <2>4. A!Publish(i)
    BY <1>1, <2>1, <2>2, <2>3 DEF A!Publish, TypeOK
  <2> QED
    BY <2>4 DEF A!Next
<1>5. CASE revokeInvite(a, i)
  <2>1. i \in DOMAIN invites /\ invites' = revoked
    BY <1>5 DEF revokeInvite, readAuthorizedInvite, found
  <2> HIDE DEF revoked
  <2>2. ~isInviteActive(i)'
    BY <1>3, <2>1 DEF isInviteActive
  <2>3. \A k \in InviteIds : k # i => (isInviteActive(k)' <=> isInviteActive(k))
    BY <1>1, <1>3, <2>1, ActiveWhileKept DEF isInviteActive, found
  <2>4. CASE isInviteActive(i)
    <3>1. A!Retire({i})
      BY <1>1, <1>3, <2>1, <2>2, <2>3, <2>4 DEF A!Retire, TypeOK
    <3> QED
      BY <2>4, <3>1 DEF A!Next
  <2>5. CASE ~isInviteActive(i)
    BY <1>1, <1>3, <2>1, <2>2, <2>3, <2>5 DEF A!vars, TypeOK
  <2> QED
    BY <2>4, <2>5
<1>6. CASE regenerateInvite(a, i, j)
  <2>1. /\ i \in DOMAIN invites /\ j \notin DOMAIN invites
        /\ invites' = Put(revoked, j, newInvite(invites[i].roomId))
    BY <1>6 DEF regenerateInvite, readAuthorizedInvite, found
  <2> HIDE DEF revoked
  <2>2. /\ DOMAIN invites' = DOMAIN invites \cup {j}
        /\ invites'[j] = newInvite(invites[i].roomId) /\ invites'[i].state = "revoked"
        /\ \A k \in DOMAIN invites : k # i => invites'[k] = invites[k]
    BY <1>3, <2>1 DEF Put
  <2>3. isInviteActive(j)' /\ ~isInviteActive(j) /\ ~isInviteActive(i)'
    BY <1>2, <2>1, <2>2 DEF isInviteActive, found
  <2>4. \A k \in InviteIds : k # i /\ k # j => (isInviteActive(k)' <=> isInviteActive(k))
    BY <1>1, <2>2, ActiveWhileKept DEF isInviteActive, found
  <2>5. A!Replace(i, j)
    BY <1>1, <2>1, <2>2, <2>3, <2>4 DEF A!Replace, TypeOK
  <2> QED
    BY <2>5 DEF A!Next
<1> QED
  BY <1>4, <1>5, <1>6

\* A request is asked through an invite that is still active.
LEMMA RequestsAsk ==
  ASSUME TypeOK, NothingIsStale, ~store.overlapping, NEW c \in CallIds,
         NEW q \in RequestIds, finishJoinRequest(c, q)
  PROVE  A!Next \/ UNCHANGED A!vars
<1>1. calls[c].at = "invite read" /\ UNCHANGED <<store, now, invites, sessions, deleted>>
  BY RequestFinished
<1>2. CASE approvals' = approvals
  BY <1>1, <1>2, NothingAdmitted
<1>3. CASE approvals' # approvals
  <2>0. PICK i \in InviteIds : i = calls[c].inviteId
    BY <1>1, CallShape
  <2>1. /\ q \notin DOMAIN approvals /\ DOMAIN approvals' = DOMAIN approvals \cup {q}
        /\ approvals'[q].state = "pending" /\ approvals'[q].inviteId = i
        /\ \A p \in DOMAIN approvals : approvals'[p] = approvals[p]
    BY <1>3, <2>0, RequestFinished
  <2>2. isInviteActive(i)
    BY <1>1, <2>0 DEF NothingIsStale, FreshCall
  <2>3. A!Ask(q, i)
    BY <1>1, <2>1, <2>2 DEF A!Ask, isInviteActive, found
  <2> QED
    BY <2>3 DEF A!Next
<1> QED
  BY <1>2, <1>3

\* A request is decided while it is pending.
LEMMA DecisionsDecide ==
  ASSUME TypeOK, NothingIsStale, ~store.overlapping, NEW c \in CallIds,
         decide(c) \/ approveInMemory(c)
  PROVE  A!Next
<1>1. /\ calls[c].at \in {"approval read", "prepared"} /\ saveApproval(calls[c])
      /\ UNCHANGED <<now, invites, sessions, deleted>>
  BY DEF decide, approveInMemory
<1>2. PICK q \in RequestIds, v \in Decisions : q = calls[c].requestId /\ v = calls[c].decision
  BY <1>1, CallShape DEF Decisions
<1>3. approvals[q].state = "pending"
  BY <1>1, <1>2 DEF NothingIsStale, FreshCall
<1>4. /\ q \in DOMAIN approvals /\ DOMAIN approvals' = DOMAIN approvals
      /\ approvals'[q].state = v /\ approvals'[q].inviteId = approvals[q].inviteId
      /\ \A p \in DOMAIN approvals : p # q => approvals'[p] = approvals[p]
  BY <1>1, <1>2, ApprovalSaved
<1>5. A!Decide(q, v)
  BY <1>1, <1>2, <1>3, <1>4 DEF A!Decide, isInviteActive, found
<1> QED
  BY <1>5 DEF A!Next, A!Verdicts, Decisions

\* What the contract sees of a new session row.
LEMMA AdmitsOnce ==
  ASSUME NEW s, NEW q \in RequestIds, q \in DOMAIN approvals,
         approvals[q].inviteId \in InviteIds, isInviteActive(approvals[q].inviteId),
         s \notin DOMAIN sessions, DOMAIN sessions' = DOMAIN sessions \cup {s},
         sessions'[s].requestId = q,
         \A t \in DOMAIN sessions : sessions'[t] = sessions[t],
         \A t \in DOMAIN sessions : sessions[t].requestId # q
  PROVE  A!Admits(s, q)
<1> DEFINE admitted == {<<t, sessions[t].requestId>> : t \in DOMAIN sessions}
<1>1. \A pair \in admitted : pair[1] # s /\ pair[2] # q
  OBVIOUS
<1>2. {<<t, sessions'[t].requestId>> : t \in DOMAIN sessions'} = admitted \cup {<<s, q>>}
  <2>1. {<<t, sessions'[t].requestId>> : t \in DOMAIN sessions'}
          = {<<t, sessions'[t].requestId>> : t \in DOMAIN sessions}
              \cup {<<s, sessions'[s].requestId>>}
    OBVIOUS
  <2> QED
    BY <2>1
<1> QED
  BY <1>1, <1>2 DEF A!Admits

\* A session is saved for a request that has none, while its invite is active.
LEMMA SessionsAdmit ==
  ASSUME TypeOK, RowsAgree, NothingIsStale, ~store.overlapping, NEW c \in CallIds,
         NEW s \in SessionIds, approve(c, s) \/ saveSessionInMemory(c, s)
  PROVE  A!Next
<1>1. /\ calls[c].at \in {"prepared", "saved"} /\ UNCHANGED <<now, invites, deleted>>
  BY DEF approve, saveSessionInMemory
<1>2. PICK q \in RequestIds : q = calls[c].requestId /\ q \in DOMAIN approvals
  BY <1>1, CallShape DEF RowsAgree, CallRefs
<1>3. isInviteActive(approvals[q].inviteId) /\ approvals[q].inviteId \in InviteIds
  BY <1>1, <1>2 DEF NothingIsStale, FreshCall, TypeOK, Approval
<1>4. CASE approve(c, s)
  <2>1. /\ DOMAIN approvals' = DOMAIN approvals
        /\ approvals'[q].state = "approved" /\ approvals'[q].inviteId = approvals[q].inviteId
        /\ \A p \in DOMAIN approvals : p # q => approvals'[p] = approvals[p]
        /\ s \notin DOMAIN sessions /\ DOMAIN sessions' = DOMAIN sessions \cup {s}
        /\ sessions'[s].requestId = q
        /\ \A t \in DOMAIN sessions : sessions'[t] = sessions[t]
    BY <1>2, <1>4, Approved
  <2>2. calls[c].at = "prepared"
    BY <1>4 DEF approve
  <2>3. approvals[q].state = "pending"
    BY <1>2, <2>2 DEF NothingIsStale, FreshCall
  <2>4. \A t \in DOMAIN sessions : sessions[t].requestId # q
    BY <2>3 DEF RowsAgree, SessionRefs
  <2>5. A!Admits(s, q)
    BY <2>1, <2>4, AdmitsOnce, <1>2, <1>3
  <2>6. A!ApproveAndAdmit(s, q)
    BY <1>1, <1>2, <2>1, <2>3, <2>5 DEF A!ApproveAndAdmit, isInviteActive, found
  <2> QED
    BY <2>6 DEF A!Next
<1>5. CASE saveSessionInMemory(c, s)
  <2>1. calls[c].at = "saved" /\ saveSession(calls[c], s) /\ UNCHANGED approvals
    BY <1>5 DEF saveSessionInMemory
  <2>2. /\ s \notin DOMAIN sessions /\ DOMAIN sessions' = DOMAIN sessions \cup {s}
        /\ sessions'[s].requestId = q
        /\ \A t \in DOMAIN sessions : sessions'[t] = sessions[t]
    BY <1>2, <2>1, SessionSaved
  <2>3. /\ approvals[q].state = "approved"
        /\ \A t \in DOMAIN sessions : sessions[t].requestId # q
    BY <1>2, <2>1 DEF NothingIsStale, FreshCall
  <2>4. A!Admits(s, q)
    BY <2>2, <2>3, AdmitsOnce, <1>2, <1>3
  <2>5. A!Admit(s, q)
    BY <1>1, <1>2, <2>1, <2>3, <2>4 DEF A!Admit, isInviteActive, found
  <2> QED
    BY <2>5 DEF A!Next
<1> QED
  BY <1>4, <1>5

\* The clock retires the invites that expire; cleanup only drops what is over.
LEMMA TimeRetires ==
  ASSUME TypeOK, advanceClock \/ cleanupExpiredState
  PROVE  A!Next \/ UNCHANGED A!vars
<1>0. now \in Nat /\ \A i \in DOMAIN invites : invites[i].expiresAt \in Nat
  BY DEF TypeOK, Invite
<1>1. CASE advanceClock
  <2> DEFINE expired == {i \in InviteIds : isInviteActive(i) /\ invites[i].expiresAt = now + 1}
  <2>1. now' = now + 1 /\ UNCHANGED <<invites, approvals, sessions, deleted>>
    BY <1>1 DEF advanceClock, tables
  <2>2. \A i \in InviteIds : isInviteActive(i)' <=> isInviteActive(i) /\ i \notin expired
    BY <1>0, <2>1 DEF isInviteActive, found
  <2>3. expired \subseteq DOMAIN invites /\ expired \subseteq {i \in InviteIds : isInviteActive(i)}
    BY DEF isInviteActive, found
  <2>4. DOMAIN invites \subseteq InviteIds
    BY DEF TypeOK
  <2> HIDE DEF expired
  <2>5. A!Retire(expired)
    BY <2>1, <2>2, <2>3, <2>4 DEF A!Retire
  <2> QED
    BY <2>3, <2>5 DEF A!Next
<1>2. CASE cleanupExpiredState
  <2>1. UNCHANGED <<now, invites, approvals, sessions>>
    BY <1>2 DEF cleanupExpiredState
  <2>2. /\ deleted \subseteq deleted'
        /\ deleted' \subseteq deleted \cup DOMAIN sessions \cup DOMAIN approvals
                                \cup {i \in DOMAIN invites : invites[i].expiresAt <= now}
    BY <1>2 DEF cleanupExpiredState
  <2>3. \A i \in InviteIds : i \in deleted' \ deleted =>
          i \in DOMAIN invites /\ invites[i].expiresAt <= now
    BY <2>2, RoomServiceAssumption DEF TypeOK
  <2>4. \A i \in InviteIds : isInviteActive(i)' <=> isInviteActive(i)
    BY <1>0, <2>1, <2>2, <2>3 DEF isInviteActive, found
  <2> QED
    BY <2>1, <2>4 DEF A!vars, TypeOK
<1> QED
  BY <1>1, <1>2

\* Every step of a serialised service is a step of the contract, or changes
\* nothing it mentions.
LEMMA NextImplements ==
  RowsInv /\ NothingIsStale /\ [Next]_vars => [store.overlapping \/ A!Next]_(A!vars)
<1> SUFFICES ASSUME RowsInv, NothingIsStale, [Next]_vars, ~store.overlapping
             PROVE  A!Next \/ UNCHANGED A!vars
  OBVIOUS
<1>0. TypeOK /\ RowsAgree
  BY DEF RowsInv, RowsSound
<1>1. CASE JoinStep
  <2>1. ASSUME NEW c, NEW i, NEW u, NEW d, beginJoinRequest(c, i, u, d)
        PROVE  UNCHANGED A!vars
    BY <2>1, NothingAdmitted DEF beginJoinRequest, tables
  <2> QED
    BY <1>0, <1>1, <2>1, RequestsAsk DEF JoinStep
<1>2. CASE DecisionStep
  <2>1. ASSUME NEW c, NEW a, NEW q, NEW d, NEW u,
               beginDecision(c, a, q, d, u) \/ prepareSession(c)
        PROVE  UNCHANGED A!vars
    BY <2>1, NothingAdmitted DEF beginDecision, prepareSession, tables
  <2> QED
    BY <1>0, <1>2, <2>1, DecisionsDecide, SessionsAdmit DEF DecisionStep
<1>3. CASE \E c \in CallIds : abandon(c)
  BY <1>3, NothingAdmitted DEF abandon, tables
<1>4. CASE RoomStep
  <2>1. ASSUME NEW a, NEW r, createRoom(a, r)
        PROVE  UNCHANGED A!vars
    BY <2>1, NothingAdmitted DEF createRoom
  <2> QED
    BY <1>0, <1>4, <2>1, InviteStepsImplement DEF RoomStep
<1>5. CASE InviteStep
  BY <1>0, <1>5, InviteStepsImplement DEF InviteStep
<1>6. CASE OtherStep
  <2>1. ASSUME NEW r, savePresence(r)
        PROVE  UNCHANGED A!vars
    BY <2>1, NothingAdmitted DEF savePresence
  <2> QED
    BY <1>0, <1>6, <2>1, TimeRetires DEF OtherStep
<1>7. CASE UNCHANGED vars
  BY <1>7, NothingAdmitted DEF vars, tables
<1> QED
  BY <1>1, <1>2, <1>3, <1>4, <1>5, <1>6, <1>7 DEF Next

\* With one call at a time the service keeps the admission contract that the
\* simulation keeps (ControlPlaneProofs), over either repository.
THEOREM SerialisedCallsImplementAdmission == Spec => ImplementsAdmission
<1>1. Init => (store.overlapping \/ A!Init)
  BY InitImplements
<1>2. RowsInv /\ NothingIsStale /\ [Next]_vars => [store.overlapping \/ A!Next]_(A!vars)
  BY NextImplements
<1> QED
  BY <1>1, <1>2, InitRowsInv, NextRowsInv, InitNothingIsStale, NextNothingIsStale,
     PTL DEF Spec, ImplementsAdmission

-----------------------------------------------------------------------------
(* Rate-limit windows.                                                     *)

\* What countUp does to a counter: it goes up by one while its window lasts, and
\* restarts at one when it is over.
LEMMA CountUpFacts ==
  ASSUME TypeOK, NEW signal
  PROVE  /\ countUp(signal).resetAt > now
         /\ signal \in DOMAIN rateLimits /\ rateLimits[signal].resetAt > now =>
              /\ countUp(signal).count = rateLimits[signal].count + 1
              /\ countUp(signal).resetAt = rateLimits[signal].resetAt
         /\ ~(signal \in DOMAIN rateLimits /\ rateLimits[signal].resetAt > now) =>
              /\ countUp(signal).count = 1
              /\ countUp(signal).resetAt = now + JoinRequestWindow
<1>1. now \in Nat /\ now + JoinRequestWindow > now
  BY Lifetimes DEF TypeOK
<1>2. CASE signal \in DOMAIN rateLimits /\ rateLimits[signal].resetAt > now
  <2>1. rateLimits[signal] \in [count : Nat, resetAt : Nat]
    BY <1>2 DEF TypeOK
  <2>2. countUp(signal) = [rateLimits[signal] EXCEPT !.count = @ + 1]
    BY <1>2 DEF countUp
  <2> QED
    BY <1>2, <2>1, <2>2
<1>3. CASE ~(signal \in DOMAIN rateLimits /\ rateLimits[signal].resetAt > now)
  <2>1. countUp(signal) = [count |-> 1, resetAt |-> now + JoinRequestWindow]
    BY <1>3 DEF countUp
  <2> QED
    BY <1>1, <1>3, <2>1
<1> QED
  BY <1>2, <1>3

\* The requests in a window are rows of a finite table.
LEMMA WindowIsFinite ==
  ASSUME IsFiniteSet(DOMAIN approvals), NEW signal
  PROVE  /\ IsFiniteSet(windowOf(signal)) /\ Cardinality(windowOf(signal)) \in Nat
<1>1. windowOf(signal) \subseteq DOMAIN approvals
  BY DEF windowOf
<1>2. IsFiniteSet(windowOf(signal))
  BY <1>1, FS_Subset
<1> QED
  BY <1>2, FS_CardinalityType

\* A counter that starts anew has only requests of this moment to answer for, and
\* they would have their counter.
LEMMA RestartedWindow ==
  ASSUME RowsInv, RequestsCounted, NEW signal, NEW q \in DOMAIN approvals,
         ~(signal \in DOMAIN rateLimits /\ rateLimits[signal].resetAt > now),
         signal \in signalOf(q)
  PROVE  ~(approvals[q].createdAt + JoinRequestWindow >= now + JoinRequestWindow)
<1>1. now \in Nat /\ approvals[q].createdAt \in Nat
  BY DEF RowsInv, TypeOK, Approval
<1>2. approvals[q].createdAt <= now /\ approvals[q].createdAt # now
  BY DEF RequestsCounted
<1> QED
  BY <1>1, <1>2, Lifetimes

\* A window keeps its requests as long as its counter keeps its end.
LEMMA WindowKept ==
  ASSUME NEW signal, DOMAIN approvals' = DOMAIN approvals,
         \A q \in DOMAIN approvals :
           /\ approvals'[q].inviteId = approvals[q].inviteId
           /\ approvals'[q].minecraftUuid = approvals[q].minecraftUuid
           /\ approvals'[q].device = approvals[q].device
           /\ approvals'[q].createdAt = approvals[q].createdAt,
         rateLimits'[signal].resetAt = rateLimits[signal].resetAt
  PROVE  windowOf(signal)' = windowOf(signal)
BY DEF windowOf, signalOf

\* Steps that neither ask nor count.
LEMMA UncountedSteps ==
  ASSUME WindowInv, now' = now, DOMAIN approvals' = DOMAIN approvals,
         \A q \in DOMAIN approvals :
           /\ approvals'[q].inviteId = approvals[q].inviteId
           /\ approvals'[q].minecraftUuid = approvals[q].minecraftUuid
           /\ approvals'[q].device = approvals[q].device
           /\ approvals'[q].createdAt = approvals[q].createdAt,
         DOMAIN rateLimits' \subseteq DOMAIN rateLimits,
         \A signal \in DOMAIN rateLimits' : rateLimits'[signal] = rateLimits[signal],
         \A signal \in DOMAIN rateLimits :
           rateLimits[signal].resetAt > now => signal \in DOMAIN rateLimits'
  PROVE  WindowInv'
<1>1. RequestsCounted'
  <2>1. \A q \in DOMAIN approvals : signalOf(q)' = signalOf(q)
    BY DEF signalOf
  <2> QED
    BY <2>1 DEF WindowInv, RequestsCounted
<1>2. WindowsCounted'
  <2>1. \A signal \in DOMAIN rateLimits' : windowOf(signal)' = windowOf(signal)
    BY WindowKept
  <2> QED
    BY <2>1 DEF WindowInv, WindowsCounted
<1> QED
  BY <1>1, <1>2 DEF WindowInv

\* A counter that is counted up, or not, with no new request.
LEMMA CountersOnly ==
  ASSUME RowsInv, WindowInv, now' = now, approvals' = approvals,
         DOMAIN rateLimits \subseteq DOMAIN rateLimits',
         \A signal \in DOMAIN rateLimits' :
           \/ signal \in DOMAIN rateLimits /\ rateLimits'[signal] = rateLimits[signal]
           \/ rateLimits'[signal] = countUp(signal)
  PROVE  WindowInv'
<1>0. TypeOK /\ IsFiniteSet(DOMAIN approvals) /\ RequestsCounted
  BY DEF RowsInv, WindowInv
<1>1. RequestsCounted'
  <2>1. \A signal \in DOMAIN rateLimits :
          rateLimits[signal].resetAt > now => rateLimits'[signal].resetAt > now
    BY <1>0, CountUpFacts
  <2> QED
    BY <1>0, <2>1 DEF RequestsCounted, signalOf
<1>2. ASSUME NEW signal \in DOMAIN rateLimits'
      PROVE  /\ Cardinality(windowOf(signal)') <= rateLimits'[signal].count
             /\ Cardinality(windowOf(signal)') <= JoinRequestLimit
  <2>1. Cardinality(windowOf(signal)) \in Nat
    BY <1>0, WindowIsFinite
  <2>2. CASE signal \in DOMAIN rateLimits /\ rateLimits'[signal] = rateLimits[signal]
    <3>1. windowOf(signal)' = windowOf(signal)
      BY <2>2, WindowKept
    <3> QED
      BY <2>2, <3>1 DEF WindowInv, WindowsCounted
  <2>3. CASE /\ rateLimits'[signal] = countUp(signal)
             /\ signal \in DOMAIN rateLimits /\ rateLimits[signal].resetAt > now
    <3>1. /\ rateLimits'[signal].resetAt = rateLimits[signal].resetAt
          /\ rateLimits'[signal].count = rateLimits[signal].count + 1
          /\ rateLimits[signal].count \in Nat
      BY <1>0, <2>3, CountUpFacts DEF TypeOK
    <3>2. windowOf(signal)' = windowOf(signal)
      BY <3>1, WindowKept
    <3>3. /\ Cardinality(windowOf(signal)) <= rateLimits[signal].count
          /\ Cardinality(windowOf(signal)) <= JoinRequestLimit
      BY <2>3 DEF WindowInv, WindowsCounted
    <3> QED
      BY <2>1, <3>1, <3>2, <3>3
  <2>4. CASE /\ rateLimits'[signal] = countUp(signal)
             /\ ~(signal \in DOMAIN rateLimits /\ rateLimits[signal].resetAt > now)
    <3>1. /\ rateLimits'[signal].resetAt = now + JoinRequestWindow
          /\ rateLimits'[signal].count = 1
      BY <1>0, <2>4, CountUpFacts
    <3>2. windowOf(signal)' = {}
      BY <1>0, <2>4, <3>1, RestartedWindow DEF windowOf, signalOf
    <3> QED
      BY <3>1, <3>2, FS_EmptySet, Lifetimes
  <2> QED
    BY <2>2, <2>3, <2>4
<1>3. WindowsCounted'
  BY <1>2 DEF WindowsCounted
<1> QED
  BY <1>0, <1>1, <1>3 DEF WindowInv

\* A new request, counted by each of its signals.
LEMMA RequestWithCounters ==
  ASSUME RowsInv, WindowInv, now' = now, NEW q, q \notin DOMAIN approvals,
         DOMAIN approvals' = DOMAIN approvals \cup {q},
         \A p \in DOMAIN approvals : approvals'[p] = approvals[p],
         approvals'[q].createdAt = now,
         DOMAIN rateLimits \subseteq DOMAIN rateLimits',
         \A signal \in DOMAIN rateLimits' :
           \/ signal \in DOMAIN rateLimits /\ rateLimits'[signal] = rateLimits[signal]
           \/ rateLimits'[signal] = countUp(signal),
         \A signal \in signalOf(q)' :
           /\ signal \in DOMAIN rateLimits' /\ rateLimits'[signal] = countUp(signal)
           /\ countUp(signal).count <= JoinRequestLimit
  PROVE  WindowInv'
<1>0. TypeOK /\ IsFiniteSet(DOMAIN approvals) /\ RequestsCounted
  BY DEF RowsInv, WindowInv
<1>1. \A p \in DOMAIN approvals : signalOf(p)' = signalOf(p)
  BY DEF signalOf
<1>2. IsFiniteSet(DOMAIN approvals')
  BY <1>0, FS_AddElement
<1>3. RequestsCounted'
  <2>1. now <= now
    BY <1>0 DEF TypeOK
  <2>2. \A signal \in DOMAIN rateLimits :
          rateLimits[signal].resetAt > now => rateLimits'[signal].resetAt > now
    BY <1>0, CountUpFacts
  <2>3. ASSUME NEW p \in DOMAIN approvals
        PROVE  /\ approvals'[p].createdAt <= now'
               /\ approvals'[p].createdAt = now' =>
                    \A signal \in signalOf(p)' :
                      signal \in DOMAIN rateLimits' /\ rateLimits'[signal].resetAt > now'
    BY <1>0, <1>1, <2>2 DEF RequestsCounted
  <2>4. \A signal \in signalOf(q)' :
          signal \in DOMAIN rateLimits' /\ rateLimits'[signal].resetAt > now'
    BY <1>0, CountUpFacts
  <2> QED
    BY <2>1, <2>3, <2>4 DEF RequestsCounted
<1>4. ASSUME NEW signal \in DOMAIN rateLimits'
      PROVE  /\ Cardinality(windowOf(signal)') <= rateLimits'[signal].count
             /\ Cardinality(windowOf(signal)') <= JoinRequestLimit
  <2>1. IsFiniteSet(windowOf(signal)) /\ Cardinality(windowOf(signal)) \in Nat
    BY <1>0, WindowIsFinite
  <2>2. CASE signal \notin signalOf(q)'
    <3> DEFINE kept == {p \in DOMAIN approvals :
                          /\ signal \in signalOf(p)
                          /\ approvals[p].createdAt + JoinRequestWindow
                               >= rateLimits'[signal].resetAt}
    <3>2. windowOf(signal)' = kept
      BY <1>1, <2>2 DEF windowOf
    <3>3. CASE signal \in DOMAIN rateLimits /\ rateLimits'[signal] = rateLimits[signal]
      <4>1. kept = windowOf(signal)
        BY <3>3 DEF windowOf
      <4> QED
        BY <3>2, <3>3, <4>1 DEF WindowInv, WindowsCounted
    <3>4. CASE /\ rateLimits'[signal] = countUp(signal)
               /\ signal \in DOMAIN rateLimits /\ rateLimits[signal].resetAt > now
      <4>1. /\ rateLimits'[signal].resetAt = rateLimits[signal].resetAt
            /\ rateLimits'[signal].count = rateLimits[signal].count + 1
            /\ rateLimits[signal].count \in Nat
        BY <1>0, <3>4, CountUpFacts DEF TypeOK
      <4>2. kept = windowOf(signal)
        BY <4>1 DEF windowOf
      <4>3. /\ Cardinality(windowOf(signal)) <= rateLimits[signal].count
            /\ Cardinality(windowOf(signal)) <= JoinRequestLimit
        BY <3>4 DEF WindowInv, WindowsCounted
      <4>4. windowOf(signal)' = windowOf(signal)
        BY <3>2, <4>2
      <4> QED
        BY <2>1, <4>1, <4>3, <4>4
    <3>5. CASE /\ rateLimits'[signal] = countUp(signal)
               /\ ~(signal \in DOMAIN rateLimits /\ rateLimits[signal].resetAt > now)
      <4>1. /\ rateLimits'[signal].resetAt = now + JoinRequestWindow
            /\ rateLimits'[signal].count = 1
        BY <1>0, <3>5, CountUpFacts
      <4>2. kept = {}
        BY <1>0, <3>5, <4>1, RestartedWindow
      <4>3. windowOf(signal)' = {}
        BY <3>2, <4>2
      <4> QED
        BY <4>1, <4>3, FS_EmptySet, Lifetimes
    <3> QED
      BY <3>3, <3>4, <3>5
  <2>3. CASE signal \in signalOf(q)'
    <3>1. rateLimits'[signal] = countUp(signal) /\ rateLimits'[signal].count <= JoinRequestLimit
      BY <2>3
    <3>2. CASE signal \in DOMAIN rateLimits /\ rateLimits[signal].resetAt > now
      <4>1. /\ rateLimits'[signal].resetAt = rateLimits[signal].resetAt
            /\ rateLimits'[signal].count = rateLimits[signal].count + 1
            /\ rateLimits[signal].count \in Nat
        BY <1>0, <3>1, <3>2, CountUpFacts DEF TypeOK
      <4>2. windowOf(signal)' \subseteq windowOf(signal) \cup {q}
        BY <1>1, <4>1 DEF windowOf
      <4>3. q \notin windowOf(signal)
        BY DEF windowOf
      <4>4. /\ IsFiniteSet(windowOf(signal) \cup {q})
            /\ Cardinality(windowOf(signal) \cup {q}) = Cardinality(windowOf(signal)) + 1
        BY <2>1, <4>3, FS_AddElement
      <4>5. Cardinality(windowOf(signal)') \in Nat
            /\ Cardinality(windowOf(signal)') <= Cardinality(windowOf(signal)) + 1
        BY <4>2, <4>4, FS_Subset, FS_CardinalityType
      <4>6. Cardinality(windowOf(signal)) <= rateLimits[signal].count
        BY <3>2 DEF WindowInv, WindowsCounted
      <4> QED
        BY <2>1, <3>1, <4>1, <4>5, <4>6, Lifetimes
    <3>3. CASE ~(signal \in DOMAIN rateLimits /\ rateLimits[signal].resetAt > now)
      <4>1. /\ rateLimits'[signal].resetAt = now + JoinRequestWindow
            /\ rateLimits'[signal].count = 1
        BY <1>0, <3>1, <3>3, CountUpFacts
      <4>2. windowOf(signal)' \subseteq {q}
        BY <1>0, <1>1, <3>3, <4>1, RestartedWindow DEF windowOf
      <4>3. IsFiniteSet({q}) /\ Cardinality({q}) = 1
        BY FS_Singleton
      <4>4. Cardinality(windowOf(signal)') \in Nat /\ Cardinality(windowOf(signal)') <= 1
        BY <4>2, <4>3, FS_Subset, FS_CardinalityType
      <4> QED
        BY <3>1, <4>1, <4>4, Lifetimes
    <3> QED
      BY <3>2, <3>3
  <2> QED
    BY <2>2, <2>3
<1>5. WindowsCounted'
  BY <1>4 DEF WindowsCounted
<1> QED
  BY <1>2, <1>3, <1>5 DEF WindowInv

\* No requests, no counters.
LEMMA InitWindowInv == Init => WindowInv
<1> SUFFICES ASSUME Init PROVE WindowInv
  OBVIOUS
<1>1. DOMAIN approvals = {} /\ DOMAIN rateLimits = {}
  BY EmptyMapFacts DEF Init
<1> QED
  BY <1>1, FS_EmptySet DEF WindowInv, RequestsCounted, WindowsCounted

\* The counters of a join request go up with it, in the same transaction.
LEMMA JoinKeepsWindows ==
  ASSUME RowsInv, WindowInv, NEW c \in CallIds, NEW q \in RequestIds, finishJoinRequest(c, q)
  PROVE  WindowInv'
<1>0. TypeOK
  BY DEF RowsInv
<1>1. /\ calls[c].at = "invite read" /\ now' = now
      /\ applyJoinRequestRateLimits(signalsOf(calls[c]))
  BY <1>0, RequestFinished
<1>2. /\ DOMAIN rateLimits \subseteq DOMAIN rateLimits'
      /\ \A s \in DOMAIN rateLimits' :
           \/ s \in DOMAIN rateLimits /\ rateLimits'[s] = rateLimits[s]
           \/ rateLimits'[s] = countUp(s)
      /\ ~rateLimited(signalsOf(calls[c])) =>
           \A k \in 1..3 : /\ signalsOf(calls[c])[k] \in DOMAIN rateLimits'
                           /\ rateLimits'[signalsOf(calls[c])[k]] = countUp(signalsOf(calls[c])[k])
  BY <1>0, <1>1, CallShape, CountersCount
<1>3. CASE approvals' = approvals
  BY <1>1, <1>2, <1>3, CountersOnly
<1>4. CASE approvals' # approvals
  <2>1. /\ ~rateLimited(signalsOf(calls[c]))
        /\ q \notin DOMAIN approvals /\ DOMAIN approvals' = DOMAIN approvals \cup {q}
        /\ \A p \in DOMAIN approvals : approvals'[p] = approvals[p]
        /\ approvals'[q].createdAt = now
        /\ approvals'[q].inviteId = calls[c].inviteId
        /\ approvals'[q].minecraftUuid = calls[c].minecraftUuid
        /\ approvals'[q].device = calls[c].device
    BY <1>0, <1>4, RequestFinished
  <2>2. signalOf(q)' = {signalsOf(calls[c])[k] : k \in 1..3}
    BY <2>1 DEF signalOf, signalsOf
  <2>3. \A k \in 1..3 : countUp(signalsOf(calls[c])[k]).count <= JoinRequestLimit
    <3>1. ASSUME NEW k \in 1..3
          PROVE  countUp(signalsOf(calls[c])[k]).count <= JoinRequestLimit
      <4>1. ~(countUp(signalsOf(calls[c])[k]).count > JoinRequestLimit)
        BY <2>1 DEF rateLimited, overLimit
      <4>2. countUp(signalsOf(calls[c])[k]).count \in Nat
        BY <1>0, CountUpFacts DEF TypeOK
      <4> QED
        BY <4>1, <4>2, Lifetimes
    <3> QED
      BY <3>1
  <2>4. \A signal \in signalOf(q)' :
          /\ signal \in DOMAIN rateLimits' /\ rateLimits'[signal] = countUp(signal)
          /\ countUp(signal).count <= JoinRequestLimit
    BY <1>2, <2>1, <2>2, <2>3
  <2> QED
    BY <1>1, <1>2, <2>1, <2>4, RequestWithCounters
<1> QED
  BY <1>3, <1>4

\* Every step keeps the windows within what their counters counted.
LEMMA NextWindowInv == RowsInv /\ WindowInv /\ [Next]_vars => WindowInv'
<1> SUFFICES ASSUME RowsInv, WindowInv, [Next]_vars
             PROVE  WindowInv'
  OBVIOUS
<1>0. TypeOK /\ RowsAgree
  BY DEF RowsInv, RowsSound
<1>1. ASSUME UNCHANGED <<now, approvals, rateLimits>>
      PROVE  WindowInv'
  BY <1>1, UncountedSteps
<1>2. CASE JoinStep
  <2>1. ASSUME NEW c, NEW i, NEW u, NEW d, beginJoinRequest(c, i, u, d)
        PROVE  WindowInv'
    BY <1>1, <2>1 DEF beginJoinRequest, tables
  <2> QED
    BY <1>2, <2>1, JoinKeepsWindows DEF JoinStep
<1>3. CASE DecisionStep
  <2>1. ASSUME NEW c, NEW a, NEW q, NEW d, NEW u, NEW s,
               \/ beginDecision(c, a, q, d, u) \/ prepareSession(c)
               \/ saveSessionInMemory(c, s)
        PROVE  WindowInv'
    BY <1>1, <2>1 DEF beginDecision, prepareSession, saveSessionInMemory, tables
  <2>2. ASSUME NEW c \in CallIds, decide(c) \/ approveInMemory(c)
        PROVE  WindowInv'
    <3>1. /\ calls[c].at \in {"approval read", "prepared"} /\ saveApproval(calls[c])
          /\ UNCHANGED <<now, rateLimits>>
      BY <2>2 DEF decide, approveInMemory
    <3>2. /\ DOMAIN approvals' = DOMAIN approvals
          /\ \A q \in DOMAIN approvals :
               /\ approvals'[q].inviteId = approvals[q].inviteId
               /\ approvals'[q].minecraftUuid = approvals[q].minecraftUuid
               /\ approvals'[q].device = approvals[q].device
               /\ approvals'[q].createdAt = approvals[q].createdAt
      BY <1>0, <3>1, ApprovalSaved
    <3> QED
      BY <3>1, <3>2, UncountedSteps
  <2>3. ASSUME NEW c \in CallIds, NEW s \in SessionIds, approve(c, s)
        PROVE  WindowInv'
    <3>1. /\ UNCHANGED <<now, rateLimits>>
          /\ DOMAIN approvals' = DOMAIN approvals
          /\ \A q \in DOMAIN approvals :
               /\ approvals'[q].inviteId = approvals[q].inviteId
               /\ approvals'[q].minecraftUuid = approvals[q].minecraftUuid
               /\ approvals'[q].device = approvals[q].device
               /\ approvals'[q].createdAt = approvals[q].createdAt
      BY <1>0, <2>3, Approved
    <3> QED
      BY <3>1, UncountedSteps
  <2> QED
    BY <1>3, <2>1, <2>2, <2>3 DEF DecisionStep
<1>4. CASE \E c \in CallIds : abandon(c)
  BY <1>1, <1>4 DEF abandon, tables
<1>5. CASE RoomStep \/ InviteStep
  BY <1>1, <1>5 DEF RoomStep, InviteStep, createRoom, createInvite, revokeInvite,
                    regenerateInvite
<1>6. CASE OtherStep
  <2>1. CASE \E r \in RoomIds : savePresence(r)
    BY <1>1, <2>1 DEF savePresence
  <2>2. CASE cleanupExpiredState
    <3>1. /\ UNCHANGED <<now, approvals>>
          /\ DOMAIN rateLimits' \subseteq DOMAIN rateLimits
          /\ \A signal \in DOMAIN rateLimits' : rateLimits'[signal] = rateLimits[signal]
          /\ \A signal \in DOMAIN rateLimits :
               rateLimits[signal].resetAt > now => signal \in DOMAIN rateLimits'
      BY <2>2 DEF cleanupExpiredState, KeepKeys
    <3> QED
      BY <3>1, UncountedSteps
  <2>3. CASE advanceClock
    <3>1. now' = now + 1 /\ UNCHANGED <<approvals, rateLimits>>
      BY <2>3 DEF advanceClock, tables
    <3>2. now \in Nat /\ \A q \in DOMAIN approvals : approvals[q].createdAt \in Nat
      BY <1>0 DEF TypeOK, Approval
    <3>3. RequestsCounted'
      BY <3>1, <3>2 DEF WindowInv, RequestsCounted
    <3>4. WindowsCounted'
      BY <3>1 DEF WindowInv, WindowsCounted, windowOf, signalOf
    <3> QED
      BY <3>1, <3>3, <3>4 DEF WindowInv
  <2> QED
    BY <1>6, <2>1, <2>2, <2>3 DEF OtherStep
<1>7. CASE UNCHANGED vars
  BY <1>1, <1>7 DEF vars, tables
<1> QED
  BY <1>2, <1>3, <1>4, <1>5, <1>6, <1>7 DEF Next

\* No window admits more join requests than the limit, though counters restart, are
\* cleaned up and are shared (incrementRateLimitCounter,
\* applyJoinRequestRateLimits).
THEOREM WindowsStayLimited == Spec => []WindowsAreLimited
<1>1. WindowInv => WindowsAreLimited
  BY DEF WindowInv, WindowsCounted, WindowsAreLimited, windowOf
<1> QED
  BY <1>1, InitRowsInv, NextRowsInv, InitWindowInv, NextWindowInv, PTL DEF Spec
=============================================================================
