------------------------------- MODULE Relay -------------------------------
(***************************************************************************)
(* The relay contract: a host keeps one tunnel open per room, friends with *)
(* a validated session open streams over it, transfers are metered against *)
(* quotas, and streams end by disconnecting, by a quota or with the        *)
(* tunnel.                                                                 *)
(*                                                                         *)
(* Source: services/relay/src/relay-simulation.mjs.  Tunnel, transfer and  *)
(* disconnect calls are synchronous, one action each.  Opening a stream is *)
(* synchronous against the local session table; with a session service it  *)
(* asks, takes the answer in one microtask (normalizeServiceSessionResult) *)
(* and opens in a later one (openFriendStreamWithSession), so other calls  *)
(* come in between.                                                        *)
(*                                                                         *)
(* A request's token, invite, friend and Minecraft UUID are one value, its *)
(* holder: the relay compares each with the session's.  A refused call     *)
(* only counts and logs, and is not a step.                                *)
(***************************************************************************)
EXTENDS Naturals, FiniteSets, FiniteSetsExt, Maps

CONSTANTS
  HostIds, RoomIds, Holders,
  HostCredentials,  (* pairs <<room, host>> that have a tunnel token        *)
  SessionIds, TunnelIds, StreamIds,    (* id pools                          *)
  OpenCalls,        (* openFriendStream calls that can be in flight         *)
  Nobody,           (* no host in a session, no call                        *)
  AsyncService,     (* BOOLEAN: sessions are validated by a remote service  *)
  ServiceConsumes,  (* BOOLEAN: the service honours consume: true           *)
  SessionTtl, MaxRoomMembers, MaxSessionTime, IdleTimeout,
  MaxRoomBytes, MaxMonthlyHostBytes,
  FrameSizes,       (* byte counts of a transfer                            *)
  MaxTime, MaxCloses   (* bounds on the clock and on the close counter      *)

ASSUME RelayAssumption ==
  /\ HostCredentials \subseteq RoomIds \X HostIds
  /\ AsyncService \in BOOLEAN
  /\ ServiceConsumes \in BOOLEAN
  /\ {SessionTtl, MaxRoomMembers, MaxSessionTime, IdleTimeout, MaxRoomBytes,
      MaxMonthlyHostBytes, MaxTime, MaxCloses} \subseteq Nat
  /\ FrameSizes \subseteq Nat \ {0}
  /\ Nobody \notin HostIds \cup OpenCalls \cup SessionIds

VARIABLES
  now,
  issued,           (* Map sessionId -> session, at the control plane       *)
  spent,            (* sessions the service has consumed                    *)
  hostTunnels,      (* Map roomId -> tunnel                                 *)
  sessions,         (* Map sessionId -> session, the relay's own copies     *)
  streams,          (* Map streamId -> stream                               *)
  calls,            (* openFriendStream calls in flight                     *)
  roomBytes, monthlyHostBytes,
  metrics           (* the counters of readMetrics the properties are about *)

vars == <<now, issued, spent, hostTunnels, sessions, streams, calls,
          roomBytes, monthlyHostBytes, metrics>>

Session == [roomId : RoomIds, hostId : HostIds \cup {Nobody}, holder : Holders,
            issuedAt : Nat, expiresAt : Nat]

\* A session object the relay holds; owner tells which call's object it is.
HeldSession == [session : Session, consumed : BOOLEAN, owner : OpenCalls \cup {Nobody}]

Request == [sessionId : SessionIds, roomId : RoomIds, holder : Holders]

Tunnel == [id : TunnelIds, hostId : HostIds, state : {"open", "closed"}]

Stream == [roomId : RoomIds, hostId : HostIds, holder : Holders,
           sessionId : SessionIds, tunnelId : TunnelIds,
           openedAt : Nat, lastActivityAt : Nat, bytes : Nat, frames : Nat,
           state : {"open", "closed", "disconnect_failed"}]

IdleCall == [phase |-> "idle"]

Init ==
  /\ now = 0
  /\ issued = EmptyMap
  /\ spent = {}
  /\ hostTunnels = EmptyMap
  /\ sessions = EmptyMap
  /\ streams = EmptyMap
  /\ calls = [c \in OpenCalls |-> IdleCall]
  /\ roomBytes = [r \in RoomIds |-> 0]
  /\ monthlyHostBytes = [h \in HostIds |-> 0]
  /\ metrics = [friendStreamsOpened |-> 0, friendStreamsClosed |-> 0,
                bytesRelayed |-> 0, quotaStops |-> 0]

-----------------------------------------------------------------------------
(* Closing streams.                                                        *)

openStreams == {s \in DOMAIN streams : streams[s].state = "open"}

\* activeRoomMemberCount
activeRoomMemberCount(roomId) ==
  Cardinality({s \in openStreams : streams[s].roomId = roomId})

\* closeStream: nothing happens to a stream that is already closed
notYetClosed(ids) == {s \in ids : streams[s].state # "closed"}

closeStreams(ids) ==
  streams' = [s \in DOMAIN streams |->
                IF s \in ids THEN [streams[s] EXCEPT !.state = "closed"]
                             ELSE streams[s]]

closedCount(ids) == metrics.friendStreamsClosed + Cardinality(notYetClosed(ids))

\* The streams closeHostTunnel closes with a tunnel
streamsOf(tunnelId) == {s \in openStreams : streams[s].tunnelId = tunnelId}

-----------------------------------------------------------------------------
(* Host tunnels.                                                           *)

hasOpenTunnel(roomId) ==
  roomId \in DOMAIN hostTunnels /\ hostTunnels[roomId].state = "open"

\* Fault: the streams of the tunnel that is replaced are left open.
openHostTunnelFault(hostId, roomId, tunnelId) ==
  /\ <<roomId, hostId>> \in HostCredentials
  /\ \A r \in DOMAIN hostTunnels : hostTunnels[r].id # tunnelId
  /\ \A s \in DOMAIN streams : streams[s].tunnelId # tunnelId
  /\ hasOpenTunnel(roomId) => hostTunnels[roomId].hostId = hostId
  /\ hostTunnels' = Put(hostTunnels, roomId,
                        [id |-> tunnelId, hostId |-> hostId, state |-> "open"])
  /\ UNCHANGED <<now, issued, spent, sessions, streams, calls, roomBytes,
                 monthlyHostBytes, metrics>>

\* A host that already has the room's open tunnel replaces it, which closes the
\* old one and its streams; another host's open tunnel is a conflict.
openHostTunnel(hostId, roomId, tunnelId) ==
  /\ <<roomId, hostId>> \in HostCredentials
  /\ \A r \in DOMAIN hostTunnels : hostTunnels[r].id # tunnelId
  /\ \A s \in DOMAIN streams : streams[s].tunnelId # tunnelId
  /\ hasOpenTunnel(roomId) => hostTunnels[roomId].hostId = hostId
  /\ LET replaced == IF hasOpenTunnel(roomId) THEN streamsOf(hostTunnels[roomId].id)
                                              ELSE {}
     IN /\ closeStreams(replaced)
        /\ metrics' = [metrics EXCEPT !.friendStreamsClosed = closedCount(replaced)]
  /\ hostTunnels' = Put(hostTunnels, roomId,
                        [id |-> tunnelId, hostId |-> hostId, state |-> "open"])
  /\ UNCHANGED <<now, issued, spent, sessions, calls, roomBytes, monthlyHostBytes>>

\* Closing a tunnel that is closed already answers ok and changes nothing.
closeHostTunnel(hostId, roomId) ==
  /\ hasOpenTunnel(roomId)
  /\ hostTunnels[roomId].hostId = hostId
  /\ <<roomId, hostId>> \in HostCredentials
  /\ closeStreams(streamsOf(hostTunnels[roomId].id))
  /\ metrics' = [metrics EXCEPT !.friendStreamsClosed =
                   closedCount(streamsOf(hostTunnels[roomId].id))]
  /\ hostTunnels' = [hostTunnels EXCEPT ![roomId].state = "closed"]
  /\ UNCHANGED <<now, issued, spent, sessions, calls, roomBytes, monthlyHostBytes>>

-----------------------------------------------------------------------------
(* Sessions and stream opening.                                            *)

\* The control plane issues a session for a room (external to the relay).
issueSession(sessionId, roomId, hostId, holder) ==
  /\ sessionId \notin DOMAIN issued
  /\ issued' = Put(issued, sessionId,
                   [roomId |-> roomId, hostId |-> hostId, holder |-> holder,
                    issuedAt |-> now, expiresAt |-> now + SessionTtl])
  /\ UNCHANGED <<now, spent, hostTunnels, sessions, streams, calls,
                 roomBytes, monthlyHostBytes, metrics>>

\* Without a service the relay is handed the session directly, once.
authorizeSession(sessionId) ==
  /\ ~AsyncService
  /\ sessionId \in DOMAIN issued \ DOMAIN sessions
  /\ sessions' = Put(sessions, sessionId,
                     [session |-> issued[sessionId], consumed |-> FALSE,
                      owner |-> Nobody])
  /\ UNCHANGED <<now, issued, spent, hostTunnels, streams, calls,
                 roomBytes, monthlyHostBytes, metrics>>

\* Fault: the session's holder is not compared with the request's.
validSessionFault(held, request) ==
  /\ ~held.consumed
  /\ held.session.expiresAt > now
  /\ now <= held.session.issuedAt + MaxSessionTime
  /\ held.session.roomId = request.roomId

\* validateSession: null, i.e. no reason to refuse the request
validSession(held, request) ==
  /\ held.session.holder = request.holder
  /\ ~held.consumed
  /\ held.session.expiresAt > now
  /\ now <= held.session.issuedAt + MaxSessionTime
  /\ held.session.roomId = request.roomId

\* Fault: off by one in the member quota.
roomAcceptsFault(held, request) ==
  /\ hasOpenTunnel(request.roomId)
  /\ held.session.hostId \in {Nobody, hostTunnels[request.roomId].hostId}
  /\ activeRoomMemberCount(request.roomId) <= MaxRoomMembers

\* The remaining checks of openFriendStreamWithSession
roomAccepts(held, request) ==
  /\ hasOpenTunnel(request.roomId)
  /\ held.session.hostId \in {Nobody, hostTunnels[request.roomId].hostId}
  /\ activeRoomMemberCount(request.roomId) < MaxRoomMembers

\* The stream is made and the session object marked; the table sees the mark
\* only if it still holds the very object this call validated.
openStream(streamId, held, request) ==
  /\ streamId \notin DOMAIN streams
  /\ streams' = Put(streams, streamId,
                    [roomId |-> request.roomId,
                     hostId |-> hostTunnels[request.roomId].hostId,
                     holder |-> request.holder, sessionId |-> request.sessionId,
                     tunnelId |-> hostTunnels[request.roomId].id,
                     openedAt |-> now, lastActivityAt |-> now,
                     bytes |-> 0, frames |-> 0, state |-> "open"])
  /\ sessions' = [sessions EXCEPT ![request.sessionId].consumed =
                    @ \/ sessions[request.sessionId].owner = held.owner]
  /\ metrics' = [metrics EXCEPT !.friendStreamsOpened = @ + 1]
  /\ UNCHANGED <<now, issued, spent, hostTunnels, roomBytes, monthlyHostBytes>>

openFriendStream(request, streamId) ==
  /\ ~AsyncService
  /\ request.sessionId \in DOMAIN sessions
  /\ validSession(sessions[request.sessionId], request)
  /\ roomAccepts(sessions[request.sessionId], request)
  /\ openStream(streamId, sessions[request.sessionId], request)
  /\ UNCHANGED calls

askService(c, request) ==
  /\ AsyncService
  /\ calls[c] = IdleCall
  /\ calls' = [calls EXCEPT ![c] = [phase |-> "asked", request |-> request]]
  /\ UNCHANGED <<now, issued, spent, hostTunnels, sessions, streams,
                 roomBytes, monthlyHostBytes, metrics>>

\* Fault: the session is validated without consume: true.
serviceAcceptsFault(c) ==
  /\ calls[c].phase = "asked"
  /\ LET id == calls[c].request.sessionId
         held == [session |-> issued[id], consumed |-> FALSE, owner |-> c]
     IN /\ id \in DOMAIN issued
        /\ sessions' = Put(sessions, id, held)
        /\ calls' = [calls EXCEPT ![c] =
                       [phase |-> "resolved", request |-> @.request, held |-> held]]
  /\ UNCHANGED <<now, issued, spent, hostTunnels, streams, roomBytes,
                 monthlyHostBytes, metrics>>

\* The service vouches for the session and uses it up; the relay keeps its own
\* copy, with the consumed mark of the copy it replaces.
serviceAccepts(c) ==
  /\ calls[c].phase = "asked"
  /\ LET id == calls[c].request.sessionId IN
       /\ id \in DOMAIN issued
       /\ ServiceConsumes => id \notin spent
       /\ spent' = spent \cup {id}
       /\ LET held == [session |-> issued[id],
                       consumed |-> id \in DOMAIN sessions /\ sessions[id].consumed,
                       owner |-> c]
          IN /\ sessions' = Put(sessions, id, held)
             /\ calls' = [calls EXCEPT ![c] =
                            [phase |-> "resolved", request |-> @.request, held |-> held]]
  /\ UNCHANGED <<now, issued, hostTunnels, streams, roomBytes, monthlyHostBytes, metrics>>

\* The service refuses or the call to it fails, perhaps after it used up the
\* session: the friend's request is refused.
serviceRefuses(c) ==
  /\ calls[c].phase = "asked"
  /\ spent' \in {spent, spent \cup ({calls[c].request.sessionId} \cap DOMAIN issued)}
  /\ calls' = [calls EXCEPT ![c] = IdleCall]
  /\ UNCHANGED <<now, issued, hostTunnels, sessions, streams,
                 roomBytes, monthlyHostBytes, metrics>>

\* openFriendStreamWithSession in its own microtask
finishOpen(c, streamId) ==
  /\ calls[c].phase = "resolved"
  /\ validSession(calls[c].held, calls[c].request)
  /\ roomAccepts(calls[c].held, calls[c].request)
  /\ openStream(streamId, calls[c].held, calls[c].request)
  /\ calls' = [calls EXCEPT ![c] = IdleCall]

refuseOpen(c) ==
  /\ calls[c].phase = "resolved"
  /\ ~ (/\ validSession(calls[c].held, calls[c].request)
        /\ roomAccepts(calls[c].held, calls[c].request))
  /\ calls' = [calls EXCEPT ![c] = IdleCall]
  /\ UNCHANGED <<now, issued, spent, hostTunnels, sessions, streams,
                 roomBytes, monthlyHostBytes, metrics>>

-----------------------------------------------------------------------------
(* Transfers and disconnects.                                              *)

\* recordTransfer refuses the bytes and closes the stream on any of the quotas.
overQuota(stream, bytes) ==
  \/ now > stream.openedAt + MaxSessionTime
  \/ now > stream.lastActivityAt + IdleTimeout
  \/ roomBytes[stream.roomId] + bytes > MaxRoomBytes
  \/ monthlyHostBytes[stream.hostId] + bytes > MaxMonthlyHostBytes

stopStream(streamId, bytes) ==
  /\ streamId \in openStreams
  /\ overQuota(streams[streamId], bytes)
  /\ closeStreams({streamId})
  /\ metrics' = [metrics EXCEPT !.friendStreamsClosed = closedCount({streamId}),
                                !.quotaStops = @ + 1]
  /\ UNCHANGED <<now, issued, spent, hostTunnels, sessions, calls,
                 roomBytes, monthlyHostBytes>>

\* Fault: a stream that has ended still carries bytes.
accountTransferFault(streamId, bytes, frames) ==
  LET stream == streams[streamId] IN
  /\ streamId \in DOMAIN streams
  /\ ~overQuota(stream, bytes)
  /\ streams' = [streams EXCEPT ![streamId].bytes = @ + bytes]
  /\ roomBytes' = [roomBytes EXCEPT ![stream.roomId] = @ + bytes]
  /\ monthlyHostBytes' = [monthlyHostBytes EXCEPT ![stream.hostId] = @ + bytes]
  /\ metrics' = [metrics EXCEPT !.bytesRelayed = @ + bytes]
  /\ UNCHANGED <<now, issued, spent, hostTunnels, sessions, calls>>

\* Fault: the bytes are not counted for the room.
accountTransferUncounted(streamId, bytes, frames) ==
  LET stream == streams[streamId] IN
  /\ streamId \in openStreams
  /\ ~overQuota(stream, bytes)
  /\ streams' = [streams EXCEPT ![streamId].bytes = @ + bytes,
                                ![streamId].frames = @ + frames]
  /\ monthlyHostBytes' = [monthlyHostBytes EXCEPT ![stream.hostId] = @ + bytes]
  /\ metrics' = [metrics EXCEPT !.bytesRelayed = @ + bytes]
  /\ UNCHANGED <<now, issued, spent, hostTunnels, sessions, calls, roomBytes>>

accountTransfer(streamId, bytes, frames) ==
  LET stream == streams[streamId] IN
  /\ streamId \in openStreams
  /\ ~overQuota(stream, bytes)
  /\ streams' = [streams EXCEPT ![streamId].bytes = @ + bytes,
                                ![streamId].frames = @ + frames,
                                ![streamId].lastActivityAt = now]
  /\ roomBytes' = [roomBytes EXCEPT ![stream.roomId] = @ + bytes]
  /\ monthlyHostBytes' = [monthlyHostBytes EXCEPT ![stream.hostId] = @ + bytes]
  /\ metrics' = [metrics EXCEPT !.bytesRelayed = @ + bytes]
  /\ UNCHANGED <<now, issued, spent, hostTunnels, sessions, calls>>

recordTransfer(streamId, bytes) ==
  accountTransfer(streamId, bytes, 0) \/ stopStream(streamId, bytes)

\* relayEcho meters the payload like any transfer, then queues one frame each way.
relayEcho(streamId, bytes) ==
  accountTransfer(streamId, bytes, 1) \/ stopStream(streamId, bytes)

\* disconnectStream, when one of its attempts succeeds.  The bound keeps the
\* counter finite: a stream can go back and forth (see disconnectFails).
disconnectStream(streamId) ==
  /\ streamId \in DOMAIN streams
  /\ closedCount({streamId}) <= MaxCloses
  /\ closeStreams({streamId})
  /\ metrics' = [metrics EXCEPT !.friendStreamsClosed = closedCount({streamId})]
  /\ UNCHANGED <<now, issued, spent, hostTunnels, sessions, calls,
                 roomBytes, monthlyHostBytes>>

\* disconnectStream, when every attempt fails.  It does not ask what state the
\* stream is in.
disconnectFails(streamId) ==
  /\ streamId \in DOMAIN streams
  /\ streams' = [streams EXCEPT ![streamId].state = "disconnect_failed"]
  /\ UNCHANGED <<now, issued, spent, hostTunnels, sessions, calls,
                 roomBytes, monthlyHostBytes, metrics>>

advanceClock ==
  /\ now < MaxTime
  /\ now' = now + 1
  /\ UNCHANGED <<issued, spent, hostTunnels, sessions, streams, calls,
                 roomBytes, monthlyHostBytes, metrics>>

TunnelStep ==
  \E h \in HostIds, r \in RoomIds :
    closeHostTunnel(h, r) \/ \E t \in TunnelIds : openHostTunnel(h, r, t)

SessionStep ==
  \E s \in SessionIds :
    \/ authorizeSession(s)
    \/ \E r \in RoomIds, h \in HostIds \cup {Nobody}, u \in Holders :
         issueSession(s, r, h, u)

OpenStep ==
  \/ \E q \in Request :
       \/ \E s \in StreamIds : openFriendStream(q, s)
       \/ \E c \in OpenCalls : askService(c, q)
  \/ \E c \in OpenCalls :
       \/ serviceAccepts(c) \/ serviceRefuses(c) \/ refuseOpen(c)
       \/ \E s \in StreamIds : finishOpen(c, s)

StreamStep ==
  \E s \in StreamIds :
    \/ \E b \in FrameSizes : recordTransfer(s, b) \/ relayEcho(s, b)
    \/ disconnectStream(s) \/ disconnectFails(s)

Next == TunnelStep \/ SessionStep \/ OpenStep \/ StreamStep \/ advanceClock

Spec == Init /\ [][Next]_vars

-----------------------------------------------------------------------------
(* Properties.                                                             *)

Call ==
  {IdleCall}
    \cup [phase : {"asked"}, request : Request]
    \cup [phase : {"resolved"}, request : Request, held : HeldSession]

\* Every table of relay-simulation.mjs holds records of the shape its functions
\* build.
TypeOK ==
  /\ now \in Nat
  /\ DOMAIN issued \subseteq SessionIds
  /\ \A s \in DOMAIN issued : issued[s] \in Session
  /\ spent \subseteq SessionIds
  /\ DOMAIN hostTunnels \subseteq RoomIds
  /\ \A r \in DOMAIN hostTunnels : hostTunnels[r] \in Tunnel
  /\ DOMAIN sessions \subseteq SessionIds
  /\ \A s \in DOMAIN sessions : sessions[s] \in HeldSession
  /\ DOMAIN streams \subseteq StreamIds
  /\ \A s \in DOMAIN streams : streams[s] \in Stream
  /\ calls \in [OpenCalls -> Call]
  /\ roomBytes \in [RoomIds -> Nat]
  /\ monthlyHostBytes \in [HostIds -> Nat]
  /\ metrics \in [friendStreamsOpened : Nat, friendStreamsClosed : Nat,
                  bytesRelayed : Nat, quotaStops : Nat]

\* A stream never outlives its tunnel: an open stream runs over the tunnel that
\* is now its room's, that tunnel is open and belongs to the stream's host.
\* Tunnels are replaced and closed while opens are still waiting for the
\* session service.
OpenStreamsHaveTheirTunnel ==
  /\ TypeOK
  /\ \A s \in openStreams :
       /\ hasOpenTunnel(streams[s].roomId)
       /\ hostTunnels[streams[s].roomId].id = streams[s].tunnelId
       /\ hostTunnels[streams[s].roomId].hostId = streams[s].hostId

\* The member quota holds although opens that passed validation together finish
\* one after the other.
RoomsAreNotOverfull ==
  \A r \in RoomIds : activeRoomMemberCount(r) <= MaxRoomMembers

\* A session is good for one stream (README item 4), even when two opens with
\* it are in flight: the service's consumption, or the local mark, stops the
\* second.
OneStreamPerSession ==
  \A s, t \in DOMAIN streams : streams[s].sessionId = streams[t].sessionId => s = t

\* Every stream is the stream of a session issued to that holder for that room
\* and host: what was checked before an await is what the stream is made of.
StreamsMatchSessions ==
  \A s \in DOMAIN streams :
    /\ streams[s].sessionId \in DOMAIN issued
    /\ LET session == issued[streams[s].sessionId] IN
         /\ session.roomId = streams[s].roomId
         /\ session.holder = streams[s].holder
         /\ session.hostId \in {Nobody, streams[s].hostId}
         /\ streams[s].openedAt < session.expiresAt

bytesOf(S) == MapThenSumSet(LAMBDA s : streams[s].bytes, S)

\* No quota is ever exceeded by the transfer that reaches it, and an echoed frame
\* carries bytes.
QuotasKept ==
  /\ \A r \in RoomIds : roomBytes[r] <= MaxRoomBytes
  /\ \A h \in HostIds : monthlyHostBytes[h] <= MaxMonthlyHostBytes
  /\ \A s \in DOMAIN streams : streams[s].frames <= streams[s].bytes

\* The byte counts of streams, rooms, hosts and the relay agree, within the quotas.
BytesAddUp ==
  /\ \A r \in RoomIds :
       roomBytes[r] = bytesOf({s \in DOMAIN streams : streams[s].roomId = r})
  /\ \A h \in HostIds :
       monthlyHostBytes[h] = bytesOf({s \in DOMAIN streams : streams[s].hostId = h})
  /\ metrics.bytesRelayed = bytesOf(DOMAIN streams)
  /\ QuotasKept

\* A stream that has ended, in whatever way, carries nothing any more and never
\* comes back.
EndedStreamsStayEnded ==
  [][\A s \in DOMAIN streams \ openStreams :
       /\ s \in DOMAIN streams'
       /\ streams'[s].state # "open"
       /\ streams'[s].bytes = streams[s].bytes
       /\ streams'[s].frames = streams[s].frames]_vars

\* README item 7 and the test "relay metrics and disconnect retry state are
\* bounded": no more closes are counted than streams were opened.  The code does
\* not keep it (README, section 4).
ClosesAreBoundedByOpens ==
  metrics.friendStreamsClosed <= metrics.friendStreamsOpened

\* README item 6, "Enforced ... session duration, idle timeout": no stream stays
\* open beyond the idle timeout or the session duration.  The code does not keep it
\* (README, section 4).
QuotasEndStreams ==
  \A s \in openStreams :
    /\ now <= streams[s].openedAt + MaxSessionTime
    /\ now <= streams[s].lastActivityAt + IdleTimeout
=============================================================================
