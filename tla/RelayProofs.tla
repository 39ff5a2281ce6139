---------------------------- MODULE RelayProofs ----------------------------
(***************************************************************************)
(* Proofs about Relay, for every set of hosts, rooms, friends and calls in *)
(* flight, every quota and both ways of validating a session.              *)
(***************************************************************************)
EXTENDS Relay, FiniteSetTheorems, TLAPS

\* A new Map has no keys.
LEMMA EmptyMapFacts == DOMAIN EmptyMap = {}
BY DEF EmptyMap

-----------------------------------------------------------------------------
(* Closing streams.                                                        *)

\* There are only ever finitely many streams, so the counters count something.
FiniteStreams == IsFiniteSet(DOMAIN streams)

TypeInv == TypeOK /\ FiniteStreams

\* closeStreams ends exactly the streams it is given and only writes their state.
LEMMA ClosedStreams ==
  ASSUME TypeOK, NEW ids, closeStreams(ids)
  PROVE  /\ DOMAIN streams' = DOMAIN streams
         /\ \A s \in DOMAIN streams :
              /\ streams'[s] \in Stream
              /\ s \in ids => streams'[s].state = "closed"
              /\ s \notin ids => streams'[s] = streams[s]
              /\ streams'[s] = [streams[s] EXCEPT !.state = streams'[s].state]
BY DEF TypeOK, closeStreams, Stream

\* The close counter stays a number: it grows by the size of a finite set.
LEMMA ClosedCountType ==
  ASSUME TypeInv, NEW ids \in SUBSET DOMAIN streams
  PROVE  closedCount(ids) \in Nat
<1>1. notYetClosed(ids) \subseteq DOMAIN streams
  BY DEF notYetClosed
<1>2. Cardinality(notYetClosed(ids)) \in Nat
  BY <1>1, FS_Subset, FS_CardinalityType DEF TypeInv, FiniteStreams
<1> QED
  BY <1>2 DEF closedCount, TypeInv, TypeOK

-----------------------------------------------------------------------------
(* Type correctness.                                                       *)

\* createRelaySimulation starts with empty tables and zero counters.
LEMMA InitTypeInv == Init => TypeInv
<1> SUFFICES ASSUME Init
             PROVE  TypeInv
  OBVIOUS
<1>1. /\ DOMAIN issued = {} /\ DOMAIN hostTunnels = {}
      /\ DOMAIN sessions = {} /\ DOMAIN streams = {}
  BY EmptyMapFacts DEF Init
<1>2. TypeOK
  BY <1>1 DEF Init, TypeOK, Call
<1> QED
  BY <1>1, <1>2, FS_EmptySet DEF TypeInv, FiniteStreams

\* What openFriendStreamWithSession leaves behind: one more stream, and a mark on
\* the session of the table if it is still the object the call validated.
OpenedStream(s, held, q) ==
  /\ s \notin DOMAIN streams
  /\ DOMAIN streams' = DOMAIN streams \cup {s}
  /\ \A t \in DOMAIN streams : streams'[t] = streams[t]
  /\ streams'[s] = [roomId |-> q.roomId, hostId |-> hostTunnels[q.roomId].hostId,
                    holder |-> q.holder, sessionId |-> q.sessionId,
                    tunnelId |-> hostTunnels[q.roomId].id,
                    openedAt |-> now, lastActivityAt |-> now,
                    bytes |-> 0, frames |-> 0, state |-> "open"]
  /\ streams'[s] \in Stream
  /\ FiniteStreams'
  /\ DOMAIN sessions' = DOMAIN sessions
  /\ \A i \in DOMAIN sessions :
       /\ sessions'[i] \in HeldSession
       /\ sessions'[i].session = sessions[i].session
       /\ sessions'[i].owner = sessions[i].owner
       /\ i # q.sessionId => sessions'[i] = sessions[i]
  /\ q.sessionId \in DOMAIN sessions =>
       sessions'[q.sessionId].consumed
         = (sessions[q.sessionId].consumed \/ sessions[q.sessionId].owner = held.owner)
  /\ metrics' = [metrics EXCEPT !.friendStreamsOpened = @ + 1]

\* A stream that is opened, and the mark on its session, have their types.
LEMMA OpenStreamTypes ==
  ASSUME TypeInv, NEW s \in StreamIds, NEW held \in HeldSession, NEW q \in Request,
         roomAccepts(held, q), openStream(s, held, q)
  PROVE  OpenedStream(s, held, q)
<1> DEFINE opened == [roomId |-> q.roomId,
                      hostId |-> hostTunnels[q.roomId].hostId,
                      holder |-> q.holder, sessionId |-> q.sessionId,
                      tunnelId |-> hostTunnels[q.roomId].id,
                      openedAt |-> now, lastActivityAt |-> now,
                      bytes |-> 0, frames |-> 0, state |-> "open"]
<1>1. s \notin DOMAIN streams /\ streams' = Put(streams, s, opened)
  BY DEF openStream
<1>2. /\ DOMAIN streams' = DOMAIN streams \cup {s}
      /\ streams'[s] = opened
      /\ \A t \in DOMAIN streams : streams'[t] = streams[t]
  BY <1>1 DEF Put
<1>3. hostTunnels[q.roomId] \in Tunnel
  BY DEF roomAccepts, hasOpenTunnel, TypeInv, TypeOK
<1>4. opened \in Stream
  BY <1>3 DEF Stream, Tunnel, Request, TypeInv, TypeOK
<1>5. FiniteStreams'
  BY <1>2, FS_AddElement DEF TypeInv, FiniteStreams
<1>6. /\ DOMAIN sessions' = DOMAIN sessions
      /\ \A i \in DOMAIN sessions :
           /\ sessions'[i] \in HeldSession
           /\ sessions'[i].session = sessions[i].session
           /\ sessions'[i].owner = sessions[i].owner
           /\ i # q.sessionId => sessions'[i] = sessions[i]
      /\ q.sessionId \in DOMAIN sessions =>
           sessions'[q.sessionId].consumed
             = (sessions[q.sessionId].consumed
                  \/ sessions[q.sessionId].owner = held.owner)
  <2> DEFINE id == q.sessionId
             mark == sessions[id].consumed \/ sessions[id].owner = held.owner
  <2>1. sessions' = [sessions EXCEPT ![id] = [sessions[id] EXCEPT !.consumed = mark]]
    BY DEF openStream
  <2>2. mark \in BOOLEAN
    OBVIOUS
  <2> HIDE DEF mark
  <2>3. /\ DOMAIN sessions' = DOMAIN sessions
        /\ \A i \in DOMAIN sessions :
             /\ sessions'[i] \in HeldSession
             /\ sessions'[i].session = sessions[i].session
             /\ sessions'[i].owner = sessions[i].owner
             /\ i # id => sessions'[i] = sessions[i]
        /\ id \in DOMAIN sessions => sessions'[id].consumed = mark
    BY <2>1, <2>2 DEF HeldSession, TypeInv, TypeOK
  <2> QED
    BY <2>3 DEF mark
<1> QED
  BY <1>1, <1>2, <1>4, <1>5, <1>6 DEF openStream, OpenedStream

\* Every call of the relay builds records of the shape it found, over a finite
\* table of streams.
LEMMA NextTypeInv == TypeInv /\ [Next]_vars => TypeInv'
<1> SUFFICES ASSUME TypeInv, [Next]_vars
             PROVE  TypeInv'
  OBVIOUS
<1> USE RelayAssumption
<1>1. ASSUME NEW h \in HostIds, NEW r \in RoomIds, NEW t \in TunnelIds,
             openHostTunnel(h, r, t)
      PROVE  TypeInv'
  <2> DEFINE replaced == IF hasOpenTunnel(r) THEN streamsOf(hostTunnels[r].id) ELSE {}
  <2>1. replaced \in SUBSET DOMAIN streams
    BY DEF streamsOf, openStreams
  <2>2. closeStreams(replaced)
    BY <1>1 DEF openHostTunnel
  <2>3. closedCount(replaced) \in Nat
    BY <2>1, ClosedCountType
  <2>4. /\ DOMAIN hostTunnels' = DOMAIN hostTunnels \cup {r}
        /\ \A k \in DOMAIN hostTunnels' : hostTunnels'[k] \in Tunnel
    BY <1>1 DEF openHostTunnel, Put, Tunnel, TypeInv, TypeOK
  <2>5. metrics' = [metrics EXCEPT !.friendStreamsClosed = closedCount(replaced)]
    BY <1>1 DEF openHostTunnel
  <2> HIDE DEF replaced
  <2> QED
    BY <1>1, <2>2, <2>3, <2>4, <2>5, ClosedStreams
       DEF openHostTunnel, TypeInv, TypeOK, FiniteStreams
<1>2. ASSUME NEW h \in HostIds, NEW r \in RoomIds, closeHostTunnel(h, r)
      PROVE  TypeInv'
  <2> DEFINE ended == streamsOf(hostTunnels[r].id)
  <2>1. closedCount(ended) \in Nat
    BY ClosedCountType DEF streamsOf, openStreams
  <2>2. /\ closeStreams(ended)
        /\ metrics' = [metrics EXCEPT !.friendStreamsClosed = closedCount(ended)]
    BY <1>2 DEF closeHostTunnel
  <2>3. /\ DOMAIN hostTunnels' = DOMAIN hostTunnels
        /\ \A k \in DOMAIN hostTunnels : hostTunnels'[k] \in Tunnel
    BY <1>2 DEF closeHostTunnel, Tunnel, TypeInv, TypeOK
  <2> HIDE DEF ended
  <2> QED
    BY <1>2, <2>1, <2>2, <2>3, ClosedStreams
       DEF closeHostTunnel, TypeInv, TypeOK, FiniteStreams
<1>3. ASSUME NEW s \in SessionIds, authorizeSession(s)
      PROVE  TypeInv'
  BY <1>3 DEF authorizeSession, Put, HeldSession, TypeInv, TypeOK, FiniteStreams
<1>4. ASSUME NEW s \in SessionIds, NEW r \in RoomIds, NEW h \in HostIds \cup {Nobody},
             NEW u \in Holders, issueSession(s, r, h, u)
      PROVE  TypeInv'
  BY <1>4 DEF issueSession, Put, Session, TypeInv, TypeOK, FiniteStreams
<1>5. ASSUME NEW q \in Request, NEW s \in StreamIds, openFriendStream(q, s)
      PROVE  TypeInv'
  <2>1. sessions[q.sessionId] \in HeldSession
    BY <1>5 DEF openFriendStream, TypeInv, TypeOK
  <2>2. roomAccepts(sessions[q.sessionId], q) /\ openStream(s, sessions[q.sessionId], q)
    BY <1>5 DEF openFriendStream
  <2>3. UNCHANGED <<now, issued, spent, hostTunnels, calls, roomBytes, monthlyHostBytes>>
    BY <1>5 DEF openFriendStream, openStream
  <2>4. OpenedStream(s, sessions[q.sessionId], q)
    BY <2>1, <2>2, OpenStreamTypes
  <2> QED
    BY <2>3, <2>4 DEF OpenedStream, TypeInv, TypeOK
<1>6. ASSUME NEW c \in OpenCalls, NEW q \in Request, askService(c, q)
      PROVE  TypeInv'
  <2>1. [phase |-> "asked", request |-> q] \in Call
    BY DEF Call
  <2> QED
    BY <1>6, <2>1 DEF askService, TypeInv, TypeOK, FiniteStreams
<1>7. ASSUME NEW c \in OpenCalls, serviceAccepts(c)
      PROVE  TypeInv'
  <2> DEFINE id == calls[c].request.sessionId
             held == [session |-> issued[id],
                      consumed |-> id \in DOMAIN sessions /\ sessions[id].consumed,
                      owner |-> c]
             answered == [phase |-> "resolved", request |-> calls[c].request, held |-> held]
  <2>1. /\ id \in DOMAIN issued
        /\ spent' = spent \cup {id}
        /\ sessions' = Put(sessions, id, held)
        /\ calls' = [calls EXCEPT ![c] = answered]
        /\ UNCHANGED <<now, issued, hostTunnels, streams, roomBytes, monthlyHostBytes,
                       metrics>>
    BY <1>7 DEF serviceAccepts
  <2>2. calls[c].phase = "asked" /\ calls[c] \in Call
    BY <1>7 DEF serviceAccepts, TypeInv, TypeOK
  <2>3. calls[c].request \in Request
    BY <2>2 DEF Call, IdleCall
  <2>4. held \in HeldSession
    BY <2>1 DEF HeldSession, TypeInv, TypeOK
  <2>5. answered \in Call
    BY <2>3, <2>4 DEF Call
  <2> HIDE DEF held, answered
  <2> QED
    BY <2>1, <2>3, <2>4, <2>5 DEF Put, Request, TypeInv, TypeOK, FiniteStreams
<1>8. ASSUME NEW c \in OpenCalls, serviceRefuses(c) \/ refuseOpen(c)
      PROVE  TypeInv'
  <2>1. /\ calls' = [calls EXCEPT ![c] = IdleCall]
        /\ spent' \subseteq spent \cup DOMAIN issued
        /\ UNCHANGED <<now, issued, hostTunnels, sessions, streams, roomBytes,
                       monthlyHostBytes, metrics>>
    BY <1>8 DEF serviceRefuses, refuseOpen
  <2> QED
    BY <2>1 DEF Call, TypeInv, TypeOK, FiniteStreams
<1>9. ASSUME NEW c \in OpenCalls, NEW s \in StreamIds, finishOpen(c, s)
      PROVE  TypeInv'
  <2>1. calls[c].phase = "resolved" /\ calls[c] \in Call
    BY <1>9 DEF finishOpen, TypeInv, TypeOK
  <2>2. calls[c].request \in Request /\ calls[c].held \in HeldSession
    BY <2>1 DEF Call, IdleCall
  <2>3. /\ roomAccepts(calls[c].held, calls[c].request)
        /\ openStream(s, calls[c].held, calls[c].request)
        /\ calls' = [calls EXCEPT ![c] = IdleCall]
    BY <1>9 DEF finishOpen
  <2>4. UNCHANGED <<now, issued, spent, hostTunnels, roomBytes, monthlyHostBytes>>
    BY <2>3 DEF openStream
  <2>5. IdleCall \in Call
    BY DEF Call
  <2>6. OpenedStream(s, calls[c].held, calls[c].request)
    BY <2>2, <2>3, OpenStreamTypes
  <2> QED
    BY <2>3, <2>4, <2>5, <2>6 DEF OpenedStream, TypeInv, TypeOK
<1>10. ASSUME NEW s \in StreamIds, NEW b \in FrameSizes, NEW f \in {0, 1},
              accountTransfer(s, b, f)
       PROVE  TypeInv'
  <2>1. s \in DOMAIN streams /\ streams[s] \in Stream
    BY <1>10 DEF accountTransfer, openStreams, TypeInv, TypeOK
  <2>2. DOMAIN streams' = DOMAIN streams /\ \A t \in DOMAIN streams : streams'[t] \in Stream
    BY <1>10, <2>1 DEF accountTransfer, Stream, TypeInv, TypeOK
  <2>3. /\ roomBytes' \in [RoomIds -> Nat]
        /\ monthlyHostBytes' \in [HostIds -> Nat]
    BY <1>10, <2>1 DEF accountTransfer, Stream, TypeInv, TypeOK
  <2>4. metrics' \in [friendStreamsOpened : Nat, friendStreamsClosed : Nat,
                      bytesRelayed : Nat, quotaStops : Nat]
    BY <1>10 DEF accountTransfer, TypeInv, TypeOK
  <2> QED
    BY <1>10, <2>2, <2>3, <2>4 DEF accountTransfer, TypeInv, TypeOK, FiniteStreams
<1>11. ASSUME NEW s \in StreamIds, NEW b \in FrameSizes, stopStream(s, b)
       PROVE  TypeInv'
  <2>1. closedCount({s}) \in Nat
    BY <1>11, ClosedCountType DEF stopStream, openStreams
  <2>2. DOMAIN streams' = DOMAIN streams /\ \A t \in DOMAIN streams : streams'[t] \in Stream
    BY <1>11, ClosedStreams DEF stopStream, TypeInv
  <2>3. metrics' \in [friendStreamsOpened : Nat, friendStreamsClosed : Nat,
                      bytesRelayed : Nat, quotaStops : Nat]
    <3> DEFINE n == closedCount({s})
               m == metrics.quotaStops + 1
    <3>1. metrics' = [metrics EXCEPT !.friendStreamsClosed = n, !.quotaStops = m]
      BY <1>11 DEF stopStream
    <3>2. n \in Nat /\ m \in Nat
      BY <2>1 DEF TypeInv, TypeOK
    <3> HIDE DEF n, m
    <3> QED
      BY <3>1, <3>2 DEF TypeInv, TypeOK
  <2> QED
    BY <1>11, <2>2, <2>3 DEF stopStream, TypeInv, TypeOK, FiniteStreams
<1>12. ASSUME NEW s \in StreamIds, disconnectStream(s)
       PROVE  TypeInv'
  <2>1. closedCount({s}) \in Nat
    BY <1>12, ClosedCountType DEF disconnectStream
  <2> QED
    BY <1>12, <2>1, ClosedStreams DEF disconnectStream, TypeInv, TypeOK, FiniteStreams
<1>13. ASSUME NEW s \in StreamIds, disconnectFails(s)
       PROVE  TypeInv'
  BY <1>13 DEF disconnectFails, Stream, TypeInv, TypeOK, FiniteStreams
<1>14. CASE advanceClock
  BY <1>14 DEF advanceClock, TypeInv, TypeOK, FiniteStreams
<1>15. CASE UNCHANGED vars
  BY <1>15 DEF vars, TypeInv, TypeOK, FiniteStreams
<1> QED
  BY <1>1, <1>2, <1>3, <1>4, <1>5, <1>6, <1>7, <1>8, <1>9, <1>10, <1>11, <1>12, <1>13,
     <1>14, <1>15
     DEF Next, TunnelStep, SessionStep, OpenStep, StreamStep, recordTransfer, relayEcho

\* The tables of relay-simulation.mjs only ever hold the records its calls build.
THEOREM TypeCorrect == Spec => []TypeInv
BY InitTypeInv, NextTypeInv, PTL DEF Spec

-----------------------------------------------------------------------------
(* What a step does to the streams.                                        *)

\* No stream appears or comes back, and what a stream was opened with stays.
NothingOpens ==
  /\ DOMAIN streams' = DOMAIN streams
  /\ \A s \in DOMAIN streams :
       /\ streams'[s].roomId = streams[s].roomId
       /\ streams'[s].hostId = streams[s].hostId
       /\ streams'[s].holder = streams[s].holder
       /\ streams'[s].sessionId = streams[s].sessionId
       /\ streams'[s].tunnelId = streams[s].tunnelId
       /\ streams'[s].openedAt = streams[s].openedAt
       /\ streams'[s].state = "open" => streams[s].state = "open"
       /\ streams[s].state # "open" => /\ streams'[s].bytes = streams[s].bytes
                                      /\ streams'[s].frames = streams[s].frames

\* The call with request q opens stream s with the session object held: the one of
\* the table, or the one its call got from the service.
Opens(s, held, q) ==
  /\ validSession(held, q)
  /\ roomAccepts(held, q)
  /\ OpenedStream(s, held, q)
  /\ UNCHANGED <<now, issued, spent, hostTunnels, roomBytes, monthlyHostBytes>>
  /\ \/ /\ ~AsyncService
        /\ q.sessionId \in DOMAIN sessions
        /\ held = sessions[q.sessionId]
        /\ UNCHANGED calls
     \/ \E c \in OpenCalls :
          /\ calls[c].phase = "resolved"
          /\ held = calls[c].held
          /\ q = calls[c].request
          /\ calls' = [calls EXCEPT ![c] = IdleCall]

\* Only openFriendStream, in either of its ways, opens a stream: every other call
\* leaves the streams, ends some of them or meters one.
LEMMA StreamSteps ==
  TypeInv /\ [Next]_vars =>
    \/ NothingOpens
    \/ \E s \in StreamIds, held \in HeldSession, q \in Request : Opens(s, held, q)
<1> SUFFICES ASSUME TypeInv, [Next]_vars,
                    ~ \E s \in StreamIds, held \in HeldSession, q \in Request :
                        Opens(s, held, q)
             PROVE  NothingOpens
  OBVIOUS
<1>a. ASSUME NEW ids, closeStreams(ids)
      PROVE  NothingOpens
  <2>1. /\ DOMAIN streams' = DOMAIN streams
        /\ \A s \in DOMAIN streams :
             /\ streams[s] \in Stream
             /\ s \in ids => streams'[s].state = "closed"
             /\ s \notin ids => streams'[s] = streams[s]
             /\ streams'[s] = [streams[s] EXCEPT !.state = streams'[s].state]
    BY <1>a, ClosedStreams DEF TypeInv, TypeOK
  <2> QED
    BY <2>1 DEF NothingOpens, Stream
<1>b. ASSUME UNCHANGED streams
      PROVE  NothingOpens
  BY <1>b DEF NothingOpens
<1>1. ASSUME NEW h \in HostIds, NEW r \in RoomIds, NEW t \in TunnelIds,
             openHostTunnel(h, r, t)
      PROVE  NothingOpens
  BY <1>1, <1>a DEF openHostTunnel
<1>2. ASSUME NEW h \in HostIds, NEW r \in RoomIds, closeHostTunnel(h, r)
      PROVE  NothingOpens
  BY <1>2, <1>a DEF closeHostTunnel
<1>3. CASE SessionStep
  BY <1>3, <1>b DEF SessionStep, authorizeSession, issueSession
<1>4. ASSUME NEW q \in Request, NEW s \in StreamIds, openFriendStream(q, s)
      PROVE  FALSE
  <2>1. sessions[q.sessionId] \in HeldSession
    BY <1>4 DEF openFriendStream, TypeInv, TypeOK
  <2>2. /\ validSession(sessions[q.sessionId], q)
        /\ roomAccepts(sessions[q.sessionId], q)
        /\ openStream(s, sessions[q.sessionId], q)
    BY <1>4 DEF openFriendStream
  <2>3. OpenedStream(s, sessions[q.sessionId], q)
    BY <2>1, <2>2, OpenStreamTypes
  <2>4. Opens(s, sessions[q.sessionId], q)
    BY <1>4, <2>2, <2>3 DEF Opens, openFriendStream, openStream
  <2> QED
    BY <2>1, <2>4
<1>5. ASSUME NEW c \in OpenCalls, NEW s \in StreamIds, finishOpen(c, s)
      PROVE  FALSE
  <2>1. calls[c].phase = "resolved" /\ calls[c] \in Call
    BY <1>5 DEF finishOpen, TypeInv, TypeOK
  <2>2. calls[c].request \in Request /\ calls[c].held \in HeldSession
    BY <2>1 DEF Call, IdleCall
  <2>3. /\ validSession(calls[c].held, calls[c].request)
        /\ roomAccepts(calls[c].held, calls[c].request)
        /\ openStream(s, calls[c].held, calls[c].request)
    BY <1>5 DEF finishOpen
  <2>4. OpenedStream(s, calls[c].held, calls[c].request)
    BY <2>2, <2>3, OpenStreamTypes
  <2>5. Opens(s, calls[c].held, calls[c].request)
    BY <1>5, <2>3, <2>4 DEF Opens, finishOpen, openStream
  <2> QED
    BY <2>2, <2>5
<1>6. CASE OpenStep
  BY <1>6, <1>4, <1>5, <1>b
     DEF OpenStep, askService, serviceAccepts, serviceRefuses, refuseOpen
<1>7. ASSUME NEW s \in StreamIds, NEW b \in FrameSizes, NEW f, accountTransfer(s, b, f)
      PROVE  NothingOpens
  BY <1>7 DEF accountTransfer, openStreams, NothingOpens, TypeInv, TypeOK, Stream
<1>8. ASSUME NEW s \in StreamIds, NEW b \in FrameSizes, stopStream(s, b)
      PROVE  NothingOpens
  BY <1>8, <1>a DEF stopStream
<1>9. ASSUME NEW s \in StreamIds, disconnectStream(s)
      PROVE  NothingOpens
  BY <1>9, <1>a DEF disconnectStream
<1>10. ASSUME NEW s \in StreamIds, disconnectFails(s)
       PROVE  NothingOpens
  BY <1>10 DEF disconnectFails, NothingOpens, TypeInv, TypeOK, Stream
<1>11. CASE advanceClock \/ UNCHANGED vars
  BY <1>11, <1>b DEF advanceClock, vars
<1> QED
  BY <1>1, <1>2, <1>3, <1>6, <1>7, <1>8, <1>9, <1>10, <1>11
     DEF Next, TunnelStep, StreamStep, recordTransfer, relayEcho

\* Only the two tunnel calls write the table of tunnels.
LEMMA TunnelSteps == [Next]_vars => TunnelStep \/ UNCHANGED hostTunnels
BY DEF Next, vars, SessionStep, authorizeSession, issueSession, OpenStep, openFriendStream,
       openStream, askService, serviceAccepts, serviceRefuses, refuseOpen, finishOpen,
       StreamStep, recordTransfer, relayEcho, accountTransfer, stopStream,
       disconnectStream, disconnectFails, advanceClock

\* A stream that has ended stays ended, whatever calls follow: closing twice, a
\* disconnect that fails and late transfers included.
THEOREM EndedStaysEnded == Spec => EndedStreamsStayEnded
<1>1. TypeInv /\ [Next]_vars =>
        [\A s \in DOMAIN streams \ openStreams :
           /\ s \in DOMAIN streams'
           /\ streams'[s].state # "open"
           /\ streams'[s].bytes = streams[s].bytes
           /\ streams'[s].frames = streams[s].frames]_vars
  <2> SUFFICES ASSUME TypeInv, [Next]_vars, NEW s \in DOMAIN streams \ openStreams
               PROVE  /\ s \in DOMAIN streams'
                      /\ streams'[s].state # "open"
                      /\ streams'[s].bytes = streams[s].bytes
                      /\ streams'[s].frames = streams[s].frames
    OBVIOUS
  <2>1. CASE NothingOpens
    BY <2>1 DEF NothingOpens, openStreams
  <2>2. ASSUME NEW t \in StreamIds, NEW held \in HeldSession, NEW q \in Request,
               Opens(t, held, q)
        PROVE  s \in DOMAIN streams' /\ streams'[s] = streams[s]
    BY <2>2 DEF Opens, OpenedStream
  <2> QED
    BY <2>1, <2>2, StreamSteps DEF openStreams
<1> QED
  BY <1>1, TypeCorrect, PTL DEF Spec, EndedStreamsStayEnded

-----------------------------------------------------------------------------
(* Tunnels and rooms.                                                      *)

\* Only the two tunnel calls can part a stream from its tunnel, and they end the
\* tunnel's streams in the same step.
LEMMA NextTunnels ==
  TypeInv /\ OpenStreamsHaveTheirTunnel /\ [Next]_vars => OpenStreamsHaveTheirTunnel'
<1> SUFFICES ASSUME TypeInv, OpenStreamsHaveTheirTunnel, [Next]_vars
             PROVE  OpenStreamsHaveTheirTunnel'
  OBVIOUS
<1> DEFINE Carried(s) == /\ hasOpenTunnel(streams[s].roomId)
                         /\ hostTunnels[streams[s].roomId].id = streams[s].tunnelId
                         /\ hostTunnels[streams[s].roomId].hostId = streams[s].hostId
<1>0. TypeOK'
  BY NextTypeInv DEF TypeInv
<1>1. ASSUME NEW h \in HostIds, NEW r \in RoomIds, NEW t \in TunnelIds,
             openHostTunnel(h, r, t)
      PROVE  OpenStreamsHaveTheirTunnel'
  <2> DEFINE replaced == IF hasOpenTunnel(r) THEN streamsOf(hostTunnels[r].id) ELSE {}
  <2>1. closeStreams(replaced)
    BY <1>1 DEF openHostTunnel
  <2>2. ASSUME NEW s \in openStreams'
        PROVE  s \in openStreams /\ s \notin replaced /\ streams'[s] = streams[s]
    <3> HIDE DEF replaced
    <3> QED
      BY <2>1, <2>2, ClosedStreams DEF openStreams, TypeInv
  <2>3. ASSUME NEW s \in openStreams'
        PROVE  streams[s].roomId # r
    BY <2>2, <2>3 DEF OpenStreamsHaveTheirTunnel, streamsOf
  <2>4. \A k \in DOMAIN hostTunnels : k # r => /\ k \in DOMAIN hostTunnels'
                                              /\ hostTunnels'[k] = hostTunnels[k]
    BY <1>1 DEF openHostTunnel, Put
  <2>5. ASSUME NEW s \in openStreams'
        PROVE  Carried(s)'
    BY <2>2, <2>3, <2>4, <2>5 DEF OpenStreamsHaveTheirTunnel, hasOpenTunnel
  <2> QED
    BY <1>0, <2>5 DEF OpenStreamsHaveTheirTunnel
<1>2. ASSUME NEW h \in HostIds, NEW r \in RoomIds, closeHostTunnel(h, r)
      PROVE  OpenStreamsHaveTheirTunnel'
  <2> DEFINE ended == streamsOf(hostTunnels[r].id)
  <2>1. closeStreams(ended)
    BY <1>2 DEF closeHostTunnel
  <2>2. ASSUME NEW s \in openStreams'
        PROVE  s \in openStreams /\ s \notin ended /\ streams'[s] = streams[s]
    <3> HIDE DEF ended
    <3> QED
      BY <2>1, <2>2, ClosedStreams DEF openStreams, TypeInv
  <2>3. ASSUME NEW s \in openStreams'
        PROVE  streams[s].roomId # r
    BY <2>2, <2>3 DEF OpenStreamsHaveTheirTunnel, streamsOf
  <2>4. \A k \in DOMAIN hostTunnels : k # r => /\ k \in DOMAIN hostTunnels'
                                              /\ hostTunnels'[k] = hostTunnels[k]
    BY <1>2 DEF closeHostTunnel
  <2>5. ASSUME NEW s \in openStreams'
        PROVE  Carried(s)'
    BY <2>2, <2>3, <2>4, <2>5 DEF OpenStreamsHaveTheirTunnel, hasOpenTunnel
  <2> QED
    BY <1>0, <2>5 DEF OpenStreamsHaveTheirTunnel
<1>3. CASE NothingOpens /\ UNCHANGED hostTunnels
  <2>1. ASSUME NEW s \in openStreams'
        PROVE  Carried(s)'
    BY <1>3, <2>1 DEF NothingOpens, openStreams, OpenStreamsHaveTheirTunnel, hasOpenTunnel
  <2> QED
    BY <1>0, <2>1 DEF OpenStreamsHaveTheirTunnel
<1>4. ASSUME NEW s \in StreamIds, NEW held \in HeldSession, NEW q \in Request,
             Opens(s, held, q)
      PROVE  OpenStreamsHaveTheirTunnel'
  <2>1. Carried(s)'
    BY <1>4 DEF Opens, OpenedStream, roomAccepts, hasOpenTunnel
  <2>2. ASSUME NEW t \in openStreams', t # s
        PROVE  Carried(t)'
    BY <1>4, <2>2 DEF Opens, OpenedStream, openStreams, OpenStreamsHaveTheirTunnel, hasOpenTunnel
  <2> QED
    BY <1>0, <2>1, <2>2 DEF OpenStreamsHaveTheirTunnel
<1> QED
  BY <1>1, <1>2, <1>3, <1>4, StreamSteps, TunnelSteps DEF TunnelStep

\* An open stream always runs over the open tunnel of its room and host, although
\* tunnels are replaced and closed while opens wait for the session service.
THEOREM StreamsKeepTheirTunnel == Spec => []OpenStreamsHaveTheirTunnel
<1>1. Init => OpenStreamsHaveTheirTunnel
  BY InitTypeInv, EmptyMapFacts DEF Init, OpenStreamsHaveTheirTunnel, openStreams, TypeInv
<1>2. TypeInv /\ OpenStreamsHaveTheirTunnel /\ [Next]_vars => OpenStreamsHaveTheirTunnel'
  BY NextTunnels
<1> QED
  BY <1>1, <1>2, TypeCorrect, PTL DEF Spec

\* The quota is tested in the step that opens, so opens that were validated
\* together cannot pass it together.
LEMMA NextMembers ==
  TypeInv /\ RoomsAreNotOverfull /\ [Next]_vars => RoomsAreNotOverfull'
<1> SUFFICES ASSUME TypeInv, RoomsAreNotOverfull, [Next]_vars, NEW r \in RoomIds
             PROVE  activeRoomMemberCount(r)' <= MaxRoomMembers
  BY DEF RoomsAreNotOverfull
<1> DEFINE members == {s \in openStreams : streams[s].roomId = r}
<1>1. /\ IsFiniteSet(members)
      /\ Cardinality(members) \in Nat
      /\ Cardinality(members) <= MaxRoomMembers
      /\ MaxRoomMembers \in Nat
  <2>1. members \subseteq DOMAIN streams
    BY DEF openStreams
  <2> QED
    BY <2>1, FS_Subset, FS_CardinalityType, RelayAssumption
       DEF TypeInv, FiniteStreams, RoomsAreNotOverfull, activeRoomMemberCount
<1>2. CASE NothingOpens
  <2>1. members' \subseteq members
    BY <1>2 DEF NothingOpens, openStreams
  <2>2. /\ Cardinality(members') \in Nat
        /\ Cardinality(members') <= Cardinality(members)
    BY <1>1, <2>1, FS_Subset, FS_CardinalityType
  <2> QED
    BY <1>1, <2>2 DEF activeRoomMemberCount
<1>3. ASSUME NEW s \in StreamIds, NEW held \in HeldSession, NEW q \in Request,
             Opens(s, held, q)
      PROVE  activeRoomMemberCount(r)' <= MaxRoomMembers
  <2>1. members' = IF q.roomId = r THEN members \cup {s} ELSE members
    BY <1>3 DEF Opens, OpenedStream, openStreams
  <2>2. q.roomId = r => Cardinality(members) < MaxRoomMembers
    BY <1>3 DEF Opens, roomAccepts, activeRoomMemberCount
  <2>3. Cardinality(members \cup {s}) <= Cardinality(members) + 1
        /\ Cardinality(members \cup {s}) \in Nat
    <3> HIDE DEF members
    <3>1. /\ IsFiniteSet(members \cup {s})
          /\ Cardinality(members \cup {s})
               = IF s \in members THEN Cardinality(members) ELSE Cardinality(members) + 1
      BY <1>1, FS_AddElement
    <3> QED
      BY <1>1, <3>1
  <2> HIDE DEF members
  <2>4. Cardinality(members') <= MaxRoomMembers
    BY <1>1, <2>1, <2>2, <2>3
  <2> QED
    BY <2>4 DEF activeRoomMemberCount, members
<1> QED
  BY <1>2, <1>3, StreamSteps

\* No room ever has more open streams than the member quota.
THEOREM MembersWithinQuota == Spec => []RoomsAreNotOverfull
<1>1. Init => RoomsAreNotOverfull
  <2> SUFFICES ASSUME Init, NEW r \in RoomIds
               PROVE  activeRoomMemberCount(r) <= MaxRoomMembers
    BY DEF RoomsAreNotOverfull
  <2>1. {s \in openStreams : streams[s].roomId = r} = {}
    BY EmptyMapFacts DEF Init, openStreams
  <2>2. activeRoomMemberCount(r) = 0
    BY <2>1, FS_EmptySet DEF activeRoomMemberCount
  <2> QED
    BY <2>2, RelayAssumption
<1>2. TypeInv /\ RoomsAreNotOverfull /\ [Next]_vars => RoomsAreNotOverfull'
  BY NextMembers
<1> QED
  BY <1>1, <1>2, TypeCorrect, PTL DEF Spec

-----------------------------------------------------------------------------
(* Sessions.  What a stream is made of was checked before an await, so the *)
(* proofs follow the session from the control plane through the relay's    *)
(* copies of it to the stream.                                             *)

\* Calls that touch neither sessions nor opens: tunnels, transfers, the clock.
SessionsUntouched == UNCHANGED <<issued, spent, sessions, calls>>

\* Only the session and open calls write the sessions.
LEMMA SessionSteps == [Next]_vars => SessionStep \/ OpenStep \/ SessionsUntouched
BY DEF Next, vars, SessionsUntouched, TunnelStep, openHostTunnel, closeHostTunnel,
       StreamStep, recordTransfer, relayEcho, accountTransfer, stopStream,
       disconnectStream, disconnectFails, advanceClock

\* Every session object the relay has is a copy of the one that was issued.
HeldAreIssued ==
  /\ \A i \in DOMAIN sessions : /\ i \in DOMAIN issued
                               /\ sessions[i].session = issued[i]
  /\ \A c \in OpenCalls :
       calls[c].phase = "resolved" =>
         /\ calls[c].request.sessionId \in DOMAIN issued
         /\ calls[c].held.session = issued[calls[c].request.sessionId]

SessionInv == TypeInv /\ HeldAreIssued /\ StreamsMatchSessions

\* Issued sessions are never changed or withdrawn; copies are made of them only.
LEMMA NextSessionInv == SessionInv /\ [Next]_vars => SessionInv'
<1> SUFFICES ASSUME SessionInv, [Next]_vars
             PROVE  SessionInv'
  OBVIOUS
<1> USE DEF SessionInv
<1>a. TypeInv /\ TypeInv'
  BY NextTypeInv
<1>b. DOMAIN issued \subseteq DOMAIN issued' /\ \A i \in DOMAIN issued : issued'[i] = issued[i]
  BY SessionSteps
     DEF SessionStep, OpenStep, SessionsUntouched, authorizeSession, issueSession, Put,
         openFriendStream, openStream, askService, serviceAccepts, serviceRefuses,
         refuseOpen, finishOpen
<1>1. HeldAreIssued'
  <2>1. ASSUME NEW i \in SessionIds, authorizeSession(i)
        PROVE  HeldAreIssued'
    BY <2>1 DEF authorizeSession, Put, HeldAreIssued
  <2>2. ASSUME NEW i \in SessionIds, NEW r \in RoomIds, NEW h \in HostIds \cup {Nobody},
               NEW u \in Holders, issueSession(i, r, h, u)
        PROVE  HeldAreIssued'
    BY <1>b, <2>2 DEF issueSession, HeldAreIssued
  <2>3. ASSUME NEW s \in StreamIds, NEW held \in HeldSession, NEW q \in Request,
               Opens(s, held, q)
        PROVE  HeldAreIssued'
    <3>1. /\ DOMAIN sessions' = DOMAIN sessions
          /\ \A i \in DOMAIN sessions : sessions'[i].session = sessions[i].session
          /\ UNCHANGED issued
          /\ \A c \in OpenCalls : calls'[c] = calls[c] \/ calls'[c] = IdleCall
      BY <1>a, <2>3 DEF Opens, OpenedStream, TypeInv, TypeOK
    <3> QED
      BY <3>1 DEF HeldAreIssued, IdleCall
  <2>4. ASSUME NEW c \in OpenCalls, NEW q \in Request, askService(c, q)
        PROVE  HeldAreIssued'
    BY <1>a, <2>4 DEF askService, HeldAreIssued, TypeInv, TypeOK
  <2>5. ASSUME NEW c \in OpenCalls, serviceAccepts(c)
        PROVE  HeldAreIssued'
    <3> DEFINE id == calls[c].request.sessionId
    <3>1. /\ id \in DOMAIN issued
          /\ UNCHANGED issued
          /\ DOMAIN sessions' = DOMAIN sessions \cup {id}
          /\ sessions'[id].session = issued[id]
          /\ \A i \in DOMAIN sessions : i # id => sessions'[i] = sessions[i]
      BY <2>5 DEF serviceAccepts, Put
    <3>2. /\ calls'[c].request = calls[c].request
          /\ calls'[c].held.session = issued[id]
          /\ \A d \in OpenCalls : d # c => calls'[d] = calls[d]
      BY <1>a, <2>5 DEF serviceAccepts, TypeInv, TypeOK
    <3> QED
      BY <3>1, <3>2 DEF HeldAreIssued
  <2>6. ASSUME NEW c \in OpenCalls, serviceRefuses(c) \/ refuseOpen(c)
        PROVE  HeldAreIssued'
    BY <1>a, <2>6 DEF serviceRefuses, refuseOpen, HeldAreIssued, IdleCall, TypeInv, TypeOK
  <2>7. CASE SessionsUntouched
    BY <2>7 DEF SessionsUntouched, HeldAreIssued
  <2>8. ASSUME NEW q \in Request, NEW s \in StreamIds, openFriendStream(q, s)
        PROVE  HeldAreIssued'
    <3>1. sessions[q.sessionId] \in HeldSession
      BY <1>a, <2>8 DEF openFriendStream, TypeInv, TypeOK
    <3>2. OpenedStream(s, sessions[q.sessionId], q)
      BY <1>a, <2>8, <3>1, OpenStreamTypes DEF openFriendStream
    <3> QED
      BY <2>3, <2>8, <3>1, <3>2 DEF Opens, openFriendStream, openStream
  <2>9. ASSUME NEW c \in OpenCalls, NEW s \in StreamIds, finishOpen(c, s)
        PROVE  HeldAreIssued'
    <3>1. calls[c].request \in Request /\ calls[c].held \in HeldSession
      BY <1>a, <2>9 DEF finishOpen, TypeInv, TypeOK, Call, IdleCall
    <3>2. OpenedStream(s, calls[c].held, calls[c].request)
      BY <1>a, <2>9, <3>1, OpenStreamTypes DEF finishOpen
    <3> QED
      BY <2>3, <2>9, <3>1, <3>2 DEF Opens, finishOpen, openStream
  <2> QED
    BY <2>1, <2>2, <2>4, <2>5, <2>6, <2>7, <2>8, <2>9, SessionSteps
       DEF SessionStep, OpenStep
<1>2. StreamsMatchSessions'
  <2>1. CASE NothingOpens
    BY <1>b, <2>1 DEF NothingOpens, StreamsMatchSessions
  <2>2. ASSUME NEW s \in StreamIds, NEW held \in HeldSession, NEW q \in Request,
               Opens(s, held, q)
        PROVE  StreamsMatchSessions'
    <3>1. q.sessionId \in DOMAIN issued /\ held.session = issued[q.sessionId]
      BY <2>2 DEF Opens, HeldAreIssued
    <3>2. /\ held.session.roomId = q.roomId
          /\ held.session.holder = q.holder
          /\ held.session.expiresAt > now
          /\ held.session.hostId \in {Nobody, hostTunnels[q.roomId].hostId}
      BY <2>2 DEF Opens, validSession, roomAccepts
    <3>3. /\ DOMAIN streams' = DOMAIN streams \cup {s}
          /\ streams'[s].roomId = q.roomId
          /\ streams'[s].hostId = hostTunnels[q.roomId].hostId
          /\ streams'[s].holder = q.holder
          /\ streams'[s].sessionId = q.sessionId
          /\ streams'[s].openedAt = now
          /\ \A t \in DOMAIN streams : streams'[t] = streams[t]
      BY <2>2 DEF Opens, OpenedStream
    <3>4. issued[q.sessionId] \in Session /\ now \in Nat
      BY <1>a, <3>1 DEF TypeInv, TypeOK
    <3>5. now < issued[q.sessionId].expiresAt
      BY <3>1, <3>2, <3>4 DEF Session
    <3> QED
      BY <1>b, <3>1, <3>2, <3>3, <3>5 DEF StreamsMatchSessions
  <2> QED
    BY <1>a, <2>1, <2>2, StreamSteps
<1> QED
  BY <1>a, <1>1, <1>2

\* A relay with empty tables has no sessions to get wrong.
LEMMA InitSessionInv == Init => SessionInv
BY InitTypeInv, EmptyMapFacts
   DEF Init, SessionInv, HeldAreIssued, StreamsMatchSessions, IdleCall

\* What was validated before the service was asked is what the stream is made of:
\* a stream has the room, the host and the holder of a session issued to it.
THEOREM StreamsObeySessions == Spec => []StreamsMatchSessions
<1>1. SessionInv /\ [Next]_vars => SessionInv'
  BY NextSessionInv
<1>2. SessionInv => StreamsMatchSessions
  BY DEF SessionInv
<1> QED
  BY <1>1, <1>2, InitSessionInv, PTL DEF Spec

-----------------------------------------------------------------------------
(* One stream per session.  Against the local table the consumed mark      *)
(* decides, and it works because the open is one step; with a service the  *)
(* relay's own mark can be lost (two calls hold two objects), and what     *)
(* decides is that the service accepts a session once.                     *)

resolved == {c \in OpenCalls : calls[c].phase = "resolved"}

\* Whoever can still open with a session is alone with it.
SoleUse ==
  /\ AsyncService =>
       /\ \A s \in DOMAIN streams : streams[s].sessionId \in spent
       /\ \A c \in resolved :
            /\ calls[c].request.sessionId \in spent
            /\ \A s \in DOMAIN streams : streams[s].sessionId # calls[c].request.sessionId
            /\ \A d \in resolved :
                 calls[d].request.sessionId = calls[c].request.sessionId => d = c
  /\ ~AsyncService =>
       /\ \A c \in OpenCalls : calls[c] = IdleCall
       /\ \A s \in DOMAIN streams :
            /\ streams[s].sessionId \in DOMAIN sessions
            /\ sessions[streams[s].sessionId].consumed

UseInv == TypeInv /\ SoleUse /\ OneStreamPerSession

\* Two opens with one session: the second finds it spent or consumed.
LEMMA NextUseInv ==
  ASSUME AsyncService => ServiceConsumes
  PROVE  UseInv /\ [Next]_vars => UseInv'
<1> SUFFICES ASSUME UseInv, [Next]_vars
             PROVE  UseInv'
  OBVIOUS
<1> USE DEF UseInv
<1>a. TypeInv /\ TypeInv'
  BY NextTypeInv
<1>1. ASSUME NothingOpens, NEW i \in SessionIds, authorizeSession(i)
      PROVE  UseInv'
  BY <1>a, <1>1
     DEF NothingOpens, authorizeSession, Put, SoleUse, OneStreamPerSession, resolved, IdleCall
<1>2. ASSUME NothingOpens, NEW i \in SessionIds, NEW r \in RoomIds,
             NEW h \in HostIds \cup {Nobody}, NEW u \in Holders, issueSession(i, r, h, u)
      PROVE  UseInv'
  BY <1>a, <1>2 DEF NothingOpens, issueSession, SoleUse, OneStreamPerSession, resolved
<1>3. CASE NothingOpens /\ SessionsUntouched
  BY <1>a, <1>3 DEF NothingOpens, SessionsUntouched, SoleUse, OneStreamPerSession, resolved
<1>4. ASSUME NothingOpens, NEW c \in OpenCalls, NEW q \in Request, askService(c, q)
      PROVE  UseInv'
  <2>1. resolved' = resolved /\ \A d \in resolved : calls'[d] = calls[d]
    BY <1>a, <1>4 DEF askService, resolved, IdleCall, TypeInv, TypeOK
  <2> QED
    BY <1>a, <1>4, <2>1 DEF NothingOpens, askService, SoleUse, OneStreamPerSession
<1>5. ASSUME NothingOpens, NEW c \in OpenCalls, serviceAccepts(c)
      PROVE  UseInv'
  <2> DEFINE id == calls[c].request.sessionId
  <2>1. AsyncService
    BY <1>5 DEF serviceAccepts, SoleUse, IdleCall
  <2>2. id \notin spent /\ spent' = spent \cup {id}
    BY <1>5, <2>1 DEF serviceAccepts
  <2>3. /\ c \notin resolved
        /\ resolved' = resolved \cup {c}
        /\ calls'[c].request = calls[c].request
        /\ \A d \in resolved : calls'[d] = calls[d]
    BY <1>a, <1>5 DEF serviceAccepts, resolved, TypeInv, TypeOK
  <2> QED
    BY <1>a, <1>5, <2>1, <2>2, <2>3 DEF NothingOpens, SoleUse, OneStreamPerSession
<1>6. ASSUME NothingOpens, NEW c \in OpenCalls, serviceRefuses(c) \/ refuseOpen(c)
      PROVE  UseInv'
  <2>1. AsyncService
    BY <1>6 DEF serviceRefuses, refuseOpen, SoleUse, IdleCall
  <2>2. /\ resolved' = resolved \ {c}
        /\ \A d \in resolved' : calls'[d] = calls[d]
        /\ spent \subseteq spent'
    BY <1>a, <1>6 DEF serviceRefuses, refuseOpen, resolved, IdleCall, TypeInv, TypeOK
  <2> QED
    BY <1>a, <1>6, <2>1, <2>2 DEF NothingOpens, SoleUse, OneStreamPerSession
<1>7. ASSUME NEW s \in StreamIds, NEW held \in HeldSession, NEW q \in Request,
             Opens(s, held, q)
      PROVE  UseInv'
  <2>1. /\ s \notin DOMAIN streams
        /\ DOMAIN streams' = DOMAIN streams \cup {s}
        /\ streams'[s].sessionId = q.sessionId
        /\ \A t \in DOMAIN streams : streams'[t] = streams[t]
        /\ UNCHANGED spent
    BY <1>7 DEF Opens, OpenedStream
  <2>2. CASE AsyncService
    <3>1. PICK c \in OpenCalls : /\ calls[c].phase = "resolved"
                                 /\ q = calls[c].request
                                 /\ calls' = [calls EXCEPT ![c] = IdleCall]
      BY <1>7, <2>2 DEF Opens
    <3>2. resolved' = resolved \ {c} /\ \A d \in resolved' : calls'[d] = calls[d]
      BY <1>a, <3>1 DEF resolved, IdleCall, TypeInv, TypeOK
    <3>3. c \in resolved
      BY <3>1 DEF resolved
    <3> QED
      BY <1>a, <2>1, <2>2, <3>1, <3>2, <3>3 DEF SoleUse, OneStreamPerSession
  <2>3. CASE ~AsyncService
    <3>1. /\ held = sessions[q.sessionId]
          /\ q.sessionId \in DOMAIN sessions
          /\ UNCHANGED calls
      BY <1>7, <2>3 DEF Opens, SoleUse, IdleCall
    <3>2. ~sessions[q.sessionId].consumed
      BY <1>7, <3>1 DEF Opens, validSession
    <3>3. /\ DOMAIN sessions' = DOMAIN sessions
          /\ sessions'[q.sessionId].consumed
          /\ \A i \in DOMAIN sessions : i # q.sessionId => sessions'[i] = sessions[i]
      BY <1>7, <3>1 DEF Opens, OpenedStream
    <3>4. \A t \in DOMAIN streams : streams[t].sessionId # q.sessionId
      BY <2>3, <3>2 DEF SoleUse
    <3> QED
      BY <1>a, <2>1, <2>3, <3>1, <3>3, <3>4 DEF SoleUse, OneStreamPerSession
  <2> QED
    BY <2>2, <2>3
<1>8. ASSUME NothingOpens, NEW q \in Request, NEW s \in StreamIds, openFriendStream(q, s)
      PROVE  FALSE
  BY <1>8 DEF NothingOpens, openFriendStream, openStream, Put
<1>9. ASSUME NothingOpens, NEW c \in OpenCalls, NEW s \in StreamIds, finishOpen(c, s)
      PROVE  FALSE
  BY <1>9 DEF NothingOpens, finishOpen, openStream, Put
<1> QED
  BY <1>a, <1>1, <1>2, <1>3, <1>4, <1>5, <1>6, <1>7, <1>8, <1>9, StreamSteps, SessionSteps
     DEF SessionStep, OpenStep

\* No session has been used before the first call.
LEMMA InitUseInv == Init => UseInv
BY InitTypeInv, EmptyMapFacts
   DEF Init, UseInv, SoleUse, OneStreamPerSession, resolved, IdleCall

\* A session opens one stream however many opens with it are in flight, if the
\* service the relay asks honours consume: true.  Without that the mark alone does
\* not do: two calls may each hold their own copy of the session.
THEOREM SessionsAreUsedOnce ==
  ASSUME AsyncService => ServiceConsumes
  PROVE  Spec => []OneStreamPerSession
<1>1. UseInv /\ [Next]_vars => UseInv'
  BY NextUseInv
<1>2. UseInv => OneStreamPerSession
  BY DEF UseInv
<1> QED
  BY <1>1, <1>2, InitUseInv, PTL DEF Spec

-----------------------------------------------------------------------------
(* Quotas.                                                                 *)

\* Only a transfer that stays within the quotas is counted; the others end the
\* stream before they are.
LEMMA NextQuotas == TypeInv /\ QuotasKept /\ [Next]_vars => QuotasKept'
<1> SUFFICES ASSUME TypeInv, QuotasKept, [Next]_vars
             PROVE  QuotasKept'
  OBVIOUS
<1> USE RelayAssumption
<1>a. ASSUME UNCHANGED <<roomBytes, monthlyHostBytes>>, NEW ids, closeStreams(ids)
      PROVE  QuotasKept'
  <2>1. /\ DOMAIN streams' = DOMAIN streams
        /\ \A s \in DOMAIN streams :
             streams'[s] = [streams[s] EXCEPT !.state = streams'[s].state]
    BY <1>a, ClosedStreams DEF TypeInv
  <2> QED
    BY <1>a, <2>1 DEF QuotasKept, TypeInv, TypeOK, Stream
<1>b. ASSUME UNCHANGED <<roomBytes, monthlyHostBytes, streams>>
      PROVE  QuotasKept'
  BY <1>b DEF QuotasKept
<1>1. ASSUME NEW h \in HostIds, NEW r \in RoomIds, NEW t \in TunnelIds,
             openHostTunnel(h, r, t)
      PROVE  QuotasKept'
  BY <1>1, <1>a DEF openHostTunnel
<1>2. ASSUME NEW h \in HostIds, NEW r \in RoomIds, closeHostTunnel(h, r)
      PROVE  QuotasKept'
  BY <1>2, <1>a DEF closeHostTunnel
<1>3. CASE SessionStep
  BY <1>3, <1>b DEF SessionStep, authorizeSession, issueSession
<1>4. ASSUME NEW s \in StreamIds, NEW held \in HeldSession, NEW q \in Request,
             Opens(s, held, q)
      PROVE  QuotasKept'
  BY <1>4 DEF Opens, OpenedStream, QuotasKept
<1>5. CASE NothingOpens /\ OpenStep
  <2>1. UNCHANGED <<roomBytes, monthlyHostBytes, streams>>
    BY <1>5 DEF NothingOpens, OpenStep, openFriendStream, finishOpen, openStream, Put,
                askService, serviceAccepts, serviceRefuses, refuseOpen
  <2> QED
    BY <1>b, <2>1
<1>6. ASSUME NEW s \in StreamIds, NEW b \in FrameSizes, NEW f \in {0, 1},
             accountTransfer(s, b, f)
      PROVE  QuotasKept'
  <2> DEFINE room == streams[s].roomId
             host == streams[s].hostId
  <2>1. /\ s \in DOMAIN streams /\ streams[s] \in Stream
        /\ room \in RoomIds /\ host \in HostIds
        /\ b \in Nat /\ f <= b
        /\ roomBytes[room] \in Nat /\ monthlyHostBytes[host] \in Nat
    BY <1>6 DEF accountTransfer, openStreams, TypeInv, TypeOK, Stream
  <2>2. /\ roomBytes[room] + b <= MaxRoomBytes
        /\ monthlyHostBytes[host] + b <= MaxMonthlyHostBytes
    BY <1>6, <2>1 DEF accountTransfer, overQuota
  <2>3. /\ roomBytes' = [roomBytes EXCEPT ![room] = roomBytes[room] + b]
        /\ monthlyHostBytes' = [monthlyHostBytes EXCEPT ![host]
                                   = monthlyHostBytes[host] + b]
    BY <1>6 DEF accountTransfer
  <2>4. /\ DOMAIN streams' = DOMAIN streams
        /\ streams'[s].bytes = streams[s].bytes + b
        /\ streams'[s].frames = streams[s].frames + f
        /\ \A t \in DOMAIN streams : t # s => streams'[t] = streams[t]
    BY <1>6, <2>1 DEF accountTransfer, Stream
  <2>5. streams'[s].frames <= streams'[s].bytes
    BY <2>1, <2>4 DEF QuotasKept, Stream
  <2> QED
    BY <2>1, <2>2, <2>3, <2>4, <2>5 DEF QuotasKept, TypeInv, TypeOK
<1>7. ASSUME NEW s \in StreamIds, NEW b \in FrameSizes, stopStream(s, b)
      PROVE  QuotasKept'
  BY <1>7, <1>a DEF stopStream
<1>8. ASSUME NEW s \in StreamIds, disconnectStream(s)
      PROVE  QuotasKept'
  BY <1>8, <1>a DEF disconnectStream
<1>9. ASSUME NEW s \in StreamIds, disconnectFails(s)
      PROVE  QuotasKept'
  BY <1>9 DEF disconnectFails, QuotasKept, TypeInv, TypeOK, Stream
<1>10. CASE advanceClock \/ UNCHANGED vars
  BY <1>10, <1>b DEF advanceClock, vars
<1> QED
  BY <1>1, <1>2, <1>3, <1>4, <1>5, <1>6, <1>7, <1>8, <1>9, <1>10, StreamSteps
     DEF Next, TunnelStep, StreamStep, recordTransfer, relayEcho

\* Whatever is transferred over however many streams, no room and no host is
\* carried beyond its quota.
THEOREM QuotasHold == Spec => []QuotasKept
<1>1. Init => QuotasKept
  BY EmptyMapFacts, RelayAssumption DEF Init, QuotasKept
<1>2. TypeInv /\ QuotasKept /\ [Next]_vars => QuotasKept'
  BY NextQuotas
<1> QED
  BY <1>1, <1>2, TypeCorrect, PTL DEF Spec

-----------------------------------------------------------------------------
(* Sums over finite sets of streams.  MapThenSumSet is a recursive         *)
(* function that takes the elements in the order of a CHOOSE; what is      *)
(* needed of it is shown by induction on the size of the set, in the form  *)
(* of the least number principle.                                          *)

first(s) == CHOOSE x \in s : TRUE

\* The recursive function in MapThenSumSet, for the bytes of the streams in table.
sums(table, S) ==
  CHOOSE sum : sum = [s \in SUBSET S |->
                        IF s = {} THEN 0
                        ELSE table[first(s)].bytes + sum[s \ {first(s)}]]

total(table, S) == sums(table, S)[S]

Countable(table, S) == IsFiniteSet(S) /\ \A s \in S : table[s].bytes \in Nat

\* sum adds up the bytes of the sets in family.
Counts(sum, table, family) ==
  \A s \in family : /\ sum[s] \in Nat
                    /\ sum[s] = IF s = {} THEN 0
                                ELSE table[first(s)].bytes + sum[s \ {first(s)}]

\* bytesOf is this function at the set itself.
LEMMA BytesAreTotals ==
  ASSUME NEW S
  PROVE  bytesOf(S) = total(streams, S)
BY Zenon DEF bytesOf, MapThenSumSet, MapThenFoldSet, total, sums, first

LEMMA LeastNumber ==
  ASSUME NEW T \in SUBSET Nat, T # {}
  PROVE  \E n \in T : \A m \in T : n <= m
<1>1. PICK n \in T : \A m \in T : <<m, n>> \notin OpToRel(<, Nat)
  BY NatLessThanWellFounded, WFMin
<1>2. \A m \in T : ~(m < n)
  BY <1>1 DEF OpToRel
<1>. QED
  BY <1>2

\* Sets of streams are finite, and smaller by one without one of their streams.
LEMMA SubsetSizes ==
  ASSUME NEW S, IsFiniteSet(S), NEW s \in SUBSET S
  PROVE  /\ IsFiniteSet(s) /\ Cardinality(s) \in Nat /\ Cardinality(s) <= Cardinality(S)
         /\ s = {} <=> Cardinality(s) = 0
         /\ s # {} => first(s) \in s
         /\ \A x \in s : /\ s \ {x} \in SUBSET S
                         /\ Cardinality(s \ {x}) = Cardinality(s) - 1
                         /\ Cardinality(s) > 0
<1>1. IsFiniteSet(s) /\ Cardinality(s) <= Cardinality(S)
  BY FS_Subset
<1>2. Cardinality(s) \in Nat
  BY <1>1, FS_CardinalityType
<1>3. s = {} <=> Cardinality(s) = 0
  BY <1>1, FS_EmptySet
<1>4. s # {} => first(s) \in s
  BY DEF first
<1>5. \A x \in s : Cardinality(s \ {x}) = Cardinality(s) - 1
  BY <1>1, FS_RemoveElement
<1>6. \A x \in s : Cardinality(s) > 0
  BY <1>2, <1>3
<1>. QED
  BY <1>1, <1>2, <1>3, <1>4, <1>5, <1>6

\* The recursion is well founded: a function that satisfies it exists, and so sums is
\* one.
LEMMA SumsExist ==
  ASSUME NEW table, NEW S, Countable(table, S)
  PROVE  Counts(sums(table, S), table, SUBSET S)
<1>. DEFINE level(n) == {s \in SUBSET S : Cardinality(s) <= n}
            good(n) == \E sum : Counts(sum, table, level(n))
            bad == {n \in Nat : ~good(n)}
<1>1. IsFiniteSet(S) /\ \A s \in S : table[s].bytes \in Nat
  BY DEF Countable
<1>2. ASSUME NEW s \in SUBSET S
      PROVE  /\ Cardinality(s) \in Nat /\ Cardinality(s) <= Cardinality(S)
             /\ s = {} <=> Cardinality(s) = 0
             /\ s # {} => /\ first(s) \in S
                          /\ s \ {first(s)} \in SUBSET S
                          /\ Cardinality(s \ {first(s)}) = Cardinality(s) - 1
  BY <1>1, SubsetSizes
<1>3. bad = {}
  <2>. SUFFICES ASSUME bad # {}
                PROVE  FALSE
    OBVIOUS
  <2>1. PICK n \in bad : \A m \in bad : n <= m
    <3>1. bad \in SUBSET Nat
      OBVIOUS
    <3>. HIDE DEF bad
    <3>. QED
      BY <3>1, LeastNumber
  <2>2. n \in Nat /\ ~good(n)
    OBVIOUS
  <2>3. CASE n = 0
    <3>1. ASSUME NEW s \in level(0)
          PROVE  s = {}
      <4>1. s \in SUBSET S /\ Cardinality(s) <= 0
        OBVIOUS
      <4>2. Cardinality(s) \in Nat
        BY <1>2, <4>1
      <4>3. Cardinality(s) = 0
        BY <4>1, <4>2
      <4>. QED
        BY <1>2, <4>1, <4>3
    <3>. DEFINE sum == [s \in level(0) |-> 0]
    <3>2. Counts(sum, table, level(0))
      BY <3>1 DEF Counts
    <3>. QED
      BY <2>2, <2>3, <3>2
  <2>4. CASE n # 0
    <3>1. n - 1 \in Nat /\ n - 1 \notin bad
      <4>. HIDE DEF bad
      <4>. QED
        BY <2>1, <2>2, <2>4
    <3>2. PICK old : Counts(old, table, level(n - 1))
      BY <3>1
    <3>. DEFINE value(s) == IF s = {} THEN 0
                            ELSE table[first(s)].bytes + old[s \ {first(s)}]
                sum == [s \in level(n) |-> value(s)]
    <3>3. ASSUME NEW s \in level(n), s # {}
          PROVE  s \ {first(s)} \in level(n - 1)
      BY <1>2, <2>2, <2>4, <3>3
    <3>4. ASSUME NEW s \in level(n - 1)
          PROVE  s \in level(n) /\ old[s] = value(s)
      <4>1. s \in SUBSET S /\ Cardinality(s) <= n - 1
        OBVIOUS
      <4>2. Cardinality(s) <= n
        <5>1. Cardinality(s) \in Nat
          BY <1>2, <4>1
        <5>. HIDE DEF good, level
        <5>. QED
          BY <2>2, <4>1, <5>1
      <4>3. old[s] = value(s)
        <5>. HIDE DEF level
        <5>. QED
          BY <3>2 DEF Counts
      <4>. QED
        BY <4>1, <4>2, <4>3
    <3>5. ASSUME NEW s \in level(n)
          PROVE  value(s) \in Nat
      <4>1. CASE s = {}
        BY <4>1
      <4>2. CASE s # {}
        <5>1. old[s \ {first(s)}] \in Nat
          BY <3>2, <3>3, <4>2 DEF Counts
        <5>2. table[first(s)].bytes \in Nat
          BY <1>1, <1>2, <4>2
        <5>. QED
          BY <5>1, <5>2
      <4>. QED
        BY <4>1, <4>2
    <3>6. \A s \in level(n) : sum[s] = value(s)
      OBVIOUS
    <3>7. ASSUME NEW s \in level(n), s # {}
          PROVE  sum[s \ {first(s)}] = old[s \ {first(s)}]
      BY <3>3, <3>4, <3>6, <3>7
    <3>. HIDE DEF sum, level
    <3>8. Counts(sum, table, level(n))
      BY <3>5, <3>6, <3>7 DEF Counts
    <3>. QED
      BY <2>2, <3>8
  <2>. QED
    BY <2>3, <2>4
<1>4. PICK sum : Counts(sum, table, level(Cardinality(S)))
  <2>1. Cardinality(S) \in Nat
    BY <1>2
  <2>. QED
    BY <1>3, <2>1
<1>5. Counts(sum, table, SUBSET S)
  <2>1. level(Cardinality(S)) = SUBSET S
    BY <1>2
  <2>. QED
    BY <1>4, <2>1
<1>. DEFINE step(f) == [s \in SUBSET S |->
                          IF s = {} THEN 0
                          ELSE table[first(s)].bytes + f[s \ {first(s)}]]
            fixed == [s \in SUBSET S |-> sum[s]]
<1>6. fixed = step(fixed)
  BY <1>2, <1>5 DEF Counts
<1>7. sums(table, S) = step(sums(table, S))
  <2>1. sums(table, S) = CHOOSE f : f = step(f)
    BY Zenon DEF sums
  <2>. HIDE DEF step, fixed
  <2>. QED
    BY <1>6, <2>1
<1>. DEFINE it == sums(table, S)
            odd == {n \in Nat : \E s \in SUBSET S : Cardinality(s) = n /\ it[s] \notin Nat}
<1>8. ASSUME NEW s \in SUBSET S
      PROVE  it[s] = IF s = {} THEN 0 ELSE table[first(s)].bytes + it[s \ {first(s)}]
  <2>. HIDE DEF it
  <2>. QED
    BY <1>7 DEF it
<1>. HIDE DEF it
<1>9. odd = {}
  <2>. SUFFICES ASSUME odd # {}
                PROVE  FALSE
    OBVIOUS
  <2>1. PICK n \in odd : \A m \in odd : n <= m
    <3>1. odd \in SUBSET Nat
      OBVIOUS
    <3>. HIDE DEF odd
    <3>. QED
      BY <3>1, LeastNumber
  <2>2. PICK s \in SUBSET S : Cardinality(s) = n /\ it[s] \notin Nat
    OBVIOUS
  <2>3. s # {}
    BY <1>8, <2>2
  <2>4. n - 1 \in Nat /\ n - 1 \notin odd
    <3>1. n \in Nat /\ n # 0
      BY <1>2, <2>2, <2>3
    <3>. HIDE DEF odd
    <3>. QED
      BY <2>1, <3>1
  <2>5. it[s \ {first(s)}] \in Nat
    BY <1>2, <2>2, <2>3, <2>4
  <2>6. table[first(s)].bytes \in Nat
    BY <1>1, <1>2, <2>3
  <2>. QED
    BY <1>8, <2>2, <2>3, <2>5, <2>6
<1>10. \A s \in SUBSET S : it[s] \in Nat
  BY <1>2, <1>9
<1>. QED
  BY <1>8, <1>10 DEF Counts, it
\* Two such functions agree where the bytes of the streams do, whatever larger sets
\* they are defined on.
LEMMA SumsAgree ==
  ASSUME NEW table, NEW S, NEW U, Countable(table, S), S \in SUBSET U,
         NEW table2, Countable(table2, U),
         \A s \in S : table2[s].bytes = table[s].bytes
  PROVE  \A s \in SUBSET S : sums(table2, U)[s] = sums(table, S)[s]
<1>. DEFINE a == sums(table, S)
            b == sums(table2, U)
            odd == {n \in Nat : \E s \in SUBSET S : Cardinality(s) = n /\ b[s] # a[s]}
<1>1. Counts(a, table, SUBSET S) /\ Counts(b, table2, SUBSET U)
  BY SumsExist
<1>. HIDE DEF a, b
<1>2. ASSUME NEW s \in SUBSET S
      PROVE  /\ s \in SUBSET U
             /\ Cardinality(s) \in Nat
             /\ s # {} => /\ first(s) \in S
                          /\ s \ {first(s)} \in SUBSET S
                          /\ Cardinality(s) > 0
                          /\ Cardinality(s \ {first(s)}) = Cardinality(s) - 1
  BY SubsetSizes DEF Countable
<1>3. odd = {}
  <2>. SUFFICES ASSUME odd # {}
                PROVE  FALSE
    OBVIOUS
  <2>1. PICK n \in odd : \A m \in odd : n <= m
    <3>1. odd \in SUBSET Nat
      OBVIOUS
    <3>. HIDE DEF odd
    <3>. QED
      BY <3>1, LeastNumber
  <2>2. PICK s \in SUBSET S : Cardinality(s) = n /\ b[s] # a[s]
    OBVIOUS
  <2>3. s # {}
    BY <1>1, <1>2, <2>2 DEF Counts
  <2>4. n - 1 \in Nat /\ n - 1 \notin odd
    <3>1. n \in Nat /\ n > 0
      BY <1>2, <2>2, <2>3
    <3>. HIDE DEF odd
    <3>. QED
      BY <2>1, <3>1
  <2>5. b[s \ {first(s)}] = a[s \ {first(s)}]
    BY <1>2, <2>2, <2>3, <2>4
  <2>6. table2[first(s)].bytes = table[first(s)].bytes
    BY <1>2, <2>3
  <2>7. /\ a[s] = table[first(s)].bytes + a[s \ {first(s)}]
        /\ b[s] = table2[first(s)].bytes + b[s \ {first(s)}]
    BY <1>1, <1>2, <2>3 DEF Counts
  <2>. QED
    BY <2>2, <2>5, <2>6, <2>7
<1>4. \A s \in SUBSET S : b[s] = a[s]
  BY <1>2, <1>3
<1>. QED
  BY <1>4 DEF a, b

\* Addition does not depend on the order: any stream may be taken out first.
LEMMA AnyStreamFirst ==
  ASSUME NEW table, NEW S, Countable(table, S)
  PROVE  \A s \in SUBSET S : \A x \in s :
           sums(table, S)[s] = table[x].bytes + sums(table, S)[s \ {x}]
<1>. DEFINE it == sums(table, S)
            odd == {n \in Nat : \E s \in SUBSET S : /\ Cardinality(s) = n
                                                   /\ \E x \in s :
                                                        it[s] # table[x].bytes + it[s \ {x}]}
<1>1. Counts(it, table, SUBSET S) /\ \A x \in S : table[x].bytes \in Nat
  BY SumsExist DEF Countable
<1>. HIDE DEF it
<1>2. ASSUME NEW s \in SUBSET S
      PROVE  /\ Cardinality(s) \in Nat
             /\ s # {} => first(s) \in s
             /\ \A x \in s : /\ s \ {x} \in SUBSET S
                             /\ Cardinality(s \ {x}) = Cardinality(s) - 1
                             /\ Cardinality(s) > 0
  BY SubsetSizes DEF Countable
<1>3. odd = {}
  <2>. SUFFICES ASSUME odd # {}
                PROVE  FALSE
    OBVIOUS
  <2>1. PICK n \in odd : \A m \in odd : n <= m
    <3>1. odd \in SUBSET Nat
      OBVIOUS
    <3>. HIDE DEF odd
    <3>. QED
      BY <3>1, LeastNumber
  <2>2. PICK s \in SUBSET S : /\ Cardinality(s) = n
                              /\ \E x \in s : it[s] # table[x].bytes + it[s \ {x}]
    OBVIOUS
  <2>3. PICK x \in s : it[s] # table[x].bytes + it[s \ {x}]
    BY <2>2
  <2>. DEFINE p == first(s)
              rest == s \ {p}
              other == s \ {x}
              both == rest \ {x}
  <2>4. p \in s /\ it[s] = table[p].bytes + it[rest]
    BY <1>1, <1>2, <2>3 DEF Counts
  <2>5. p # x
    BY <2>3, <2>4
  <2>6. n - 1 \in Nat /\ n - 1 \notin odd
    <3>1. n \in Nat /\ n > 0
      BY <1>2, <2>2, <2>3
    <3>. HIDE DEF odd
    <3>. QED
      BY <2>1, <3>1
  <2>7. ASSUME NEW t \in SUBSET S, Cardinality(t) = n - 1, NEW y \in t
        PROVE  it[t] = table[y].bytes + it[t \ {y}]
    BY <2>6, <2>7
  <2>8. /\ rest \in SUBSET S /\ Cardinality(rest) = n - 1 /\ x \in rest
        /\ other \in SUBSET S /\ Cardinality(other) = n - 1 /\ p \in other
    BY <1>2, <2>2, <2>3, <2>4, <2>5
  <2>9. other \ {p} = both /\ both \in SUBSET S
    OBVIOUS
  <2>. HIDE DEF rest, other, both
  <2>10. it[rest] = table[x].bytes + it[both]
    BY <2>7, <2>8 DEF both
  <2>11. it[other] = table[p].bytes + it[both]
    BY <2>7, <2>8, <2>9
  <2>12. table[p].bytes \in Nat /\ table[x].bytes \in Nat /\ it[both] \in Nat
    BY <1>1, <2>3, <2>4, <2>9 DEF Counts
  <2>13. it[s] = table[x].bytes + it[other]
    BY <2>4, <2>10, <2>11, <2>12
  <2>. QED
    BY <2>3, <2>13 DEF other
<1>4. \A s \in SUBSET S : \A x \in s : it[s] = table[x].bytes + it[s \ {x}]
  BY <1>2, <1>3
<1>. QED
  BY <1>4 DEF it

\* The laws of the totals: nothing has no bytes, a stream adds its own, and only the
\* bytes of the streams in a set count.
LEMMA TotalLaws ==
  ASSUME NEW table, NEW S, Countable(table, S)
  PROVE  /\ total(table, S) \in Nat
         /\ S = {} => total(table, S) = 0
         /\ \A x \in S : total(table, S) = table[x].bytes + total(table, S \ {x})
<1>1. Counts(sums(table, S), table, SUBSET S)
  BY SumsExist
<1>2. total(table, S) \in Nat /\ (S = {} => total(table, S) = 0)
  BY <1>1 DEF Counts, total
<1>3. ASSUME NEW x \in S
      PROVE  total(table, S) = table[x].bytes + total(table, S \ {x})
  <2>1. total(table, S) = table[x].bytes + sums(table, S)[S \ {x}]
    BY AnyStreamFirst DEF total
  <2>2. Countable(table, S \ {x})
    BY FS_Subset DEF Countable
  <2>3. sums(table, S)[S \ {x}] = sums(table, S \ {x})[S \ {x}]
    BY <2>2, SumsAgree
  <2>. QED
    BY <2>1, <2>3 DEF total
<1>. QED
  BY <1>2, <1>3

LEMMA SameBytesSameTotal ==
  ASSUME NEW table, NEW S, Countable(table, S), NEW table2,
         \A s \in S : table2[s].bytes = table[s].bytes
  PROVE  total(table2, S) = total(table, S)
<1>1. Countable(table2, S)
  BY DEF Countable
<1>. QED
  BY <1>1, SumsAgree DEF total

\* One stream more, or one stream with more bytes.
LEMMA TotalsGrow ==
  ASSUME NEW table, NEW S, Countable(table, S), NEW x, NEW table2, NEW more \in Nat,
         \A s \in S \ {x} : table2[s].bytes = table[s].bytes,
         table2[x].bytes = IF x \in S THEN table[x].bytes + more ELSE more
  PROVE  total(table2, S \cup {x}) = total(table, S) + more
<1>. DEFINE rest == S \ {x}
<1>1. Countable(table, rest)
  BY FS_Subset DEF Countable
<1>2. Countable(table2, S \cup {x})
  <2>1. IsFiniteSet(S \cup {x})
    BY FS_AddElement DEF Countable
  <2>2. table2[x].bytes \in Nat
    BY DEF Countable
  <2>. QED
    BY <2>1, <2>2 DEF Countable
<1>3. (S \cup {x}) \ {x} = rest
  OBVIOUS
<1>4. total(table2, S \cup {x}) = table2[x].bytes + total(table2, rest)
  BY <1>2, <1>3, TotalLaws
<1>5. total(table2, rest) = total(table, rest) /\ total(table, rest) \in Nat
  BY <1>1, SameBytesSameTotal, TotalLaws
<1>6. CASE x \in S
  <2>1. total(table, S) = table[x].bytes + total(table, rest) /\ table[x].bytes \in Nat
    BY <1>6, TotalLaws DEF Countable
  <2>. HIDE DEF rest
  <2>. QED
    BY <1>4, <1>5, <1>6, <2>1
<1>7. CASE x \notin S
  <2>1. rest = S
    BY <1>7
  <2>. HIDE DEF rest
  <2>. QED
    BY <1>4, <1>5, <1>7, <2>1
<1>. QED
  BY <1>6, <1>7

-----------------------------------------------------------------------------
(* The byte counts.                                                        *)

inRoom(table, r) == {s \in DOMAIN table : table[s].roomId = r}
ofHost(table, h) == {s \in DOMAIN table : table[s].hostId = h}

\* The counts of rooms, hosts and the relay are the totals of the streams in table.
AddsUp(table, rooms, hosts, relayed) ==
  /\ \A r \in RoomIds : rooms[r] = total(table, inRoom(table, r))
  /\ \A h \in HostIds : hosts[h] = total(table, ofHost(table, h))
  /\ relayed = total(table, DOMAIN table)

SumsAddUp == AddsUp(streams, roomBytes, monthlyHostBytes, metrics.bytesRelayed)

LEMMA BytesAddUpMeans == BytesAddUp <=> SumsAddUp /\ QuotasKept
<1>1. /\ \A r \in RoomIds : bytesOf({s \in DOMAIN streams : streams[s].roomId = r})
                              = total(streams, inRoom(streams, r))
      /\ \A h \in HostIds : bytesOf({s \in DOMAIN streams : streams[s].hostId = h})
                              = total(streams, ofHost(streams, h))
      /\ bytesOf(DOMAIN streams) = total(streams, DOMAIN streams)
  BY BytesAreTotals DEF inRoom, ofHost
<1>. QED
  BY <1>1 DEF BytesAddUp, SumsAddUp, AddsUp

\* The counts still add up when no stream changes its room, its host or its bytes.
LEMMA SameTable ==
  ASSUME NEW table, Countable(table, DOMAIN table), NEW rooms, NEW hosts, NEW relayed,
         AddsUp(table, rooms, hosts, relayed),
         NEW table2, DOMAIN table2 = DOMAIN table,
         \A s \in DOMAIN table : /\ table2[s].roomId = table[s].roomId
                                 /\ table2[s].hostId = table[s].hostId
                                 /\ table2[s].bytes = table[s].bytes
  PROVE  AddsUp(table2, rooms, hosts, relayed)
<1>1. ASSUME NEW S \in SUBSET DOMAIN table
      PROVE  total(table2, S) = total(table, S)
  <2>1. Countable(table, S)
    BY FS_Subset DEF Countable
  <2>. QED
    BY <2>1, SameBytesSameTotal
<1>2. \A r : inRoom(table2, r) = inRoom(table, r) /\ inRoom(table, r) \in SUBSET DOMAIN table
  BY DEF inRoom
<1>3. \A h : ofHost(table2, h) = ofHost(table, h) /\ ofHost(table, h) \in SUBSET DOMAIN table
  BY DEF ofHost
<1>. QED
  BY <1>1, <1>2, <1>3 DEF AddsUp

\* They do when a stream that is new, or already counted, brings more bytes to its
\* room, its host and the relay.
LEMMA GrownTable ==
  ASSUME NEW table, Countable(table, DOMAIN table),
         NEW rooms \in [RoomIds -> Nat], NEW hosts \in [HostIds -> Nat], NEW relayed \in Nat,
         AddsUp(table, rooms, hosts, relayed),
         NEW x, NEW more \in Nat, NEW table2, DOMAIN table2 = DOMAIN table \cup {x},
         \A s \in DOMAIN table :
           /\ table2[s].roomId = table[s].roomId
           /\ table2[s].hostId = table[s].hostId
           /\ s # x => table2[s].bytes = table[s].bytes,
         table2[x].roomId \in RoomIds, table2[x].hostId \in HostIds,
         table2[x].bytes = IF x \in DOMAIN table THEN table[x].bytes + more ELSE more,
         NEW rooms2, rooms2 = [rooms EXCEPT ![table2[x].roomId] = @ + more],
         NEW hosts2, hosts2 = [hosts EXCEPT ![table2[x].hostId] = @ + more]
  PROVE  AddsUp(table2, rooms2, hosts2, relayed + more)
<1>. DEFINE room == table2[x].roomId
            host == table2[x].hostId
<1>1. ASSUME NEW S \in SUBSET DOMAIN table
      PROVE  Countable(table, S)
  BY FS_Subset DEF Countable
<1>2. ASSUME NEW S \in SUBSET DOMAIN table, x \in DOMAIN table => x \in S
      PROVE  total(table2, S \cup {x}) = total(table, S) + more
  <2>1. \A s \in S \ {x} : table2[s].bytes = table[s].bytes
    OBVIOUS
  <2>2. table2[x].bytes = IF x \in S THEN table[x].bytes + more ELSE more
    BY <1>2
  <2>. QED
    BY <1>1, <2>1, <2>2, TotalsGrow
<1>3. ASSUME NEW S \in SUBSET DOMAIN table, x \notin S
      PROVE  total(table2, S) = total(table, S)
  <2>1. \A s \in S : table2[s].bytes = table[s].bytes
    BY <1>3
  <2>. QED
    BY <1>1, <2>1, SameBytesSameTotal
<1>4. ASSUME NEW r \in RoomIds
      PROVE  rooms2[r] = total(table2, inRoom(table2, r))
  <2>1. inRoom(table, r) \in SUBSET DOMAIN table /\ rooms[r] = total(table, inRoom(table, r))
    BY DEF inRoom, AddsUp
  <2>2. CASE r = room
    <3>1. inRoom(table2, r) = inRoom(table, r) \cup {x}
      BY <2>2 DEF inRoom
    <3>2. x \in DOMAIN table => x \in inRoom(table, r)
      BY <2>2 DEF inRoom
    <3>3. total(table2, inRoom(table2, r)) = rooms[r] + more
      BY <1>2, <2>1, <3>1, <3>2
    <3>4. rooms2[r] = rooms[r] + more
      BY <2>2
    <3>. QED
      BY <3>3, <3>4
  <2>3. CASE r # room
    <3>1. inRoom(table2, r) = inRoom(table, r) /\ x \notin inRoom(table, r)
      BY <2>3 DEF inRoom
    <3>2. total(table2, inRoom(table2, r)) = rooms[r]
      BY <1>3, <2>1, <3>1
    <3>3. rooms2[r] = rooms[r]
      BY <2>3
    <3>. QED
      BY <3>2, <3>3
  <2>. QED
    BY <2>2, <2>3
<1>5. ASSUME NEW h \in HostIds
      PROVE  hosts2[h] = total(table2, ofHost(table2, h))
  <2>1. ofHost(table, h) \in SUBSET DOMAIN table /\ hosts[h] = total(table, ofHost(table, h))
    BY DEF ofHost, AddsUp
  <2>2. CASE h = host
    <3>1. ofHost(table2, h) = ofHost(table, h) \cup {x}
      BY <2>2 DEF ofHost
    <3>2. x \in DOMAIN table => x \in ofHost(table, h)
      BY <2>2 DEF ofHost
    <3>3. total(table2, ofHost(table2, h)) = hosts[h] + more
      BY <1>2, <2>1, <3>1, <3>2
    <3>4. hosts2[h] = hosts[h] + more
      BY <2>2
    <3>. QED
      BY <3>3, <3>4
  <2>3. CASE h # host
    <3>1. ofHost(table2, h) = ofHost(table, h) /\ x \notin ofHost(table, h)
      BY <2>3 DEF ofHost
    <3>2. total(table2, ofHost(table2, h)) = hosts[h]
      BY <1>3, <2>1, <3>1
    <3>3. hosts2[h] = hosts[h]
      BY <2>3
    <3>. QED
      BY <3>2, <3>3
  <2>. QED
    BY <2>2, <2>3
<1>6. relayed + more = total(table2, DOMAIN table2)
  <2>1. relayed = total(table, DOMAIN table)
    BY DEF AddsUp
  <2>. QED
    BY <1>2, <2>1
<1>. QED
  BY <1>4, <1>5, <1>6 DEF AddsUp

\* Only an opened stream, with no bytes, and a metered one touch what is added up.
LEMMA NextSums ==
  TypeInv /\ SumsAddUp /\ [Next]_vars => SumsAddUp'
<1>. SUFFICES ASSUME TypeInv, SumsAddUp, [Next]_vars
              PROVE  SumsAddUp'
  OBVIOUS
<1>0. /\ \A s \in DOMAIN streams : streams[s] \in Stream
      /\ Countable(streams, DOMAIN streams)
      /\ roomBytes \in [RoomIds -> Nat] /\ monthlyHostBytes \in [HostIds -> Nat]
      /\ metrics.bytesRelayed \in Nat
  BY DEF TypeInv, TypeOK, FiniteStreams, Countable, Stream
<1>a. ASSUME NEW ids, closeStreams(ids), UNCHANGED <<roomBytes, monthlyHostBytes>>,
             metrics'.bytesRelayed = metrics.bytesRelayed
      PROVE  SumsAddUp'
  <2>1. /\ DOMAIN streams' = DOMAIN streams
        /\ \A s \in DOMAIN streams :
             streams'[s] = [streams[s] EXCEPT !.state = streams'[s].state]
    BY <1>a, ClosedStreams DEF TypeInv
  <2>2. \A s \in DOMAIN streams : /\ streams'[s].roomId = streams[s].roomId
                                  /\ streams'[s].hostId = streams[s].hostId
                                  /\ streams'[s].bytes = streams[s].bytes
    BY <1>0, <2>1 DEF Stream
  <2>. QED
    BY <1>0, <1>a, <2>1, <2>2, SameTable DEF SumsAddUp
<1>b. ASSUME UNCHANGED <<streams, roomBytes, monthlyHostBytes>>,
             metrics'.bytesRelayed = metrics.bytesRelayed
      PROVE  SumsAddUp'
  BY <1>b DEF SumsAddUp
<1>1. ASSUME NEW h \in HostIds, NEW r \in RoomIds, NEW t \in TunnelIds,
             openHostTunnel(h, r, t)
      PROVE  SumsAddUp'
  <2>. DEFINE replaced == IF hasOpenTunnel(r) THEN streamsOf(hostTunnels[r].id) ELSE {}
  <2>1. /\ closeStreams(replaced)
        /\ metrics' = [metrics EXCEPT !.friendStreamsClosed = closedCount(replaced)]
        /\ UNCHANGED <<roomBytes, monthlyHostBytes>>
    BY <1>1 DEF openHostTunnel
  <2>. HIDE DEF replaced
  <2>2. metrics'.bytesRelayed = metrics.bytesRelayed
    BY <2>1 DEF TypeInv, TypeOK
  <2>. QED
    BY <1>a, <2>1, <2>2
<1>2. ASSUME NEW h \in HostIds, NEW r \in RoomIds, closeHostTunnel(h, r)
      PROVE  SumsAddUp'
  <2>. DEFINE ended == streamsOf(hostTunnels[r].id)
  <2>1. /\ closeStreams(ended)
        /\ metrics' = [metrics EXCEPT !.friendStreamsClosed = closedCount(ended)]
        /\ UNCHANGED <<roomBytes, monthlyHostBytes>>
    BY <1>2 DEF closeHostTunnel
  <2>. HIDE DEF ended
  <2>2. metrics'.bytesRelayed = metrics.bytesRelayed
    BY <2>1 DEF TypeInv, TypeOK
  <2>. QED
    BY <1>a, <2>1, <2>2
<1>3. CASE SessionStep
  BY <1>3, <1>b DEF SessionStep, authorizeSession, issueSession
<1>4. ASSUME NEW s \in StreamIds, NEW held \in HeldSession, NEW q \in Request,
             Opens(s, held, q)
      PROVE  SumsAddUp'
  <2>1. /\ s \notin DOMAIN streams
        /\ DOMAIN streams' = DOMAIN streams \cup {s}
        /\ \A t \in DOMAIN streams : streams'[t] = streams[t]
        /\ streams'[s] \in Stream
        /\ streams'[s].bytes = 0
        /\ UNCHANGED <<roomBytes, monthlyHostBytes>>
        /\ metrics' = [metrics EXCEPT !.friendStreamsOpened = @ + 1]
    BY <1>4 DEF Opens, OpenedStream
  <2>2. streams'[s].roomId \in RoomIds /\ streams'[s].hostId \in HostIds
    BY <2>1 DEF Stream
  <2>3. metrics'.bytesRelayed = metrics.bytesRelayed
    BY <2>1 DEF TypeInv, TypeOK
  <2>4. /\ roomBytes' = [roomBytes EXCEPT ![streams'[s].roomId] = @ + 0]
        /\ monthlyHostBytes' = [monthlyHostBytes EXCEPT ![streams'[s].hostId] = @ + 0]
        /\ metrics.bytesRelayed + 0 = metrics.bytesRelayed
    BY <1>0, <2>1, <2>2
  <2>5. streams'[s].bytes = IF s \in DOMAIN streams THEN streams[s].bytes + 0 ELSE 0
    BY <2>1
  <2>6. AddsUp(streams', roomBytes', monthlyHostBytes', metrics.bytesRelayed + 0)
    <3>1. \A t \in DOMAIN streams :
            /\ streams'[t].roomId = streams[t].roomId
            /\ streams'[t].hostId = streams[t].hostId
            /\ t # s => streams'[t].bytes = streams[t].bytes
      BY <2>1
    <3>2. 0 \in Nat /\ DOMAIN streams' = DOMAIN streams \cup {s}
      BY <2>1
    <3>3. AddsUp(streams, roomBytes, monthlyHostBytes, metrics.bytesRelayed)
      BY DEF SumsAddUp
    <3>. QED
      BY <1>0, <2>2, <2>4, <2>5, <3>1, <3>2, <3>3, GrownTable, Zenon
  <2>. QED
    BY <2>3, <2>4, <2>6 DEF SumsAddUp
<1>5. CASE NothingOpens /\ OpenStep
  <2>1. UNCHANGED <<roomBytes, monthlyHostBytes, streams, metrics>>
    BY <1>5 DEF NothingOpens, OpenStep, openFriendStream, finishOpen, openStream, Put,
                askService, serviceAccepts, serviceRefuses, refuseOpen
  <2>. QED
    BY <1>b, <2>1
<1>6. ASSUME NEW s \in StreamIds, NEW b \in FrameSizes, NEW f \in {0, 1},
             accountTransfer(s, b, f)
      PROVE  SumsAddUp'
  <2>. DEFINE room == streams[s].roomId
              host == streams[s].hostId
  <2>1. s \in DOMAIN streams /\ streams[s] \in Stream /\ b \in Nat
    BY <1>6, RelayAssumption DEF accountTransfer, openStreams, TypeInv, TypeOK
  <2>2. /\ streams' = [streams EXCEPT ![s].bytes = @ + b, ![s].frames = @ + f,
                                      ![s].lastActivityAt = now]
        /\ roomBytes' = [roomBytes EXCEPT ![room] = @ + b]
        /\ monthlyHostBytes' = [monthlyHostBytes EXCEPT ![host] = @ + b]
        /\ metrics' = [metrics EXCEPT !.bytesRelayed = @ + b]
    BY <1>6 DEF accountTransfer
  <2>3. /\ DOMAIN streams' = DOMAIN streams \cup {s}
        /\ streams'[s].bytes = streams[s].bytes + b
        /\ streams'[s].roomId = room /\ streams'[s].hostId = host
        /\ \A t \in DOMAIN streams : t # s => streams'[t] = streams[t]
    BY <2>1, <2>2 DEF Stream
  <2>4. room \in RoomIds /\ host \in HostIds
    BY <2>1 DEF Stream
  <2>5. metrics'.bytesRelayed = metrics.bytesRelayed + b
    BY <2>1, <2>2 DEF TypeInv, TypeOK
  <2>6. AddsUp(streams', roomBytes', monthlyHostBytes', metrics.bytesRelayed + b)
    <3>. HIDE DEF room, host
    <3>1. \A t \in DOMAIN streams :
            /\ streams'[t].roomId = streams[t].roomId
            /\ streams'[t].hostId = streams[t].hostId
            /\ t # s => streams'[t].bytes = streams[t].bytes
      BY <2>3 DEF room, host
    <3>2. streams'[s].roomId \in RoomIds /\ streams'[s].hostId \in HostIds
      BY <2>3, <2>4
    <3>3. streams'[s].bytes = IF s \in DOMAIN streams THEN streams[s].bytes + b ELSE b
      BY <2>1, <2>3
    <3>4. /\ roomBytes' = [roomBytes EXCEPT ![streams'[s].roomId] = @ + b]
          /\ monthlyHostBytes' = [monthlyHostBytes EXCEPT ![streams'[s].hostId] = @ + b]
      BY <2>2, <2>3
    <3>5. b \in Nat /\ DOMAIN streams' = DOMAIN streams \cup {s}
      BY <2>1, <2>3
    <3>6. AddsUp(streams, roomBytes, monthlyHostBytes, metrics.bytesRelayed)
      BY DEF SumsAddUp
    <3>. QED
      BY <1>0, <3>1, <3>2, <3>3, <3>4, <3>5, <3>6, GrownTable, Zenon
  <2>. QED
    BY <2>5, <2>6 DEF SumsAddUp
<1>7. ASSUME NEW s \in StreamIds, NEW b \in FrameSizes, stopStream(s, b)
      PROVE  SumsAddUp'
  <2>. DEFINE n == closedCount({s})
              m == metrics.quotaStops + 1
  <2>1. /\ closeStreams({s})
        /\ metrics' = [metrics EXCEPT !.friendStreamsClosed = n, !.quotaStops = m]
        /\ UNCHANGED <<roomBytes, monthlyHostBytes>>
    BY <1>7 DEF stopStream
  <2>. HIDE DEF n, m
  <2>2. metrics'.bytesRelayed = metrics.bytesRelayed
    BY <2>1 DEF TypeInv, TypeOK
  <2>. QED
    BY <1>a, <2>1, <2>2
<1>8. ASSUME NEW s \in StreamIds, disconnectStream(s)
      PROVE  SumsAddUp'
  <2>. DEFINE n == closedCount({s})
  <2>1. /\ closeStreams({s})
        /\ metrics' = [metrics EXCEPT !.friendStreamsClosed = n]
        /\ UNCHANGED <<roomBytes, monthlyHostBytes>>
    BY <1>8 DEF disconnectStream
  <2>. HIDE DEF n
  <2>2. metrics'.bytesRelayed = metrics.bytesRelayed
    BY <2>1 DEF TypeInv, TypeOK
  <2>. QED
    BY <1>a, <2>1, <2>2
<1>9. ASSUME NEW s \in StreamIds, disconnectFails(s)
      PROVE  SumsAddUp'
  <2>1. /\ s \in DOMAIN streams
        /\ streams' = [streams EXCEPT ![s].state = "disconnect_failed"]
        /\ UNCHANGED <<roomBytes, monthlyHostBytes, metrics>>
    BY <1>9 DEF disconnectFails
  <2>2. DOMAIN streams' = DOMAIN streams
    BY <2>1
  <2>3. \A t \in DOMAIN streams : /\ streams'[t].roomId = streams[t].roomId
                                  /\ streams'[t].hostId = streams[t].hostId
                                  /\ streams'[t].bytes = streams[t].bytes
    BY <1>0, <2>1 DEF Stream
  <2>. QED
    BY <1>0, <2>1, <2>2, <2>3, SameTable DEF SumsAddUp
<1>10. CASE advanceClock \/ UNCHANGED vars
  BY <1>10, <1>b DEF advanceClock, vars
<1>. QED
  BY <1>1, <1>2, <1>3, <1>4, <1>5, <1>6, <1>7, <1>8, <1>9, <1>10, StreamSteps
     DEF Next, TunnelStep, StreamStep, recordTransfer, relayEcho

\* The byte counts of streams, rooms, hosts and the relay agree and no quota is
\* exceeded, whatever streams are opened, replaced, stopped and closed.
THEOREM CountsAddUp == Spec => []BytesAddUp
<1>1. Init => SumsAddUp
  <2>. SUFFICES ASSUME Init
                PROVE  SumsAddUp
    OBVIOUS
  <2>1. DOMAIN streams = {}
    BY EmptyMapFacts DEF Init
  <2>2. Countable(streams, {})
    BY FS_EmptySet DEF Countable
  <2>3. \A S \in SUBSET DOMAIN streams : total(streams, S) = 0
    BY <2>1, <2>2, TotalLaws
  <2>4. /\ \A r \in RoomIds : roomBytes[r] = 0
        /\ \A h \in HostIds : monthlyHostBytes[h] = 0
        /\ metrics.bytesRelayed = 0
    BY DEF Init
  <2>5. /\ \A r : inRoom(streams, r) \in SUBSET DOMAIN streams
        /\ \A h : ofHost(streams, h) \in SUBSET DOMAIN streams
    BY DEF inRoom, ofHost
  <2>. QED
    BY <2>3, <2>4, <2>5 DEF SumsAddUp, AddsUp
<1>. QED
  BY <1>1, NextSums, TypeCorrect, QuotasHold, BytesAddUpMeans, PTL DEF Spec
=============================================================================
