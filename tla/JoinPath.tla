------------------------------ MODULE JoinPath ------------------------------
(***************************************************************************)
(* A friend's way into the room: a transport is selected, a direct attempt *)
(* or a stream of the relay carries the login, and the server's bridge     *)
(* decides.  Composes TransportCandidates, TcpRelay and ServerBridge, which*)
(* meet at the friend: who connects is not always who the session is for.  *)
(***************************************************************************)
EXTENDS TransportCandidates, TcpRelay, ServerBridge

CONSTANT Accounts    (* who the friends' games log in as: functions           *)

ASSUME JoinPathAssumption ==
  /\ Callers = Friends /\ Players = Friends /\ Accounts \subseteq [Friends -> Players]
  \* a login is told from the other bytes of a connection
  /\ Players \cap (Kinds \cup {"newline", "play"}) = {}

VARIABLES
  relayUp,          (* the relay accepts connections: what relayAvailable says *)
  account,          (* [Friends -> who the friend's game logs in as]           *)
  game              (* [Friends -> the player in the game over its connection] *)

vars == <<pathVars, relayVars, bridgeVars, relayUp, account, game>>

Nobody == "nobody"

Init ==
  /\ CandidatesInit /\ TcpInit /\ BridgeInit
  /\ relayUp = TRUE
  /\ account \in Accounts
  /\ game = [f \in Friends |-> Nobody]

\* The bytes of a game: its login, then its play.
payload(f) == <<account[f], "play">>

candidate ==
  /\ \/ tick
     \/ \E o \in Offers, age \in 0..CandidateTtl - 1 : submitCandidate(o, age)
  /\ UNCHANGED <<relayVars, bridgeVars, relayUp, account, game>>

\* A join that is not under way starts (again).
join(f) ==
  /\ game[f] = Nobody
  /\ path[f] \notin {"direct", "connected"} /\ conns[f].state = "none"
  /\ selectTransport(f, relayUp)
  /\ UNCHANGED <<relayVars, bridgeVars, relayUp, account, game>>

directOutcome(f) ==
  /\ \E outcome \in {"connected", "timeout"} : resolveDirectAttempt(f, outcome, relayUp)
  /\ UNCHANGED <<relayVars, bridgeVars, relayUp, account, game>>

dial(f) ==
  /\ path[f] = "relay" /\ relayUp
  /\ \E frame \in Frames : friendConnects(f, frame, payload(f))
  /\ UNCHANGED <<pathVars, bridgeVars, relayUp, account, game>>

stream(f) ==
  /\ relayReads(f) \/ hostConnects(f)
  /\ UNCHANGED <<pathVars, bridgeVars, relayUp, account, game>>

\* The connection of f is over, and with it its game.
hangUp(f) ==
  /\ path' = [path EXCEPT ![f] = "none"]
  /\ game' = [game EXCEPT ![f] = Nobody]

leave(f) ==
  /\ hangUp(f)
  /\ \/ streamEnds(f)
     \/ path[f] = "connected" /\ UNCHANGED relayVars
  /\ UNCHANGED <<now, candidates, bridgeVars, relayUp, account>>

\* The relay's process ends, by a reset or otherwise, and comes back.
relayDown(f) ==
  /\ relayUp
  /\ \/ friendResets(f)
     \/ relayRestarts
  /\ relayUp' = FALSE
  /\ path' = [g \in Friends |-> IF path[g] = "relay" THEN "none" ELSE path[g]]
  /\ game' = [g \in Friends |-> IF path[g] = "relay" THEN Nobody ELSE game[g]]
  /\ UNCHANGED <<now, candidates, bridgeVars, account>>

relayComesBack ==
  /\ ~relayUp /\ relayUp' = TRUE
  /\ UNCHANGED <<pathVars, relayVars, bridgeVars, account, game>>

\* What the server has read of the friend's connection starts with a login.
loggingIn(f) ==
  /\ game[f] = Nobody
  /\ \/ path[f] = "connected"
     \/ conns[f].state = "piped" /\ conns[f].received # <<>>
        /\ Head(conns[f].received) = account[f]

\* Fault: the bridge asks about the identity the client claims.
observedFault(f) == f

\* serverObservedUuid.
observed(f) == account[f]

login(f) ==
  /\ loggingIn(f)
  /\ observePlayerJoin(observed(f))
  /\ IF joinState(observed(f)) = "allowed"
     THEN /\ game' = [game EXCEPT ![f] = account[f]]
          /\ UNCHANGED <<path, relayVars>>
     ELSE /\ hangUp(f)
          /\ IF path[f] = "connected" THEN UNCHANGED relayVars ELSE streamEnds(f)
  /\ UNCHANGED <<now, candidates, relayUp, account>>

bridge ==
  /\ \/ \E p \in Players, d \in {"approved", "denied", "blocked"} : applyApprovalDecision(p, d)
     \/ \E online \in BOOLEAN : setControlPlaneOnline(online)
     \/ whitelistWritten
  /\ UNCHANGED <<pathVars, relayVars, relayUp, account, game>>

restart ==
  /\ serverRestarts
  /\ game' = [f \in Friends |-> Nobody]
  /\ path' = [f \in Friends |-> IF path[f] = "connected" THEN "none" ELSE path[f]]
  /\ conns' = [f \in Friends |->
       IF conns[f].state = "piped" THEN NoConn ELSE conns[f]]
  /\ UNCHANGED <<now, candidates, opened, relayUp, account>>

Next ==
  \/ candidate \/ bridge \/ restart \/ relayComesBack
  \/ \E f \in Friends :
       join(f) \/ directOutcome(f) \/ dial(f) \/ stream(f) \/ login(f) \/ leave(f)
       \/ relayDown(f)

Spec == Init /\ [][Next]_vars

-----------------------------------------------------------------------------
TypeOK ==
  /\ CandidatesTypeOK /\ TcpTypeOK /\ BridgeTypeOK
  /\ relayUp \in BOOLEAN
  /\ account \in [Friends -> Players]
  /\ game \in [Friends -> Players \cup {Nobody}]

\* Whoever is in the game was approved under the UUID the server observed, whatever
\* session or claim the connection came with, and through every restart and outage
\* (observePlayerJoin, sessionBindingMatches).
PlayersAreApproved ==
  TypeOK /\ \A f \in Friends : game[f] \in approved \cup {Nobody}

\* A direct attempt never turns a join into a failed one while the relay is
\* available, and starts only while a safe candidate that has not expired is there,
\* however candidates come and expire (selectTransport, resolveDirectAttempt).
JoinsDoNotFail ==
  [][\A f \in Friends :
       /\ path'[f] = "failed" => path[f] = "failed" \/ ~relayUp
       /\ path'[f] = "direct" /\ path[f] # "direct" =>
            \E c \in candidates : c.expiresAt > now /\ isSafeDirectCandidate(c)]_vars

\* The host reads bytes of the game, in the order they were sent and never twice,
\* and of an accepted stream only (onInitialData, the pipes).
HostReadsInOrder ==
  \A f \in Friends :
    LET at(x) == SelectInSeq(conns[f].sent, LAMBDA y : y = x)
        got == conns[f].received
    IN /\ got # <<>> => f \in opened
       /\ \A i \in DOMAIN got : at(got[i]) > 0
       /\ \A i, j \in DOMAIN got : i < j => at(got[i]) < at(got[j])

\* What the friend sends reaches the host from its first byte on, which the code
\* does not keep (README, section 4).
NoGaps ==
  \A f \in Friends :
    conns[f].received = SubSeq(conns[f].sent, 1, Len(conns[f].received))
=============================================================================
