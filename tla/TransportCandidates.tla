------------------------ MODULE TransportCandidates ------------------------
(***************************************************************************)
(* Which path a friend's join takes: a direct candidate that is safe and   *)
(* has not expired, else the relay (services/control-plane/src/transport/  *)
(* candidates.mjs).  The candidates of one room; those of another are kept *)
(* apart by the key of candidatesByRoom.  Which of two safe candidates is   *)
(* taken is left out, and with it the order of the list.                   *)
(***************************************************************************)
EXTENDS Naturals, FiniteSets

CONSTANTS
  Friends,
  Offers,           (* what a participant submits: [network, directAllowed, restricted] *)
  CandidateTtl,
  MaxTime,          (* bound on the clock              *)
  MaxCandidates     (* bound on the candidates held    *)

ASSUME CandidatesAssumption == CandidateTtl \in Nat \ {0} /\ MaxTime \in Nat

VARIABLES
  now,
  candidates,       (* candidatesByRoom.get(roomId): [offer, expiresAt]       *)
  path              (* [Friends -> the selection of the friend's latest join] *)

pathVars == <<now, candidates, path>>

Paths == {"none", "direct", "relay", "failed", "connected"}

CandidatesInit ==
  /\ now = 0
  /\ candidates = {}
  /\ path = [f \in Friends |-> "none"]

tick == now < MaxTime /\ now' = now + 1 /\ UNCHANGED <<candidates, path>>

\* Expired submissions are refused; an age is how long ago it was created.
submitCandidate(offer, age) ==
  /\ Cardinality(candidates) < MaxCandidates
  /\ age <= now /\ age < CandidateTtl
  /\ candidates' = candidates
       \cup {[offer |-> offer, expiresAt |-> now - age + CandidateTtl]}
  /\ UNCHANGED <<now, path>>

\* activeCandidatesForRoom, which also prunes the others.
activeCandidates(t) == {c \in candidates : c.expiresAt > t}

isSafeDirectCandidate(c) ==
  c.offer.network = "home" /\ c.offer.directAllowed /\ ~c.offer.restricted

selectTransport(f, relayAvailable) ==
  /\ candidates' = activeCandidates(now)
  /\ path' = [path EXCEPT ![f] =
       CASE \E c \in candidates' : isSafeDirectCandidate(c) -> "direct"
         [] OTHER -> IF relayAvailable THEN "relay" ELSE "failed"]
  /\ UNCHANGED now

\* Fault: a direct attempt that does not connect ends the join.
resolvedFault(outcome, relayAvailable) == IF outcome = "connected" THEN "connected" ELSE "failed"

resolved(outcome, relayAvailable) ==
  CASE outcome = "connected" -> "connected"
    [] OTHER                 -> IF relayAvailable THEN "relay" ELSE "failed"

\* The candidate may have expired since it was selected: it is not looked at again.
resolveDirectAttempt(f, outcome, relayAvailable) ==
  /\ path[f] = "direct"
  /\ path' = [path EXCEPT ![f] = resolved(outcome, relayAvailable)]
  /\ UNCHANGED <<now, candidates>>

CandidatesTypeOK ==
  /\ now \in 0..MaxTime
  /\ candidates \subseteq [offer : Offers, expiresAt : 1..MaxTime + CandidateTtl]
  /\ path \in [Friends -> Paths]
=============================================================================
