---------------------------- MODULE ServerBridge ----------------------------
(***************************************************************************)
(* The server's bridge mod (mods/server-bridge-fabric/src/server-          *)
(* bridge.mjs): who may join, whom the host still has to decide about, and *)
(* the whitelist it hands to its adapter.  The adapter is not in the       *)
(* repository; it writes the payloads it was given in their order, some    *)
(* time later, and a restart of the server loses those it has not written. *)
(***************************************************************************)
EXTENDS Naturals, Sequences

CONSTANTS
  Players,          (* Minecraft UUIDs                                         *)
  outagePolicy,     (* "allow_previously_approved" or "deny_all"               *)
  MaxWrites         (* bound on the payloads not yet written                   *)

ASSUME BridgeAssumption ==
  outagePolicy \in {"allow_previously_approved", "deny_all"} /\ MaxWrites \in Nat

VARIABLES
  approved, blocked, pending,
  controlPlaneOnline,
  whitelist,        (* the players in whitelist.json                           *)
  writes            (* the payloads the adapter has still to write             *)

bridgeVars == <<approved, blocked, pending, controlPlaneOnline, whitelist, writes>>

\* createServerBridgeState, with the whitelist as config.allowlist.
BridgeInit ==
  /\ approved = {} /\ blocked = {} /\ pending = {}
  /\ controlPlaneOnline = TRUE
  /\ whitelist = {}
  /\ writes = <<>>

\* What observePlayerJoin returns for the UUID the server observed.
joinState(p) ==
  CASE p \in blocked -> "blocked"
    [] p \in approved \ blocked ->
         IF ~controlPlaneOnline /\ outagePolicy = "deny_all" THEN "denied" ELSE "allowed"
    [] OTHER -> IF controlPlaneOnline THEN "pending_approval" ELSE "denied"

observePlayerJoin(p) ==
  /\ pending' = IF joinState(p) = "pending_approval" THEN pending \cup {p} ELSE pending
  /\ UNCHANGED <<approved, blocked, controlPlaneOnline, whitelist, writes>>

\* Fault: the payload is made before the decision is applied.
createAllowlistPersistenceFault(players) == Append(writes, approved)

createAllowlistPersistence(players) == Append(writes, players)

decided(p) == pending \ {p}

\* Only a pending request can be decided.
applyApprovalDecision(p, decision) ==
  /\ p \in pending
  /\ Len(writes) < MaxWrites
  /\ pending' = decided(p)
  /\ approved' = CASE decision = "approved" -> approved \cup {p}
                   [] decision = "blocked"  -> approved \ {p}
                   [] decision = "denied"   -> approved
  /\ blocked' = CASE decision = "approved" -> blocked \ {p}
                  [] decision = "blocked"  -> blocked \cup {p}
                  [] decision = "denied"   -> blocked
  /\ writes' = IF decision = "denied" THEN writes ELSE createAllowlistPersistence(approved')
  /\ UNCHANGED <<controlPlaneOnline, whitelist>>

setControlPlaneOnline(online) ==
  /\ controlPlaneOnline # online
  /\ controlPlaneOnline' = online
  /\ UNCHANGED <<approved, blocked, pending, whitelist, writes>>

\* The adapter writes the next payload.
whitelistWritten ==
  /\ writes # <<>>
  /\ whitelist' = Head(writes)
  /\ writes' = Tail(writes)
  /\ UNCHANGED <<approved, blocked, pending, controlPlaneOnline>>

\* The server is started again: its bridge knows what the file has.
serverRestarts ==
  /\ approved' = whitelist
  /\ blocked' = {} /\ pending' = {} /\ writes' = <<>>
  /\ UNCHANGED <<controlPlaneOnline, whitelist>>

BridgeTypeOK ==
  /\ approved \subseteq Players /\ blocked \subseteq Players /\ pending \subseteq Players
  /\ controlPlaneOnline \in BOOLEAN
  /\ whitelist \subseteq Players
  /\ Len(writes) <= MaxWrites /\ \A i \in DOMAIN writes : writes[i] \subseteq Players

\* The whitelist never names someone the host did not approve, and catches up once
\* the adapter has written everything; a player on one of the lists is not pending
\* again, in whatever order joins and decisions come (createAllowlistPersistence,
\* observePlayerJoin, applyApprovalDecision).
WhitelistFollows ==
  /\ whitelist \subseteq approved
  /\ writes = <<>> => whitelist = approved
  /\ pending \cap (approved \cup blocked) = {}
=============================================================================
