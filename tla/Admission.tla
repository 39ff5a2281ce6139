----------------------------- MODULE Admission -----------------------------
(***************************************************************************)
(* What the control plane promises about admission, with no clock, store,  *)
(* room or transport: an invite can only be asked through while it is      *)
(* open, the host settles a request once, and a session is admitted for a  *)
(* request at most once, when the request is approved and its invite is    *)
(* still open.  This is the "Permission Rule" of docs/architecture/        *)
(* protocol.md: the invite link is not a session credential.               *)
(*                                                                         *)
(* ControlPlane implements it; RoomService implements it when its calls    *)
(* are serialised.                                                         *)
(***************************************************************************)

CONSTANTS
  Invites,   (* invite ids                                        *)
  Requests,  (* join request ids                                  *)
  Sessions,  (* session ids                                       *)
  NoInvite   (* the invite of a request that was never made       *)

Verdicts == {"approved", "denied", "blocked"}

VARIABLES
  open,      (* invites a friend can ask through                  *)
  retired,   (* invites revoked or expired, for good              *)
  verdict,   (* per request: none, pending or the host's decision *)
  inviteOf,  (* per request: the invite it came through           *)
  admitted   (* pairs <<session, request>>                        *)

vars == <<open, retired, verdict, inviteOf, admitted>>

TypeOK ==
  /\ open \subseteq Invites
  /\ retired \subseteq Invites
  /\ verdict \in [Requests -> Verdicts \cup {"none", "pending"}]
  /\ inviteOf \in [Requests -> Invites \cup {NoInvite}]
  /\ admitted \subseteq Sessions \X Requests

Init ==
  /\ open = {}
  /\ retired = {}
  /\ verdict = [r \in Requests |-> "none"]
  /\ inviteOf = [r \in Requests |-> NoInvite]
  /\ admitted = {}

Admits(s, r) ==
  /\ \A pair \in admitted : pair[1] # s /\ pair[2] # r
  /\ inviteOf[r] \in open
  /\ admitted' = admitted \cup {<<s, r>>}

Publish(i) ==
  /\ i \notin open \cup retired
  /\ open' = open \cup {i}
  /\ UNCHANGED <<retired, verdict, inviteOf, admitted>>

\* A revocation retires one invite, the clock any number of them at once.
Retire(I) ==
  /\ open' = open \ I
  /\ retired' = retired \cup I
  /\ UNCHANGED <<verdict, inviteOf, admitted>>

Ask(r, i) ==
  /\ verdict[r] = "none"
  /\ i \in open
  /\ verdict' = [verdict EXCEPT ![r] = "pending"]
  /\ inviteOf' = [inviteOf EXCEPT ![r] = i]
  /\ UNCHANGED <<open, retired, admitted>>

Decide(r, v) ==
  /\ verdict[r] = "pending"
  /\ verdict' = [verdict EXCEPT ![r] = v]
  /\ UNCHANGED <<open, retired, inviteOf, admitted>>

Admit(s, r) ==
  /\ verdict[r] = "approved"
  /\ Admits(s, r)
  /\ UNCHANGED <<open, retired, verdict, inviteOf>>

\* The room service decides and issues the session in one transaction.
ApproveAndAdmit(s, r) ==
  /\ verdict[r] = "pending"
  /\ verdict' = [verdict EXCEPT ![r] = "approved"]
  /\ Admits(s, r)
  /\ UNCHANGED <<open, retired, inviteOf>>

\* Regenerating an invite retires the old one and publishes its successor.
Replace(i, j) ==
  /\ j \notin open \cup retired
  /\ i # j
  /\ open' = (open \ {i}) \cup {j}
  /\ retired' = retired \cup {i}
  /\ UNCHANGED <<verdict, inviteOf, admitted>>

Next ==
  \/ \E i \in Invites : Publish(i)
  \/ \E I \in SUBSET open : Retire(I)
  \/ \E i, j \in Invites : Replace(i, j)
  \/ \E r \in Requests, i \in Invites : Ask(r, i)
  \/ \E r \in Requests, v \in Verdicts : Decide(r, v)
  \/ \E s \in Sessions, r \in Requests : Admit(s, r) \/ ApproveAndAdmit(s, r)

Spec == Init /\ [][Next]_vars
=============================================================================
