--------------------------- MODULE MCRoomService ---------------------------
(***************************************************************************)
(* Small instances of RoomService for TLC.                                 *)
(***************************************************************************)
EXTENDS RoomService, TLC

\* Calls overlap over PostgreSQL, and are serialised over either repository.
OverlappingServices == {[kind |-> "postgres", overlapping |-> TRUE]}
Services == OverlappingServices \cup [kind : {"postgres", "memory"}, overlapping : {FALSE}]

Symmetry ==
  UNION {Permutations(ActorIds), Permutations(Uuids), Permutations(Devices),
         Permutations(RoomIds), Permutations(InviteIds), Permutations(RequestIds),
         Permutations(SessionIds), Permutations(CallIds)}
=============================================================================
