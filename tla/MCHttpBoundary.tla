--------------------------- MODULE MCHttpBoundary ---------------------------
(***************************************************************************)
(* Small instances of HttpBoundary for TLC.                                *)
(***************************************************************************)
EXTENDS HttpBoundary, TLC

Symmetry ==
  UNION {Permutations(ActorIds), Permutations(Uuids), Permutations(RoomIds),
         Permutations(InviteIds), Permutations(RequestIds), Permutations(SessionIds),
         Permutations(InviteHandles), Permutations(SessionHandles)}
=============================================================================
