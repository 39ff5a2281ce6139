----------------------------- MODULE MCRoomHost -----------------------------
(***************************************************************************)
(* Small instances of RoomHost for TLC.                                    *)
(***************************************************************************)
EXTENDS RoomHost, TLC

Symmetry == Permutations(RoomIds)
=============================================================================
