------------------------------ MODULE MCRelay ------------------------------
(***************************************************************************)
(* Small instances of Relay for TLC.                                       *)
(***************************************************************************)
EXTENDS Relay, TLC

\* Every host has a token for every room, so that two hosts can contend for one.
AllCredentials == RoomIds \X HostIds

Symmetry ==
  UNION {Permutations(HostIds), Permutations(RoomIds), Permutations(Holders),
         Permutations(SessionIds), Permutations(TunnelIds), Permutations(StreamIds),
         Permutations(OpenCalls)}
=============================================================================
