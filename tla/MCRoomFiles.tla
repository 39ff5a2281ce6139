---------------------------- MODULE MCRoomFiles ----------------------------
(* Bounds for TLC: two selections that share a mod, one file of neither,   *)
(* and two Javas.                                                          *)
EXTENDS RoomFiles, TLC

CatalogMods == {"fabric-api", "lithium", "ferritecore", "stray"}
CatalogPacks == "lithium" :> <<"fabric-api", "lithium">> @@ "ferritecore" :> <<"fabric-api", "ferritecore">>
JavaCandidates == <<"configured", "adoptium">>
=============================================================================
