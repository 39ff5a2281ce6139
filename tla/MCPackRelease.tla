--------------------------- MODULE MCPackRelease ---------------------------
(* Bounds for TLC: a chain of three mods, two of them approved, and one    *)
(* flaw at a time.                                                         *)
EXTENDS PackRelease, TLC

ChainMods == {"addon", "lithium", "fabric-api"}
ChainRequires == "addon" :> {"lithium"} @@ "lithium" :> {"fabric-api"} @@ "fabric-api" :> {}

\* A catalog without flaws, and those where one entry has one.
Faultless == [m \in ChainMods |-> {}]
FirstCatalogs ==
  {Faultless} \cup {[Faultless EXCEPT ![m] = {f}] : m \in {"addon", "fabric-api"},
                   f \in {"license", "filename", "target", "https"}}
NewFlaws == {{}, {"consent"}, {"neither"}}
KnownConflicts == {{"addon", "fabric-api"}}
ApprovedMods == {"lithium", "fabric-api"}
=============================================================================
