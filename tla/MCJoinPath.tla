----------------------------- MODULE MCJoinPath -----------------------------
(* Bounds for TLC: two friends, who play under each other's account or     *)
(* under the same one, a safe and a restricted offer, and frames that are  *)
(* accepted, of the wrong binding, and too large.                          *)
EXTENDS JoinPath, TLC

HomeOffers ==
  {[network |-> "home", directAllowed |-> TRUE, restricted |-> r] : r \in BOOLEAN}
Swapped == {"ann" :> "bob" @@ "bob" :> "ann", "ann" :> "ann" @@ "bob" :> "ann"}
OpenFrames ==
  {[kind |-> "bound", size |-> 1], [kind |-> "foreign", size |-> 1], [kind |-> "bound", size |-> 2]}
=============================================================================
