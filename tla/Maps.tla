-------------------------------- MODULE Maps --------------------------------
(***************************************************************************)
(* The JavaScript Map the services keep their tables in: a function whose  *)
(* domain is the set of keys present.                                      *)
(***************************************************************************)

\* new Map()
EmptyMap == [k \in {} |-> {}]

\* map.set(key, value): inserts the key or replaces its value
Put(map, key, value) ==
  [k \in DOMAIN map \cup {key} |-> IF k = key THEN value ELSE map[k]]

\* The entries of the map whose keys are in Keys, after the others are deleted
KeepKeys(map, Keys) == [k \in DOMAIN map \cap Keys |-> map[k]]
=============================================================================
