-------------------------------- MODULE Maps --------------------------------
(* Updates of std::map and std::unordered_map, as functions.               *)
EXTENDS Functions

EmptyMap == [k \in {} |-> k]

(* m[k] = v: insert or overwrite.                                          *)
Assign(m, k, v) == [x \in DOMAIN m \cup {k} |-> IF x = k THEN v ELSE m[x]]

(* m.erase(k): nothing happens when k is not there.                        *)
Erase(m, k) == Restrict(m, DOMAIN m \ {k})
=============================================================================
