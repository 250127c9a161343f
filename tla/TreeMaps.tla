------------------------------ MODULE TreeMaps ------------------------------
(* GenLayer's TreeMap storage type, as the contracts under contracts/ use    *)
(* it: a finite map that is read with get and `in`, written with             *)
(* map[key] = value and cut with del map[key].  A TreeMap is a TLA+ function *)
(* whose domain is the set of keys it holds.                                 *)

EmptyMap == [k \in {} |-> k]

Has(map, k) == k \in DOMAIN map

\* map[k] = v
Put(map, k, v) ==
    [x \in DOMAIN map \cup {k} |-> IF x = k THEN v ELSE map[x]]

\* del map[k]
Delete(map, k) == [x \in DOMAIN map \ {k} |-> map[x]]

\* map.get(k, default)
GetOr(map, k, default) == IF Has(map, k) THEN map[k] ELSE default
=============================================================================
