---- MODULE GoMaps ----
(***************************************************************************)
(* The Go type map[K]V as partial functions; a nil map is the empty one.   *)
(***************************************************************************)
EXTENDS Functions

\* The partial functions from K to V: the Go type map[K]V.
PMap(K, V) == UNION {[S -> V] : S \in SUBSET K}

EmptyMap == [x \in {} |-> x]

\* m[k] = v and delete(m, k).
Put(m, k, v) == [x \in DOMAIN m \union {k} |-> IF x = k THEN v ELSE m[x]]
Drop(m, k) == Restrict(m, DOMAIN m \ {k})
====
