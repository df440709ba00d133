---- MODULE GoMapsProofs ----
(***************************************************************************)
(* The operations on Go maps keep them maps of their type.                 *)
(***************************************************************************)
EXTENDS GoMaps, TLAPS

\* m[k] = v keeps a Go map a map of its type.
LEMMA PutType ==
    ASSUME NEW K, NEW V, NEW m \in PMap(K, V), NEW k \in K, NEW v \in V
    PROVE  /\ Put(m, k, v) \in PMap(K, V)
           /\ DOMAIN Put(m, k, v) = DOMAIN m \union {k}
<1>1. PICK S \in SUBSET K : m \in [S -> V]
  BY DEF PMap
<1>2. Put(m, k, v) \in [S \union {k} -> V]
  BY <1>1 DEF Put
<1>3. QED
  BY <1>2 DEF PMap, Put

\* delete(m, k) keeps a Go map a map of its type.
LEMMA DropType ==
    ASSUME NEW K, NEW V, NEW m \in PMap(K, V), NEW k
    PROVE  Drop(m, k) \in PMap(K, V)
<1>1. PICK S \in SUBSET K : m \in [S -> V]
  BY DEF PMap
<1>2. Drop(m, k) \in [S \ {k} -> V]
  BY <1>1 DEF Drop, Restrict
<1>3. QED
  BY <1>2 DEF PMap

\* A map built on a set of keys, and the entry of a key that is present.
LEMMA MapType ==
    ASSUME NEW K, NEW V, NEW S \in SUBSET K, NEW v \in V
    PROVE  [x \in S |-> v] \in PMap(K, V)
<1>1. [x \in S |-> v] \in [S -> V]
  OBVIOUS
<1>2. QED
  BY <1>1 DEF PMap

\* The keys and the entries of a map have their types.
LEMMA EntryType ==
    ASSUME NEW K, NEW V, NEW m \in PMap(K, V)
    PROVE  /\ DOMAIN m \subseteq K
           /\ \A k \in DOMAIN m : m[k] \in V
<1>1. PICK S \in SUBSET K : m \in [S -> V]
  BY DEF PMap
<1>2. QED
  BY <1>1

\* A nil map is a map of every type.
LEMMA EmptyMapType ==
    ASSUME NEW K, NEW V
    PROVE  EmptyMap \in PMap(K, V)
<1>1. EmptyMap \in [{} -> V]
  BY DEF EmptyMap
<1>2. QED
  BY <1>1 DEF PMap
====
