---- MODULE ChallengeArchive ----
(***************************************************************************)
(* What the two stores promise about a challenge, whatever requests run    *)
(* and whatever fails: it is opened in the live store, it may be copied to *)
(* the archive, and only a copied challenge is evicted from the live one,  *)
(* so a challenge that exists is never lost.  A live copy may come back    *)
(* after the eviction (Revive): Spec allows it because the code does,      *)
(* OneWaySpec is the life cycle lifecycle.md draws, without it.            *)
(***************************************************************************)
CONSTANT Challenges

VARIABLES live, archived

vars == <<live, archived>>

Init == live \subseteq Challenges /\ archived = {}

Open(c) ==
    /\ c \notin live \union archived
    /\ live' = live \union {c}
    /\ UNCHANGED archived

Archive(c) ==
    /\ c \in live \union archived
    /\ archived' = archived \union {c}
    /\ UNCHANGED live

Evict(c) ==
    /\ c \in archived
    /\ live' = live \ {c}
    /\ UNCHANGED archived

Revive(c) ==
    /\ c \in archived
    /\ live' = live \union {c}
    /\ UNCHANGED archived

OneWay == \E c \in Challenges : Open(c) \/ Archive(c) \/ Evict(c)
Next == OneWay \/ \E c \in Challenges : Revive(c)

Spec == Init /\ [][Next]_vars
OneWaySpec == Init /\ [][OneWay]_vars
====
