---- MODULE MCLeaderboard ----
(***************************************************************************)
(* LeaderboardManager for TLC, with three documents a handler may hold.    *)
(***************************************************************************)
EXTENDS LeaderboardManager, TLC

CONSTANTS p1, p2

\* A document before and after three of the four users scored: users 1 and 2
\* tie on score, not on problems, users 3 and 4 on both.
Early == [u \in 1..4 |-> IF u = 1 THEN (p1 :> 2) ELSE (p1 :> 0)]
Late  == (1 :> (p1 :> 2)) @@ (2 :> (p1 :> 1 @@ p2 :> 1)) @@ (3 :> (p1 :> 1)) @@ (4 :> (p1 :> 1))

\* Redis has the scores of three users.
MCKept == {[u \in {2, 3, 4} |-> SumFunction(Late[u])]}

MCCopies == {Early, Late}

\* Handlers are only compared.
Symmetry == Permutations(Callers)
====
