---- MODULE MCLifecycle ----
(***************************************************************************)
(* ChallengeLifecycle for TLC: the cfg files give every constant a value.  *)
(***************************************************************************)
EXTENDS ChallengeLifecycle, TLC

\* Requests and users are only compared: runs without a liveness property
\* may permute them.
Symmetry == Permutations(Requests) \union Permutations(Users)
====
