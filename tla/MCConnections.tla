---- MODULE MCConnections ----
(***************************************************************************)
(* Connections for TLC: Connections.cfg gives every constant a value.      *)
(***************************************************************************)
EXTENDS Connections, TLC

\* Users and challenges are only compared.
Symmetry == Permutations(Users) \union Permutations(Challenges)

\* The read loop of k is neither over nor cleaning up.
Current(k) == at[k] \notin Over /\ ~(at[k] \in {"snap", "cast", "remove"} /\ job[k].kind # "join")

\* What no step and no property reads any more is hidden: what was contested of
\* a connection, and who was told of it, once its loop is over or cleaning up;
\* and the copy of the registry a read loop made, to which only gRPC requests
\* write a second time.
View ==
    LET current == {k \in Conns : Current(k)}
    IN  <<clients, sock, at, names, job, todo, writing, torn, msgs, joined,
          [g \in Casters |-> snap[g]],
          [k \in current |-> contested[k]],
          {p \in heard : p[1] \subseteq current}>>
====
