---- MODULE Documents ----
(***************************************************************************)
(* The challenge document (internal/model, ChallengeDocument) and the pure *)
(* computations the handlers make on their copy of it.  The fields no      *)
(* decision depends on (title, times, configuration, password) are left    *)
(* out; Go maps are partial functions, and a nil map is the empty one.     *)
(***************************************************************************)
EXTENDS GoMaps, Integers, FiniteSets

CONSTANTS Users, Problems, Scores, NoDoc

ASSUME ScoresAssumption == Scores \subseteq Int

Done == PMap(Problems, Scores)

\* The total PushSubmissionStatus recomputes from the problems done.
TotalScore(done) == SumFunction(done)

Totals == {0} \union {TotalScore(done) : done \in Done}

\* CHALLENGEOPEN, CHALLENGEABANDON, CHALLENGEENDED; no code path sets the
\* other two statuses the constants name.
Terminal == {"abandon", "ended"}
Statuses == {"open"} \union Terminal

Metadata == [done : Done, total : Totals]

\* The leaderboard keeps who is on it with which total: the order and the
\* ranks are a function of those.
Docs == [creator      : Users,
         status       : Statuses,
         participants : PMap(Users, Metadata),
         submissions  : PMap(Users, Done),
         leaderboard  : PMap(Users, Totals)]

ASSUME NoDocAssumption == NoDoc \notin Docs

FreshMetadata == [done |-> EmptyMap, total |-> 0]

\* The document CreateChallenge stores.
NewDoc(u) ==
    [creator      |-> u,
     status       |-> "open",
     participants |-> [x \in {u} |-> FreshMetadata],
     submissions  |-> EmptyMap,
     leaderboard  |-> [x \in {u} |-> 0]]

\* Mutant: a join puts a finished challenge back to open.
WithParticipant_Reopens(d, u, m) ==
    [d EXCEPT !.participants = Put(@, u, m), !.status = "open"]

\* AddParticipant's and RemoveParticipant's edits of the document they read.
WithParticipant(d, u, m) == [d EXCEPT !.participants = Put(@, u, m)]
WithoutParticipant(d, u) ==
    [d EXCEPT !.participants = Drop(@, u), !.submissions = Drop(@, u)]

\* Mutants: the score is added to the total instead of recomputing it; the
\* submission is filed under the creator; it is dropped when it is the first.
Credit_Accumulates(d, u, p, s) ==
    [d EXCEPT !.participants = Put(@, u, [done |-> Put(@[u].done, p, s),
                                          total |-> @[u].total + s])]
Credit_WrongUser(d, u, p, s) ==
    [d EXCEPT !.submissions = Put(@, d.creator, Put(EmptyMap, p, s))]
Credit_NoFirst(d, u, p, s) ==
    LET done == Put(d.participants[u].done, p, s)
    IN  [d EXCEPT !.participants = Put(@, u, [done |-> done, total |-> TotalScore(done)]),
                  !.submissions = IF u \in DOMAIN @ THEN Put(@, u, Put(@[u], p, s)) ELSE @]

\* PushSubmissionStatus: record the submission and recompute the total.
Credit(d, u, p, s) ==
    LET done == Put(d.participants[u].done, p, s)
        made == IF u \in DOMAIN d.submissions THEN d.submissions[u] ELSE EmptyMap
    IN  [d EXCEPT !.participants = Put(@, u, [done |-> done, total |-> TotalScore(done)]),
                  !.submissions = Put(@, u, Put(made, p, s))]

\* Mutant: only the participants count, the creator is taken to be one.
Occupies_ParticipantsOnly(d, u) ==
    d # NoDoc /\ d.status \notin Terminal /\ u \in DOMAIN d.participants

\* CanCreate: a challenge that stops u from creating another one.
Occupies(d, u) ==
    /\ d # NoDoc
    /\ d.status \notin Terminal
    /\ d.creator = u \/ u \in DOMAIN d.participants
====
