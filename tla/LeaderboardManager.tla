---- MODULE LeaderboardManager ----
(***************************************************************************)
(* LeaderboardManager: the map from challenges to open RedisBoard boards,  *)
(* and the calls the handlers make on it, in the order they make them.     *)
(*                                                                         *)
(* getBoard looks a board up under the read lock and returns the pointer;  *)
(* the board is used after the lock is released, so another caller may     *)
(* close it in between.  A board is a connection to the scores Redis keeps *)
(* in the challenge's namespace.  RedisBoard is an external library: what  *)
(* it may answer, open or closed, is modelled from how the manager uses    *)
(* it.  The exchange sort of GetLeaderboard is modelled one comparison at  *)
(* a time.                                                                 *)
(***************************************************************************)
EXTENDS GoMaps, Integers, Sequences, FiniteSets

CONSTANTS
    Users,           \* user IDs, numbered in their lexicographic order
    Challenges,
    Problems,
    Scores,          \* what a submission may score
    Callers,         \* handlers
    Ops,             \* what the handlers may be
    Copies,          \* participants -> problem -> score, in a handler's document
    Kept,            \* scores an earlier process may have left in Redis
    Limits,          \* limits a client may ask of the leaderboard
    DefaultLimit,    \* the handler's, for a client that names none (100)
    K,               \* what a board keeps, and the handlers ask for (50)
    MayFail          \* may a call of RedisBoard on an open board fail?

\* The totals the documents of the handlers give.
Totals == {0} \union UNION {{SumFunction(copy[u]) : u \in DOMAIN copy} : copy \in Copies}

ASSUME LeaderboardAssumption ==
    /\ Users \subseteq Nat /\ IsFiniteSet(Users)
    /\ IsFiniteSet(Problems)
    /\ Scores \subseteq Int
    /\ \A copy \in Copies : copy \in PMap(Users, PMap(Problems, Scores))
    /\ Kept \subseteq PMap(Users, Totals)
    /\ Ops \subseteq {"create", "join", "push", "retrieve", "list", "end"}
    /\ Limits \subseteq Int
    /\ {DefaultLimit, K} \subseteq Nat \ {0}
    /\ MayFail \in BOOLEAN

\* A sum of integers is one.
ASSUME TotalsAssumption == Totals \subseteq Int

VARIABLES
    Boards,          \* challenge -> the number of its board in the map, 0: none
    opened,          \* challenge -> number of boards opened for it so far
    alive,           \* <<challenge, number>> of the boards that are open
    failed,          \* history: boards a Close failed on
    scores,          \* challenge -> what Redis keeps: user -> score
    pc,              \* caller -> its next step
    job,             \* caller -> what it does
    board,           \* caller -> the board getBoard returned
    list,            \* caller -> the leaderboard it builds
    outer, inner,    \* caller -> i and j of the sort
    rank,            \* caller -> newRank of a push, -1: none
    seen,            \* history: caller -> the scores when it asked for the top
    calm             \* history: caller -> no failure, and nobody interfered

redis == <<opened, alive, failed, scores>>
sorting == <<list, outer, inner, seen>>
vars == <<Boards, redis, pc, job, board, sorting, rank, calm>>

Entry == [u : Users, score : Totals, solved : Nat]
Steps == {"init", "getAdd", "add", "getList", "topK", "sort", "limit", "getRank", "rank", "close"}
First == [create |-> "init", join |-> "init", push |-> "init", retrieve |-> "init",
          list |-> "getList", end |-> "close"]

Jobs == [op : {"create", "join", "push"}, c : Challenges, u : Users, copy : Copies]
            \union [op : {"retrieve"}, c : Challenges, copy : Copies]
            \union [op : {"list"}, c : Challenges, copy : Copies, limit : Limits]
            \union [op : {"end"}, c : Challenges]

NoJob == [op |-> "none"]

C(r) == job[r].c
U(r) == job[r].u

TypeOK ==
    /\ opened \in [Challenges -> Nat]
    /\ \A c \in Challenges : Boards[c] \in 0..opened[c]
    /\ alive \subseteq {b \in Challenges \X Nat : b[2] \in 1..opened[b[1]]}
    /\ failed \subseteq {b \in Challenges \X Nat : b[2] \in 1..opened[b[1]]}
    /\ scores \in [Challenges -> PMap(Users, Totals)]
    /\ pc \in [Callers -> Steps \union {"idle", "done"}]
    /\ job \in [Callers -> Jobs \union {NoJob}]
    /\ board \in [Callers -> Nat]
    /\ list \in [Callers -> Seq(Entry)]
    /\ outer \in [Callers -> Nat] /\ inner \in [Callers -> Nat]
    /\ seen \in [Callers -> PMap(Users, Totals)]
    /\ rank \in [Callers -> {-1} \union (1..Cardinality(Users))]
    /\ calm \in [Callers -> BOOLEAN]

Init ==
    /\ Boards = [c \in Challenges |-> 0]
    /\ opened = [c \in Challenges |-> 0]
    /\ alive = {}
    /\ failed = {}
    /\ scores \in [Challenges -> Kept]
    /\ pc = [r \in Callers |-> "idle"]
    /\ job = [r \in Callers |-> NoJob]
    /\ board = [r \in Callers |-> 0]
    /\ list = [r \in Callers |-> <<>>]
    /\ outer = [r \in Callers |-> 0]
    /\ inner = [r \in Callers |-> 0]
    /\ seen = [r \in Callers |-> EmptyMap]
    /\ rank = [r \in Callers |-> -1]
    /\ calm = [r \in Callers |-> TRUE]

Goto(r, step) == pc' = [pc EXCEPT ![r] = step]

\* A handler comes to its first call of the manager.  Those that score a user
\* hold a copy of the document in which the user participates.
Receive(r) ==
    /\ pc[r] = "idle"
    /\ \E b \in Jobs :
         /\ b.op \in Ops
         /\ b.op \in {"create", "join", "push"} => b.u \in DOMAIN b.copy
         /\ job' = [job EXCEPT ![r] = b]
         /\ Goto(r, First[b.op])
    /\ UNCHANGED <<Boards, redis, board, sorting, rank, calm>>

\* The handlers at work on c, and those of them that score u.
On(c) == {q \in Callers : job[q] # NoJob /\ C(q) = c}
Scoring(c, u) == {q \in On(c) : job[q].op \in {"create", "join", "push"} /\ U(q) = u}

\* History: the calls of these handlers fail, or others interfere with them.
Disturbed(rs) == calm' = [q \in Callers |-> calm[q] /\ q \notin rs]

(***************************************************************************)
(* Opening and closing, under the lock.                                    *)
(***************************************************************************)
\* Where the handler goes on: join and push do so after an error as well.
AfterInit(r, ok) ==
    IF ok \/ job[r].op \in {"join", "push"}
    THEN IF job[r].op = "retrieve" THEN "getList" ELSE "getAdd"
    ELSE "done"

\* Mutant: a board is opened whether or not there is one.
InitializeLeaderboard_Always(r) ==
    /\ pc[r] = "init"
    /\ opened' = [opened EXCEPT ![C(r)] = @ + 1]
    /\ Boards' = [Boards EXCEPT ![C(r)] = opened'[C(r)]]
    /\ alive' = alive \union {<<C(r), opened'[C(r)]>>}
    /\ Goto(r, AfterInit(r, TRUE))
    /\ UNCHANGED <<failed, scores, calm, job, board, sorting, rank>>

\* Mutant: the new board is not put into the map.
InitializeLeaderboard_Forgets(r) ==
    /\ pc[r] = "init"
    /\ opened' = [opened EXCEPT ![C(r)] = @ + 1]
    /\ Goto(r, AfterInit(r, TRUE))
    /\ UNCHANGED <<Boards, alive, failed, scores, calm, job, board, sorting, rank>>

InitializeLeaderboard(r) ==
    /\ pc[r] = "init"
    /\ \/ /\ Boards[C(r)] # 0
          /\ Goto(r, AfterInit(r, TRUE))
          /\ UNCHANGED <<Boards, opened, alive, calm>>
       \/ /\ Boards[C(r)] = 0
          /\ opened' = [opened EXCEPT ![C(r)] = @ + 1]
          /\ Boards' = [Boards EXCEPT ![C(r)] = opened'[C(r)]]
          /\ alive' = alive \union {<<C(r), opened'[C(r)]>>}
          /\ Goto(r, AfterInit(r, TRUE))
          /\ UNCHANGED calm
       \/ /\ MayFail /\ Boards[C(r)] = 0
          /\ Goto(r, AfterInit(r, FALSE))
          /\ Disturbed({r})
          /\ UNCHANGED <<Boards, opened, alive>>
    /\ UNCHANGED <<failed, scores, job, board, sorting, rank>>

\* A board that was closed may or may not have left its scores in Redis; one
\* whose Close failed is open or not, and stays in the map.
CleanupLeaderboard(r) ==
    /\ pc[r] = "close"
    /\ Goto(r, "done")
    /\ LET b == <<C(r), Boards[C(r)]>>
       IN  \/ /\ Boards[C(r)] = 0
              /\ UNCHANGED <<Boards, alive, failed, scores, calm>>
           \/ /\ Boards[C(r)] # 0
              /\ Boards' = [Boards EXCEPT ![C(r)] = 0]
              /\ alive' = alive \ {b}
              /\ scores' \in {scores, [scores EXCEPT ![C(r)] = EmptyMap]}
              /\ Disturbed(On(C(r)))
              /\ UNCHANGED failed
           \/ /\ Boards[C(r)] # 0 /\ MayFail
              /\ alive' \in {alive, alive \ {b}}
              /\ failed' = failed \union {b}
              /\ Disturbed(On(C(r)))
              /\ UNCHANGED <<Boards, scores>>
    /\ UNCHANGED <<opened, job, board, sorting, rank>>

(***************************************************************************)
(* Using a board, outside the lock.  One that another caller closed fails, *)
(* or still reaches Redis.                                                 *)
(***************************************************************************)
Open(r) == <<C(r), board[r]>> \in alive

\* getBoard, and where the handler goes when there is none.
GetBoard(r, from, to, miss) ==
    /\ pc[r] = from
    /\ board' = [board EXCEPT ![r] = Boards[C(r)]]
    /\ Goto(r, IF Boards[C(r)] = 0 THEN miss ELSE to)
    /\ UNCHANGED <<Boards, redis, job, sorting, rank, calm>>

AfterAdd(r) == IF job[r].op = "create" THEN "done" ELSE "getList"
AfterList(r) == IF job[r].op = "push" THEN "getRank" ELSE "done"

\* The handler's copy gives the total; a fresh challenge starts its creator at 0.
Total(r) == IF job[r].op = "create" THEN 0 ELSE SumFunction(job[r].copy[U(r)])

\* AddUser puts the user's score in place of the last one.
AddUser(r) ==
    /\ pc[r] = "add"
    /\ Goto(r, AfterAdd(r))
    /\ \/ /\ scores' = [scores EXCEPT ![C(r)] = Put(@, U(r), Total(r))]
          /\ Disturbed((Scoring(C(r), U(r)) \ {r}) \union (IF Open(r) THEN {} ELSE {r}))
       \/ /\ MayFail \/ ~Open(r)
          /\ Disturbed({r})
          /\ UNCHANGED scores
    /\ UNCHANGED <<Boards, opened, alive, failed, job, board, sorting, rank>>

\* CalculateProblemsCompleted: the problems u has scored on, in the copy.
CalculateProblemsCompleted(copy, u) ==
    IF u \in DOMAIN copy THEN Cardinality({p \in DOMAIN copy[u] : copy[u][p] > 0}) ELSE 0

\* What GetTopKGlobal may answer: K users (or all) of the highest scores, in
\* any order, whoever of those that tie at the cut.
TopK(s) ==
    {us \in UNION {[1..n -> DOMAIN s] : n \in {Cardinality(DOMAIN s), K}} :
        /\ Len(us) <= K
        /\ \A a, b \in DOMAIN us : a # b => us[a] # us[b]
        /\ \A u \in DOMAIN s \ Range(us) : \A a \in DOMAIN us : s[us[a]] >= s[u]}

\* GetTopKGlobal, and the conversion of what it returns.  With no users it
\* fails, which GetLeaderboard answers with an empty list.
GetTopKGlobal(r) ==
    /\ pc[r] = "topK"
    /\ \/ /\ \E us \in TopK(scores[C(r)]) :
               list' = [list EXCEPT ![r] =
                   [n \in DOMAIN us |-> [u |-> us[n], score |-> scores[C(r)][us[n]],
                                         solved |-> CalculateProblemsCompleted(job[r].copy, us[n])]]]
          /\ seen' = [seen EXCEPT ![r] = scores[C(r)]]
          /\ outer' = [outer EXCEPT ![r] = 1]
          /\ inner' = [inner EXCEPT ![r] = 2]
          /\ Goto(r, IF scores[C(r)] = EmptyMap THEN AfterList(r) ELSE "sort")
          /\ Disturbed(IF Open(r) THEN {} ELSE {r})
       \/ /\ MayFail \/ ~Open(r)
          /\ Goto(r, AfterList(r))
          /\ Disturbed({r})
          /\ UNCHANGED sorting
    /\ UNCHANGED <<Boards, redis, job, board, rank>>

\* Mutant: the problems decide although the scores differ.
ShouldSwap_NoEquality(e, f) ==
    \/ e.score < f.score
    \/ e.solved < f.solved
    \/ e.score = f.score /\ e.solved = f.solved /\ e.u > f.u

\* Score, problems completed, user ID.
ShouldSwap(e, f) ==
    \/ e.score < f.score
    \/ e.score = f.score /\ e.solved < f.solved
    \/ e.score = f.score /\ e.solved = f.solved /\ e.u > f.u

\* One turn of the two nested loops.
SortStep(r) ==
    /\ pc[r] = "sort"
    /\ LET l == list[r]
           a == outer[r]
           b == inner[r]
       IN  \/ /\ a <= Len(l) /\ b <= Len(l)
              /\ list' = [list EXCEPT ![r] =
                    IF ShouldSwap(l[a], l[b]) THEN [l EXCEPT ![a] = l[b], ![b] = l[a]] ELSE l]
              /\ inner' = [inner EXCEPT ![r] = b + 1]
              /\ UNCHANGED <<outer, pc>>
           \/ /\ a <= Len(l) /\ b > Len(l)
              /\ outer' = [outer EXCEPT ![r] = a + 1]
              /\ inner' = [inner EXCEPT ![r] = a + 2]
              /\ UNCHANGED <<list, pc>>
           \/ /\ a > Len(l)
              /\ Goto(r, "limit")
              /\ UNCHANGED <<list, outer, inner>>
    /\ UNCHANGED <<Boards, redis, job, board, seen, rank, calm>>

\* The limit the handler asks for.
Limit(r) ==
    IF job[r].op # "list" THEN K
    ELSE IF job[r].limit <= 0 THEN DefaultLimit ELSE job[r].limit

\* Ranks are the positions; the list is cut at the limit.
CutAtLimit(r) ==
    /\ pc[r] = "limit"
    /\ list' = [list EXCEPT ![r] =
          IF Limit(r) > 0 /\ Len(@) > Limit(r) THEN SubSeq(@, 1, Limit(r)) ELSE @]
    /\ Goto(r, AfterList(r))
    /\ UNCHANGED <<Boards, redis, job, board, outer, inner, seen, rank, calm>>

\* The global ranks, counted from 0, a board may give u: ties in any order.
GlobalRanks(s, u) ==
    LET higher == Cardinality({v \in DOMAIN s : s[v] > s[u]})
        equal  == Cardinality({v \in DOMAIN s : s[v] = s[u]})
    IN  IF u \in DOMAIN s THEN higher .. higher + equal - 1 ELSE {-1}

\* Mutants: the rank is passed on as RedisBoard counts it; a user who is not
\* found is given a rank as well.
PlaceOf_FromZero(g) == g
PlaceOf_NotFound(g) == g + 1

\* Counted from 1; -1 stays.
PlaceOf(g) == IF g = -1 THEN -1 ELSE g + 1

\* GetUserLeaderboardData, for PushSubmissionStatus: no answer is rank -1.
GetParticipantRank(r) ==
    /\ pc[r] = "rank"
    /\ Goto(r, "done")
    /\ \/ /\ \E g \in GlobalRanks(scores[C(r)], U(r)) : rank' = [rank EXCEPT ![r] = PlaceOf(g)]
          /\ Disturbed(IF Open(r) THEN {} ELSE {r})
       \/ /\ MayFail \/ ~Open(r)
          /\ Disturbed({r})
          /\ UNCHANGED rank
    /\ UNCHANGED <<Boards, redis, job, board, sorting>>

GetBoardStep(r) ==
    \/ GetBoard(r, "getAdd", "add", AfterAdd(r))
    \/ GetBoard(r, "getList", "topK", AfterList(r))
    \/ GetBoard(r, "getRank", "rank", "done")

AllDone == (\A r \in Callers : pc[r] = "done") /\ UNCHANGED vars

Next ==
    \/ \E r \in Callers :
         \/ Receive(r) \/ InitializeLeaderboard(r) \/ CleanupLeaderboard(r)
         \/ GetBoardStep(r) \/ AddUser(r) \/ GetTopKGlobal(r) \/ SortStep(r)
         \/ CutAtLimit(r) \/ GetParticipantRank(r)
    \/ AllDone

Spec == Init /\ [][Next]_vars

(***************************************************************************)
(* Properties.                                                             *)
(***************************************************************************)
\* The map has the open boards, one per challenge: InitializeLeaderboard does
\* not open a second one that nobody could close, and CleanupLeaderboard
\* forgets a board only when it closed it.  Only a board whose Close failed may
\* be in the map and not open.
MapMatchesBoards ==
    /\ \A b \in alive : Boards[b[1]] = b[2]
    /\ \A c \in Challenges : Boards[c] # 0 => <<c, Boards[c]>> \in alive \union failed

Before(e, f) ==
    \/ e.score > f.score
    \/ e.score = f.score /\ e.solved > f.solved
    \/ e.score = f.score /\ e.solved = f.solved /\ e.u < f.u

\* An answered leaderboard has the scores the board had, is ordered by score,
\* problems and user ID, names nobody twice and leaves out nobody with a
\* higher score than somebody on it.
AnswerIsTop ==
    \A r \in Callers : pc[r] \in {"getRank", "rank", "done"} =>
        LET l == list[r]
        IN  /\ \A n \in DOMAIN l :
                 /\ l[n].score = seen[r][l[n].u]
                 /\ \A m \in 1..(n - 1) : Before(l[m], l[n])
            /\ \A u \in DOMAIN seen[r] :
                 (\A n \in DOMAIN l : l[n].u # u) => \A n \in DOMAIN l : l[n].score >= seen[r][u]

\* A push that nothing failed for and nobody interfered with (no close of the
\* board, no other score of the same user) is on the leaderboard it sends out,
\* with its total, unless K users with as much are.
PushListsItself ==
    \A r \in Callers :
        pc[r] = "done" /\ job[r].op = "push" /\ calm[r] =>
            \/ \E n \in DOMAIN list[r] : list[r][n].u = U(r) /\ list[r][n].score = Total(r)
            \/ Len(list[r]) = K /\ \A n \in DOMAIN list[r] : list[r][n].score >= Total(r)

\* The rank such a push sends out is a place on the board and, when no score
\* changed since it asked for the leaderboard and nobody ties with it, its
\* position there.
RankAgrees ==
    [][\A r \in Callers :
         /\ pc[r] = "rank" /\ pc'[r] = "done" /\ calm'[r]
         /\ seen[r] = scores[C(r)]
         => /\ rank'[r] \in 1..Cardinality(DOMAIN seen[r])
            /\ \A n \in DOMAIN list[r] :
                 /\ list[r][n].u = U(r)
                 /\ \A v \in DOMAIN seen[r] \ {U(r)} : seen[r][v] # seen[r][U(r)]
                 => rank'[r] = n]_vars
====
