---- MODULE LeaderboardProofs ----
(***************************************************************************)
(* Theorems about LeaderboardManager, for every value of its constants.    *)
(***************************************************************************)
EXTENDS LeaderboardManager, GoMapsProofs, FiniteSetTheorems, SequenceTheorems, TLAPS

(***************************************************************************)
(* The inductive invariant.                                                *)
(***************************************************************************)
\* The steps of a handler, by what it does.
Listing == {"getList", "topK", "sort", "limit", "done"}
StepsOf == [none     |-> {"idle"},
            create   |-> {"init", "getAdd", "add", "done"},
            join     |-> {"init", "getAdd", "add"} \union Listing,
            push     |-> {"init", "getAdd", "add", "getRank", "rank"} \union Listing,
            retrieve |-> {"init"} \union Listing,
            list     |-> Listing,
            end      |-> {"close", "done"}]

\* A handler that scores a user holds a copy in which the user participates.
InPlace(r) ==
    /\ pc[r] \in StepsOf[job[r].op]
    /\ job[r].op \in {"create", "join", "push"} => U(r) \in DOMAIN job[r].copy

\* Boards are numbered in the order in which they were opened.
TypeInv ==
    /\ TypeOK
    /\ Boards \in [Challenges -> Nat]
    /\ \A r \in Callers : InPlace(r)

BoardInv == TypeInv /\ MapMatchesBoards

\* At the start there is no board.
LEMMA InitBoardInv == Init => BoardInv
<1> SUFFICES ASSUME Init PROVE BoardInv
  OBVIOUS
<1> USE LeaderboardAssumption DEF Init
<1>1. EmptyMap \in PMap(Users, Totals)
  BY EmptyMapType
<1>2. <<>> \in Seq(Entry)
  OBVIOUS
<1>3. scores \in [Challenges -> PMap(Users, Totals)]
  OBVIOUS
<1>4. TypeOK
  BY <1>1, <1>2, <1>3 DEF TypeOK
<1>5. \A r \in Callers : InPlace(r)
  BY DEF InPlace, StepsOf, NoJob
<1>6. MapMatchesBoards
  BY DEF MapMatchesBoards
<1>7. QED
  BY <1>4, <1>5, <1>6 DEF BoardInv, TypeInv

\* What a job is, by its operation.
LEMMA JobFields ==
    ASSUME NEW b \in Jobs
    PROVE  /\ b # NoJob
           /\ b.c \in Challenges
           /\ b.op \in {"create", "join", "push", "retrieve", "list", "end"}
           /\ b.op \in {"create", "join", "push"} => b.u \in Users
           /\ b.op # "end" => b.copy \in Copies
           /\ b.op = "list" => b.limit \in Limits
BY DEF Jobs, NoJob

\* A handler that is at a step has a job, on a challenge.
LEMMA AtWork ==
    ASSUME TypeInv, NEW r \in Callers, pc[r] # "idle"
    PROVE  job[r] \in Jobs /\ C(r) \in Challenges /\ job[r] # NoJob
<1>1. job[r] \in Jobs \union {NoJob}
  BY DEF TypeInv, TypeOK
<1>2. job[r] # NoJob
  BY DEF TypeInv, InPlace, NoJob, StepsOf
<1>3. QED
  BY <1>1, <1>2, JobFields DEF C

\* A handler that comes in has a job and touches no board.
LEMMA ReceiveSafe ==
    ASSUME BoardInv, NEW r \in Callers, Receive(r)
    PROVE  BoardInv'
<1> USE DEF BoardInv, TypeInv
<1>1. PICK b \in Jobs :
        /\ b.op \in {"create", "join", "push"} => b.u \in DOMAIN b.copy
        /\ job' = [job EXCEPT ![r] = b]
        /\ pc' = [pc EXCEPT ![r] = First[b.op]]
  BY DEF Receive, Goto
<1>2. b.op \in {"create", "join", "push", "retrieve", "list", "end"}
  BY JobFields
<1>3. First[b.op] \in Steps /\ First[b.op] \in StepsOf[b.op]
  BY <1>2 DEF First, Steps, StepsOf, Listing
<1>4. pc' \in [Callers -> Steps \union {"idle", "done"}] /\ job' \in [Callers -> Jobs \union {NoJob}]
  BY <1>1, <1>3 DEF TypeOK
<1>5. UNCHANGED <<Boards, redis, board, sorting, rank, calm>>
  BY DEF Receive
<1>6. TypeOK'
  BY <1>4, <1>5 DEF TypeOK, redis, sorting
<1>7. \A q \in Callers : InPlace(q)'
  BY <1>1, <1>3 DEF TypeOK, InPlace, U
<1>8. MapMatchesBoards' /\ (Boards \in [Challenges -> Nat])'
  BY <1>5 DEF MapMatchesBoards, redis
<1>9. QED
  BY <1>6, <1>7, <1>8

\* A handler that goes on to another of its steps stays in place.
LEMMA Moves ==
    ASSUME TypeInv, NEW r \in Callers, pc[r] # "idle", UNCHANGED job,
           NEW step \in StepsOf[job[r].op], Goto(r, step)
    PROVE  /\ pc' \in [Callers -> Steps \union {"idle", "done"}]
           /\ \A q \in Callers : InPlace(q)'
<1>1. job[r].op \in {"create", "join", "push", "retrieve", "list", "end"}
  BY AtWork, JobFields
<1>2. step \in Steps \union {"done"}
  BY <1>1 DEF StepsOf, Steps, Listing
<1>3. pc' \in [Callers -> Steps \union {"idle", "done"}]
  BY <1>2 DEF Goto, TypeInv, TypeOK
<1>4. ASSUME NEW q \in Callers
      PROVE  InPlace(q)'
  <2>1. InPlace(q)
    BY DEF TypeInv
  <2>2. CASE q = r
    BY <2>1, <2>2 DEF InPlace, U, Goto, TypeInv, TypeOK
  <2>3. CASE q # r
    BY <2>1, <2>3 DEF InPlace, U, Goto, TypeInv, TypeOK
  <2>4. QED
    BY <2>2, <2>3
<1>5. QED
  BY <1>3, <1>4

\* The operations at each step.
LEMMA OpsAt ==
    ASSUME TypeInv, NEW r \in Callers
    PROVE  /\ pc[r] = "init" => job[r].op \in {"create", "join", "push", "retrieve"}
           /\ pc[r] \in {"getAdd", "add"} => job[r].op \in {"create", "join", "push"}
           /\ pc[r] \in {"getList", "topK", "sort", "limit"} =>
                job[r].op \in {"join", "push", "retrieve", "list"}
           /\ pc[r] \in {"getRank", "rank"} => job[r].op = "push"
           /\ pc[r] = "close" => job[r].op = "end"
<1>1. InPlace(r)
  BY DEF TypeInv
<1>2. pc[r] # "idle" => job[r].op \in {"create", "join", "push", "retrieve", "list", "end"}
  BY AtWork, JobFields
<1>3. QED
  BY <1>1, <1>2 DEF InPlace, StepsOf, Listing

\* History: who was disturbed.
LEMMA DisturbedType ==
    ASSUME TypeInv, NEW rs, Disturbed(rs)
    PROVE  calm' \in [Callers -> BOOLEAN]
BY DEF Disturbed

\* A new board gets a number nobody has, and the map's entry.
LEMMA InitializeLeaderboardSafe ==
    ASSUME BoardInv, NEW r \in Callers, InitializeLeaderboard(r)
    PROVE  BoardInv'
<1> DEFINE c == C(r)
<1>1. TypeInv /\ TypeOK /\ pc[r] = "init" /\ UNCHANGED job /\ c \in Challenges
  BY AtWork DEF BoardInv, TypeInv, InitializeLeaderboard
<1>2. job[r].op \in {"create", "join", "push", "retrieve"}
  BY <1>1, OpsAt
<1>3. \A ok \in BOOLEAN : AfterInit(r, ok) \in StepsOf[job[r].op]
  BY <1>2 DEF AfterInit, StepsOf, Listing
<1>4. \E ok \in BOOLEAN : Goto(r, AfterInit(r, ok))
  BY DEF InitializeLeaderboard
<1>5. /\ pc' \in [Callers -> Steps \union {"idle", "done"}]
      /\ \A q \in Callers : InPlace(q)'
  BY <1>1, <1>3, <1>4, Moves
<1>6. UNCHANGED calm \/ Disturbed({r})
  BY DEF InitializeLeaderboard
<1>7. calm' \in [Callers -> BOOLEAN]
  BY <1>1, <1>6, DisturbedType DEF TypeOK
<1>8. UNCHANGED <<failed, scores, job, board, sorting, rank>>
  BY DEF InitializeLeaderboard
<1>9. CASE UNCHANGED <<Boards, opened, alive>>
  <2>1. TypeOK'
    BY <1>1, <1>5, <1>7, <1>8, <1>9 DEF TypeOK, sorting
  <2>2. QED
    BY <1>5, <1>8, <1>9, <2>1 DEF BoardInv, TypeInv, MapMatchesBoards
<1>10. CASE ~UNCHANGED <<Boards, opened, alive>>
  <2>1. /\ Boards[c] = 0
        /\ opened' = [opened EXCEPT ![c] = @ + 1]
        /\ Boards' = [Boards EXCEPT ![c] = opened[c] + 1]
        /\ alive' = alive \union {<<c, opened[c] + 1>>}
    BY <1>1, <1>10 DEF InitializeLeaderboard, TypeOK
  <2>2. Boards \in [Challenges -> Nat] /\ opened \in [Challenges -> Nat]
    BY DEF BoardInv, TypeInv, TypeOK
  <2>3. Boards' \in [Challenges -> Nat] /\ opened' \in [Challenges -> Nat]
    BY <1>1, <2>1, <2>2
  <2>4. \A d \in Challenges : Boards'[d] \in 0..opened'[d]
    BY <1>1, <2>1, <2>2 DEF TypeOK
  <2>5. ASSUME NEW b \in (Challenges \X Nat), b[2] \in 1..opened[b[1]]
        PROVE  b[2] \in 1..opened'[b[1]]
    <3>1. b[1] \in Challenges /\ b[2] \in Nat
      OBVIOUS
    <3>2. opened'[b[1]] \in Nat /\ opened[b[1]] \in Nat /\ opened'[b[1]] >= opened[b[1]]
      BY <2>1, <2>2, <2>3, <3>1
    <3>3. QED
      BY <2>5, <3>1, <3>2
  <2>6. /\ alive' \subseteq {b \in Challenges \X Nat : b[2] \in 1..opened'[b[1]]}
        /\ failed' \subseteq {b \in Challenges \X Nat : b[2] \in 1..opened'[b[1]]}
    <3>1. <<c, opened[c] + 1>> \in {b \in Challenges \X Nat : b[2] \in 1..opened'[b[1]]}
      BY <1>1, <2>1, <2>2
    <3>2. QED
      BY <1>1, <1>8, <2>1, <2>5, <3>1 DEF TypeOK
  <2>7. TypeOK'
    BY <1>1, <1>5, <1>7, <1>8, <2>3, <2>4, <2>6 DEF TypeOK, sorting
  <2>8. \A b \in alive' : Boards'[b[1]] = b[2]
    <3>1. ASSUME NEW b \in alive, b[1] = c
          PROVE  FALSE
      BY <1>1, <2>1, <3>1 DEF TypeOK, BoardInv, MapMatchesBoards
    <3>2. \A b \in alive : b[1] \in Challenges /\ Boards[b[1]] = b[2]
      BY <1>1 DEF TypeOK, BoardInv, MapMatchesBoards
    <3>3. QED
      BY <1>1, <2>1, <2>2, <3>1, <3>2
  <2>9. \A d \in Challenges : Boards'[d] # 0 => <<d, Boards'[d]>> \in alive' \union failed'
    BY <1>1, <1>8, <2>1, <2>2 DEF BoardInv, MapMatchesBoards
  <2>10. QED
    BY <1>5, <2>3, <2>7, <2>8, <2>9 DEF BoardInv, TypeInv, MapMatchesBoards
<1>11. QED
  BY <1>9, <1>10

\* A closed board leaves the map; one whose Close failed is noted.
LEMMA CleanupLeaderboardSafe ==
    ASSUME BoardInv, NEW r \in Callers, CleanupLeaderboard(r)
    PROVE  BoardInv'
<1> DEFINE c == C(r)
           b == <<c, Boards[c]>>
<1>1. TypeInv /\ TypeOK /\ pc[r] = "close" /\ UNCHANGED job /\ c \in Challenges
  BY AtWork DEF BoardInv, TypeInv, CleanupLeaderboard
<1>2. "done" \in StepsOf[job[r].op]
  BY <1>1, OpsAt DEF StepsOf
<1>3. Goto(r, "done")
  BY DEF CleanupLeaderboard
<1>4. /\ pc' \in [Callers -> Steps \union {"idle", "done"}]
      /\ \A q \in Callers : InPlace(q)'
  BY <1>1, <1>2, <1>3, Moves
<1>5. UNCHANGED calm \/ Disturbed(On(C(r)))
  BY DEF CleanupLeaderboard
<1>6. calm' \in [Callers -> BOOLEAN]
  BY <1>1, <1>5, DisturbedType DEF TypeOK
<1>7. UNCHANGED <<opened, job, board, sorting, rank>>
  BY DEF CleanupLeaderboard
<1>8. scores' \in [Challenges -> PMap(Users, Totals)]
  <2>1. EmptyMap \in PMap(Users, Totals)
    BY EmptyMapType
  <2>2. scores' = scores \/ scores' = [scores EXCEPT ![c] = EmptyMap]
    BY DEF CleanupLeaderboard
  <2>3. QED
    BY <1>1, <2>1, <2>2 DEF TypeOK
<1>9. Boards \in [Challenges -> Nat] /\ MapMatchesBoards
  BY DEF BoardInv, TypeInv
<1>10. /\ Boards' \in [Challenges -> Nat]
       /\ alive' \subseteq alive
       /\ failed' \subseteq failed \union (IF Boards[c] = 0 THEN {} ELSE {b})
       /\ \A d \in Challenges : Boards'[d] \in {0, Boards[d]}
  BY <1>1, <1>9 DEF CleanupLeaderboard
<1>11. Boards[c] # 0 => b \in {e \in Challenges \X Nat : e[2] \in 1..opened[e[1]]}
  <2>1. Boards[c] \in 0..opened[c] /\ opened[c] \in Nat /\ Boards[c] \in Nat
    BY <1>1, <1>9 DEF TypeOK
  <2>2. Boards[c] # 0 => Boards[c] \in 1..opened[c]
    BY <2>1
  <2>3. b \in Challenges \X Nat /\ b[1] = c /\ b[2] = Boards[c]
    BY <1>1, <2>1
  <2>4. QED
    BY <2>2, <2>3
<1>12. TypeOK'
  <2>1. /\ alive' \subseteq {e \in Challenges \X Nat : e[2] \in 1..opened'[e[1]]}
        /\ failed' \subseteq {e \in Challenges \X Nat : e[2] \in 1..opened'[e[1]]}
    <3>1. /\ alive \subseteq {e \in Challenges \X Nat : e[2] \in 1..opened[e[1]]}
          /\ failed \subseteq {e \in Challenges \X Nat : e[2] \in 1..opened[e[1]]}
      BY <1>1 DEF TypeOK
    <3>2. opened' = opened
      BY <1>7
    <3>3. QED
      BY <1>10, <1>11, <3>1, <3>2
  <2>2. \A d \in Challenges : Boards'[d] \in 0..opened'[d]
    <3>1. ASSUME NEW d \in Challenges
          PROVE  Boards'[d] \in 0..opened'[d]
      <4>1. opened[d] \in Nat /\ Boards[d] \in 0..opened[d] /\ opened' = opened
        BY <1>1, <1>7 DEF TypeOK
      <4>2. QED
        BY <1>10, <4>1
    <3>2. QED
      BY <3>1
  <2>3. QED
    BY <1>1, <1>4, <1>6, <1>7, <1>8, <2>1, <2>2 DEF TypeOK, sorting
<1>13. MapMatchesBoards'
  <2>1. CASE UNCHANGED <<Boards, alive, failed>>
    BY <1>9, <2>1 DEF MapMatchesBoards
  <2>2. CASE /\ Boards' = [Boards EXCEPT ![c] = 0]
             /\ alive' = alive \ {b}
             /\ UNCHANGED failed
    <3>1. ASSUME NEW e \in alive, e # b
          PROVE  Boards'[e[1]] = e[2]
      <4>1. e \in Challenges \X Nat /\ Boards[e[1]] = e[2]
        BY <1>1, <1>9 DEF TypeOK, MapMatchesBoards
      <4>2. e[1] # c
        BY <3>1, <4>1
      <4>3. QED
        BY <1>9, <2>2, <4>1, <4>2
    <3>2. ASSUME NEW d \in Challenges, Boards'[d] # 0
          PROVE  <<d, Boards'[d]>> \in alive' \union failed'
      <4>1. d # c /\ Boards'[d] = Boards[d]
        BY <1>9, <2>2, <3>2
      <4>2. QED
        BY <1>9, <2>2, <3>2, <4>1 DEF MapMatchesBoards
    <3>3. QED
      BY <2>2, <3>1, <3>2 DEF MapMatchesBoards
  <2>3. CASE /\ alive' \in {alive, alive \ {b}}
             /\ failed' = failed \union {b}
             /\ UNCHANGED Boards
    BY <1>9, <2>3 DEF MapMatchesBoards
  <2>4. QED
    BY <2>1, <2>2, <2>3 DEF CleanupLeaderboard
<1>14. QED
  BY <1>4, <1>10, <1>12, <1>13 DEF BoardInv, TypeInv

(***************************************************************************)
(* The steps that leave the boards alone.                                  *)
(***************************************************************************)
\* The types and the map after a step that opens and closes nothing.
LEMMA BoardsAlone ==
    ASSUME BoardInv, NEW r \in Callers, pc[r] # "idle",
           NEW step \in StepsOf[job[r].op], Goto(r, step),
           UNCHANGED <<Boards, opened, alive, failed, job>>,
           scores' \in [Challenges -> PMap(Users, Totals)],
           board' \in [Callers -> Nat],
           list' \in [Callers -> Seq(Entry)],
           outer' \in [Callers -> Nat], inner' \in [Callers -> Nat],
           seen' \in [Callers -> PMap(Users, Totals)],
           rank' \in [Callers -> {-1} \union (1..Cardinality(Users))],
           calm' \in [Callers -> BOOLEAN]
    PROVE  BoardInv'
<1>1. TypeInv /\ TypeOK /\ MapMatchesBoards
  BY DEF BoardInv, TypeInv
<1>2. /\ pc' \in [Callers -> Steps \union {"idle", "done"}]
      /\ \A q \in Callers : InPlace(q)'
  BY <1>1, Moves
<1>3. TypeOK'
  BY <1>1, <1>2 DEF TypeOK
<1>4. MapMatchesBoards'
  BY <1>1 DEF MapMatchesBoards
<1>5. QED
  BY <1>1, <1>2, <1>3, <1>4 DEF BoardInv, TypeInv

\* The types of what a step finds.
LEMMA Types ==
    ASSUME BoardInv
    PROVE  /\ TypeInv
           /\ Boards \in [Challenges -> Nat]
           /\ scores \in [Challenges -> PMap(Users, Totals)]
           /\ board \in [Callers -> Nat]
           /\ list \in [Callers -> Seq(Entry)]
           /\ outer \in [Callers -> Nat] /\ inner \in [Callers -> Nat]
           /\ seen \in [Callers -> PMap(Users, Totals)]
           /\ rank \in [Callers -> {-1} \union (1..Cardinality(Users))]
           /\ calm \in [Callers -> BOOLEAN]
BY DEF BoardInv, TypeInv, TypeOK

\* Looking a board up changes neither the map nor a board.
LEMMA GetBoardSafe ==
    ASSUME BoardInv, NEW r \in Callers, GetBoardStep(r)
    PROVE  BoardInv'
<1>1. PICK step \in StepsOf[job[r].op] :
        /\ pc[r] # "idle"
        /\ Goto(r, step)
        /\ board' = [board EXCEPT ![r] = Boards[C(r)]]
        /\ UNCHANGED <<Boards, redis, job, sorting, rank, calm>>
  <2>1. ASSUME NEW from, NEW to, NEW miss, GetBoard(r, from, to, miss)
        PROVE  \E step \in {to, miss} :
                 /\ Goto(r, step)
                 /\ board' = [board EXCEPT ![r] = Boards[C(r)]]
                 /\ UNCHANGED <<Boards, redis, job, sorting, rank, calm>>
    BY <2>1 DEF GetBoard
  <2>2. CASE GetBoard(r, "getAdd", "add", AfterAdd(r))
    <3>1. pc[r] = "getAdd" /\ job[r].op \in {"create", "join", "push"}
      BY <2>2, Types, OpsAt DEF GetBoard
    <3>2. {"add", AfterAdd(r)} \subseteq StepsOf[job[r].op]
      BY <3>1 DEF AfterAdd, StepsOf, Listing
    <3>3. QED
      BY <2>1, <2>2, <3>1, <3>2
  <2>3. CASE GetBoard(r, "getList", "topK", AfterList(r))
    <3>1. pc[r] = "getList" /\ job[r].op \in {"join", "push", "retrieve", "list"}
      BY <2>3, Types, OpsAt DEF GetBoard
    <3>2. {"topK", AfterList(r)} \subseteq StepsOf[job[r].op]
      BY <3>1 DEF AfterList, StepsOf, Listing
    <3>3. QED
      BY <2>1, <2>3, <3>1, <3>2
  <2>4. CASE GetBoard(r, "getRank", "rank", "done")
    <3>1. pc[r] = "getRank" /\ job[r].op = "push"
      BY <2>4, Types, OpsAt DEF GetBoard
    <3>2. {"rank", "done"} \subseteq StepsOf[job[r].op]
      BY <3>1 DEF StepsOf, Listing
    <3>3. QED
      BY <2>1, <2>4, <3>1, <3>2
  <2>5. QED
    BY <2>2, <2>3, <2>4 DEF GetBoardStep
<1>2. board' \in [Callers -> Nat]
  BY <1>1, Types, AtWork
<1>3. QED
  BY <1>1, <1>2, Types, BoardsAlone DEF redis, sorting

\* The total of the handler's copy is one of the totals.
LEMMA TotalType ==
    ASSUME BoardInv, NEW r \in Callers, pc[r] # "idle",
           job[r].op \in {"create", "join", "push"}
    PROVE  U(r) \in Users /\ Total(r) \in Totals
<1>1. job[r] \in Jobs /\ InPlace(r)
  BY Types, AtWork DEF TypeInv
<1>2. U(r) \in Users /\ job[r].copy \in Copies /\ U(r) \in DOMAIN job[r].copy
  BY <1>1, JobFields DEF InPlace, U
<1>3. SumFunction(job[r].copy[U(r)]) \in Totals
  BY <1>2 DEF Totals
<1>4. QED
  BY <1>2, <1>3 DEF Total, Totals

\* A score is a total of the user's.
LEMMA AddUserSafe ==
    ASSUME BoardInv, NEW r \in Callers, AddUser(r)
    PROVE  BoardInv'
<1>1. pc[r] = "add" /\ job[r].op \in {"create", "join", "push"} /\ C(r) \in Challenges
  BY Types, OpsAt, AtWork DEF AddUser
<1>2. AfterAdd(r) \in StepsOf[job[r].op]
  BY <1>1 DEF AfterAdd, StepsOf, Listing
<1>3. scores' \in [Challenges -> PMap(Users, Totals)]
  <2>1. scores[C(r)] \in PMap(Users, Totals)
    BY <1>1, Types
  <2>2. Put(scores[C(r)], U(r), Total(r)) \in PMap(Users, Totals)
    BY <1>1, <2>1, TotalType, PutType
  <2>3. scores' \in {scores, [scores EXCEPT ![C(r)] = Put(scores[C(r)], U(r), Total(r))]}
    BY DEF AddUser
  <2>4. QED
    BY <2>2, <2>3, Types
<1>4. calm' \in [Callers -> BOOLEAN]
  BY Types, DisturbedType DEF AddUser
<1>5. QED
  BY <1>1, <1>2, <1>3, <1>4, Types, BoardsAlone DEF AddUser, sorting

\* The problems completed are a number.
LEMMA CompletedType ==
    ASSUME NEW copy \in Copies, NEW u
    PROVE  CalculateProblemsCompleted(copy, u) \in Nat
<1>1. CASE u \in DOMAIN copy
  <2> DEFINE P == {p \in DOMAIN copy[u] : copy[u][p] > 0}
  <2>1. copy \in PMap(Users, PMap(Problems, Scores)) /\ IsFiniteSet(Problems)
    BY LeaderboardAssumption
  <2>2. copy[u] \in PMap(Problems, Scores)
    BY <1>1, <2>1, EntryType
  <2>3. P \subseteq Problems
    BY <2>2, EntryType
  <2>4. Cardinality(P) \in Nat
    BY <2>1, <2>3, FS_Subset, FS_CardinalityType
  <2>5. QED
    BY <1>1, <2>4 DEF CalculateProblemsCompleted
<1>2. CASE u \notin DOMAIN copy
  BY <1>2 DEF CalculateProblemsCompleted
<1>3. QED
  BY <1>1, <1>2

\* What GetTopKGlobal answers is a sequence of users on the board.
LEMMA TopKType ==
    ASSUME NEW s \in PMap(Users, Totals), NEW us \in TopK(s)
    PROVE  /\ us \in Seq(DOMAIN s)
           /\ DOMAIN s \subseteq Users /\ IsFiniteSet(DOMAIN s)
           /\ Len(us) \in {Cardinality(DOMAIN s), K}
<1>1. DOMAIN s \subseteq Users /\ IsFiniteSet(Users)
  BY EntryType, LeaderboardAssumption
<1>2. IsFiniteSet(DOMAIN s) /\ Cardinality(DOMAIN s) \in Nat
  BY <1>1, FS_Subset, FS_CardinalityType
<1>3. PICK n \in {Cardinality(DOMAIN s), K} : us \in [1..n -> DOMAIN s]
  BY DEF TopK
<1>4. n \in Nat
  BY <1>2, LeaderboardAssumption
<1>5. us \in Seq(DOMAIN s) /\ Len(us) = n
  BY <1>3, <1>4, SeqDef
<1>6. QED
  BY <1>1, <1>2, <1>3, <1>5

\* The entries made of it.
Entries(r, us, s) ==
    [n \in DOMAIN us |-> [u |-> us[n], score |-> s[us[n]],
                          solved |-> CalculateProblemsCompleted(job[r].copy, us[n])]]

\* The entries made of an answer of RedisBoard are entries.
LEMMA EntriesType ==
    ASSUME NEW r \in Callers, job[r].copy \in Copies,
           NEW s \in PMap(Users, Totals), NEW us \in TopK(s)
    PROVE  /\ Entries(r, us, s) \in Seq(Entry)
           /\ DOMAIN Entries(r, us, s) = DOMAIN us
           /\ DOMAIN us = 1..Len(us) /\ Len(us) \in Nat
<1>1. us \in Seq(DOMAIN s) /\ DOMAIN s \subseteq Users
  BY TopKType
<1>2. DOMAIN us = 1..Len(us) /\ Len(us) \in Nat
  BY <1>1
<1>3. ASSUME NEW n \in 1..Len(us)
      PROVE  Entries(r, us, s)[n] \in Entry
  <2>1. us[n] \in DOMAIN s /\ us[n] \in Users
    BY <1>1
  <2>2. s[us[n]] \in Totals
    BY <2>1, EntryType
  <2>3. CalculateProblemsCompleted(job[r].copy, us[n]) \in Nat
    BY CompletedType
  <2>4. QED
    BY <1>2, <2>1, <2>2, <2>3 DEF Entries, Entry
<1>4. Entries(r, us, s) \in [1..Len(us) -> Entry]
  BY <1>2, <1>3 DEF Entries
<1>5. QED
  BY <1>2, <1>4, SeqDef DEF Entries

\* Asking for the top fills the list and starts the loops.
LEMMA GetTopKGlobalSafe ==
    ASSUME BoardInv, NEW r \in Callers, GetTopKGlobal(r)
    PROVE  BoardInv'
<1> DEFINE s == scores[C(r)]
<1>1. /\ pc[r] = "topK" /\ job[r].op \in {"join", "push", "retrieve", "list"}
      /\ C(r) \in Challenges /\ job[r].copy \in Copies
  BY Types, OpsAt, AtWork, JobFields DEF GetTopKGlobal
<1>2. s \in PMap(Users, Totals)
  BY <1>1, Types
<1>3. PICK step \in {"sort", AfterList(r)} : Goto(r, step)
  BY DEF GetTopKGlobal
<1>4. step \in StepsOf[job[r].op]
  BY <1>1 DEF AfterList, StepsOf, Listing
<1>5. /\ list' \in [Callers -> Seq(Entry)]
      /\ outer' \in [Callers -> Nat] /\ inner' \in [Callers -> Nat]
      /\ seen' \in [Callers -> PMap(Users, Totals)]
  <2>1. CASE UNCHANGED sorting
    BY <2>1, Types DEF sorting
  <2>2. CASE /\ \E us \in TopK(s) : list' = [list EXCEPT ![r] = Entries(r, us, s)]
             /\ seen' = [seen EXCEPT ![r] = s]
             /\ outer' = [outer EXCEPT ![r] = 1]
             /\ inner' = [inner EXCEPT ![r] = 2]
    BY <1>1, <1>2, <2>2, Types, EntriesType
  <2>3. QED
    BY <2>1, <2>2 DEF GetTopKGlobal, Entries
<1>6. calm' \in [Callers -> BOOLEAN]
  BY Types, DisturbedType DEF GetTopKGlobal
<1>7. QED
  BY <1>1, <1>3, <1>4, <1>5, <1>6, Types, BoardsAlone DEF GetTopKGlobal, redis

\* Two entries of a sequence change places.
LEMMA SwapType ==
    ASSUME NEW S, NEW l \in Seq(S), NEW a \in DOMAIN l, NEW b \in DOMAIN l
    PROVE  /\ [l EXCEPT ![a] = l[b], ![b] = l[a]] \in Seq(S)
           /\ DOMAIN [l EXCEPT ![a] = l[b], ![b] = l[a]] = DOMAIN l
<1>1. l \in [1..Len(l) -> S] /\ Len(l) \in Nat
  OBVIOUS
<1>2. [l EXCEPT ![a] = l[b], ![b] = l[a]] \in [1..Len(l) -> S]
  BY <1>1
<1>3. QED
  BY <1>1, <1>2, SeqDef

\* What a turn of the loops does to the list.
Sorted1(l, a, b) ==
    IF ShouldSwap(l[a], l[b]) THEN [l EXCEPT ![a] = l[b], ![b] = l[a]] ELSE l

\* One comparison of the sort leaves a list of entries.
LEMMA Sorted1Type ==
    ASSUME NEW l \in Seq(Entry), NEW a \in 1..Len(l), NEW b \in 1..Len(l)
    PROVE  Sorted1(l, a, b) \in Seq(Entry) /\ DOMAIN Sorted1(l, a, b) = DOMAIN l
<1>1. a \in DOMAIN l /\ b \in DOMAIN l
  OBVIOUS
<1>2. QED
  BY <1>1, SwapType DEF Sorted1

\* One turn of the loops touches the list and the loop variables.
LEMMA SortStepSafe ==
    ASSUME BoardInv, NEW r \in Callers, SortStep(r),
           inner[r] > outer[r], outer[r] >= 1
    PROVE  BoardInv'
<1> DEFINE l == list[r]
           a == outer[r]
           b == inner[r]
<1>1. pc[r] = "sort" /\ job[r].op \in {"join", "push", "retrieve", "list"}
  BY Types, OpsAt DEF SortStep
<1>2. a \in Nat /\ b \in Nat /\ l \in Seq(Entry)
  BY Types
<1>3. PICK step \in {"sort", "limit"} : Goto(r, step)
  <2>1. UNCHANGED pc \/ Goto(r, "limit")
    BY DEF SortStep
  <2>2. UNCHANGED pc => Goto(r, "sort")
    BY <1>1 DEF Goto, BoardInv, TypeInv, TypeOK
  <2>3. QED
    BY <2>1, <2>2
<1>4. step \in StepsOf[job[r].op]
  BY <1>1 DEF StepsOf, Listing
<1>5. list' \in [Callers -> Seq(Entry)]
  <2>1. \/ UNCHANGED list
        \/ a <= Len(l) /\ b <= Len(l) /\ list' = [list EXCEPT ![r] = Sorted1(l, a, b)]
    BY DEF SortStep, Sorted1
  <2>2. a <= Len(l) /\ b <= Len(l) => Sorted1(l, a, b) \in Seq(Entry)
    BY <1>2, Sorted1Type
  <2>3. QED
    BY <2>1, <2>2, Types
<1>6. outer' \in [Callers -> Nat] /\ inner' \in [Callers -> Nat]
  <2>1. \/ UNCHANGED <<outer, inner>>
        \/ UNCHANGED outer /\ inner' = [inner EXCEPT ![r] = b + 1]
        \/ outer' = [outer EXCEPT ![r] = a + 1] /\ inner' = [inner EXCEPT ![r] = a + 2]
    BY DEF SortStep
  <2>2. a + 1 \in Nat /\ a + 2 \in Nat /\ b + 1 \in Nat
    BY <1>2
  <2>3. QED
    BY <2>1, <2>2, Types
<1>7. QED
  BY <1>1, <1>3, <1>4, <1>5, <1>6, Types, BoardsAlone DEF SortStep, redis

\* The list after the limit is a prefix of the list.
Prefixes(l) == {SubSeq(l, 1, n) : n \in 0..Len(l)} \union {l}

\* A prefix of a list is a list, and its entries are where they were.
LEMMA Prefix ==
    ASSUME NEW l \in Seq(Entry), NEW k \in Prefixes(l)
    PROVE  /\ k \in Seq(Entry)
           /\ Len(k) <= Len(l)
           /\ \A n \in DOMAIN k : n \in DOMAIN l /\ k[n] = l[n]
<1>1. CASE k = l
  BY <1>1
<1>2. ASSUME NEW n \in 0..Len(l), k = SubSeq(l, 1, n)
      PROVE  /\ k \in Seq(Entry)
             /\ Len(k) <= Len(l)
             /\ \A m \in DOMAIN k : m \in DOMAIN l /\ k[m] = l[m]
  BY <1>2
<1>3. QED
  BY <1>1, <1>2 DEF Prefixes

\* The cut leaves a prefix.
LEMMA CutStep ==
    ASSUME BoardInv, NEW r \in Callers, CutAtLimit(r)
    PROVE  \E k \in Prefixes(list[r]) : list' = [list EXCEPT ![r] = k]
<1> DEFINE l == list[r]
<1>1. pc[r] = "limit" /\ job[r].op \in {"join", "push", "retrieve", "list"} /\ job[r] \in Jobs
  BY Types, OpsAt, AtWork DEF CutAtLimit
<1>2. job[r].op = "list" => job[r].limit \in Limits
  BY <1>1, JobFields
<1>3. Limit(r) \in Int
  <2>1. K \in Int /\ DefaultLimit \in Int /\ Limits \subseteq Int
    BY LeaderboardAssumption
  <2>2. QED
    BY <1>2, <2>1 DEF Limit
<1>4. l \in Seq(Entry)
  BY Types
<1>5. CASE Limit(r) > 0 /\ Len(l) > Limit(r)
  <2>1. Limit(r) \in 0..Len(l)
    BY <1>3, <1>4, <1>5
  <2>2. SubSeq(l, 1, Limit(r)) \in Prefixes(l)
    BY <2>1 DEF Prefixes
  <2>3. QED
    BY <1>5, <2>2 DEF CutAtLimit
<1>6. CASE ~(Limit(r) > 0 /\ Len(l) > Limit(r))
  BY <1>6 DEF CutAtLimit, Prefixes
<1>7. QED
  BY <1>5, <1>6

\* So the list it leaves is one of entries.
LEMMA CutAtLimitSafe ==
    ASSUME BoardInv, NEW r \in Callers, CutAtLimit(r)
    PROVE  BoardInv'
<1>1. pc[r] = "limit" /\ job[r].op \in {"join", "push", "retrieve", "list"}
  BY Types, OpsAt DEF CutAtLimit
<1>2. AfterList(r) \in StepsOf[job[r].op] /\ Goto(r, AfterList(r))
  BY <1>1 DEF AfterList, StepsOf, Listing, CutAtLimit
<1>3. list' \in [Callers -> Seq(Entry)]
  <2>1. PICK k \in Prefixes(list[r]) : list' = [list EXCEPT ![r] = k]
    BY CutStep
  <2>2. list[r] \in Seq(Entry)
    BY Types
  <2>3. k \in Seq(Entry)
    BY <2>2, Prefix
  <2>4. QED
    BY <2>1, <2>3, Types
<1>4. QED
  BY <1>1, <1>2, <1>3, Types, BoardsAlone DEF CutAtLimit, redis

\* The rank a board gives is one of its places.
LEMMA RankType ==
    ASSUME NEW s \in PMap(Users, Totals), NEW u, NEW g \in GlobalRanks(s, u)
    PROVE  PlaceOf(g) \in {-1} \union (1..Cardinality(Users))
<1> DEFINE H == {v \in DOMAIN s : s[v] > s[u]}
           E == {v \in DOMAIN s : s[v] = s[u]}
<1>1. DOMAIN s \subseteq Users /\ IsFiniteSet(Users)
  BY EntryType, LeaderboardAssumption
<1>2. CASE u \notin DOMAIN s
  BY <1>2 DEF GlobalRanks, PlaceOf
<1>3. CASE u \in DOMAIN s
  <2>1. \A v \in DOMAIN s : s[v] \in Int
    BY EntryType, TotalsAssumption
  <2>2. IsFiniteSet(H) /\ IsFiniteSet(E)
    BY <1>1, FS_Subset
  <2>3. H \intersect E = {}
    BY <1>3, <2>1
  <2>4. Cardinality(H \union E) = Cardinality(H) + Cardinality(E) - Cardinality(H \intersect E)
    BY <2>2, FS_Union
  <2>5. Cardinality(H \intersect E) = 0
    BY <2>3, FS_EmptySet
  <2>6. Cardinality(H) \in Nat /\ Cardinality(E) \in Nat /\ Cardinality(Users) \in Nat
    BY <1>1, <2>2, FS_CardinalityType
  <2>7. Cardinality(H \union E) <= Cardinality(Users)
    BY <1>1, FS_Subset
  <2>8. g \in Cardinality(H) .. Cardinality(H) + Cardinality(E) - 1
    BY <1>3 DEF GlobalRanks
  <2>9. QED
    BY <2>4, <2>5, <2>6, <2>7, <2>8 DEF PlaceOf
<1>4. QED
  BY <1>2, <1>3

\* Asking for the rank sets the rank only.
LEMMA GetParticipantRankSafe ==
    ASSUME BoardInv, NEW r \in Callers, GetParticipantRank(r)
    PROVE  BoardInv'
<1>1. pc[r] = "rank" /\ job[r].op = "push" /\ C(r) \in Challenges
  BY Types, OpsAt, AtWork DEF GetParticipantRank
<1>2. "done" \in StepsOf[job[r].op] /\ Goto(r, "done")
  BY <1>1 DEF StepsOf, Listing, GetParticipantRank
<1>3. rank' \in [Callers -> {-1} \union (1..Cardinality(Users))]
  <2>1. scores[C(r)] \in PMap(Users, Totals)
    BY <1>1, Types
  <2>2. \/ UNCHANGED rank
        \/ \E g \in GlobalRanks(scores[C(r)], U(r)) : rank' = [rank EXCEPT ![r] = PlaceOf(g)]
    BY DEF GetParticipantRank
  <2>3. QED
    <3>1. CASE UNCHANGED rank
      BY <3>1, Types
    <3>2. ASSUME NEW g \in GlobalRanks(scores[C(r)], U(r)), rank' = [rank EXCEPT ![r] = PlaceOf(g)]
          PROVE  rank' \in [Callers -> {-1} \union (1..Cardinality(Users))]
      <4>1. PlaceOf(g) \in {-1} \union (1..Cardinality(Users))
        BY <2>1, RankType
      <4>2. QED
        BY <3>2, <4>1, Types
    <3>3. QED
      BY <2>2, <3>1, <3>2
<1>4. calm' \in [Callers -> BOOLEAN]
  BY Types, DisturbedType DEF GetParticipantRank
<1>5. QED
  BY <1>1, <1>2, <1>3, <1>4, Types, BoardsAlone DEF GetParticipantRank, redis, sorting

(***************************************************************************)
(* The lists: what GetLeaderboard has of its answer at each step.          *)
(***************************************************************************)
\* The entries are users of the board with its scores, each once.
Faithful(l, s) ==
    \A n \in DOMAIN l :
        /\ l[n].u \in DOMAIN s /\ l[n].score = s[l[n].u]
        /\ \A m \in DOMAIN l : m # n => l[m].u # l[n].u

\* Nobody who is left out has a higher score than somebody who is not.
Complete(l, s) ==
    \A u \in DOMAIN s :
        (\A n \in DOMAIN l : l[n].u # u) => \A n \in DOMAIN l : l[n].score >= s[u]

\* The entries before the a-th are where they belong.
OrderedUpTo(l, a) == \A m, n \in DOMAIN l : m < n /\ m < a => Before(l[m], l[n])
Ordered(l) == \A m, n \in DOMAIN l : m < n => Before(l[m], l[n])

\* The a-th comes before those from it to the b-th.
Leads(l, a, b) == \A n \in DOMAIN l : a < n /\ n < b => Before(l[a], l[n])

SortInv(l, a, b) == a >= 1 /\ b > a /\ OrderedUpTo(l, a) /\ Leads(l, a, b)

NoListYet == {"idle", "init", "getAdd", "add", "getList", "topK", "close"}

ListInv(r) ==
    /\ pc[r] \in NoListYet => list[r] = <<>>
    /\ Faithful(list[r], seen[r]) /\ Complete(list[r], seen[r])
    /\ IF pc[r] = "sort" THEN SortInv(list[r], outer[r], inner[r]) ELSE Ordered(list[r])

IInv == BoardInv /\ \A r \in Callers : ListInv(r)

\* What the order compares are integers.
LEMMA EntryFields ==
    ASSUME NEW e \in Entry
    PROVE  e.u \in Int /\ e.score \in Int /\ e.solved \in Int
<1>1. e.u \in Users /\ e.score \in Totals /\ e.solved \in Nat
  BY DEF Entry
<1>2. Users \subseteq Nat /\ Totals \subseteq Int
  BY LeaderboardAssumption, TotalsAssumption
<1>3. e.u \in Int
  <2>1. e.u \in Nat
    BY <1>1, <1>2
  <2>2. QED
    BY <2>1
<1>4. e.score \in Int
  BY <1>1, <1>2
<1>5. e.solved \in Int
  BY <1>1
<1>6. QED
  BY <1>3, <1>4, <1>5

\* Two different users are in one order or the other, and swapping restores it.
LEMMA SwapsOrBefore ==
    ASSUME NEW e \in Entry, NEW f \in Entry, e.u # f.u
    PROVE  IF ShouldSwap(e, f) THEN Before(f, e) ELSE Before(e, f)
BY EntryFields DEF ShouldSwap, Before

\* The order is transitive.
LEMMA BeforeTransitive ==
    ASSUME NEW e \in Entry, NEW f \in Entry, NEW g \in Entry, Before(e, f), Before(f, g)
    PROVE  Before(e, g)
BY EntryFields DEF Before

\* It is by score first.
LEMMA BeforeScores ==
    ASSUME NEW e \in Entry, NEW f \in Entry, Before(e, f)
    PROVE  e.score >= f.score
BY EntryFields DEF Before

\* What GetTopKGlobal answers is the start of a faithful, complete list.
LEMMA EntriesGood ==
    ASSUME NEW r \in Callers, job[r].copy \in Copies,
           NEW s \in PMap(Users, Totals), NEW us \in TopK(s)
    PROVE  LET l == Entries(r, us, s)
           IN  /\ Faithful(l, s) /\ Complete(l, s) /\ SortInv(l, 1, 2)
               /\ s = EmptyMap => Ordered(l)
<1> DEFINE l == Entries(r, us, s)
<1>1. DOMAIN l = DOMAIN us /\ DOMAIN us = 1..Len(us) /\ Len(us) \in Nat /\ us \in Seq(DOMAIN s)
  BY EntriesType, TopKType
<1>2. \A n \in DOMAIN us : us[n] \in DOMAIN s /\ l[n].u = us[n] /\ l[n].score = s[us[n]]
  BY <1>1 DEF Entries
<1>3. /\ \A a, b \in DOMAIN us : a # b => us[a] # us[b]
      /\ \A u \in DOMAIN s \ Range(us) : \A a \in DOMAIN us : s[us[a]] >= s[u]
  BY DEF TopK
<1>4. Faithful(l, s)
  BY <1>1, <1>2, <1>3 DEF Faithful
<1>5. Complete(l, s)
  <2>1. ASSUME NEW u \in DOMAIN s, \A n \in DOMAIN l : l[n].u # u, NEW n \in DOMAIN l
        PROVE  l[n].score >= s[u]
    <3>1. u \notin Range(us)
      BY <1>1, <1>2, <2>1 DEF Range
    <3>2. QED
      BY <1>1, <1>2, <1>3, <3>1
  <2>2. QED
    BY <2>1 DEF Complete
<1>6. SortInv(l, 1, 2)
  BY <1>1 DEF SortInv, OrderedUpTo, Leads
<1>7. s = EmptyMap => Ordered(l)
  BY <1>1, <1>2 DEF Ordered, EmptyMap
<1>8. QED
  BY <1>4, <1>5, <1>6, <1>7

\* A comparison keeps who is on the list and what has been sorted so far.
LEMMA Sorted1Good ==
    ASSUME NEW l \in Seq(Entry), NEW s, Faithful(l, s), Complete(l, s),
           NEW a \in Nat, NEW b \in Nat, SortInv(l, a, b), b <= Len(l)
    PROVE  LET k == Sorted1(l, a, b)
           IN  Faithful(k, s) /\ Complete(k, s) /\ SortInv(k, a, b + 1)
<1> DEFINE k == Sorted1(l, a, b)
<1>1. DOMAIN l = 1..Len(l) /\ Len(l) \in Nat /\ a \in DOMAIN l /\ b \in DOMAIN l /\ a < b
  BY DEF SortInv
<1>2. \A n \in DOMAIN l : l[n] \in Entry
  OBVIOUS
<1>3. l[a].u # l[b].u
  BY <1>1 DEF Faithful
<1>4. CASE ~ShouldSwap(l[a], l[b])
  <2>1. k = l
    BY <1>4 DEF Sorted1
  <2>2. Before(l[a], l[b])
    BY <1>1, <1>2, <1>3, <1>4, SwapsOrBefore
  <2>3. Leads(l, a, b + 1)
    BY <1>1, <2>2 DEF SortInv, Leads
  <2>4. QED
    BY <2>1, <2>3 DEF SortInv
<1>5. CASE ShouldSwap(l[a], l[b])
  <2>1. /\ DOMAIN k = DOMAIN l /\ k[a] = l[b] /\ k[b] = l[a]
        /\ \A n \in DOMAIN l \ {a, b} : k[n] = l[n]
    BY <1>1, <1>5 DEF Sorted1
  <2>2. Before(l[b], l[a])
    BY <1>1, <1>2, <1>3, <1>5, SwapsOrBefore
  <2>3. Faithful(k, s)
    BY <1>1, <2>1 DEF Faithful
  <2>4. Complete(k, s)
    <3>1. ASSUME NEW u \in DOMAIN s, \A n \in DOMAIN k : k[n].u # u, NEW n \in DOMAIN k
          PROVE  k[n].score >= s[u]
      <4>1. \A m \in DOMAIN l : l[m].u # u
        BY <1>1, <2>1, <3>1
      <4>2. \A m \in DOMAIN l : l[m].score >= s[u]
        BY <4>1 DEF Complete
      <4>3. QED
        BY <1>1, <2>1, <4>2
    <3>2. QED
      BY <3>1 DEF Complete
  <2>5. OrderedUpTo(k, a)
    <3>1. ASSUME NEW m \in DOMAIN k, NEW n \in DOMAIN k, m < n, m < a
          PROVE  Before(k[m], k[n])
      <4>1. k[m] = l[m]
        BY <1>1, <2>1, <3>1
      <4>2. PICK j \in DOMAIN l : k[n] = l[j] /\ m < j
        BY <1>1, <2>1, <3>1
      <4>3. QED
        BY <2>1, <3>1, <4>1, <4>2 DEF SortInv, OrderedUpTo
    <3>2. QED
      BY <3>1 DEF OrderedUpTo
  <2>6. Leads(k, a, b + 1)
    <3>1. ASSUME NEW n \in DOMAIN k, a < n, n < b + 1
          PROVE  Before(k[a], k[n])
      <4>1. CASE n = b
        BY <2>1, <2>2, <4>1
      <4>2. CASE n # b
        <5>1. n < b /\ k[n] = l[n]
          BY <1>1, <2>1, <3>1, <4>2
        <5>2. Before(l[a], l[n])
          BY <2>1, <3>1, <5>1 DEF SortInv, Leads
        <5>3. QED
          BY <1>1, <1>2, <2>1, <2>2, <5>1, <5>2, BeforeTransitive
      <4>3. QED
        BY <4>1, <4>2
    <3>2. QED
      BY <3>1 DEF Leads
  <2>7. QED
    BY <1>1, <2>3, <2>4, <2>5, <2>6 DEF SortInv
<1>6. QED
  BY <1>4, <1>5

\* The next turn of the outer loop; at its end the list is ordered.
LEMMA OuterGood ==
    ASSUME NEW l \in Seq(Entry), NEW a \in Nat, NEW b \in Nat, SortInv(l, a, b)
    PROVE  /\ b > Len(l) => SortInv(l, a + 1, a + 2)
           /\ a > Len(l) => Ordered(l)
<1>1. DOMAIN l = 1..Len(l) /\ Len(l) \in Nat
  OBVIOUS
<1>2. ASSUME b > Len(l)
      PROVE  SortInv(l, a + 1, a + 2)
  <2>1. ASSUME NEW m \in DOMAIN l, NEW n \in DOMAIN l, m < n, m < a + 1
        PROVE  Before(l[m], l[n])
    <3>1. CASE m < a
      BY <2>1, <3>1 DEF SortInv, OrderedUpTo
    <3>2. CASE m = a
      BY <1>1, <1>2, <2>1, <3>2 DEF SortInv, Leads
    <3>3. QED
      BY <1>1, <2>1, <3>1, <3>2
  <2>2. OrderedUpTo(l, a + 1)
    BY <2>1 DEF OrderedUpTo
  <2>3. Leads(l, a + 1, a + 2)
    BY <1>1 DEF Leads
  <2>4. QED
    BY <2>2, <2>3 DEF SortInv
<1>3. a > Len(l) => Ordered(l)
  BY <1>1 DEF SortInv, OrderedUpTo, Ordered
<1>4. QED
  BY <1>2, <1>3

\* A prefix of an ordered list leaves out nobody with a higher score.
LEMMA PrefixGood ==
    ASSUME NEW l \in Seq(Entry), NEW s, Faithful(l, s), Complete(l, s), Ordered(l),
           NEW k \in Prefixes(l)
    PROVE  Faithful(k, s) /\ Complete(k, s) /\ Ordered(k)
<1>1. /\ k \in Seq(Entry) /\ Len(k) <= Len(l)
      /\ \A n \in DOMAIN k : n \in DOMAIN l /\ k[n] = l[n]
  BY Prefix
<1>2. DOMAIN k = 1..Len(k) /\ DOMAIN l = 1..Len(l) /\ Len(k) \in Nat /\ Len(l) \in Nat
  BY <1>1
<1>3. Faithful(k, s)
  BY <1>1 DEF Faithful
<1>4. Ordered(k)
  BY <1>1 DEF Ordered
<1>5. ASSUME NEW u \in DOMAIN s, \A n \in DOMAIN k : k[n].u # u, NEW n \in DOMAIN k
      PROVE  k[n].score >= s[u]
  <2>1. CASE \A m \in DOMAIN l : l[m].u # u
    BY <1>1, <2>1 DEF Complete
  <2>2. ASSUME NEW j \in DOMAIN l, l[j].u = u
        PROVE  k[n].score >= s[u]
    <3>1. j \notin DOMAIN k
      BY <1>1, <1>5, <2>2
    <3>2. n < j
      BY <1>2, <3>1
    <3>3. Before(l[n], l[j])
      BY <1>1, <3>2 DEF Ordered
    <3>4. l[n].score >= l[j].score
      BY <1>1, <3>3, BeforeScores
    <3>5. QED
      BY <1>1, <2>2, <3>4 DEF Faithful
  <2>3. QED
    BY <2>1, <2>2
<1>6. QED
  BY <1>3, <1>4, <1>5 DEF Complete

(***************************************************************************)
(* The steps and the lists.                                                *)
(***************************************************************************)
LEMMA InitIInv == Init => IInv
<1> SUFFICES ASSUME Init PROVE IInv
  OBVIOUS
<1>1. ASSUME NEW r \in Callers
      PROVE  ListInv(r)
  <2>1. pc[r] = "idle" /\ list[r] = <<>> /\ DOMAIN list[r] = {}
    BY DEF Init
  <2>2. QED
    BY <2>1 DEF ListInv, Faithful, Complete, Ordered
<1>2. QED
  BY <1>1, InitBoardInv DEF IInv

\* A step of r concerns no other handler's list.
LEMMA OthersKeep ==
    ASSUME IInv, NEW r \in Callers,
           NEW q \in Callers, q # r, pc'[q] = pc[q], list'[q] = list[q],
           seen'[q] = seen[q], outer'[q] = outer[q], inner'[q] = inner[q]
    PROVE  ListInv(q)'
BY DEF IInv, ListInv, SortInv, OrderedUpTo, Leads, Ordered, Faithful, Complete

\* Neither does a step that is not one of GetLeaderboard concern that of r.
LEMMA QuietStep ==
    ASSUME IInv, NEW r \in Callers, NEW step, Goto(r, step), UNCHANGED sorting,
           pc[r] # "sort", step # "sort", step \in NoListYet => pc[r] \in NoListYet
    PROVE  \A q \in Callers : ListInv(q)'
<1>1. pc \in [Callers -> Steps \union {"idle", "done"}]
  BY DEF IInv, BoardInv, TypeInv, TypeOK
<1>2. pc'[r] = step /\ \A q \in Callers \ {r} : pc'[q] = pc[q]
  BY <1>1 DEF Goto
<1>3. ListInv(r)
  BY DEF IInv
<1>4. ListInv(r)'
  BY <1>2, <1>3 DEF ListInv, sorting, Ordered, Faithful, Complete
<1>5. QED
  BY <1>2, <1>4, OthersKeep DEF sorting

\* What RedisBoard answers is faithful and complete, not yet in order.
LEMMA GetTopKGlobalLists ==
    ASSUME IInv, NEW r \in Callers, GetTopKGlobal(r)
    PROVE  \A q \in Callers : ListInv(q)'
<1> DEFINE s == scores[C(r)]
<1>1. /\ pc[r] = "topK" /\ job[r].op \in {"join", "push", "retrieve", "list"}
      /\ C(r) \in Challenges /\ job[r].copy \in Copies
  BY Types, OpsAt, AtWork, JobFields DEF GetTopKGlobal, IInv
<1>2. AfterList(r) \notin NoListYet /\ AfterList(r) # "sort"
  BY DEF AfterList, NoListYet
<1>3. CASE Goto(r, AfterList(r)) /\ UNCHANGED sorting
  BY <1>1, <1>2, <1>3, QuietStep
<1>4. ASSUME NEW us \in TopK(s),
             list' = [list EXCEPT ![r] = Entries(r, us, s)],
             seen' = [seen EXCEPT ![r] = s],
             outer' = [outer EXCEPT ![r] = 1],
             inner' = [inner EXCEPT ![r] = 2],
             Goto(r, IF s = EmptyMap THEN AfterList(r) ELSE "sort")
      PROVE  \A q \in Callers : ListInv(q)'
  <2>1. s \in PMap(Users, Totals) /\ BoardInv
    BY <1>1, Types DEF IInv
  <2>2. /\ Faithful(Entries(r, us, s), s) /\ Complete(Entries(r, us, s), s)
        /\ SortInv(Entries(r, us, s), 1, 2)
        /\ s = EmptyMap => Ordered(Entries(r, us, s))
    BY <1>1, <2>1, EntriesGood
  <2>3. pc \in [Callers -> Steps \union {"idle", "done"}]
    BY DEF IInv, BoardInv, TypeInv, TypeOK
  <2>4. /\ list'[r] = Entries(r, us, s) /\ seen'[r] = s /\ outer'[r] = 1 /\ inner'[r] = 2
        /\ pc'[r] = IF s = EmptyMap THEN AfterList(r) ELSE "sort"
    BY <1>4, <2>1, <2>3, Types DEF Goto
  <2>5. pc'[r] \notin NoListYet /\ (pc'[r] = "sort" <=> s # EmptyMap)
    BY <1>2, <2>4 DEF NoListYet
  <2>6. ListInv(r)'
    BY <2>2, <2>4, <2>5 DEF ListInv
  <2>7. ASSUME NEW q \in Callers, q # r
        PROVE  /\ pc'[q] = pc[q] /\ list'[q] = list[q] /\ seen'[q] = seen[q]
               /\ outer'[q] = outer[q] /\ inner'[q] = inner[q]
    BY <1>4, <2>1, <2>3, <2>7, Types DEF Goto
  <2>8. QED
    BY <2>6, <2>7, OthersKeep
<1>5. QED
  BY <1>3, <1>4 DEF GetTopKGlobal, Entries

\* A turn of the loops keeps the sort's invariant, the last one ends in order.
LEMMA SortStepLists ==
    ASSUME IInv, NEW r \in Callers, SortStep(r)
    PROVE  \A q \in Callers : ListInv(q)'
<1> DEFINE l == list[r]
           a == outer[r]
           b == inner[r]
<1>1. /\ pc[r] = "sort" /\ BoardInv
      /\ l \in Seq(Entry) /\ a \in Nat /\ b \in Nat
      /\ Faithful(l, seen[r]) /\ Complete(l, seen[r]) /\ SortInv(l, a, b)
  BY Types DEF SortStep, IInv, ListInv
<1>2. pc \in [Callers -> Steps \union {"idle", "done"}]
  BY DEF IInv, BoardInv, TypeInv, TypeOK
<1>3. UNCHANGED seen
  BY DEF SortStep
<1>4. CASE /\ a <= Len(l) /\ b <= Len(l)
           /\ list' = [list EXCEPT ![r] = Sorted1(l, a, b)]
           /\ inner' = [inner EXCEPT ![r] = b + 1]
           /\ UNCHANGED <<outer, pc>>
  <2>1. Faithful(Sorted1(l, a, b), seen[r]) /\ Complete(Sorted1(l, a, b), seen[r])
          /\ SortInv(Sorted1(l, a, b), a, b + 1)
    BY <1>1, <1>4, Sorted1Good
  <2>2. list'[r] = Sorted1(l, a, b) /\ inner'[r] = b + 1
    BY <1>1, <1>4, Types
  <2>3. ListInv(r)'
    BY <1>1, <1>3, <1>4, <2>1, <2>2 DEF ListInv, NoListYet
  <2>4. \A q \in Callers \ {r} : list'[q] = list[q] /\ inner'[q] = inner[q]
    BY <1>1, <1>4, Types
  <2>5. QED
    BY <1>3, <1>4, <2>3, <2>4, OthersKeep
<1>5. CASE /\ a <= Len(l) /\ b > Len(l)
           /\ outer' = [outer EXCEPT ![r] = a + 1]
           /\ inner' = [inner EXCEPT ![r] = a + 2]
           /\ UNCHANGED <<list, pc>>
  <2>1. SortInv(l, a + 1, a + 2)
    BY <1>1, <1>5, OuterGood
  <2>2. outer'[r] = a + 1 /\ inner'[r] = a + 2
    BY <1>1, <1>5, Types
  <2>3. ListInv(r)'
    BY <1>1, <1>3, <1>5, <2>1, <2>2 DEF ListInv, NoListYet
  <2>4. \A q \in Callers \ {r} : outer'[q] = outer[q] /\ inner'[q] = inner[q]
    BY <1>1, <1>5, Types
  <2>5. QED
    BY <1>3, <1>5, <2>3, <2>4, OthersKeep
<1>6. CASE a > Len(l) /\ Goto(r, "limit") /\ UNCHANGED <<list, outer, inner>>
  <2>1. Ordered(l)
    BY <1>1, <1>6, OuterGood
  <2>2. pc'[r] = "limit" /\ \A q \in Callers \ {r} : pc'[q] = pc[q]
    BY <1>2, <1>6 DEF Goto
  <2>3. ListInv(r)'
    BY <1>1, <1>3, <1>6, <2>1, <2>2 DEF ListInv, NoListYet
  <2>4. QED
    BY <1>3, <1>6, <2>2, <2>3, OthersKeep
<1>7. QED
  BY <1>4, <1>5, <1>6 DEF SortStep, Sorted1

\* The cut keeps what is listed in order, and leaves out only lower entries.
LEMMA CutAtLimitLists ==
    ASSUME IInv, NEW r \in Callers, CutAtLimit(r)
    PROVE  \A q \in Callers : ListInv(q)'
<1>1. /\ pc[r] = "limit" /\ BoardInv /\ list[r] \in Seq(Entry)
      /\ Faithful(list[r], seen[r]) /\ Complete(list[r], seen[r]) /\ Ordered(list[r])
  BY Types DEF CutAtLimit, IInv, ListInv
<1>2. pc \in [Callers -> Steps \union {"idle", "done"}]
  BY DEF IInv, BoardInv, TypeInv, TypeOK
<1>3. PICK k \in Prefixes(list[r]) : list' = [list EXCEPT ![r] = k]
  BY <1>1, CutStep
<1>4. Faithful(k, seen[r]) /\ Complete(k, seen[r]) /\ Ordered(k)
  BY <1>1, PrefixGood
<1>5. UNCHANGED <<outer, inner, seen>> /\ Goto(r, AfterList(r))
  BY DEF CutAtLimit
<1>6. list'[r] = k /\ \A q \in Callers \ {r} : list'[q] = list[q]
  BY <1>1, <1>3, Types
<1>7. pc'[r] = AfterList(r) /\ \A q \in Callers \ {r} : pc'[q] = pc[q]
  BY <1>2, <1>5 DEF Goto
<1>8. pc'[r] \notin NoListYet /\ pc'[r] # "sort"
  BY <1>7 DEF AfterList, NoListYet
<1>9. ListInv(r)'
  BY <1>4, <1>5, <1>6, <1>8 DEF ListInv
<1>10. QED
  BY <1>5, <1>6, <1>7, <1>9, OthersKeep

\* The steps outside GetLeaderboard.
LEMMA QuietLists ==
    ASSUME IInv, NEW r \in Callers,
           \/ Receive(r) \/ InitializeLeaderboard(r) \/ CleanupLeaderboard(r)
           \/ GetBoardStep(r) \/ AddUser(r) \/ GetParticipantRank(r)
    PROVE  \A q \in Callers : ListInv(q)'
<1>1. CASE Receive(r)
  <2>1. PICK b \in Jobs : Goto(r, First[b.op])
    BY <1>1 DEF Receive
  <2>2. First[b.op] \in {"init", "getList", "close"}
    BY JobFields DEF First
  <2>3. QED
    BY <1>1, <2>1, <2>2, QuietStep DEF Receive, NoListYet
<1>2. CASE InitializeLeaderboard(r)
  <2>1. PICK ok \in BOOLEAN : Goto(r, AfterInit(r, ok))
    BY <1>2 DEF InitializeLeaderboard
  <2>2. AfterInit(r, ok) # "sort"
    BY DEF AfterInit
  <2>3. QED
    BY <1>2, <2>1, <2>2, QuietStep DEF InitializeLeaderboard, NoListYet
<1>3. CASE CleanupLeaderboard(r)
  BY <1>3, QuietStep DEF CleanupLeaderboard, NoListYet
<1>4. CASE GetBoardStep(r)
  <2>1. ASSUME NEW from, NEW to, NEW miss, GetBoard(r, from, to, miss)
        PROVE  /\ pc[r] = from /\ UNCHANGED sorting
               /\ Goto(r, to) \/ Goto(r, miss)
    BY <2>1 DEF GetBoard
  <2>2. CASE GetBoard(r, "getAdd", "add", AfterAdd(r))
    <3>1. AfterAdd(r) # "sort"
      BY DEF AfterAdd
    <3>2. QED
      BY <2>1, <2>2, <3>1, QuietStep DEF NoListYet
  <2>3. CASE GetBoard(r, "getList", "topK", AfterList(r))
    <3>1. AfterList(r) # "sort"
      BY DEF AfterList
    <3>2. QED
      BY <2>1, <2>3, <3>1, QuietStep DEF NoListYet
  <2>4. CASE GetBoard(r, "getRank", "rank", "done")
    BY <2>1, <2>4, QuietStep DEF NoListYet
  <2>5. QED
    BY <1>4, <2>2, <2>3, <2>4 DEF GetBoardStep
<1>5. CASE AddUser(r)
  <2>1. AfterAdd(r) # "sort"
    BY DEF AfterAdd
  <2>2. QED
    BY <1>5, <2>1, QuietStep DEF AddUser, NoListYet
<1>6. CASE GetParticipantRank(r)
  BY <1>6, QuietStep DEF GetParticipantRank, NoListYet
<1>7. QED
  BY <1>1, <1>2, <1>3, <1>4, <1>5, <1>6

\* A handler's step keeps the invariant.
HandlerStep(r) ==
    \/ Receive(r) \/ InitializeLeaderboard(r) \/ CleanupLeaderboard(r)
    \/ GetBoardStep(r) \/ AddUser(r) \/ GetTopKGlobal(r) \/ SortStep(r)
    \/ CutAtLimit(r) \/ GetParticipantRank(r)

\* Every step of a handler keeps the invariant.
LEMMA StepKeeps ==
    ASSUME IInv, NEW r \in Callers, HandlerStep(r)
    PROVE  IInv'
<1>1. BoardInv
  BY DEF IInv
<1>2. SortStep(r) => inner[r] > outer[r] /\ outer[r] >= 1
  BY DEF SortStep, IInv, ListInv, SortInv
<1>3. BoardInv'
  BY <1>1, <1>2, ReceiveSafe, InitializeLeaderboardSafe, CleanupLeaderboardSafe, GetBoardSafe,
     AddUserSafe, GetTopKGlobalSafe, SortStepSafe, CutAtLimitSafe, GetParticipantRankSafe
     DEF HandlerStep
<1>4. \A q \in Callers : ListInv(q)'
  BY QuietLists, GetTopKGlobalLists, SortStepLists, CutAtLimitLists DEF HandlerStep
<1>5. QED
  BY <1>3, <1>4 DEF IInv

\* Every step of the system keeps it.
LEMMA NextKeeps == IInv /\ [Next]_vars => IInv'
<1> SUFFICES ASSUME IInv, [Next]_vars PROVE IInv'
  OBVIOUS
<1>1. CASE UNCHANGED vars
  <2>1. TypeOK'
    BY <1>1 DEF vars, redis, sorting, IInv, BoardInv, TypeInv, TypeOK
  <2>2. BoardInv'
    BY <1>1, <2>1 DEF vars, redis, sorting, IInv, BoardInv, TypeInv, InPlace, U, MapMatchesBoards
  <2>3. \A r \in Callers : ListInv(r)'
    BY <1>1 DEF vars, redis, sorting, IInv, ListInv, SortInv, OrderedUpTo, Leads, Ordered,
       Faithful, Complete
  <2>4. QED
    BY <2>2, <2>3 DEF IInv
<1>2. ASSUME NEW r \in Callers, HandlerStep(r)
      PROVE  IInv'
  BY <1>2, StepKeeps
<1>3. QED
  BY <1>1, <1>2 DEF Next, HandlerStep, AllDone

\* In every state of every instance the manager's variables have their types.
THEOREM TypeCorrectness == Spec => []TypeOK
<1>1. IInv => TypeOK
  BY DEF IInv, BoardInv, TypeInv
<1>2. QED
  BY <1>1, InitIInv, NextKeeps, PTL DEF Spec

\* The map has the open boards, one per challenge: none is opened twice, and
\* none forgotten that CleanupLeaderboard did not close.
THEOREM NoBoardLeaks == Spec => []MapMatchesBoards
<1>1. IInv => MapMatchesBoards
  BY DEF IInv, BoardInv
<1>2. QED
  BY <1>1, InitIInv, NextKeeps, PTL DEF Spec

\* GetLeaderboard's exchange sort and its limit answer with the top of the
\* board, in order, whatever the scores, the ties and the limit.
THEOREM AnswersAreTop == Spec => []AnswerIsTop
<1>1. ASSUME IInv, NEW r \in Callers, pc[r] \in {"getRank", "rank", "done"}
      PROVE  LET l == list[r]
             IN  /\ \A n \in DOMAIN l :
                      /\ l[n].score = seen[r][l[n].u]
                      /\ \A m \in 1..(n - 1) : Before(l[m], l[n])
                 /\ \A u \in DOMAIN seen[r] :
                      (\A n \in DOMAIN l : l[n].u # u) => \A n \in DOMAIN l : l[n].score >= seen[r][u]
  <2>1. Faithful(list[r], seen[r]) /\ Complete(list[r], seen[r]) /\ Ordered(list[r])
    BY <1>1 DEF IInv, ListInv
  <2>2. list[r] \in Seq(Entry)
    BY <1>1, Types DEF IInv
  <2>3. ASSUME NEW n \in DOMAIN list[r], NEW m \in 1..(n - 1)
        PROVE  m \in DOMAIN list[r] /\ m < n
    BY <2>2
  <2>4. QED
    BY <2>1, <2>3 DEF Faithful, Complete, Ordered
<1>2. IInv => AnswerIsTop
  BY <1>1 DEF AnswerIsTop
<1>3. QED
  BY <1>2, InitIInv, NextKeeps, PTL DEF Spec

(***************************************************************************)
(* A push that nothing failed for and nobody interfered with is on the     *)
(* leaderboard it sends out, for any number of handlers and users.         *)
(***************************************************************************)
(***************************************************************************)
(* What such a push may rely on: until it asks for the leaderboard that    *)
(* its board is in the map, from AddUser on that Redis has its total, and  *)
(* then that the list has its user, or as many as it may have.             *)
(***************************************************************************)
Scored(r) == U(r) \in DOMAIN scores[C(r)] /\ scores[C(r)][U(r)] = Total(r)

Present(r) ==
    /\ U(r) \in DOMAIN seen[r] /\ seen[r][U(r)] = Total(r)
    /\ Len(list[r]) <= K
    /\ Len(list[r]) = K \/ \E n \in DOMAIN list[r] : list[r][n].u = U(r)

PushInv(r) ==
    job[r].op = "push" /\ calm[r] =>
        /\ pc[r] \in {"getAdd", "add", "getList"} => Boards[C(r)] # 0
        /\ pc[r] \in {"getList", "topK"} => Scored(r)
        /\ pc[r] \in {"sort", "limit", "getRank", "rank", "done"} => Present(r)

PInv == IInv /\ \A r \in Callers : PushInv(r)

\* A user on the board is among the K that GetTopKGlobal answers, or they are K.
LEMMA TopKHas ==
    ASSUME NEW s \in PMap(Users, Totals), NEW us \in TopK(s), NEW u \in DOMAIN s
    PROVE  /\ us \in Seq(DOMAIN s) /\ Len(us) <= K
           /\ Len(us) = K \/ \E n \in DOMAIN us : us[n] = u
<1>1. us \in Seq(DOMAIN s) /\ IsFiniteSet(DOMAIN s) /\ Len(us) \in {Cardinality(DOMAIN s), K}
  BY TopKType
<1>2. Len(us) <= K /\ \A a, b \in DOMAIN us : a # b => us[a] # us[b]
  BY DEF TopK
<1>3. CASE Len(us) = Cardinality(DOMAIN s)
  <2> DEFINE D == 1..Len(us)
  <2>1. us \in [D -> DOMAIN s] /\ Len(us) \in Nat
    BY <1>1
  <2>2. us \in Injection(D, DOMAIN s)
    BY <1>2, <2>1 DEF Injection, IsInjective
  <2>3. Cardinality(D) = Len(us)
    <3>1. Cardinality(1..Len(us)) = IF 1 > Len(us) THEN 0 ELSE Len(us) - 1 + 1
      BY <2>1, FS_Interval
    <3>2. QED
      BY <2>1, <3>1
  <2>4. us \in Surjection(D, DOMAIN s)
    BY <1>1, <1>3, <2>2, <2>3, FS_Injection
  <2>5. QED
    BY <1>1, <1>2, <2>1, <2>4 DEF Surjection
<1>4. CASE Len(us) = K
  BY <1>1, <1>2, <1>4
<1>5. QED
  BY <1>1, <1>3, <1>4

(***************************************************************************)
(* The steps of other handlers.                                            *)
(***************************************************************************)
\* They change nothing of r's but its standing.
LEMMA OthersLeave ==
    ASSUME IInv, NEW r \in Callers, NEW q \in Callers, q # r, HandlerStep(q)
    PROVE  /\ pc'[r] = pc[r] /\ job'[r] = job[r] /\ list'[r] = list[r] /\ seen'[r] = seen[r]
           /\ calm'[r] => calm[r]
<1>1. BoardInv /\ TypeOK
  BY DEF IInv, BoardInv, TypeInv
<1>2. CASE Receive(q)
  BY <1>1, <1>2 DEF Receive, Goto, sorting, TypeOK
<1>3. CASE InitializeLeaderboard(q)
  BY <1>1, <1>3 DEF InitializeLeaderboard, Goto, sorting, Disturbed, TypeOK
<1>4. CASE CleanupLeaderboard(q)
  BY <1>1, <1>4 DEF CleanupLeaderboard, Goto, sorting, Disturbed, TypeOK
<1>5. CASE GetBoardStep(q)
  BY <1>1, <1>5 DEF GetBoardStep, GetBoard, Goto, sorting, TypeOK
<1>6. CASE AddUser(q)
  BY <1>1, <1>6 DEF AddUser, Goto, sorting, Disturbed, TypeOK
<1>7. CASE GetTopKGlobal(q)
  BY <1>1, <1>7 DEF GetTopKGlobal, Goto, sorting, Disturbed, TypeOK
<1>8. CASE SortStep(q)
  BY <1>1, <1>8 DEF SortStep, Goto, TypeOK
<1>9. CASE CutAtLimit(q)
  BY <1>1, <1>9 DEF CutAtLimit, Goto, TypeOK
<1>10. CASE GetParticipantRank(q)
  BY <1>1, <1>10 DEF GetParticipantRank, Goto, sorting, Disturbed, TypeOK
<1>11. QED
  BY <1>2, <1>3, <1>4, <1>5, <1>6, <1>7, <1>8, <1>9, <1>10 DEF HandlerStep

\* One that closes r's board, or scores r's user, interferes with r.
LEMMA OthersPush ==
    ASSUME IInv, NEW r \in Callers, PushInv(r), NEW q \in Callers, q # r, HandlerStep(q)
    PROVE  PushInv(r)'
<1> SUFFICES ASSUME job'[r].op = "push", calm'[r]
             PROVE  /\ pc'[r] \in {"getAdd", "add", "getList"} => Boards'[C(r)'] # 0
                    /\ pc'[r] \in {"getList", "topK"} => Scored(r)'
                    /\ pc'[r] \in {"sort", "limit", "getRank", "rank", "done"} => Present(r)'
  BY DEF PushInv
<1>1. /\ pc'[r] = pc[r] /\ job'[r] = job[r] /\ list'[r] = list[r] /\ seen'[r] = seen[r]
      /\ calm[r] /\ job[r].op = "push"
  BY OthersLeave
<1>2. C(r)' = C(r) /\ U(r)' = U(r) /\ Total(r)' = Total(r)
  BY <1>1 DEF C, U, Total
<1>3. /\ BoardInv /\ Boards \in [Challenges -> Nat]
      /\ scores \in [Challenges -> PMap(Users, Totals)]
  BY Types DEF IInv
<1>4. /\ pc[r] # "idle" => job[r] # NoJob /\ C(r) \in Challenges
      /\ pc[q] # "idle" => job[q] # NoJob /\ C(q) \in Challenges
  BY <1>3, Types, AtWork
<1>5. Present(r) => Present(r)'
  BY <1>1, <1>2 DEF Present
<1>6. pc[r] # "idle" /\ Boards[C(r)] # 0 => Boards'[C(r)] # 0
  <2>1. CASE CleanupLeaderboard(q)
    <3>1. CASE pc[r] # "idle" /\ C(q) = C(r) /\ Boards[C(r)] # 0
      <4>1. r \in On(C(q))
        BY <1>4, <3>1 DEF On
      <4>2. Disturbed(On(C(q)))
        BY <2>1, <3>1 DEF CleanupLeaderboard
      <4>3. ~calm'[r]
        BY <4>1, <4>2 DEF Disturbed
      <4>4. QED
        BY <4>3
    <3>2. CASE C(q) # C(r)
      BY <1>3, <1>4, <2>1, <3>2 DEF CleanupLeaderboard
    <3>3. QED
      BY <3>1, <3>2
  <2>2. CASE InitializeLeaderboard(q)
    <3>1. TypeOK
      BY <1>3 DEF BoardInv, TypeInv
    <3>2. UNCHANGED Boards \/ Boards' = [Boards EXCEPT ![C(q)] = opened[C(q)] + 1]
      BY <1>4, <2>2, <3>1 DEF InitializeLeaderboard, TypeOK
    <3>3. pc[q] # "idle"
      BY <2>2 DEF InitializeLeaderboard
    <3>4. opened[C(q)] + 1 # 0
      BY <1>4, <3>1, <3>3 DEF TypeOK
    <3>5. QED
      BY <1>3, <1>4, <3>2, <3>3, <3>4
  <2>3. CASE ~CleanupLeaderboard(q) /\ ~InitializeLeaderboard(q)
    BY <2>3 DEF HandlerStep, Receive, GetBoardStep, GetBoard, AddUser, GetTopKGlobal, SortStep,
       CutAtLimit, GetParticipantRank
  <2>4. QED
    BY <2>1, <2>2, <2>3
<1>7. pc[r] # "idle" /\ Scored(r) => Scored(r)'
  <2>1. CASE UNCHANGED scores
    BY <1>2, <2>1 DEF Scored
  <2>2. CASE CleanupLeaderboard(q) /\ ~UNCHANGED scores
    <3>1. pc[q] = "close" /\ Disturbed(On(C(q))) /\ scores' = [scores EXCEPT ![C(q)] = EmptyMap]
      BY <2>2 DEF CleanupLeaderboard
    <3>2. CASE C(q) = C(r)
      BY <1>4, <3>1, <3>2 DEF On, Disturbed
    <3>3. CASE C(q) # C(r)
      BY <1>2, <1>3, <1>4, <3>1, <3>3 DEF Scored
    <3>4. QED
      BY <3>2, <3>3
  <2>3. CASE AddUser(q) /\ ~UNCHANGED scores
    <3>1. /\ pc[q] = "add"
          /\ scores' = [scores EXCEPT ![C(q)] = Put(scores[C(q)], U(q), Total(q))]
          /\ \E rs : Scoring(C(q), U(q)) \ {q} \subseteq rs /\ Disturbed(rs)
      BY <2>3 DEF AddUser
    <3>2. pc[r] # "idle" => ~(C(q) = C(r) /\ U(q) = U(r))
      BY <1>1, <1>4, <3>1 DEF Scoring, On, Disturbed
    <3>3. CASE C(q) # C(r)
      BY <1>2, <1>3, <1>4, <3>1, <3>3 DEF Scored
    <3>4. CASE C(q) = C(r) /\ U(q) # U(r) /\ pc[r] # "idle"
      <4>1. scores'[C(r)] = Put(scores[C(r)], U(q), Total(q))
        BY <1>3, <1>4, <3>1, <3>4
      <4>2. QED
        BY <1>2, <3>4, <4>1 DEF Scored, Put
    <3>5. QED
      BY <3>2, <3>3, <3>4
  <2>4. UNCHANGED scores \/ CleanupLeaderboard(q) \/ AddUser(q)
    BY DEF HandlerStep, Receive, InitializeLeaderboard, GetBoardStep, GetBoard, GetTopKGlobal,
       SortStep, CutAtLimit, GetParticipantRank, redis
  <2>5. QED
    BY <2>1, <2>2, <2>3, <2>4
<1>8. QED
  BY <1>1, <1>2, <1>5, <1>6, <1>7 DEF PushInv

(***************************************************************************)
(* Its own steps.                                                          *)
(***************************************************************************)
LEMMA OwnPush ==
    ASSUME IInv, NEW r \in Callers, PushInv(r), HandlerStep(r)
    PROVE  PushInv(r)'
<1> DEFINE c == C(r)
<1>1. BoardInv /\ TypeOK /\ TypeInv
  BY DEF IInv, BoardInv, TypeInv
<1>2. /\ pc \in [Callers -> Steps \union {"idle", "done"}] /\ job \in [Callers -> Jobs \union {NoJob}]
      /\ Boards \in [Challenges -> Nat] /\ scores \in [Challenges -> PMap(Users, Totals)]
      /\ list \in [Callers -> Seq(Entry)] /\ seen \in [Callers -> PMap(Users, Totals)]
      /\ calm \in [Callers -> BOOLEAN] /\ opened \in [Challenges -> Nat]
  BY <1>1, Types DEF TypeOK
<1>3. pc[r] # "idle" => job[r] # NoJob /\ c \in Challenges /\ job[r] \in Jobs
  BY <1>1, AtWork
<1>4. CASE Receive(r)
  <2>1. PICK b \in Jobs : job' = [job EXCEPT ![r] = b] /\ Goto(r, First[b.op])
    BY <1>4 DEF Receive
  <2>2. job'[r] = b /\ pc'[r] = First[b.op]
    BY <1>2, <2>1 DEF Goto
  <2>3. b.op = "push" => pc'[r] = "init"
    BY <2>2 DEF First
  <2>4. QED
    BY <2>2, <2>3 DEF PushInv
<1>5. ASSUME UNCHANGED job
      PROVE  C(r)' = c /\ U(r)' = U(r) /\ Total(r)' = Total(r) /\ job'[r].op = job[r].op
  BY <1>5 DEF C, U, Total
<1>6. CASE InitializeLeaderboard(r)
  <2>1. /\ UNCHANGED job /\ pc[r] = "init"
        /\ \/ Boards'[c] # 0 /\ Goto(r, AfterInit(r, TRUE))
           \/ ~calm'[r]
    <3>1. UNCHANGED job /\ pc[r] = "init" /\ c \in Challenges
      BY <1>3, <1>6 DEF InitializeLeaderboard
    <3>2. CASE Boards[c] # 0 /\ UNCHANGED Boards /\ Goto(r, AfterInit(r, TRUE))
      BY <3>1, <3>2
    <3>3. CASE Boards' = [Boards EXCEPT ![c] = opened[c] + 1] /\ Goto(r, AfterInit(r, TRUE))
      <4>1. Boards'[c] = opened[c] + 1 /\ opened[c] \in Nat
        BY <1>2, <3>1, <3>3
      <4>2. Boards'[c] # 0
        BY <4>1
      <4>3. QED
        BY <3>1, <3>3, <4>2
    <3>4. CASE Disturbed({r})
      BY <3>1, <3>4 DEF Disturbed
    <3>5. opened' = [opened EXCEPT ![c] = @ + 1] => opened'[c] = opened[c] + 1
      BY <1>2, <3>1
    <3>6. QED
      BY <1>6, <3>2, <3>3, <3>4, <3>5 DEF InitializeLeaderboard
  <2>2. job[r].op = "push" => \A ok \in BOOLEAN : AfterInit(r, ok) = "getAdd"
    BY DEF AfterInit
  <2>3. Goto(r, AfterInit(r, TRUE)) => pc'[r] = AfterInit(r, TRUE)
    BY <1>2 DEF Goto
  <2>4. QED
    BY <1>5, <2>1, <2>2, <2>3 DEF PushInv
<1>7. CASE CleanupLeaderboard(r)
  <2>1. job[r].op = "end" /\ UNCHANGED job
    BY <1>1, <1>7, OpsAt DEF CleanupLeaderboard
  <2>2. QED
    BY <2>1 DEF PushInv
<1>8. CASE GetBoardStep(r)
  <2>1. UNCHANGED <<Boards, scores, job, list, seen, calm>>
    BY <1>8 DEF GetBoardStep, GetBoard, redis, sorting
  <2>2. ASSUME job[r].op = "push", calm[r]
        PROVE  \/ pc[r] = "getAdd" /\ pc'[r] = "add" /\ Boards[c] # 0
               \/ pc[r] = "getList" /\ pc'[r] = "topK" /\ Scored(r)
               \/ pc[r] = "getRank" /\ pc'[r] \in {"rank", "done"} /\ Present(r)
    BY <1>2, <1>8, <2>2 DEF GetBoardStep, GetBoard, Goto, PushInv
  <2>3. Scored(r) => Scored(r)'
    BY <1>5, <2>1 DEF Scored
  <2>4. Present(r) => Present(r)'
    BY <1>5, <2>1 DEF Present
  <2>5. QED
    BY <1>5, <2>1, <2>2, <2>3, <2>4 DEF PushInv
<1>9. CASE AddUser(r)
  <2>1. UNCHANGED <<Boards, job>> /\ pc[r] = "add" /\ Goto(r, AfterAdd(r))
    BY <1>9 DEF AddUser
  <2>2. job[r].op = "push" => pc'[r] = "getList"
    BY <1>2, <2>1 DEF Goto, AfterAdd
  <2>3. \/ scores' = [scores EXCEPT ![c] = Put(@, U(r), Total(r))]
        \/ ~calm'[r]
    BY <1>9 DEF AddUser, Disturbed
  <2>4. calm'[r] => calm[r]
    BY <1>9 DEF AddUser, Disturbed
  <2>5. calm'[r] => Scored(r)'
    <3>1. ASSUME calm'[r]
          PROVE  scores'[c] = Put(scores[c], U(r), Total(r))
      BY <1>2, <1>3, <2>1, <2>3, <3>1
    <3>2. QED
      BY <1>5, <2>1, <3>1 DEF Scored, Put
  <2>6. QED
    BY <1>5, <2>1, <2>2, <2>4, <2>5 DEF PushInv
<1>10. CASE GetTopKGlobal(r)
  <2> DEFINE s == scores[c]
  <2>1. UNCHANGED job /\ pc[r] = "topK" /\ s \in PMap(Users, Totals)
    BY <1>2, <1>3, <1>10 DEF GetTopKGlobal
  <2>2. calm'[r] => calm[r]
    BY <1>10 DEF GetTopKGlobal, Disturbed
  <2>3. CASE ~calm'[r]
    BY <2>3 DEF PushInv
  <2>4. CASE calm'[r] /\ job[r].op = "push"
    <3>1. Scored(r)
      BY <2>1, <2>2, <2>4 DEF PushInv
    <3>2. s # EmptyMap
      BY <3>1 DEF Scored, EmptyMap
    <3>3. PICK us \in TopK(s) :
            /\ list' = [list EXCEPT ![r] = Entries(r, us, s)]
            /\ seen' = [seen EXCEPT ![r] = s]
            /\ Goto(r, "sort")
      BY <1>10, <2>4, <3>2 DEF GetTopKGlobal, Disturbed, Entries
    <3>4. list'[r] = Entries(r, us, s) /\ seen'[r] = s /\ pc'[r] = "sort"
      BY <1>2, <3>3 DEF Goto
    <3>5. /\ us \in Seq(DOMAIN s) /\ Len(us) <= K
          /\ Len(us) = K \/ \E n \in DOMAIN us : us[n] = U(r)
      BY <2>1, <3>1, TopKHas DEF Scored
    <3>6. job[r].copy \in Copies
      BY <1>3, <2>1, <2>4, JobFields
    <3>7. Entries(r, us, s) \in Seq(Entry) /\ DOMAIN Entries(r, us, s) = DOMAIN us
      BY <2>1, <3>6, EntriesType
    <3>8. Len(Entries(r, us, s)) = Len(us)
      BY <3>5, <3>7
    <3>9. \A n \in DOMAIN us : Entries(r, us, s)[n].u = us[n]
      BY DEF Entries
    <3>10. Present(r)'
      BY <1>5, <2>1, <3>1, <3>4, <3>5, <3>7, <3>8, <3>9 DEF Present, Scored
    <3>11. QED
      BY <3>4, <3>10 DEF PushInv
  <2>5. QED
    BY <1>5, <2>1, <2>3, <2>4 DEF PushInv
<1>11. CASE SortStep(r)
  <2> DEFINE l == list[r]
             a == outer[r]
             b == inner[r]
  <2>1. UNCHANGED <<job, seen, calm, Boards, scores>> /\ pc[r] = "sort"
    BY <1>11 DEF SortStep, redis
  <2>2. pc'[r] \in {"sort", "limit"}
    BY <1>2, <1>11, <2>1 DEF SortStep, Goto
  <2>3. a \in Nat /\ b \in Nat /\ a >= 1 /\ b > a /\ l \in Seq(Entry)
    BY <1>1, <1>2, <2>1, Types DEF IInv, ListInv, SortInv
  <2>4. list'[r] = l \/ (a \in 1..Len(l) /\ b \in 1..Len(l) /\ list'[r] = Sorted1(l, a, b))
    <3>1. \/ UNCHANGED list
          \/ a <= Len(l) /\ b <= Len(l) /\ list' = [list EXCEPT ![r] = Sorted1(l, a, b)]
      BY <1>11 DEF SortStep, Sorted1
    <3>2. a <= Len(l) /\ b <= Len(l) => a \in 1..Len(l) /\ b \in 1..Len(l)
      BY <2>3
    <3>3. QED
      BY <1>2, <3>1, <3>2
  <2>5. ASSUME a \in 1..Len(l), b \in 1..Len(l)
        PROVE  /\ Len(Sorted1(l, a, b)) = Len(l)
               /\ \A n \in DOMAIN l : \E m \in DOMAIN Sorted1(l, a, b) : Sorted1(l, a, b)[m].u = l[n].u
    <3>1. Sorted1(l, a, b) \in Seq(Entry) /\ DOMAIN Sorted1(l, a, b) = DOMAIN l
      BY <2>3, <2>5, Sorted1Type
    <3>2. a \in DOMAIN l /\ b \in DOMAIN l
      BY <2>3, <2>5
    <3>3. \A n \in DOMAIN l : \E m \in DOMAIN l : Sorted1(l, a, b)[m] = l[n]
      BY <2>3, <3>2 DEF Sorted1
    <3>4. Len(Sorted1(l, a, b)) = Len(l)
      BY <2>3, <3>1
    <3>5. QED
      BY <3>1, <3>3, <3>4
  <2>6. Present(r) => Present(r)'
    BY <1>5, <2>1, <2>4, <2>5 DEF Present
  <2>7. QED
    BY <1>5, <2>1, <2>2, <2>6 DEF PushInv
<1>12. CASE CutAtLimit(r)
  <2>1. UNCHANGED <<job, seen, calm>> /\ pc[r] = "limit" /\ Goto(r, AfterList(r))
    BY <1>12 DEF CutAtLimit
  <2>2. job[r].op = "push" => pc'[r] = "getRank" /\ Limit(r) = K
    BY <1>2, <2>1 DEF Goto, AfterList, Limit
  <2>3. job[r].op = "push" /\ Len(list[r]) <= K => list'[r] = list[r]
    <3>1. K \in Nat /\ Len(list[r]) \in Nat
      BY <1>2, LeaderboardAssumption
    <3>2. QED
      BY <1>2, <1>12, <2>2, <3>1 DEF CutAtLimit
  <2>4. job[r].op = "push" /\ Present(r) => Present(r)'
    BY <1>5, <2>1, <2>3 DEF Present
  <2>5. QED
    BY <1>5, <2>1, <2>2, <2>4 DEF PushInv
<1>13. CASE GetParticipantRank(r)
  <2>1. UNCHANGED <<job, list, seen>> /\ pc[r] = "rank" /\ pc'[r] = "done"
    BY <1>2, <1>13 DEF GetParticipantRank, Goto, sorting
  <2>2. calm'[r] => calm[r]
    BY <1>13 DEF GetParticipantRank, Disturbed
  <2>3. Present(r) => Present(r)'
    BY <1>5, <2>1 DEF Present
  <2>4. QED
    BY <1>5, <2>1, <2>2, <2>3 DEF PushInv
<1>14. QED
  BY <1>4, <1>6, <1>7, <1>8, <1>9, <1>10, <1>11, <1>12, <1>13 DEF HandlerStep

\* What a push may rely on is kept by every step.
LEMMA PushNext == PInv /\ [Next]_vars => PInv'
<1> SUFFICES ASSUME PInv, [Next]_vars PROVE PInv'
  OBVIOUS
<1>1. IInv'
  BY NextKeeps DEF PInv
<1>2. CASE UNCHANGED vars
  BY <1>1, <1>2 DEF vars, redis, sorting, PInv, PushInv, Present, Scored, C, U, Total
<1>3. ASSUME NEW q \in Callers, HandlerStep(q)
      PROVE  \A r \in Callers : PushInv(r)'
  BY <1>3, OthersPush, OwnPush DEF PInv
<1>4. QED
  BY <1>1, <1>2, <1>3 DEF PInv, Next, HandlerStep, AllDone

\* What a push may rely on gives what its leaderboard shows.
LEMMA PushShows == PInv => PushListsItself
<1> SUFFICES ASSUME PInv, NEW r \in Callers, pc[r] = "done", job[r].op = "push", calm[r]
             PROVE  \/ \E n \in DOMAIN list[r] : list[r][n].u = U(r) /\ list[r][n].score = Total(r)
                    \/ Len(list[r]) = K /\ \A n \in DOMAIN list[r] : list[r][n].score >= Total(r)
  BY DEF PushListsItself
<1>1. Present(r) /\ Faithful(list[r], seen[r]) /\ Complete(list[r], seen[r])
  BY DEF PInv, PushInv, IInv, ListInv
<1>2. CASE \E n \in DOMAIN list[r] : list[r][n].u = U(r)
  BY <1>1, <1>2 DEF Present, Faithful
<1>3. CASE Len(list[r]) = K /\ \A n \in DOMAIN list[r] : list[r][n].u # U(r)
  BY <1>1, <1>3 DEF Present, Complete
<1>4. QED
  BY <1>1, <1>2, <1>3 DEF Present

\* A push that nothing failed for, whose board nobody closed and whose user
\* nobody else scored, is on the leaderboard it sends, with its total, unless
\* that has K others with as much.
THEOREM PushesListThemselves == Spec => []PushListsItself
<1>1. Init => PInv
  BY InitIInv DEF PInv, PushInv, Init, NoJob
<1>2. QED
  BY <1>1, PushNext, PushShows, PTL DEF Spec

(***************************************************************************)
(* The rank a push sends out next to its leaderboard.                      *)
(***************************************************************************)
\* The rank of a user on the board is one of the board's places.
LEMMA RankIsPlace ==
    ASSUME NEW s \in PMap(Users, Totals), NEW u \in DOMAIN s, NEW g \in GlobalRanks(s, u)
    PROVE  PlaceOf(g) \in 1..Cardinality(DOMAIN s)
<1> DEFINE H == {v \in DOMAIN s : s[v] > s[u]}
           E == {v \in DOMAIN s : s[v] = s[u]}
<1>1. DOMAIN s \subseteq Users /\ IsFiniteSet(DOMAIN s)
  <2>1. DOMAIN s \subseteq Users /\ IsFiniteSet(Users)
    BY EntryType, LeaderboardAssumption
  <2>2. QED
    BY <2>1, FS_Subset
<1>2. \A v \in DOMAIN s : s[v] \in Int
  BY EntryType, TotalsAssumption
<1>3. IsFiniteSet(H) /\ IsFiniteSet(E) /\ IsFiniteSet(H \union E)
  BY <1>1, FS_Subset
<1>4. H \intersect E = {}
  BY <1>2
<1>5. Cardinality(H \union E) = Cardinality(H) + Cardinality(E) - Cardinality(H \intersect E)
  BY <1>3, FS_Union
<1>6. Cardinality(H \intersect E) = 0
  BY <1>4, FS_EmptySet
<1>7. /\ Cardinality(H) \in Nat /\ Cardinality(E) \in Nat /\ Cardinality(DOMAIN s) \in Nat
  BY <1>1, <1>3, FS_CardinalityType
<1>8. Cardinality(H \union E) <= Cardinality(DOMAIN s)
  BY <1>1, FS_Subset
<1>9. g \in Cardinality(H) .. Cardinality(H) + Cardinality(E) - 1
  BY DEF GlobalRanks
<1>10. QED
  BY <1>5, <1>6, <1>7, <1>8, <1>9 DEF PlaceOf

\* On a sorted list that leaves out nobody who is higher, those before a user
\* nobody ties with are those with a higher score.
LEMMA HigherStandBefore ==
    ASSUME NEW s \in PMap(Users, Totals), NEW l \in Seq(Entry),
           Faithful(l, s), Complete(l, s), Ordered(l), NEW n \in DOMAIN l,
           \A v \in DOMAIN s \ {l[n].u} : s[v] # s[l[n].u]
    PROVE  Cardinality({v \in DOMAIN s : s[v] > s[l[n].u]}) = n - 1
<1> DEFINE H == {v \in DOMAIN s : s[v] > s[l[n].u]}
           f == [m \in 1..(n - 1) |-> l[m].u]
<1>1. /\ n \in Nat /\ n >= 1 /\ DOMAIN l = 1..Len(l) /\ Len(l) \in Nat
      /\ \A m \in DOMAIN l : l[m] \in Entry
  OBVIOUS
<1>2. \A m \in DOMAIN l : l[m].u \in DOMAIN s /\ l[m].score = s[l[m].u]
  BY DEF Faithful
<1>3. \A v \in DOMAIN s : s[v] \in Int
  BY EntryType, TotalsAssumption
<1>4. ASSUME NEW m \in 1..(n - 1)
      PROVE  m \in DOMAIN l /\ l[m].u \in H
  <2>1. m \in DOMAIN l /\ m < n
    BY <1>1
  <2>2. Before(l[m], l[n])
    BY <2>1 DEF Ordered
  <2>3. l[m].score >= l[n].score
    BY <1>1, <2>1, <2>2, BeforeScores
  <2>4. l[m].u # l[n].u
    BY <2>1 DEF Faithful
  <2>5. s[l[m].u] # s[l[n].u]
    BY <1>2, <2>1, <2>4
  <2>6. s[l[m].u] > s[l[n].u]
    <3>1. s[l[m].u] >= s[l[n].u] /\ s[l[m].u] \in Int /\ s[l[n].u] \in Int
      BY <1>2, <1>3, <2>1, <2>3
    <3>2. QED
      BY <2>5, <3>1
  <2>7. QED
    BY <1>2, <2>1, <2>6
<1>5. ASSUME NEW v \in H
      PROVE  \E m \in 1..(n - 1) : l[m].u = v
  <2>1. v \in DOMAIN s /\ s[v] \in Int /\ s[l[n].u] \in Int /\ s[v] > s[l[n].u]
    BY <1>2, <1>3
  <2>2. PICK m \in DOMAIN l : l[m].u = v
    <3>1. SUFFICES ASSUME \A m \in DOMAIN l : l[m].u # v
                   PROVE  FALSE
      OBVIOUS
    <3>2. l[n].score >= s[v]
      BY <2>1, <3>1 DEF Complete
    <3>3. QED
      BY <1>2, <2>1, <3>2
  <2>3. ~(n < m)
    <3>1. SUFFICES ASSUME n < m PROVE FALSE
      OBVIOUS
    <3>2. l[n].score >= l[m].score
      BY <1>1, <2>2, <3>1, BeforeScores DEF Ordered
    <3>3. QED
      BY <1>2, <2>1, <2>2, <3>2
  <2>4. m # n
    BY <2>1, <2>2
  <2>5. m \in 1..(n - 1)
    BY <1>1, <2>2, <2>3, <2>4
  <2>6. QED
    BY <2>2, <2>5
<1>6. f \in Bijection(1..(n - 1), H)
  <2>1. f \in [1..(n - 1) -> H]
    BY <1>4
  <2>2. \A a, b \in 1..(n - 1) : f[a] = f[b] => a = b
    BY <1>4 DEF Faithful
  <2>3. \A v \in H : \E m \in 1..(n - 1) : f[m] = v
    BY <1>5
  <2>4. QED
    BY <2>1, <2>2, <2>3 DEF Bijection, Injection, Surjection, IsInjective
<1>7. ExistsBijection(1..(n - 1), H)
  BY <1>6, Zenon DEF ExistsBijection
<1>8. n - 1 \in Nat
  BY <1>1
<1>9. QED
  BY <1>7, <1>8, FS_CountingElements

\* So the rank of that user is the user's position on the list.
LEMMA RankIsPosition ==
    ASSUME NEW s \in PMap(Users, Totals), NEW l \in Seq(Entry),
           Faithful(l, s), Complete(l, s), Ordered(l), NEW n \in DOMAIN l,
           \A v \in DOMAIN s \ {l[n].u} : s[v] # s[l[n].u],
           NEW g \in GlobalRanks(s, l[n].u)
    PROVE  PlaceOf(g) = n
<1>1. l[n].u \in DOMAIN s
  BY DEF Faithful
<1>2. Cardinality({v \in DOMAIN s : s[v] > s[l[n].u]}) = n - 1
  BY HigherStandBefore
<1>3. {v \in DOMAIN s : s[v] = s[l[n].u]} = {l[n].u}
  BY <1>1
<1>4. Cardinality({v \in DOMAIN s : s[v] = s[l[n].u]}) = 1
  BY <1>3, FS_Singleton
<1>5. g \in (n - 1) .. (n - 1) + 1 - 1
  BY <1>1, <1>2, <1>4 DEF GlobalRanks
<1>6. n \in Nat /\ n >= 1
  OBVIOUS
<1>7. QED
  BY <1>5, <1>6 DEF PlaceOf

\* The step of a push that asks for its rank.
LEMMA RankStep ==
    ASSUME PInv, [Next]_vars, NEW r \in Callers, pc[r] = "rank", pc'[r] = "done"
    PROVE  GetParticipantRank(r)
<1>1. CASE UNCHANGED vars
  BY <1>1 DEF vars
<1>2. ASSUME NEW q \in Callers, HandlerStep(q), q # r
      PROVE  FALSE
  BY <1>2, OthersLeave DEF PInv
<1>3. ASSUME HandlerStep(r)
      PROVE  GetParticipantRank(r)
  BY <1>3 DEF HandlerStep, Receive, InitializeLeaderboard, CleanupLeaderboard, GetBoardStep,
              GetBoard, AddUser, GetTopKGlobal, SortStep, CutAtLimit
<1>4. CASE AllDone
  BY <1>4 DEF AllDone, vars
<1>5. QED
  BY <1>1, <1>2, <1>3, <1>4 DEF Next, HandlerStep

\* The rank a push sends out that nothing failed for and nobody interfered with
\* is a place on the board, and its position on the leaderboard when nobody
\* ties with it and no score changed in between.
THEOREM RanksAgree == Spec => RankAgrees
<1>1. ASSUME PInv, [Next]_vars, NEW r \in Callers,
             pc[r] = "rank", pc'[r] = "done", calm'[r], seen[r] = scores[C(r)]
      PROVE  /\ rank'[r] \in 1..Cardinality(DOMAIN seen[r])
             /\ \A n \in DOMAIN list[r] :
                  /\ list[r][n].u = U(r)
                  /\ \A v \in DOMAIN seen[r] \ {U(r)} : seen[r][v] # seen[r][U(r)]
                  => rank'[r] = n
  <2>1. GetParticipantRank(r)
    BY <1>1, RankStep
  <2>2. /\ TypeOK /\ job[r].op = "push" /\ list[r] \in Seq(Entry)
        /\ seen[r] \in PMap(Users, Totals)
        /\ Faithful(list[r], seen[r]) /\ Complete(list[r], seen[r]) /\ Ordered(list[r])
    <3>1. BoardInv /\ TypeOK /\ TypeInv
      BY <1>1 DEF PInv, IInv, BoardInv, TypeInv
    <3>2. job[r].op = "push"
      BY <1>1, <3>1, OpsAt
    <3>3. list[r] \in Seq(Entry) /\ seen[r] \in PMap(Users, Totals)
      BY <3>1 DEF TypeOK
    <3>4. Faithful(list[r], seen[r]) /\ Complete(list[r], seen[r]) /\ Ordered(list[r])
      BY <1>1 DEF PInv, IInv, ListInv
    <3>5. QED
      BY <3>1, <3>2, <3>3, <3>4
  <2>3. calm[r] /\ ~(calm' = [q \in Callers |-> calm[q] /\ q \notin {r}])
    BY <1>1, <2>1 DEF GetParticipantRank, Disturbed
  <2>4. Present(r)
    BY <1>1, <2>2, <2>3 DEF PInv, PushInv
  <2>5. PICK g \in GlobalRanks(seen[r], U(r)) : rank' = [rank EXCEPT ![r] = PlaceOf(g)]
    BY <1>1, <2>1, <2>3 DEF GetParticipantRank, Disturbed
  <2>6. rank'[r] = PlaceOf(g)
    BY <2>2, <2>5 DEF TypeOK
  <2>7. PlaceOf(g) \in 1..Cardinality(DOMAIN seen[r])
    BY <2>2, <2>4, RankIsPlace DEF Present
  <2>8. ASSUME NEW n \in DOMAIN list[r], list[r][n].u = U(r),
               \A v \in DOMAIN seen[r] \ {U(r)} : seen[r][v] # seen[r][U(r)]
        PROVE  PlaceOf(g) = n
    BY <2>2, <2>8, RankIsPosition
  <2>9. QED
    BY <2>6, <2>7, <2>8
<1>2. PInv /\ [Next]_vars
        => [\A r \in Callers :
              /\ pc[r] = "rank" /\ pc'[r] = "done" /\ calm'[r]
              /\ seen[r] = scores[C(r)]
              => /\ rank'[r] \in 1..Cardinality(DOMAIN seen[r])
                 /\ \A n \in DOMAIN list[r] :
                      /\ list[r][n].u = U(r)
                      /\ \A v \in DOMAIN seen[r] \ {U(r)} : seen[r][v] # seen[r][U(r)]
                      => rank'[r] = n]_vars
  BY <1>1
<1>3. Init => PInv
  BY InitIInv DEF PInv, PushInv, Init, NoJob
<1>4. QED
  BY <1>2, <1>3, PushNext, PTL DEF Spec, RankAgrees
====
