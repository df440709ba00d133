\* Two handlers of any kind on one challenge with four users, a board that
\* keeps three of them; any call of RedisBoard may fail.
SPECIFICATION Spec
CONSTANTS
    Users = {1, 2, 3, 4}
    Challenges = {c1}
    p1 = p1
    p2 = p2
    Problems = {p1, p2}
    Scores = {0, 1, 2}
    Callers = {r1, r2}
    Ops = {"create", "join", "push", "retrieve", "list", "end"}
    Copies <- MCCopies
    Kept <- MCKept
    Limits = {0, 1}
    DefaultLimit = 100
    K = 3
    MayFail = TRUE
SYMMETRY Symmetry
INVARIANTS
    TypeOK
    MapMatchesBoards
    AnswerIsTop
    PushListsItself
PROPERTIES
    RankAgrees
