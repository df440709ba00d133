\* Two overlapping requests of any kind, with a challenge still to create;
\* every store call may fail, applied or not, and the process may crash once.
SPECIFICATION Spec
CONSTANTS
    Users = {u1, u2}
    Problems = {p1}
    Scores = {1}
    NoDoc = NoDoc
    NoJob = NoJob
    Challenges = {c1, c2}
    Preloaded = {c1}
    Requests = {r1, r2}
    Ops = {"create", "join", "push", "abandon", "end", "leave", "disconnect", "retrieve", "read"}
    MaxInFlight = 2
    MaxCrashes = 1
    RedisMayFail = TRUE
    MongoMayFail = TRUE
SYMMETRY Symmetry
INVARIANTS
    TypeOK
    IInv
