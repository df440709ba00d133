\* Two creates of one user overlap.
SPECIFICATION Spec
CONSTANTS
    Users = {u1, u2}
    Problems = {p1}
    Scores = {1}
    NoDoc = NoDoc
    NoJob = NoJob
    Challenges = {c1, c2}
    Preloaded = {}
    Requests = {r1, r2}
    Ops = {"create"}
    MaxInFlight = 2
    MaxCrashes = 0
    RedisMayFail = FALSE
    MongoMayFail = FALSE
INVARIANTS
    OneOpenPerCreator
