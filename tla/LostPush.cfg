\* Two pushes to one challenge overlap.
SPECIFICATION Spec
CONSTANTS
    Users = {u1, u2}
    Problems = {p1, p2}
    Scores = {1}
    NoDoc = NoDoc
    NoJob = NoJob
    Challenges = {c1}
    Preloaded = {c1}
    Requests = {r1, r2}
    Ops = {"push"}
    MaxInFlight = 2
    MaxCrashes = 0
    RedisMayFail = FALSE
    MongoMayFail = FALSE
INVARIANTS
    AckedPushKept
