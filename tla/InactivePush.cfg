\* A push follows an abandonment whose persistence MongoDB refused.
SPECIFICATION Spec
CONSTANTS
    Users = {u1, u2}
    Problems = {p1}
    Scores = {1}
    NoDoc = NoDoc
    NoJob = NoJob
    Challenges = {c1}
    Preloaded = {c1}
    Requests = {r1, r2}
    Ops = {"push", "abandon"}
    MaxInFlight = 1
    MaxCrashes = 0
    RedisMayFail = FALSE
    MongoMayFail = TRUE
PROPERTIES
    PushesOnlyToActive
