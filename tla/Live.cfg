\* Two overlapping requests of any kind, stores that answer, fair handlers.
SPECIFICATION FairSpec
CONSTANTS
    Users = {u1, u2}
    Problems = {p1}
    Scores = {1}
    NoDoc = NoDoc
    NoJob = NoJob
    Challenges = {c1, c2}
    Preloaded = {c1}
    Requests = {r1, r2}
    Ops = {"create", "join", "push", "abandon", "end", "leave", "disconnect", "retrieve", "read"}
    MaxInFlight = 2
    MaxCrashes = 0
    RedisMayFail = FALSE
    MongoMayFail = FALSE
PROPERTIES
    OverIsArchived
    EveryRequestEnds
