\* Three overlapping requests on one open challenge, stores that answer.
SPECIFICATION Spec
CONSTANTS
    Users = {u1, u2}
    Problems = {p1}
    Scores = {1}
    NoDoc = NoDoc
    NoJob = NoJob
    Challenges = {c1}
    Preloaded = {c1}
    Requests = {r1, r2, r3}
    Ops = {"join", "push", "abandon", "read"}
    MaxInFlight = 3
    MaxCrashes = 0
    RedisMayFail = FALSE
    MongoMayFail = FALSE
SYMMETRY Symmetry
INVARIANTS
    NoPhantomScore
    EndedIsArchived
    ReaderNeverMisses
