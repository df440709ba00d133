\* Three requests, two at a time, on one open challenge; every store call may
\* fail, applied or not, and the process may crash once.
SPECIFICATION Spec
CONSTANTS
    Users = {u1, u2}
    Problems = {p1}
    Scores = {1}
    NoDoc = NoDoc
    NoJob = NoJob
    Challenges = {c1}
    Preloaded = {c1}
    Requests = {r1, r2, r3}
    Ops = {"push", "abandon", "end", "disconnect"}
    MaxInFlight = 2
    MaxCrashes = 1
    RedisMayFail = TRUE
    MongoMayFail = TRUE
SYMMETRY Symmetry
INVARIANTS
    OnlyCreatorTerminates
PROPERTIES
    NeverLost
    KeepsArchive
