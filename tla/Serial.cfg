\* Four requests, one after the other, on two challenges; MongoDB calls may
\* fail and the process may crash at any step.
SPECIFICATION Spec
CONSTANTS
    Users = {u1, u2}
    Problems = {p1}
    Scores = {1}
    NoDoc = NoDoc
    NoJob = NoJob
    Challenges = {c1, c2}
    Preloaded = {c1}
    Requests = {r1, r2, r3, r4}
    Ops = {"create", "join", "push", "disconnect", "end"}
    MaxInFlight = 1
    MaxCrashes = 1
    RedisMayFail = FALSE
    MongoMayFail = TRUE
SYMMETRY Symmetry
INVARIANTS
    OneOpenPerCreator
    ArchivedOnceFinished
    AckedPushKept
    BoardAgrees
    NoOrphanBoard
PROPERTIES
    KeepsOneWay
    NeverReopens
