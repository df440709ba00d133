\* One request of any kind, three challenges, a pool of two workers; other
\* requests write once, Redis may fail, the caller may go, the process exit.
SPECIFICATION Spec
CONSTANTS
    mine = mine
    public = public
    private = private
    Challenges = {mine, public, private}
    Mine = {mine}
    Private = {private}
    Docs <- MCDocs
    NoDoc = NoDoc
    Kinds = {"create", "open", "owned"}
    PoolSize = 2
    MaxWrites = 1
    RedisMayFail = TRUE
INVARIANTS
    TypeOK
    RefusedForCause
    ConflictFound
    ListedMattered
    SteadyIsListed
PROPERTIES
    ScansKeys
    GoroutinesEnd
    RequestEnds
