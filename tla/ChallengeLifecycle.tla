---- MODULE ChallengeLifecycle ----
(***************************************************************************)
(* The requests that change a challenge, running concurrently against the  *)
(* stores they share: Redis (one JSON document per challenge, read and     *)
(* written whole by GET and SET, no transaction), MongoDB (the archive),   *)
(* the process' map of open leaderboards and the scores RedisBoard keeps.  *)
(*                                                                         *)
(* Each request runs its handler one store call or one mutex section at a  *)
(* time, so every interleaving of two handlers is a behaviour.  A store    *)
(* call that fails may still have been applied (the reply was lost).  The  *)
(* process may crash between any two steps; Redis, MongoDB and RedisBoard  *)
(* are taken to survive it.                                                *)
(***************************************************************************)
EXTENDS Documents, Sequences

CONSTANTS
    Challenges,
    Preloaded,       \* challenges an earlier process left open in Redis
    Requests,        \* the requests this process serves
    Ops,             \* the operations those requests may be
    MaxInFlight,     \* bound: requests served at the same time
    MaxCrashes,      \* bound: crashes of the process
    RedisMayFail,    \* may a Redis or RedisBoard call fail?
    MongoMayFail,    \* may a MongoDB call fail?
    NoJob

MemberOps == {"create", "join", "abandon", "end", "leave", "disconnect"}

ASSUME LifecycleAssumption ==
    /\ Preloaded \subseteq Challenges
    /\ Ops \subseteq MemberOps \union {"push", "retrieve", "read"}
    /\ MaxInFlight \in Nat \ {0}
    /\ MaxCrashes \in Nat
    /\ {RedisMayFail, MongoMayFail} \subseteq BOOLEAN

\* What a request asks.  "held" is a history value, read by no handler: was
\* the challenge in one of the stores when the read arrived?
Jobs == [op : MemberOps, c : Challenges, u : Users]
            \union [op : {"push"}, c : Challenges, u : Users, p : Problems, s : Scores]
            \union [op : {"retrieve"}, c : Challenges]
            \union [op : {"read"}, c : Challenges, held : BOOLEAN]

ASSUME NoJobAssumption == NoJob \notin Jobs

VARIABLES
    redis,           \* challenge -> its document, or NoDoc
    mongo,           \* challenge -> the documents the collection has for it
    boards,          \* challenges with an entry in LeaderboardManager.Boards
    scores,          \* challenge -> what RedisBoard keeps: user -> score
    crashes,         \* number of crashes so far
    pc,              \* request -> where its handler stands
    job,             \* request -> what it asks, kept after it ends
    doc,             \* request -> the handler's copy of the document
    tmp,             \* request -> the copy a repository function works on
    todo             \* request -> keys CanCreate has not looked at

stores == <<redis, mongo, boards, scores>>
locals == <<doc, tmp, todo>>
vars == <<redis, mongo, boards, scores, crashes, pc, job, doc, tmp, todo>>

Entry == [create |-> "keys", join |-> "joinLoad", push |-> "pushLoad",
          abandon |-> "abandonLoad", end |-> "endLoad", leave |-> "leaveLoad",
          disconnect |-> "remGet", read |-> "readRedis", retrieve |-> "retrieveLoad"]

Finished == {"ok", "err", "absent", "crashed"}
Steps == {"keys", "scan", "joinLoad", "pushLoad", "abandonLoad", "endLoad",
          "leaveLoad", "retrieveLoad", "addGet", "addSet", "updGet", "updSet",
          "write", "initBoard", "addUser", "topK", "save", "closeBoard",
          "markGet", "markSet", "archGet", "archFind", "archInsert",
          "archUpdate", "archDel", "remGet", "remSet", "readRedis", "readMongo"}

C(r) == job[r].c
U(r) == job[r].u
InFlight == {r \in Requests : pc[r] \in Steps}
Held(c) == redis[c] # NoDoc \/ mongo[c] # <<>>

(***************************************************************************)
(* The store clients.  A GET that fails and a GET of a missing key send    *)
(* every handler down the same path, so both read NoDoc.                   *)
(***************************************************************************)
Get(c) == {redis[c]} \union (IF RedisMayFail THEN {NoDoc} ELSE {})

Outcomes(mayFail) ==
    IF mayFail THEN [applied : BOOLEAN, acked : BOOLEAN] \ {[applied |-> FALSE, acked |-> TRUE]}
               ELSE {[applied |-> TRUE, acked |-> TRUE]}

Set(c, d, w) == redis' = IF w.applied THEN [redis EXCEPT ![c] = d] ELSE redis
Del(c, w) == Set(c, NoDoc, w)

(***************************************************************************)
(* Moving a handler: to its next step, or to its reply, which drops its    *)
(* local variables.                                                        *)
(***************************************************************************)
Goto(r, step) ==
    /\ pc' = [pc EXCEPT ![r] = step]
    /\ UNCHANGED <<job, crashes>>

Reply(r, answer) ==
    /\ Goto(r, answer)
    /\ doc' = [doc EXCEPT ![r] = NoDoc]
    /\ tmp' = [tmp EXCEPT ![r] = NoDoc]
    /\ todo' = [todo EXCEPT ![r] = {}]

Keep(copy, r, d) == copy' = [copy EXCEPT ![r] = d]

Init ==
    /\ \E owner \in [Preloaded -> Users], members \in [Preloaded -> SUBSET Users] :
         /\ redis = [c \in Challenges |->
                        IF c \in Preloaded
                        THEN [NewDoc(owner[c]) EXCEPT
                                !.participants = [u \in members[c] \union {owner[c]} |-> FreshMetadata],
                                !.leaderboard = [u \in members[c] \union {owner[c]} |-> 0]]
                        ELSE NoDoc]
         /\ scores = [c \in Challenges |->
                        IF c \in Preloaded THEN [u \in members[c] \union {owner[c]} |-> 0]
                                           ELSE EmptyMap]
    /\ mongo = [c \in Challenges |-> <<>>]
    /\ boards = {}
    /\ crashes = 0
    /\ pc = [r \in Requests |-> "idle"]
    /\ job = [r \in Requests |-> NoJob]
    /\ doc = [r \in Requests |-> NoDoc]
    /\ tmp = [r \in Requests |-> NoDoc]
    /\ todo = [r \in Requests |-> {}]

\* The caller of CreateChallenge picks the challenge's ID and never reuses one;
\* the other requests name a challenge some create has named.
Named(c) == c \in Preloaded \/ \E q \in Requests : job[q] # NoJob /\ job[q].op = "create" /\ C(q) = c

Receive(r) ==
    /\ pc[r] = "idle"
    /\ Cardinality(InFlight) < MaxInFlight
    /\ \E j \in Jobs :
         /\ j.op \in Ops
         /\ (j.op = "create") = ~Named(j.c)
         /\ j.op = "read" => j.held = Held(j.c)
         /\ job' = [job EXCEPT ![r] = j]
         /\ pc' = [pc EXCEPT ![r] = Entry[j.op]]
    /\ UNCHANGED <<stores, locals, crashes>>

(***************************************************************************)
(* CreateChallenge: CanCreate's KEYS and GETs (in any order, with an early *)
(* exit on the first conflict), then the SET of the new document.          *)
(***************************************************************************)
ListKeys(r) ==
    /\ pc[r] = "keys"
    /\ \/ /\ Goto(r, "scan")
          /\ Keep(todo, r, {c \in Challenges : redis[c] # NoDoc})
          /\ UNCHANGED <<stores, doc, tmp>>
       \/ /\ RedisMayFail
          /\ Reply(r, "err")
          /\ UNCHANGED stores

\* Mutant: a key that is gone is looked at again.
CheckKey_Again(r) ==
    /\ pc[r] = "scan"
    /\ \E k \in todo[r] : \E d \in Get(k) :
         IF Occupies(d, U(r))
         THEN Reply(r, "err")
         ELSE /\ Keep(todo, r, IF d = NoDoc THEN todo[r] ELSE todo[r] \ {k})
              /\ UNCHANGED <<doc, tmp, crashes, pc, job>>
    /\ UNCHANGED stores

CheckKey(r) ==
    /\ pc[r] = "scan"
    /\ \E k \in todo[r] : \E d \in Get(k) :
         \/ /\ Occupies(d, U(r))
            /\ Reply(r, "err")
            /\ UNCHANGED stores
         \/ /\ ~Occupies(d, U(r))
            /\ Keep(todo, r, todo[r] \ {k})
            /\ UNCHANGED <<stores, doc, tmp, crashes, pc, job>>

StoreNew(r) ==
    /\ pc[r] = "scan"
    /\ todo[r] = {}
    /\ \E w \in Outcomes(RedisMayFail) :
         /\ Set(C(r), NewDoc(U(r)), w)
         /\ \/ /\ w.acked
               /\ Goto(r, "initBoard")
               /\ Keep(doc, r, NewDoc(U(r)))
               /\ UNCHANGED <<tmp, todo>>
            \/ /\ ~w.acked
               /\ Reply(r, "err")
    /\ UNCHANGED <<mongo, boards, scores>>

(***************************************************************************)
(* The GET each handler starts with, and the checks it makes on the copy.  *)
(***************************************************************************)
\* Go on with the copy d (NoDoc: the copy is not used again), or fail without
\* touching a store.
Proceed(r, allowed, d, step) ==
    /\ \/ /\ allowed
          /\ Goto(r, step)
          /\ Keep(doc, r, d)
          /\ UNCHANGED <<tmp, todo>>
       \/ /\ ~allowed
          /\ Reply(r, "err")
    /\ UNCHANGED stores

\* A wrong password or a refused token is a request that changes nothing:
\* only joins that pass both checks are requests of the model.
LoadForJoin(r) ==
    /\ pc[r] = "joinLoad"
    /\ \E d \in Get(C(r)) :
         IF d # NoDoc /\ d.status # "abandon"
         THEN IF U(r) \in DOMAIN d.participants
              THEN Proceed(r, TRUE, d, "updGet")
              ELSE Proceed(r, TRUE, WithParticipant(d, U(r), FreshMetadata), "addGet")
         ELSE Proceed(r, FALSE, d, "err")

\* Mutant: a challenge that left Redis is loaded from MongoDB.
LoadForPush_FromArchive(r) ==
    /\ pc[r] = "pushLoad"
    /\ \E d \in IF redis[C(r)] = NoDoc THEN Range(mongo[C(r)]) \union {NoDoc} ELSE {redis[C(r)]} :
         IF d # NoDoc /\ U(r) \in DOMAIN d.participants
         THEN Proceed(r, TRUE, Credit(d, U(r), job[r].p, job[r].s), "write")
         ELSE Proceed(r, FALSE, d, "err")

\* Unsuccessful submissions return before the load and change nothing.
LoadForPush(r) ==
    /\ pc[r] = "pushLoad"
    /\ \E d \in Get(C(r)) :
         IF d # NoDoc /\ U(r) \in DOMAIN d.participants
         THEN Proceed(r, TRUE, Credit(d, U(r), job[r].p, job[r].s), "updGet")
         ELSE Proceed(r, FALSE, d, "err")

\* Mutant: anybody may end, abandon or leave.
CreatorOnly_Anybody(r, load, step) ==
    /\ pc[r] = load
    /\ \E d \in Get(C(r)) : Proceed(r, d # NoDoc, NoDoc, step)

CreatorOnly(r, load, step) ==
    /\ pc[r] = load
    /\ \E d \in Get(C(r)) : Proceed(r, d # NoDoc /\ d.creator = U(r), NoDoc, step)

LoadForAbandon(r) == CreatorOnly(r, "abandonLoad", "markGet")
LoadForEnd(r) == CreatorOnly(r, "endLoad", "closeBoard")
LoadForLeave(r) == CreatorOnly(r, "leaveLoad", "remGet")

\* RetreiveChallenge goes on only for a connected user.
LoadForRetrieve(r) ==
    /\ pc[r] = "retrieveLoad"
    /\ \E d \in Get(C(r)), connected \in BOOLEAN :
         Proceed(r, d # NoDoc /\ connected, NoDoc, "initBoard")

(***************************************************************************)
(* AddParticipant and UpdateParticipant (the same GET and SET), called by  *)
(* join, which logs an error and goes on, and by push, which returns it.   *)
(***************************************************************************)
ParticipantGet(r) ==
    /\ pc[r] \in {"addGet", "updGet"}
    /\ \E d \in Get(C(r)) :
         \/ /\ d # NoDoc
            /\ Goto(r, IF pc[r] = "addGet" THEN "addSet" ELSE "updSet")
            /\ Keep(tmp, r, WithParticipant(d, U(r), doc[r].participants[U(r)]))
            /\ UNCHANGED <<doc, todo>>
         \/ /\ d = NoDoc
            /\ job[r].op = "join"
            /\ Goto(r, IF pc[r] = "addGet" THEN "updGet" ELSE "initBoard")
            /\ UNCHANGED locals
         \/ /\ d = NoDoc
            /\ job[r].op = "push"
            /\ Reply(r, "err")
    /\ UNCHANGED stores

ParticipantSet(r) ==
    /\ pc[r] \in {"addSet", "updSet"}
    /\ \E w \in Outcomes(RedisMayFail) :
         /\ Set(C(r), tmp[r], w)
         /\ \/ /\ job[r].op = "join"
               /\ Goto(r, IF pc[r] = "addSet" THEN "updGet" ELSE "initBoard")
               /\ Keep(tmp, r, NoDoc)
               /\ UNCHANGED <<doc, todo>>
            \/ /\ job[r].op = "push" /\ w.acked
               /\ Goto(r, "write")
               /\ Keep(tmp, r, NoDoc)
               /\ UNCHANGED <<doc, todo>>
            \/ /\ job[r].op = "push" /\ ~w.acked
               /\ Reply(r, "err")
    /\ UNCHANGED <<mongo, boards, scores>>

\* PushSubmissionStatus writes its whole copy back.
WriteBack(r) ==
    /\ pc[r] = "write"
    /\ \E w \in Outcomes(RedisMayFail) :
         /\ Set(C(r), doc[r], w)
         /\ \/ w.acked /\ Goto(r, "initBoard") /\ UNCHANGED locals
            \/ ~w.acked /\ Reply(r, "err")
    /\ UNCHANGED <<mongo, boards, scores>>

(***************************************************************************)
(* LeaderboardManager, called by create, join, push and retrieve: an error *)
(* is logged, never returned.                                              *)
(***************************************************************************)
\* InitializeLeaderboard.  create skips the score when it fails; retrieve only
\* reads the board afterwards, which changes nothing.
InitializeLeaderboard(r) ==
    /\ pc[r] = "initBoard"
    /\ \E done \in IF RedisMayFail /\ C(r) \notin boards THEN BOOLEAN ELSE {TRUE} :
         /\ boards' = IF done THEN boards \union {C(r)} ELSE boards
         /\ \/ /\ job[r].op = "retrieve" \/ (job[r].op = "create" /\ ~done)
               /\ Reply(r, "ok")
            \/ /\ job[r].op \in {"join", "push"} \/ (job[r].op = "create" /\ done)
               /\ Goto(r, "addUser")
               /\ UNCHANGED locals
    /\ UNCHANGED <<redis, mongo, scores>>

\* Mutant: the total is added to the score the board has.
UpdateParticipantScore_Adds(r) ==
    /\ pc[r] = "addUser"
    /\ scores' = IF C(r) \in boards
                 THEN [scores EXCEPT ![C(r)] = Put(@, U(r), doc[r].participants[U(r)].total
                                                     + IF U(r) \in DOMAIN @ THEN @[U(r)] ELSE 0)]
                 ELSE scores
    /\ \/ job[r].op = "create" /\ Reply(r, "ok")
       \/ job[r].op # "create" /\ Goto(r, "topK") /\ UNCHANGED locals
    /\ UNCHANGED <<redis, mongo, boards>>

\* UpdateParticipantScore: RedisBoard's AddUser sets the user's score.
UpdateParticipantScore(r) ==
    /\ pc[r] = "addUser"
    /\ \/ /\ C(r) \in boards
          /\ \E w \in Outcomes(RedisMayFail) :
               scores' = IF w.applied
                         THEN [scores EXCEPT ![C(r)] = Put(@, U(r), doc[r].participants[U(r)].total)]
                         ELSE scores
       \/ /\ C(r) \notin boards
          /\ UNCHANGED scores
    /\ \/ job[r].op = "create" /\ Reply(r, "ok")
       \/ job[r].op # "create" /\ Goto(r, "topK") /\ UNCHANGED locals
    /\ UNCHANGED <<redis, mongo, boards>>

\* GetLeaderboard, into the snapshot of the handler's copy; without a board
\* or on an error the snapshot is skipped.  (At most 50 users are on it: the
\* instances have fewer.)
GetLeaderboard(r) ==
    /\ pc[r] = "topK"
    /\ \/ /\ C(r) \in boards
          /\ Goto(r, "save")
          /\ Keep(doc, r, [doc[r] EXCEPT !.leaderboard = scores[C(r)]])
          /\ UNCHANGED <<tmp, todo>>
       \/ /\ C(r) \notin boards \/ RedisMayFail
          /\ Reply(r, "ok")
    /\ UNCHANGED stores

\* The snapshot is saved by writing the whole copy, an error is logged.
SaveSnapshot(r) ==
    /\ pc[r] = "save"
    /\ \E w \in Outcomes(RedisMayFail) : Set(C(r), doc[r], w)
    /\ Reply(r, "ok")
    /\ UNCHANGED <<mongo, boards, scores>>

(***************************************************************************)
(* AbandonChallenge: mark, close the board, archive.  EndChallenge: close  *)
(* the board, mark (updateChallengeStatus), archive.                       *)
(***************************************************************************)
Mark(r) == IF job[r].op = "abandon" THEN "abandon" ELSE "ended"

\* The second GET, of the repository's AbandonChallenge (which checks the
\* creator again) or of updateChallengeStatus (which does not).
MarkGet(r) ==
    /\ pc[r] = "markGet"
    /\ \E d \in Get(C(r)) :
         IF d # NoDoc /\ (job[r].op = "abandon" => d.creator = U(r))
         THEN /\ Goto(r, "markSet")
              /\ Keep(tmp, r, [d EXCEPT !.status = Mark(r)])
              /\ UNCHANGED <<doc, todo>>
         ELSE Reply(r, "err")
    /\ UNCHANGED stores

\* Mutant: ENDED does not trigger the persistence.
MarkSet_EndOnly(r) ==
    /\ pc[r] = "markSet"
    /\ \E w \in Outcomes(RedisMayFail) :
         /\ Set(C(r), tmp[r], w)
         /\ \/ /\ w.acked /\ job[r].op = "abandon"
               /\ Goto(r, "closeBoard")
               /\ Keep(tmp, r, NoDoc)
               /\ UNCHANGED <<doc, todo>>
            \/ /\ ~w.acked \/ job[r].op = "end"
               /\ Reply(r, "ok")
    /\ UNCHANGED <<mongo, boards, scores>>

MarkSet(r) ==
    /\ pc[r] = "markSet"
    /\ \E w \in Outcomes(RedisMayFail) :
         /\ Set(C(r), tmp[r], w)
         /\ \/ /\ w.acked
               /\ Goto(r, IF job[r].op = "abandon" THEN "closeBoard" ELSE "archGet")
               /\ Keep(tmp, r, NoDoc)
               /\ UNCHANGED <<doc, todo>>
            \/ /\ ~w.acked
               /\ Reply(r, "err")
    /\ UNCHANGED <<mongo, boards, scores>>

\* Mutant: the entry of a closed board stays in the map.
CleanupLeaderboard_Stays(r) ==
    /\ pc[r] = "closeBoard"
    /\ Goto(r, IF job[r].op = "abandon" THEN "archGet" ELSE "markGet")
    /\ UNCHANGED <<stores, locals>>

\* CleanupLeaderboard: a Close that fails keeps the entry and is only logged.
\* Whether Close erases the scores is up to RedisBoard.
CleanupLeaderboard(r) ==
    /\ pc[r] = "closeBoard"
    /\ \/ /\ C(r) \in boards
          /\ boards' = boards \ {C(r)}
          /\ scores' \in {scores, [scores EXCEPT ![C(r)] = EmptyMap]}
       \/ /\ C(r) \notin boards \/ RedisMayFail
          /\ UNCHANGED <<boards, scores>>
    /\ Goto(r, IF job[r].op = "abandon" THEN "archGet" ELSE "markGet")
    /\ UNCHANGED <<redis, mongo, locals>>

\* Mutant: the document is taken out of Redis before it is in MongoDB.
ArchiveGet_Takes(r) ==
    /\ pc[r] = "archGet"
    /\ IF redis[C(r)] # NoDoc
       THEN Goto(r, "archFind") /\ Keep(tmp, r, redis[C(r)]) /\ UNCHANGED <<doc, todo>>
       ELSE Reply(r, "ok")
    /\ redis' = [redis EXCEPT ![C(r)] = NoDoc]
    /\ UNCHANGED <<mongo, boards, scores>>

\* persistChallengeToMongoDB.  Its errors are logged: the request succeeds.
ArchiveGet(r) ==
    /\ pc[r] = "archGet"
    /\ \E d \in Get(C(r)) :
         \/ d # NoDoc /\ Goto(r, "archFind") /\ Keep(tmp, r, d) /\ UNCHANGED <<doc, todo>>
         \/ d = NoDoc /\ Reply(r, "ok")
    /\ UNCHANGED stores

\* Mutants: MongoDB is not asked whether it has the challenge; an error of the
\* question is taken for "it has it"; only a finished document is persisted.
ArchiveFind_Blind(r) ==
    pc[r] = "archFind" /\ Goto(r, "archInsert") /\ UNCHANGED <<stores, locals>>
ArchiveFind_ErrorIsFound(r) ==
    /\ pc[r] = "archFind"
    /\ \/ Goto(r, IF mongo[C(r)] = <<>> THEN "archInsert" ELSE "archUpdate")
       \/ MongoMayFail /\ Goto(r, "archDel")
    /\ UNCHANGED <<stores, locals>>
ArchiveFind_FinishedOnly(r) ==
    /\ pc[r] = "archFind"
    /\ IF tmp[r].status \in Terminal
       THEN /\ Goto(r, IF mongo[C(r)] = <<>> THEN "archInsert" ELSE "archUpdate")
            /\ UNCHANGED locals
       ELSE Reply(r, "ok")
    /\ UNCHANGED stores

\* PersistChallengeFromRedis: FindOne, then InsertOne or UpdateOne.
ArchiveFind(r) ==
    /\ pc[r] = "archFind"
    /\ \/ Goto(r, IF mongo[C(r)] = <<>> THEN "archInsert" ELSE "archUpdate") /\ UNCHANGED locals
       \/ MongoMayFail /\ Reply(r, "ok")
    /\ UNCHANGED stores

\* Mutant: the document is deleted from Redis whatever MongoDB answered.
ArchiveInsert_DeleteAnyway(r) ==
    /\ pc[r] = "archInsert"
    /\ \E w \in Outcomes(MongoMayFail) :
         mongo' = IF w.applied THEN [mongo EXCEPT ![C(r)] = Append(@, tmp[r])] ELSE mongo
    /\ Goto(r, "archDel")
    /\ UNCHANGED <<redis, boards, scores, locals>>

ArchiveInsert(r) ==
    /\ pc[r] = "archInsert"
    /\ \E w \in Outcomes(MongoMayFail) :
         /\ mongo' = IF w.applied THEN [mongo EXCEPT ![C(r)] = Append(@, tmp[r])] ELSE mongo
         /\ \/ w.acked /\ Goto(r, "archDel") /\ UNCHANGED locals
            \/ ~w.acked /\ Reply(r, "ok")
    /\ UNCHANGED <<redis, boards, scores>>

\* $set leaves the creator alone; UpdateOne changes one of the matches.
ArchiveUpdate(r) ==
    /\ pc[r] = "archUpdate"
    /\ \E w \in Outcomes(MongoMayFail), i \in DOMAIN mongo[C(r)] :
         /\ mongo' = IF w.applied
                     THEN [mongo EXCEPT ![C(r)][i] = [tmp[r] EXCEPT !.creator = mongo[C(r)][i].creator]]
                     ELSE mongo
         /\ \/ w.acked /\ Goto(r, "archDel") /\ UNCHANGED locals
            \/ ~w.acked /\ Reply(r, "ok")
    /\ UNCHANGED <<redis, boards, scores>>

ArchiveDelete(r) ==
    /\ pc[r] = "archDel"
    /\ \E w \in Outcomes(RedisMayFail) : Del(C(r), w)
    /\ Reply(r, "ok")
    /\ UNCHANGED <<mongo, boards, scores>>

(***************************************************************************)
(* RemoveParticipantInJoinPhase: LeaveChallenge reports its error, the     *)
(* cleanup of a closed WebSocket (disconnect) logs it.                     *)
(***************************************************************************)
RemoveGet(r) ==
    /\ pc[r] = "remGet"
    /\ \E d \in Get(C(r)) :
         \/ /\ d # NoDoc
            /\ Goto(r, "remSet")
            /\ Keep(tmp, r, WithoutParticipant(d, U(r)))
            /\ UNCHANGED <<doc, todo>>
         \/ d = NoDoc /\ Reply(r, IF job[r].op = "leave" THEN "err" ELSE "ok")
    /\ UNCHANGED stores

RemoveSet(r) ==
    /\ pc[r] = "remSet"
    /\ \E w \in Outcomes(RedisMayFail) :
         /\ Set(C(r), tmp[r], w)
         /\ Reply(r, IF job[r].op = "leave" /\ ~w.acked THEN "err" ELSE "ok")
    /\ UNCHANGED <<mongo, boards, scores>>

(***************************************************************************)
(* GetFullChallengeData: Redis, and MongoDB when Redis has nothing.        *)
(***************************************************************************)
ReadRedis(r) ==
    /\ pc[r] = "readRedis"
    /\ \E d \in Get(C(r)) :
         \/ d # NoDoc /\ Reply(r, "ok")
         \/ d = NoDoc /\ Goto(r, "readMongo") /\ UNCHANGED locals
    /\ UNCHANGED stores

ReadMongo(r) ==
    /\ pc[r] = "readMongo"
    /\ \/ Reply(r, IF mongo[C(r)] = <<>> THEN "absent" ELSE "ok")
       \/ MongoMayFail /\ Reply(r, "err")
    /\ UNCHANGED stores

\* The process dies with its handlers and its boards, and starts again on the
\* stores as they are (main.go restores no board).
Crash ==
    /\ crashes < MaxCrashes
    /\ crashes' = crashes + 1
    /\ pc' = [r \in Requests |-> IF pc[r] \in Steps THEN "crashed" ELSE pc[r]]
    /\ doc' = [r \in Requests |-> NoDoc]
    /\ tmp' = [r \in Requests |-> NoDoc]
    /\ todo' = [r \in Requests |-> {}]
    /\ boards' = {}
    /\ UNCHANGED <<redis, mongo, scores, job>>

Step(r) ==
    \/ ListKeys(r) \/ CheckKey(r) \/ StoreNew(r)
    \/ LoadForJoin(r) \/ LoadForPush(r) \/ LoadForAbandon(r)
    \/ LoadForEnd(r) \/ LoadForLeave(r) \/ LoadForRetrieve(r)
    \/ ParticipantGet(r) \/ ParticipantSet(r) \/ WriteBack(r)
    \/ InitializeLeaderboard(r) \/ UpdateParticipantScore(r)
    \/ GetLeaderboard(r) \/ SaveSnapshot(r)
    \/ MarkGet(r) \/ MarkSet(r) \/ CleanupLeaderboard(r)
    \/ ArchiveGet(r) \/ ArchiveFind(r) \/ ArchiveInsert(r)
    \/ ArchiveUpdate(r) \/ ArchiveDelete(r)
    \/ RemoveGet(r) \/ RemoveSet(r) \/ ReadRedis(r) \/ ReadMongo(r)

\* No handler is running.
Quiet == InFlight = {}

\* Every request was answered or died: the instance is over.  Any other state
\* without a step is a handler that is stuck, a deadlock TLC reports.
AllServed ==
    /\ \A r \in Requests : pc[r] \in Finished
    /\ UNCHANGED vars

Next == Crash \/ AllServed \/ \E r \in Requests : Receive(r) \/ Step(r)

Spec == Init /\ [][Next]_vars

\* A handler is a goroutine the Go scheduler keeps running, and every store
\* call returns, with a reply or with an error.
FairSpec == Spec /\ \A r \in Requests : WF_vars(Step(r))

(***************************************************************************)
(* What the requests promise.                                              *)
(***************************************************************************)
\* Every variable has its type.
TypeOK ==
    /\ redis \in [Challenges -> Docs \union {NoDoc}]
    /\ mongo \in [Challenges -> Seq(Docs)]
    /\ boards \subseteq Challenges
    /\ scores \in [Challenges -> PMap(Users, Totals)]
    /\ crashes \in 0 .. MaxCrashes
    /\ pc \in [Requests -> {"idle"} \union Steps \union Finished]
    /\ job \in [Requests -> Jobs \union {NoJob}]
    /\ doc \in [Requests -> Docs \union {NoDoc}]
    /\ tmp \in [Requests -> Docs \union {NoDoc}]
    /\ todo \in [Requests -> SUBSET Challenges]

Is(r, ops) == job[r] # NoJob /\ job[r].op \in ops

(* The inductive invariant: which handler stands where, and what it holds. *)

OpInPlace(r) ==
    /\ pc[r] = "idle" => job[r] = NoJob
    /\ pc[r] # "idle" => job[r] \in Jobs
    /\ pc[r] \in {"keys", "scan"} => Is(r, {"create"})
    /\ pc[r] \in {"joinLoad", "addGet", "addSet"} => Is(r, {"join"})
    /\ pc[r] \in {"pushLoad", "write"} => Is(r, {"push"})
    /\ pc[r] \in {"updGet", "updSet", "topK", "save"} => Is(r, {"join", "push"})
    /\ pc[r] = "addUser" => Is(r, {"create", "join", "push"})
    /\ pc[r] = "initBoard" => Is(r, {"create", "join", "push", "retrieve"})
    /\ pc[r] = "abandonLoad" => Is(r, {"abandon"})
    /\ pc[r] = "endLoad" => Is(r, {"end"})
    /\ pc[r] \in {"closeBoard", "markGet", "markSet", "archGet", "archFind",
                  "archInsert", "archUpdate", "archDel"} => Is(r, {"abandon", "end"})
    /\ pc[r] = "leaveLoad" => Is(r, {"leave"})
    /\ pc[r] \in {"remGet", "remSet"} => Is(r, {"leave", "disconnect"})
    /\ pc[r] \in {"readRedis", "readMongo"} => Is(r, {"read"})
    /\ pc[r] = "retrieveLoad" => Is(r, {"retrieve"})

CopyInHand(r) ==
    /\ \/ pc[r] \in {"addGet", "addSet", "updGet", "updSet", "write", "addUser", "topK", "save"}
       \/ pc[r] = "initBoard" /\ job[r].op # "retrieve"
       => doc[r] \in Docs /\ U(r) \in DOMAIN doc[r].participants
    /\ pc[r] \in {"addSet", "updSet", "markSet", "remSet",
                  "archFind", "archInsert", "archUpdate", "archDel"} => tmp[r] \in Docs

\* The archiving handler works on a challenge that exists, and deletes it from
\* Redis only when MongoDB has it.
ArchiveOrder(r) ==
    /\ pc[r] \in {"archFind", "archInsert", "archUpdate"} => Held(C(r))
    /\ pc[r] = "archDel" => mongo[C(r)] # <<>>

\* No handler writes, deletes or archives a document it does not have, and
\* MongoDB comes before the deletion.
IInv == TypeOK /\ \A r \in Requests : OpInPlace(r) /\ CopyInHand(r) /\ ArchiveOrder(r)

\* Every copy of a challenge's document, in a store or in a handler's hands.
Copies(c) ==
    ({redis[c]} \union Range(mongo[c])
        \union {doc[r] : r \in {q \in Requests : job[q] # NoJob /\ C(q) = c}}
        \union {tmp[r] : r \in {q \in Requests : job[q] # NoJob /\ C(q) = c}}) \ {NoDoc}

\* A challenge that is in Redis or in MongoDB is in one of them for ever,
\* through concurrent handlers, failed or half-applied calls and crashes:
\* persistChallengeToMongoDB deletes only what MongoDB acknowledged.
NeverLost == [][\A c \in Challenges : Held(c) => Held(c)']_vars

\* A copy that says "abandoned" or "ended" goes back to a request of exactly
\* that kind by the challenge's own creator; stale copies cannot carry a
\* verdict from anybody else.
OnlyCreatorTerminates ==
    \A c \in Challenges : \A d \in Copies(c) : d.status \in Terminal =>
        \E r \in Requests : /\ Is(r, {IF d.status = "abandon" THEN "abandon" ELSE "end"})
                            /\ C(r) = c /\ U(r) = d.creator

\* Every point in any copy was pushed for that user and that problem: mixing
\* stale copies loses points, it never invents or moves them.
NoPhantomScore ==
    \A c \in Challenges : \A d \in Copies(c) :
        LET Pushed(u, p, s) == \E r \in Requests :
                Is(r, {"push"}) /\ job[r] = [op |-> "push", c |-> c, u |-> u, p |-> p, s |-> s]
        IN  /\ \A u \in DOMAIN d.participants : \A p \in DOMAIN d.participants[u].done :
                    Pushed(u, p, d.participants[u].done[p])
            /\ \A u \in DOMAIN d.submissions : \A p \in DOMAIN d.submissions[u] :
                    Pushed(u, p, d.submissions[u][p])

\* The two stores together implement the archive's promise.
Archive == INSTANCE ChallengeArchive
               WITH live <- {c \in Challenges : redis[c] # NoDoc},
                    archived <- {c \in Challenges : mongo[c] # <<>>}
KeepsArchive == Archive!Spec

(* Requests served one after the other, across MongoDB failures and crashes *)

\* Without a revival: what is evicted from Redis does not come back.
KeepsOneWay == Archive!OneWaySpec

\* A finished challenge does not open again.
NeverReopens ==
    [][\A c \in Challenges :
          redis[c] # NoDoc /\ redis[c].status \in Terminal
              => redis'[c] = NoDoc \/ redis'[c].status \in Terminal]_vars

\* CanCreate's purpose: nobody has two open challenges.
OneOpenPerCreator ==
    \A c1, c2 \in Challenges :
        /\ redis[c1] # NoDoc /\ redis[c1].status = "open"
        /\ redis[c2] # NoDoc /\ redis[c2].status = "open"
        /\ redis[c1].creator = redis[c2].creator
        => c1 = c2

\* MongoDB has a challenge once, and only after it finished.
ArchivedOnceFinished ==
    \A c \in Challenges :
        /\ Len(mongo[c]) <= 1
        /\ \A d \in Range(mongo[c]) : d.status \in Terminal

\* The documents GetFullChallengeData may answer with.
Served(c) == IF redis[c] # NoDoc THEN {redis[c]} ELSE Range(mongo[c])

\* A push that was acknowledged is in the document a reader is given, unless
\* another push replaced it or the user left: as a submission and as a problem
\* done.  (MongoDB may have a copy without it, when the reply to the insert was
\* lost and the push found the finished challenge still in Redis.)
AckedPushKept ==
    \A r \in Requests :
        /\ Is(r, {"push"})
        /\ pc[r] = "ok"
        /\ \A q \in Requests \ {r} :
              ~ /\ Is(q, {"push", "leave", "disconnect"})
                /\ C(q) = C(r) /\ U(q) = U(r)
                /\ job[q].op = "push" => job[q].p = job[r].p
        => \A d \in Served(C(r)) :
              /\ U(r) \in DOMAIN d.participants \intersect DOMAIN d.submissions
              /\ job[r].p \in DOMAIN d.participants[U(r)].done
                                 \intersect DOMAIN d.submissions[U(r)]
              /\ d.participants[U(r)].done[job[r].p] = job[r].s
              /\ d.submissions[U(r)][job[r].p] = job[r].s

\* Between requests, and until a crash, the open board of an open challenge
\* has every participant's total, and the snapshot in Redis is that board.
BoardAgrees ==
    Quiet /\ crashes = 0 =>
        \A c \in boards : redis[c] # NoDoc /\ redis[c].status = "open" =>
            /\ redis[c].leaderboard = scores[c]
            /\ \A u \in DOMAIN redis[c].participants :
                  u \in DOMAIN scores[c] /\ scores[c][u] = redis[c].participants[u].total

\* Between requests no board is open for a challenge that left Redis.
NoOrphanBoard == Quiet => \A c \in boards : redis[c] # NoDoc

(* Requests served concurrently, while the stores answer *)

\* The creator who was told the challenge is over finds it in MongoDB.
EndedIsArchived ==
    \A r \in Requests : Is(r, {"abandon", "end"}) /\ pc[r] = "ok" => mongo[C(r)] # <<>>

\* GetFullChallengeData looks in Redis and then in MongoDB: a challenge that
\* existed when the read arrived is not missed while it moves.
ReaderNeverMisses ==
    \A r \in Requests : Is(r, {"read"}) /\ job[r].held => pc[r] # "absent"

\* A challenge marked as over reaches MongoDB.
OverIsArchived ==
    \A c \in Challenges :
        (redis[c] # NoDoc /\ redis[c].status \in Terminal) ~> mongo[c] # <<>>

\* Every request that arrived is answered.
EveryRequestEnds == \A r \in Requests : (pc[r] \in Steps) ~> (pc[r] \in Finished)

(* Requests served concurrently: what lifecycle.md says of them *)

\* lifecycle.md: "Data exists only during active challenge lifecycle".
GoneStaysGone ==
    [][\A c \in Challenges : mongo[c] # <<>> /\ redis[c] = NoDoc => redis'[c] = NoDoc]_vars

\* The comment over the push's load: "Get challenge from Redis to verify it
\* exists and is active".  Nothing looks at the status: a challenge that is over
\* but could not be archived still takes pushes.
PushesOnlyToActive ==
    [][\A r \in Requests :
          pc[r] = "pushLoad" /\ pc'[r] = "updGet" => redis[C(r)].status \notin Terminal]_vars
====
