---- MODULE ChallengeStoresProofs ----
(***************************************************************************)
(* The two stores of ChallengeLifecycle implement ChallengeArchive: every  *)
(* step of a handler opens, archives, evicts or revives one challenge, or  *)
(* leaves which challenges the stores have as it is.  So a reader that     *)
(* looks in Redis and then in MongoDB finds what existed when it came.     *)
(***************************************************************************)
EXTENDS ChallengeLifecycleProofs

live == {c \in Challenges : redis[c] # NoDoc}
archived == {c \in Challenges : mongo[c] # <<>>}

\* Redis may change at c, and loses c only when MongoDB has it.
RedisMoves(c) ==
    /\ mongo' = mongo
    /\ \A b \in Challenges \ {c} : redis'[b] = redis[b]
    /\ mongo[c] = <<>> /\ redis[c] # NoDoc => redis'[c] # NoDoc

\* MongoDB gets c, which one of the stores had.
MongoMoves(c) ==
    /\ redis' = redis
    /\ \A b \in Challenges \ {c} : mongo'[b] = mongo[b]
    /\ mongo'[c] # <<>>
    /\ Held(c)

Moves == UNCHANGED <<redis, mongo>> \/ \E c \in Challenges : RedisMoves(c) \/ MongoMoves(c)

\* Writing a document, whether the call succeeds or not.
LEMMA SetMoves ==
    ASSUME TypeOK, NEW c \in Challenges, NEW d \in Docs, NEW w, Set(c, d, w), UNCHANGED mongo
    PROVE  Moves
<1>1. d # NoDoc
  BY NoDocAssumption
<1>2. RedisMoves(c)
  BY <1>1, SetType DEF RedisMoves
<1>3. QED
  BY <1>2 DEF Moves

\* The handlers' writes to Redis: each writes the document it holds.
LEMMA WriteMoves ==
    ASSUME IInv, NEW r \in Requests,
           \/ StoreNew(r) \/ ParticipantSet(r) \/ WriteBack(r)
           \/ SaveSnapshot(r) \/ MarkSet(r) \/ RemoveSet(r)
    PROVE  Moves
<1>1. TypeOK /\ OpInPlace(r) /\ CopyInHand(r)
  BY DEF IInv
<1>2. pc[r] # "idle"
  BY DEF StoreNew, ParticipantSet, WriteBack, SaveSnapshot, MarkSet, RemoveSet
<1>3. C(r) \in Challenges
  BY <1>2, JobType
<1>4. CASE StoreNew(r)
  <2>1. U(r) \in Users
    BY <1>1, <1>2, <1>4, JobType DEF StoreNew, OpInPlace, Is, MemberOps
  <2>2. NewDoc(U(r)) \in Docs
    BY <2>1, NewDocType
  <2>3. PICK d \in Docs : d = NewDoc(U(r))
    BY <2>2
  <2>4. \E w : Set(C(r), d, w)
    BY <1>4, <2>3 DEF StoreNew
  <2>5. QED
    BY <1>1, <1>3, <1>4, <2>4, SetMoves DEF StoreNew
<1>5. CASE ParticipantSet(r) \/ MarkSet(r) \/ RemoveSet(r)
  <2>1. tmp[r] \in Docs
    BY <1>1, <1>5 DEF ParticipantSet, MarkSet, RemoveSet, CopyInHand
  <2>2. (\E w : Set(C(r), tmp[r], w)) /\ UNCHANGED mongo
    BY <1>5 DEF ParticipantSet, MarkSet, RemoveSet
  <2>3. QED
    BY <1>1, <1>3, <2>1, <2>2, SetMoves
<1>6. CASE WriteBack(r) \/ SaveSnapshot(r)
  <2>1. doc[r] \in Docs
    BY <1>1, <1>6 DEF WriteBack, SaveSnapshot, CopyInHand
  <2>2. (\E w : Set(C(r), doc[r], w)) /\ UNCHANGED mongo
    BY <1>6 DEF WriteBack, SaveSnapshot
  <2>3. QED
    BY <1>1, <1>3, <2>1, <2>2, SetMoves
<1>7. QED
  BY <1>4, <1>5, <1>6

\* The archiving handler's three writes.
LEMMA ArchivingMoves ==
    ASSUME IInv, NEW r \in Requests, ArchiveInsert(r) \/ ArchiveUpdate(r) \/ ArchiveDelete(r)
    PROVE  Moves
<1>1. TypeOK /\ CopyInHand(r) /\ ArchiveOrder(r)
  BY DEF IInv
<1>2. pc[r] \in {"archInsert", "archUpdate", "archDel"}
  BY DEF ArchiveInsert, ArchiveUpdate, ArchiveDelete
<1>3. C(r) \in Challenges /\ mongo[C(r)] \in Seq(Docs)
  BY <1>1, <1>2, JobType DEF TypeOK
<1>4. CASE ArchiveInsert(r)
  <2>1. tmp[r] \in Docs /\ Held(C(r))
    BY <1>1, <1>4 DEF ArchiveInsert, CopyInHand, ArchiveOrder
  <2>2. Append(mongo[C(r)], tmp[r]) # <<>>
    BY <1>3, <2>1, AppendSeq
  <2>3. mongo' = mongo \/ mongo' = [mongo EXCEPT ![C(r)] = Append(@, tmp[r])]
    BY <1>4 DEF ArchiveInsert
  <2>4. mongo' = mongo \/ MongoMoves(C(r))
    BY <1>1, <1>3, <1>4, <2>1, <2>2, <2>3 DEF MongoMoves, TypeOK, ArchiveInsert
  <2>5. QED
    BY <1>3, <1>4, <2>4 DEF Moves, ArchiveInsert
<1>5. CASE ArchiveUpdate(r)
  <2>1. PICK i \in DOMAIN mongo[C(r)] :
          \/ mongo' = mongo
          \/ mongo' = [mongo EXCEPT ![C(r)][i] = [tmp[r] EXCEPT !.creator = mongo[C(r)][i].creator]]
    BY <1>5 DEF ArchiveUpdate
  <2>2. Held(C(r)) /\ mongo[C(r)] # <<>>
    BY <1>1, <1>3, <1>5, <2>1 DEF ArchiveUpdate, ArchiveOrder
  <2>3. \A s \in Seq(Docs) : \A e : s # <<>> => [s EXCEPT ![i] = e] # <<>>
    BY <1>3, <2>1
  <2>4. mongo' = mongo \/ MongoMoves(C(r))
    BY <1>1, <1>3, <1>5, <2>1, <2>2, <2>3 DEF MongoMoves, TypeOK, ArchiveUpdate
  <2>5. QED
    BY <1>3, <1>5, <2>4 DEF Moves, ArchiveUpdate
<1>6. CASE ArchiveDelete(r)
  <2>1. mongo[C(r)] # <<>>
    BY <1>1, <1>6 DEF ArchiveDelete, ArchiveOrder
  <2>2. RedisMoves(C(r))
    BY <1>1, <1>3, <1>6, <2>1 DEF RedisMoves, TypeOK, ArchiveDelete, Del, Set
  <2>3. QED
    BY <1>3, <2>2 DEF Moves
<1>7. QED
  BY <1>4, <1>5, <1>6

\* Every other step of a handler leaves both stores alone.
LEMMA StepMoves ==
    ASSUME IInv, NEW r \in Requests, Step(r)
    PROVE  Moves
<1>1. CASE \/ ListKeys(r) \/ CheckKey(r) \/ LoadForJoin(r) \/ LoadForPush(r)
           \/ LoadForAbandon(r) \/ LoadForEnd(r) \/ LoadForLeave(r) \/ LoadForRetrieve(r)
  <2>1. UNCHANGED stores
    BY <1>1 DEF ListKeys, CheckKey, LoadForJoin, LoadForPush, LoadForAbandon, LoadForEnd,
                LoadForLeave, LoadForRetrieve, CreatorOnly, Proceed
  <2>2. QED
    BY <2>1 DEF Moves, stores
<1>2. CASE \/ ParticipantGet(r) \/ InitializeLeaderboard(r) \/ UpdateParticipantScore(r)
           \/ GetLeaderboard(r) \/ MarkGet(r) \/ CleanupLeaderboard(r) \/ ArchiveGet(r)
           \/ ArchiveFind(r) \/ RemoveGet(r) \/ ReadRedis(r) \/ ReadMongo(r)
  BY <1>2 DEF ParticipantGet, InitializeLeaderboard, UpdateParticipantScore, GetLeaderboard,
              MarkGet, CleanupLeaderboard, ArchiveGet, ArchiveFind, RemoveGet, ReadRedis,
              ReadMongo, Moves, stores
<1>3. QED
  BY <1>1, <1>2, WriteMoves, ArchivingMoves DEF Step

\* So does every step of the system.
LEMMA NextMoves ==
    ASSUME IInv, [Next]_vars
    PROVE  Moves
<1>1. ASSUME NEW r \in Requests, Receive(r)
      PROVE  Moves
  BY <1>1 DEF Receive, Moves, stores
<1>2. CASE Crash \/ UNCHANGED vars
  BY <1>2 DEF Crash, Moves, vars
<1>3. QED
  BY <1>1, <1>2, StepMoves DEF Next, AllServed

\* What happens to the stores is a step of the archive.
LEMMA MovesImplement ==
    ASSUME Moves
    PROVE  Archive!Next \/ UNCHANGED Archive!vars
<1>1. ASSUME NEW c \in Challenges, RedisMoves(c)
      PROVE  Archive!Next \/ UNCHANGED Archive!vars
  <2>1. archived' = archived
    BY <1>1 DEF RedisMoves, archived
  <2>2. \A b \in Challenges \ {c} : b \in live' <=> b \in live
    BY <1>1 DEF RedisMoves, live
  <2>3. CASE c \in live' /\ c \notin live
    <3>1. live' = live \union {c}
      BY <2>2, <2>3 DEF live
    <3>2. CASE c \in archived
      <4>1. Archive!Revive(c)
        BY <2>1, <3>1, <3>2 DEF Archive!Revive, live, archived
      <4>2. QED
        BY <4>1 DEF Archive!Next
    <3>3. CASE c \notin archived
      <4>1. Archive!Open(c)
        BY <2>1, <2>3, <3>1, <3>3 DEF Archive!Open, live, archived
      <4>2. QED
        BY <4>1 DEF Archive!Next, Archive!OneWay
    <3>4. QED
      BY <3>2, <3>3
  <2>4. CASE c \notin live' /\ c \in live
    <3>1. c \in archived
      BY <1>1, <2>4 DEF RedisMoves, live, archived
    <3>2. live' = live \ {c}
      BY <2>2, <2>4 DEF live
    <3>3. Archive!Evict(c)
      BY <2>1, <3>1, <3>2 DEF Archive!Evict, live, archived
    <3>4. QED
      BY <3>3 DEF Archive!Next, Archive!OneWay
  <2>5. CASE c \in live' <=> c \in live
    <3>1. live' = live
      BY <2>2, <2>5 DEF live
    <3>2. QED
      BY <2>1, <3>1 DEF Archive!vars, live, archived
  <2>6. QED
    BY <2>3, <2>4, <2>5
<1>2. ASSUME NEW c \in Challenges, MongoMoves(c)
      PROVE  Archive!Next
  <2>1. live' = live
    BY <1>2 DEF MongoMoves, live
  <2>2. archived' = archived \union {c}
    BY <1>2 DEF MongoMoves, archived
  <2>3. Archive!Archive(c)
    BY <1>2, <2>1, <2>2 DEF Archive!Archive, MongoMoves, Held, live, archived
  <2>4. QED
    BY <2>3 DEF Archive!Next, Archive!OneWay
<1>3. CASE UNCHANGED <<redis, mongo>>
  BY <1>3 DEF Archive!vars
<1>4. QED
  BY <1>1, <1>2, <1>3 DEF Moves

\* Whatever requests overlap and whatever fails, Redis and MongoDB together
\* keep the archive's promise: a challenge leaves Redis only when MongoDB has
\* it, and MongoDB gets only what was there.
THEOREM StoresImplementArchive == Spec => KeepsArchive
<1>1. Init => Archive!Init
  <2> SUFFICES ASSUME Init PROVE Archive!Init
    OBVIOUS
  <2>1. mongo = [c \in Challenges |-> <<>>]
    BY DEF Init
  <2>2. QED
    BY <2>1 DEF Archive!Init
<1>2. IInv /\ [Next]_vars => [Archive!Next]_(Archive!vars)
  <2> SUFFICES ASSUME IInv, [Next]_vars
               PROVE  Archive!Next \/ UNCHANGED Archive!vars
    OBVIOUS
  <2>1. Moves
    BY NextMoves
  <2>2. QED
    BY <2>1, MovesImplement
<1>3. QED
  BY Invariance, <1>1, <1>2, PTL DEF Spec, KeepsArchive, Archive!Spec

(***************************************************************************)
(* GetFullChallengeData finds every challenge that existed when it was     *)
(* asked, as long as Redis answers, whatever moves the challenge between   *)
(* the stores meanwhile: for any number of requests and crashes.           *)
(***************************************************************************)
\* A reader whose challenge existed: it still does at the first look, and at
\* the second one MongoDB has it.
ReaderInv ==
    \A r \in Requests : Is(r, {"read"}) /\ job[r].held =>
        /\ pc[r] = "readRedis" => Held(C(r))
        /\ pc[r] = "readMongo" => mongo[C(r)] # <<>>
        /\ pc[r] # "absent"

\* Only the two looks of a reader are steps of a read.
LEMMA ReadSteps ==
    ASSUME IInv, NEW r \in Requests, Step(r), Is(r, {"read"})
    PROVE  ReadRedis(r) \/ ReadMongo(r)
<1>1. OpInPlace(r)
  BY DEF IInv
<1>2. pc[r] \in {"readRedis", "readMongo"} \/ ~(pc[r] \in Steps)
  BY <1>1 DEF OpInPlace, Is, Steps
<1>3. CASE \/ ListKeys(r) \/ CheckKey(r) \/ StoreNew(r) \/ LoadForJoin(r) \/ LoadForPush(r)
           \/ LoadForAbandon(r) \/ LoadForEnd(r) \/ LoadForLeave(r) \/ LoadForRetrieve(r)
           \/ ParticipantGet(r) \/ ParticipantSet(r) \/ WriteBack(r)
  BY <1>2, <1>3 DEF ListKeys, CheckKey, StoreNew, LoadForJoin, LoadForPush, LoadForAbandon,
              LoadForEnd, LoadForLeave, LoadForRetrieve, CreatorOnly, ParticipantGet,
              ParticipantSet, WriteBack, Steps
<1>4. CASE \/ InitializeLeaderboard(r) \/ UpdateParticipantScore(r) \/ GetLeaderboard(r)
           \/ SaveSnapshot(r) \/ MarkGet(r) \/ MarkSet(r) \/ CleanupLeaderboard(r)
           \/ ArchiveGet(r) \/ ArchiveFind(r) \/ ArchiveInsert(r) \/ ArchiveUpdate(r)
           \/ ArchiveDelete(r) \/ RemoveGet(r) \/ RemoveSet(r)
  BY <1>2, <1>4 DEF InitializeLeaderboard, UpdateParticipantScore, GetLeaderboard, SaveSnapshot,
              MarkGet, MarkSet, CleanupLeaderboard, ArchiveGet, ArchiveFind, ArchiveInsert,
              ArchiveUpdate, ArchiveDelete, RemoveGet, RemoveSet, Steps
<1>5. QED
  BY <1>3, <1>4 DEF Step

\* A reader's own step, while Redis answers.
LEMMA LookKeeps ==
    ASSUME IInv, ReaderInv, ~RedisMayFail, NEW r \in Requests, ReadRedis(r) \/ ReadMongo(r),
           Is(r, {"read"}), job[r].held
    PROVE  /\ pc'[r] = "readRedis" => Held(C(r))'
           /\ pc'[r] = "readMongo" => mongo'[C(r)'] # <<>>
           /\ pc'[r] # "absent"
<1>1. TypeOK
  BY DEF IInv
<1>2. CASE ReadRedis(r)
  <2>1. Held(C(r)) /\ UNCHANGED stores
    BY <1>2 DEF ReaderInv, ReadRedis
  <2>2. CASE redis[C(r)] # NoDoc
    <3>1. pc'[r] = "ok"
      BY <1>1, <1>2, <2>2 DEF ReadRedis, Get, Reply, Goto, TypeOK
    <3>2. QED
      BY <3>1
  <2>3. CASE redis[C(r)] = NoDoc
    <3>1. mongo[C(r)] # <<>>
      BY <2>1, <2>3 DEF Held
    <3>2. pc'[r] = "readMongo" /\ job' = job /\ mongo' = mongo
      BY <1>1, <1>2, <2>3 DEF ReadRedis, Get, Goto, TypeOK, stores
    <3>3. QED
      BY <3>1, <3>2 DEF C
  <2>4. QED
    BY <2>2, <2>3
<1>3. CASE ReadMongo(r)
  <2>1. mongo[C(r)] # <<>>
    BY <1>3 DEF ReaderInv, ReadMongo
  <2>2. pc'[r] \in {"ok", "err"}
    BY <1>1, <1>3, <2>1 DEF ReadMongo, Reply, Goto, TypeOK
  <2>3. QED
    BY <2>2
<1>4. QED
  BY <1>2, <1>3

\* A request that arrives looks at what the stores have at that moment.
LEMMA ArrivalKeeps ==
    ASSUME IInv, NEW r \in Requests, Receive(r), Is(r, {"read"})', job'[r].held
    PROVE  pc'[r] = "readRedis" /\ Held(C(r))'
<1>1. TypeOK
  BY DEF IInv
<1>2. PICK j \in Jobs : /\ j.op = "read" => j.held = Held(j.c)
                        /\ job' = [job EXCEPT ![r] = j]
                        /\ pc' = [pc EXCEPT ![r] = Entry[j.op]]
  BY DEF Receive
<1>3. job'[r] = j /\ pc'[r] = Entry[j.op]
  BY <1>1, <1>2 DEF TypeOK
<1>4. j.op = "read"
  BY <1>3 DEF Is
<1>5. UNCHANGED stores
  BY DEF Receive
<1>6. pc'[r] = "readRedis"
  BY <1>3, <1>4 DEF Entry
<1>7. Held(j.c)
  BY <1>2, <1>3, <1>4
<1>8. C(r)' = j.c /\ redis' = redis /\ mongo' = mongo
  BY <1>3, <1>5 DEF C, stores
<1>9. Held(C(r))'
  BY <1>7, <1>8 DEF Held
<1>10. QED
  BY <1>6, <1>9

\* The other readers: their challenges are not forgotten.
LEMMA OtherReaders ==
    ASSUME IInv, ReaderInv, StoresKeep, NEW q \in Requests,
           pc'[q] = pc[q], job'[q] = job[q], Is(q, {"read"})', job'[q].held
    PROVE  /\ pc'[q] = "readRedis" => Held(C(q))'
           /\ pc'[q] = "readMongo" => mongo'[C(q)'] # <<>>
           /\ pc'[q] # "absent"
<1>1. Is(q, {"read"}) /\ job[q].held
  BY DEF Is
<1>2. pc[q] \in {"readRedis", "readMongo"} => C(q) \in Challenges
  BY JobType
<1>3. QED
  BY <1>1, <1>2 DEF ReaderInv, StoresKeep, C, Held

\* While Redis answers, a reader does not miss a challenge that existed when
\* the read arrived: the look into MongoDB comes after the look into Redis, and
\* the deletion from Redis after the insert into MongoDB.
THEOREM ReadersFind == ~RedisMayFail /\ Spec => []ReaderNeverMisses
<1> SUFFICES ASSUME ~RedisMayFail
             PROVE  Spec => []ReaderNeverMisses
  OBVIOUS
<1>1. Init => ReaderInv
  BY DEF Init, ReaderInv, Is
<1>2. IInv /\ ReaderInv /\ [Next]_vars => ReaderInv'
  <2>0. SUFFICES ASSUME IInv, ReaderInv, [Next]_vars
                 PROVE  ReaderInv'
    OBVIOUS
  <2> SUFFICES ASSUME NEW q \in Requests, Is(q, {"read"})', job'[q].held
               PROVE  /\ pc'[q] = "readRedis" => Held(C(q))'
                      /\ pc'[q] = "readMongo" => mongo'[C(q)'] # <<>>
                      /\ pc'[q] # "absent"
    BY DEF ReaderInv
  <2>1. StoresKeep
    BY <2>0, NextKeeps
  <2>2. ASSUME NEW r \in Requests, Receive(r) \/ Step(r), r # q
        PROVE  pc'[q] = pc[q] /\ job'[q] = job[q]
    BY <2>0, <2>2, ReceiveSafe, StepSafe DEF Safe, OthersKeep
  <2>3. CASE Receive(q)
    BY <2>0, <2>3, ArrivalKeeps
  <2>4. CASE Step(q)
    <3>1. Is(q, {"read"}) /\ job[q].held
      BY <2>4, StepKeepsJob DEF Is
    <3>2. QED
      BY <2>0, <2>4, <3>1, ReadSteps, LookKeeps
  <2>5. CASE Crash
    <3>1. pc'[q] \in {pc[q], "crashed"} /\ job'[q] = job[q] /\ ~(pc'[q] \in Steps)
      BY <2>0, <2>5 DEF Crash, IInv, TypeOK, Steps
    <3>2. Is(q, {"read"}) /\ job[q].held
      BY <3>1 DEF Is
    <3>3. QED
      BY <2>0, <3>1, <3>2 DEF ReaderInv, Steps
  <2>6. CASE UNCHANGED vars
    BY <2>0, <2>1, <2>6, OtherReaders DEF vars
  <2>7. QED
    BY <2>0, <2>1, <2>2, <2>3, <2>4, <2>5, <2>6, OtherReaders DEF Next, AllServed
<1>3. ReaderInv => ReaderNeverMisses
  BY DEF ReaderInv, ReaderNeverMisses
<1>4. QED
  BY Invariance, <1>1, <1>2, <1>3, PTL DEF Spec
====
