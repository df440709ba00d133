---- MODULE ChallengeSerialProofs ----
(***************************************************************************)
(* What the requests promise as long as they are served one at a time:     *)
(* MaxInFlight = 1.  A handler that runs alone knows what is in the        *)
(* stores, through failed and half-applied calls and through crashes.      *)
(***************************************************************************)
EXTENDS ChallengeCopiesProofs, ChallengeStoresProofs, FiniteSetTheorems

(***************************************************************************)
(* One handler at a time.                                                  *)
(***************************************************************************)
Alone == \A q, r \in InFlight : q = r

\* The steps of the persistence.
Ending == {"archGet", "archFind", "archInsert", "archUpdate", "archDel"}

\* The handler's copy is in use.
InHand(r) ==
    \/ pc[r] \in {"addGet", "addSet", "updGet", "updSet", "write", "addUser", "topK", "save"}
    \/ pc[r] = "initBoard" /\ job[r].op # "retrieve"

\* What a handler that runs alone knows of the stores: its challenge is in
\* Redis with the status of the copy it is about to write, or finished, and
\* MongoDB has what the archiving handler found or put there.
Sync(r) ==
    /\ InHand(r) \/ pc[r] \in {"initBoard", "remSet"} \union Past => redis[C(r)] # NoDoc
    /\ InHand(r) => doc[r].status = redis[C(r)].status
    /\ pc[r] \in {"addSet", "updSet", "remSet"} => tmp[r].status = redis[C(r)].status
    /\ pc[r] = "markSet" => tmp[r].status \in Terminal
    /\ pc[r] \in Ending \/ (pc[r] = "closeBoard" /\ job[r].op = "abandon")
           => redis[C(r)].status \in Terminal
    /\ pc[r] \in {"archFind", "archInsert", "archUpdate"} => tmp[r] = redis[C(r)]
    /\ pc[r] = "archInsert" => mongo[C(r)] = <<>>
    /\ pc[r] = "archUpdate" => mongo[C(r)] # <<>>
    /\ pc[r] = "archDel" => mongo[C(r)] = <<redis[C(r)]>>

\* Nobody else runs, and MongoDB has finished challenges, once.
SerialInv == Alone /\ ArchivedOnceFinished /\ \A r \in InFlight : Sync(r)

\* A step does not reopen c, and does not bring it back from MongoDB.
StaysOver(c) ==
    redis[c] # NoDoc /\ redis[c].status \in Terminal
        => redis'[c] = NoDoc \/ redis'[c].status \in Terminal
\* Nor does it bring c back from MongoDB.
StaysGone(c) == mongo[c] # <<>> /\ redis[c] = NoDoc => redis'[c] = NoDoc

\* What the step of a handler that runs alone does.
Advances(r) ==
    /\ Sync(r)'
    /\ Len(mongo'[C(r)]) <= 1
    /\ \A i \in DOMAIN mongo'[C(r)] : mongo'[C(r)][i].status \in Terminal
    /\ StaysOver(C(r)) /\ StaysGone(C(r))

\* Its state before, in one place.
Standing(r) ==
    /\ TypeOK /\ job' = job
    /\ pc[r] \in Steps /\ C(r) \in Challenges
    /\ OpInPlace(r) /\ CopyInHand(r)
    /\ Sync(r)
    /\ Len(mongo[C(r)]) <= 1
    /\ \A i \in DOMAIN mongo[C(r)] : mongo[C(r)][i].status \in Terminal

\* The invariants give it.
LEMMA StandsBefore ==
    ASSUME IInv, SerialInv, NEW r \in Requests, Step(r)
    PROVE  Standing(r)
<1>1. TypeOK /\ job' = job /\ pc[r] \in Steps /\ C(r) \in Challenges
  BY StepFacts
<1>2. Sync(r)
  BY <1>1 DEF SerialInv, InFlight
<1>3. QED
  BY <1>1, <1>2 DEF Standing, SerialInv, ArchivedOnceFinished, IInv, Range

\* A handler that is over claims nothing.
LEMMA OverSync ==
    ASSUME NEW r \in Requests, pc'[r] \in Finished \union {"keys", "scan", "readMongo", "remGet"}
    PROVE  Sync(r)'
BY DEF Sync, InHand, Past, Ending, Finished

\* The reply of a handler, and a move to another step.
LEMMA MovesTo ==
    ASSUME TypeOK, NEW r \in Requests, NEW step
    PROVE  /\ Goto(r, step) => pc'[r] = step
           /\ Reply(r, step) => pc'[r] = step
BY DEF TypeOK, Goto, Reply

\* A step that leaves the stores alone.
LEMMA SameAdvances ==
    ASSUME NEW r \in Requests, Standing(r), UNCHANGED <<redis, mongo>>, Sync(r)'
    PROVE  Advances(r)
BY DEF Standing, Advances, StaysOver, StaysGone

\* A SET or DEL: what is in Redis afterwards.
LEMMA SetGives ==
    ASSUME TypeOK, NEW c \in Challenges, NEW d, NEW w \in Outcomes(RedisMayFail), Set(c, d, w)
    PROVE  /\ redis'[c] \in {redis[c], d}
           /\ w.acked => redis'[c] = d
BY DEF TypeOK, Outcomes, Set

\* The edits of a copy that leave its status alone.
LEMMA EditsKeepStatus ==
    ASSUME NEW d \in Docs, NEW u, NEW m
    PROVE  /\ WithParticipant(d, u, m).status = d.status
           /\ WithoutParticipant(d, u).status = d.status
           /\ [d EXCEPT !.leaderboard = m].status = d.status
           /\ \A p, s : Credit(d, u, p, s).status = d.status
BY DEF Docs, WithParticipant, WithoutParticipant, Credit

\* CanCreate's look at the keys, the looks of a reader, and the listing.
LEMMA LookAdvances ==
    ASSUME NEW r \in Requests, Standing(r),
           ListKeys(r) \/ CheckKey(r) \/ ReadRedis(r) \/ ReadMongo(r)
    PROVE  Advances(r)
<1>1. TypeOK /\ UNCHANGED <<redis, mongo>>
  BY DEF Standing, ListKeys, CheckKey, ReadRedis, ReadMongo, stores
<1>2. pc'[r] \in Finished \union {"keys", "scan", "readMongo", "remGet"}
  BY <1>1, MovesTo DEF ListKeys, CheckKey, ReadRedis, ReadMongo, Finished
<1>3. QED
  BY <1>1, <1>2, OverSync, SameAdvances

\* Before a create stores its document, the challenge is nowhere.
LEMMA NewIsNowhere ==
    ASSUME CopiesInv, NEW r \in Requests, Standing(r), pc[r] \in {"keys", "scan"}
    PROVE  redis[C(r)] = NoDoc /\ mongo[C(r)] = <<>>
<1>1. TypeOK /\ C(r) \in Challenges /\ Is(r, {"create"})
  BY DEF Standing, OpInPlace
<1>2. Copies(C(r)) = {}
  BY <1>1 DEF CopiesInv, NoneBeforeBirth, Unborn, Creates
<1>3. QED
  BY <1>1, <1>2, HeldHasCopy DEF Held

\* CreateChallenge stores a document nobody has seen.
LEMMA StoreNewAdvances ==
    ASSUME CopiesInv, NEW r \in Requests, Standing(r), StoreNew(r)
    PROVE  Advances(r)
<1>1. TypeOK /\ C(r) \in Challenges /\ job' = job /\ pc[r] = "scan" /\ Is(r, {"create"})
  BY DEF Standing, StoreNew, OpInPlace
<1>2. redis[C(r)] = NoDoc /\ mongo[C(r)] = <<>>
  BY <1>1, NewIsNowhere
<1>3. mongo' = mongo
  BY DEF StoreNew
<1>4. PICK w \in Outcomes(RedisMayFail) :
        /\ Set(C(r), NewDoc(U(r)), w)
        /\ \/ w.acked /\ Goto(r, "initBoard") /\ Keep(doc, r, NewDoc(U(r))) /\ UNCHANGED <<tmp, todo>>
           \/ ~w.acked /\ Reply(r, "err")
  BY DEF StoreNew
<1>5. Sync(r)'
  <2>1. CASE ~w.acked
    <3>1. pc'[r] = "err"
      BY <1>1, <1>4, <2>1, MovesTo
    <3>2. QED
      BY <3>1, OverSync DEF Finished
  <2>2. CASE w.acked
    <3>1. pc'[r] = "initBoard" /\ doc'[r] = NewDoc(U(r))
      BY <1>1, <1>4, <2>2, MovesTo, KeepGives
    <3>2. redis'[C(r)] = NewDoc(U(r))
      BY <1>1, <1>4, <2>2 DEF TypeOK, Outcomes, Set
    <3>3. U(r) \in Users
      BY <1>1 DEF Is, U, Jobs, MemberOps, TypeOK
    <3>4. NewDoc(U(r)) \in Docs
      BY <3>3, NewDocType
    <3>5. NewDoc(U(r)) # NoDoc
      BY <3>4, NoDocAssumption
    <3>6. QED
      BY <1>1, <3>1, <3>2, <3>5 DEF Sync, InHand, Past, Ending, C
  <2>3. QED
    BY <2>1, <2>2
<1>6. QED
  BY <1>1, <1>2, <1>3, <1>5 DEF Advances, StaysOver, StaysGone

\* The loads that only check.
LEMMA CheckAdvances ==
    ASSUME NEW r \in Requests, Standing(r),
           LoadForAbandon(r) \/ LoadForEnd(r) \/ LoadForLeave(r) \/ LoadForRetrieve(r)
    PROVE  Advances(r)
<1>1. TypeOK /\ job' = job /\ UNCHANGED <<redis, mongo>> /\ OpInPlace(r)
  BY DEF Standing, LoadForAbandon, LoadForEnd, LoadForLeave, LoadForRetrieve, CreatorOnly,
         Proceed, stores
<1>2. \/ pc'[r] = "err"
      \/ redis[C(r)] # NoDoc /\ pc'[r] = "markGet"
      \/ redis[C(r)] # NoDoc /\ pc'[r] = "closeBoard" /\ Is(r, {"end"})
      \/ pc'[r] = "remGet"
      \/ redis[C(r)] # NoDoc /\ pc'[r] = "initBoard" /\ Is(r, {"retrieve"})
  BY <1>1, MovesTo DEF LoadForAbandon, LoadForEnd, LoadForLeave, LoadForRetrieve, CreatorOnly,
                       Proceed, Get, OpInPlace
<1>3. Sync(r)'
  BY <1>1, <1>2 DEF Sync, InHand, Past, Ending, C, Is
<1>4. QED
  BY <1>1, <1>3, SameAdvances

\* The loads of a join and a push, which go on with an edited copy.
LEMMA LoadAdvances ==
    ASSUME NEW r \in Requests, Standing(r), LoadForJoin(r) \/ LoadForPush(r)
    PROVE  Advances(r)
<1>1. /\ TypeOK /\ job' = job /\ UNCHANGED <<redis, mongo>> /\ OpInPlace(r) /\ C(r) \in Challenges
  BY DEF Standing, LoadForJoin, LoadForPush, Proceed, stores
<1>2. Is(r, {"join", "push"})
  BY <1>1 DEF OpInPlace, LoadForJoin, LoadForPush, Is
<1>3. redis[C(r)] # NoDoc => redis[C(r)] \in Docs
  BY <1>1 DEF TypeOK
<1>4. \/ pc'[r] = "err"
      \/ /\ pc'[r] \in {"addGet", "updGet"} /\ redis[C(r)] # NoDoc
         /\ doc'[r].status = redis[C(r)].status
  <2>1. CASE LoadForJoin(r)
    <3>1. PICK d \in Get(C(r)) :
            IF d # NoDoc /\ d.status # "abandon"
            THEN IF U(r) \in DOMAIN d.participants
                 THEN Proceed(r, TRUE, d, "updGet")
                 ELSE Proceed(r, TRUE, WithParticipant(d, U(r), FreshMetadata), "addGet")
            ELSE Proceed(r, FALSE, d, "err")
      BY <2>1 DEF LoadForJoin
    <3>2. \/ pc'[r] = "err"
          \/ /\ pc'[r] \in {"addGet", "updGet"} /\ d # NoDoc
             /\ doc'[r] \in {d, WithParticipant(d, U(r), FreshMetadata)}
      BY <1>1, <3>1, MovesTo, KeepGives DEF Proceed
    <3>3. d # NoDoc => d = redis[C(r)]
      BY DEF Get
    <3>4. QED
      BY <1>3, <3>2, <3>3, EditsKeepStatus
  <2>2. CASE LoadForPush(r)
    <3>1. PICK d \in Get(C(r)) :
            IF d # NoDoc /\ U(r) \in DOMAIN d.participants
            THEN Proceed(r, TRUE, Credit(d, U(r), job[r].p, job[r].s), "updGet")
            ELSE Proceed(r, FALSE, d, "err")
      BY <2>2 DEF LoadForPush
    <3>2. \/ pc'[r] = "err"
          \/ /\ pc'[r] = "updGet" /\ d # NoDoc
             /\ doc'[r] = Credit(d, U(r), job[r].p, job[r].s)
      BY <1>1, <3>1, MovesTo, KeepGives DEF Proceed
    <3>3. d # NoDoc => d = redis[C(r)]
      BY DEF Get
    <3>4. QED
      BY <1>3, <3>2, <3>3, EditsKeepStatus
  <2>3. QED
    BY <2>1, <2>2
<1>5. Sync(r)'
  BY <1>1, <1>2, <1>4 DEF Sync, InHand, Past, Ending, C, Is
<1>6. QED
  BY <1>1, <1>5, SameAdvances

\* A write of a copy whose status is the one in Redis.
LEMMA WriteAdvances ==
    ASSUME NEW r \in Requests, Standing(r), redis[C(r)] # NoDoc,
           NEW d, d # NoDoc, d.status = redis[C(r)].status,
           redis'[C(r)] \in {redis[C(r)], d}, mongo' = mongo, Sync(r)'
    PROVE  Advances(r)
BY DEF Standing, Advances, StaysOver, StaysGone

\* AddParticipant and UpdateParticipant.
LEMMA ParticipantGetAdvances ==
    ASSUME NEW r \in Requests, Standing(r), ParticipantGet(r)
    PROVE  Advances(r)
<1>1. /\ TypeOK /\ job' = job /\ UNCHANGED <<redis, mongo>> /\ OpInPlace(r) /\ C(r) \in Challenges
      /\ Sync(r) /\ pc[r] \in {"addGet", "updGet"}
  BY DEF Standing, ParticipantGet, stores
<1>2. Is(r, {"join", "push"})
  BY <1>1 DEF OpInPlace, Is
<1>3. redis[C(r)] \in Docs /\ redis[C(r)] # NoDoc /\ doc[r].status = redis[C(r)].status
  BY <1>1 DEF TypeOK, Sync, InHand
<1>4. PICK d \in Get(C(r)) :
        \/ /\ d # NoDoc
           /\ Goto(r, IF pc[r] = "addGet" THEN "addSet" ELSE "updSet")
           /\ Keep(tmp, r, WithParticipant(d, U(r), doc[r].participants[U(r)]))
           /\ UNCHANGED <<doc, todo>>
        \/ /\ d = NoDoc
           /\ job[r].op = "join"
           /\ Goto(r, IF pc[r] = "addGet" THEN "updGet" ELSE "initBoard")
           /\ UNCHANGED locals
        \/ /\ d = NoDoc
           /\ job[r].op = "push"
           /\ Reply(r, "err")
  BY DEF ParticipantGet
<1>5. \/ /\ pc'[r] \in {"addSet", "updSet"} /\ d # NoDoc
         /\ tmp'[r] = WithParticipant(d, U(r), doc[r].participants[U(r)]) /\ doc' = doc
      \/ pc'[r] \in {"updGet", "initBoard"} /\ doc' = doc
      \/ pc'[r] = "err"
  BY <1>1, <1>4, MovesTo, KeepGives DEF locals
<1>6. d # NoDoc => WithParticipant(d, U(r), doc[r].participants[U(r)]).status = redis[C(r)].status
  BY <1>3, EditsKeepStatus DEF Get
<1>7. Sync(r)'
  BY <1>1, <1>2, <1>3, <1>5, <1>6 DEF Sync, InHand, Past, Ending, C, Is
<1>8. QED
  BY <1>1, <1>7, SameAdvances

\* Their SET, of a copy that is as it is in Redis but for a participant.
LEMMA ParticipantSetAdvances ==
    ASSUME NEW r \in Requests, Standing(r), ParticipantSet(r)
    PROVE  Advances(r)
<1>1. /\ TypeOK /\ job' = job /\ mongo' = mongo /\ OpInPlace(r) /\ C(r) \in Challenges
      /\ CopyInHand(r) /\ Sync(r) /\ pc[r] \in {"addSet", "updSet"}
  BY DEF Standing, ParticipantSet
<1>2. Is(r, {"join", "push"})
  BY <1>1 DEF OpInPlace, Is
<1>3. /\ redis[C(r)] # NoDoc /\ doc[r].status = redis[C(r)].status
      /\ tmp[r] # NoDoc /\ tmp[r].status = redis[C(r)].status
  BY <1>1, NoDocAssumption DEF Sync, InHand, CopyInHand
<1>4. redis'[C(r)] \in {redis[C(r)], tmp[r]}
  BY <1>1, SetGives DEF ParticipantSet
<1>5. \/ pc'[r] \in {"updGet", "initBoard", "write"} /\ doc' = doc
      \/ pc'[r] = "err"
  BY <1>1, MovesTo DEF ParticipantSet
<1>6. Sync(r)'
  BY <1>1, <1>2, <1>3, <1>4, <1>5 DEF Sync, InHand, Past, Ending, C, Is
<1>7. QED
  BY <1>1, <1>3, <1>4, <1>6, WriteAdvances

\* The writes of a whole copy, and of a document without a participant.
LEMMA WritesAdvance ==
    ASSUME NEW r \in Requests, Standing(r), WriteBack(r) \/ SaveSnapshot(r) \/ RemoveSet(r)
    PROVE  Advances(r)
<1>1. /\ TypeOK /\ job' = job /\ mongo' = mongo /\ OpInPlace(r) /\ C(r) \in Challenges
      /\ CopyInHand(r) /\ Sync(r)
  BY DEF Standing, WriteBack, SaveSnapshot, RemoveSet
<1>2. PICK d : /\ d \in Docs /\ redis[C(r)] # NoDoc /\ d.status = redis[C(r)].status
               /\ redis'[C(r)] \in {redis[C(r)], d}
               /\ d = IF RemoveSet(r) THEN tmp[r] ELSE doc[r]
  <2>1. CASE WriteBack(r) \/ SaveSnapshot(r)
    <3>1. pc[r] \in {"write", "save"}
      BY <2>1 DEF WriteBack, SaveSnapshot
    <3>2. doc[r] \in Docs /\ redis[C(r)] # NoDoc /\ doc[r].status = redis[C(r)].status
      BY <1>1, <3>1 DEF CopyInHand, Sync, InHand
    <3>3. redis'[C(r)] \in {redis[C(r)], doc[r]}
      BY <1>1, <2>1, SetGives DEF WriteBack, SaveSnapshot
    <3>4. ~RemoveSet(r)
      BY <3>1 DEF RemoveSet
    <3>5. QED
      BY <3>2, <3>3, <3>4
  <2>2. CASE RemoveSet(r)
    <3>1. tmp[r] \in Docs /\ redis[C(r)] # NoDoc /\ tmp[r].status = redis[C(r)].status
      BY <1>1, <2>2 DEF CopyInHand, Sync, RemoveSet
    <3>2. redis'[C(r)] \in {redis[C(r)], tmp[r]}
      BY <1>1, <2>2, SetGives DEF RemoveSet
    <3>3. QED
      BY <2>2, <3>1, <3>2
  <2>3. QED
    BY <2>1, <2>2
<1>3. \/ pc'[r] \in Finished
      \/ pc'[r] = "initBoard" /\ doc' = doc /\ Is(r, {"push"}) /\ doc[r] = d
  BY <1>1, <1>2, MovesTo DEF WriteBack, SaveSnapshot, RemoveSet, OpInPlace, Finished, locals
<1>4. Sync(r)'
  <2>1. CASE pc'[r] \in Finished
    BY <2>1, OverSync
  <2>2. CASE pc'[r] = "initBoard" /\ doc' = doc /\ Is(r, {"push"}) /\ doc[r] = d
    BY <1>1, <1>2, <2>2, NoDocAssumption DEF Sync, InHand, Past, Ending, C, Is
  <2>3. QED
    BY <1>3, <2>1, <2>2
<1>5. d # NoDoc
  BY <1>2, NoDocAssumption
<1>6. QED
  BY <1>1, <1>2, <1>4, <1>5, WriteAdvances

\* The steps on the board.
LEMMA BoardAdvances ==
    ASSUME NEW r \in Requests, Standing(r),
           InitializeLeaderboard(r) \/ UpdateParticipantScore(r) \/ GetLeaderboard(r)
    PROVE  Advances(r)
<1>1. /\ TypeOK /\ job' = job /\ UNCHANGED <<redis, mongo>> /\ OpInPlace(r) /\ C(r) \in Challenges
      /\ CopyInHand(r) /\ Sync(r)
  BY DEF Standing, InitializeLeaderboard, UpdateParticipantScore, GetLeaderboard, stores
<1>2. CASE InitializeLeaderboard(r) \/ UpdateParticipantScore(r)
  <2>1. \/ pc'[r] = "ok"
        \/ /\ pc'[r] \in {"addUser", "topK"} /\ doc' = doc
           /\ InHand(r)
    BY <1>1, <1>2, MovesTo DEF InitializeLeaderboard, UpdateParticipantScore, InHand, locals
  <2>2. Sync(r)'
    BY <1>1, <2>1 DEF Sync, InHand, Past, Ending, C
  <2>3. QED
    BY <1>1, <2>2, SameAdvances
<1>3. CASE GetLeaderboard(r)
  <2>1. doc[r] \in Docs /\ doc[r].status = redis[C(r)].status /\ redis[C(r)] # NoDoc
    BY <1>1, <1>3 DEF GetLeaderboard, CopyInHand, Sync, InHand
  <2>2. PICK e : e = [doc[r] EXCEPT !.leaderboard = scores[C(r)]]
    OBVIOUS
  <2>3. e.status = doc[r].status
    BY <2>1, <2>2, EditsKeepStatus
  <2>4. (Goto(r, "save") /\ Keep(doc, r, e)) \/ Reply(r, "ok")
    BY <1>3, <2>2 DEF GetLeaderboard, Keep
  <2>5. \/ pc'[r] = "ok"
        \/ pc'[r] = "save" /\ doc'[r].status = redis[C(r)].status
    BY <1>1, <2>1, <2>3, <2>4, MovesTo, KeepGives
  <2>6. Sync(r)'
    BY <1>1, <2>1, <2>5 DEF Sync, InHand, Past, Ending, C
  <2>7. QED
    BY <1>1, <2>6, SameAdvances
<1>4. QED
  BY <1>2, <1>3

\* The marking of a finished challenge.
LEMMA MarkAdvances ==
    ASSUME NEW r \in Requests, Standing(r), MarkGet(r) \/ MarkSet(r) \/ CleanupLeaderboard(r)
    PROVE  Advances(r)
<1>1. /\ TypeOK /\ job' = job /\ mongo' = mongo /\ OpInPlace(r) /\ C(r) \in Challenges
      /\ CopyInHand(r) /\ Sync(r)
  BY DEF Standing, MarkGet, MarkSet, CleanupLeaderboard, stores
<1>2. redis[C(r)] \in Docs /\ Is(r, {"abandon", "end"})
  BY <1>1 DEF TypeOK, Sync, Past, OpInPlace, MarkGet, MarkSet, CleanupLeaderboard
<1>3. redis[C(r)] # NoDoc
  BY <1>2, NoDocAssumption
<1>4. CASE MarkGet(r)
  <2>1. PICK d \in Get(C(r)) :
          IF d # NoDoc /\ (job[r].op = "abandon" => d.creator = U(r))
          THEN /\ Goto(r, "markSet")
               /\ Keep(tmp, r, [d EXCEPT !.status = Mark(r)])
               /\ UNCHANGED <<doc, todo>>
          ELSE Reply(r, "err")
    BY <1>4 DEF MarkGet
  <2>2. PICK e : e = [d EXCEPT !.status = Mark(r)]
    OBVIOUS
  <2>3. d # NoDoc => e.status \in Terminal
    BY <1>2, <2>2 DEF Get, Docs, Mark, Terminal
  <2>4. \/ d # NoDoc /\ Goto(r, "markSet") /\ Keep(tmp, r, e)
        \/ Reply(r, "err")
    BY <2>1, <2>2 DEF Keep
  <2>5. \/ pc'[r] = "markSet" /\ tmp'[r].status \in Terminal
        \/ pc'[r] = "err"
    BY <1>1, <2>3, <2>4, MovesTo, KeepGives
  <2>6. UNCHANGED redis
    BY <1>4 DEF MarkGet, stores
  <2>7. Sync(r)'
    BY <1>1, <1>3, <2>5, <2>6 DEF Sync, InHand, Past, Ending, C
  <2>8. QED
    BY <1>1, <2>6, <2>7, SameAdvances
<1>5. CASE MarkSet(r)
  <2>1. tmp[r] \in Docs /\ tmp[r].status \in Terminal
    BY <1>1, <1>5 DEF MarkSet, CopyInHand, Sync
  <2>2. PICK w \in Outcomes(RedisMayFail) :
          /\ Set(C(r), tmp[r], w)
          /\ \/ w.acked /\ Goto(r, IF job[r].op = "abandon" THEN "closeBoard" ELSE "archGet")
             \/ ~w.acked /\ Reply(r, "err")
    BY <1>5 DEF MarkSet
  <2>3. redis'[C(r)] \in {redis[C(r)], tmp[r]}
    BY <1>1, <2>2, SetGives
  <2>4. \/ pc'[r] \in {"closeBoard", "archGet"} /\ redis'[C(r)] = tmp[r]
        \/ pc'[r] = "err"
    BY <1>1, <2>2, SetGives, MovesTo
  <2>5. tmp[r] # NoDoc
    BY <2>1, NoDocAssumption
  <2>6. Sync(r)'
    BY <1>1, <2>1, <2>4, <2>5 DEF Sync, InHand, Past, Ending, C
  <2>7. QED
    BY <1>1, <1>3, <2>1, <2>3, <2>5, <2>6 DEF Advances, Standing, StaysOver, StaysGone
<1>6. CASE CleanupLeaderboard(r)
  <2>1. /\ pc[r] = "closeBoard" /\ UNCHANGED redis
        /\ pc'[r] = IF job[r].op = "abandon" THEN "archGet" ELSE "markGet"
    BY <1>1, <1>6, MovesTo DEF CleanupLeaderboard
  <2>2. Sync(r)'
    BY <1>1, <1>3, <2>1 DEF Sync, InHand, Past, Ending, C
  <2>3. QED
    BY <1>1, <2>1, <2>2, SameAdvances
<1>7. QED
  BY <1>4, <1>5, <1>6

\* The persistence, up to the write to MongoDB.
LEMMA ArchiveLooksAdvance ==
    ASSUME NEW r \in Requests, Standing(r), ArchiveGet(r) \/ ArchiveFind(r) \/ RemoveGet(r)
    PROVE  Advances(r)
<1>1. /\ TypeOK /\ job' = job /\ UNCHANGED <<redis, mongo>> /\ C(r) \in Challenges /\ Sync(r)
  BY DEF Standing, ArchiveGet, ArchiveFind, RemoveGet, stores
<1>2. CASE ArchiveGet(r)
  <2>1. \/ pc'[r] = "archFind" /\ tmp'[r] = redis[C(r)]
        \/ pc'[r] = "ok"
    BY <1>1, <1>2, MovesTo, KeepGives DEF ArchiveGet, Get
  <2>2. pc[r] = "archGet"
    BY <1>2 DEF ArchiveGet
  <2>3. Sync(r)'
    BY <1>1, <2>1, <2>2 DEF Sync, InHand, Past, Ending, C
  <2>4. QED
    BY <1>1, <2>3, SameAdvances
<1>3. CASE ArchiveFind(r)
  <2>1. \/ /\ pc'[r] = IF mongo[C(r)] = <<>> THEN "archInsert" ELSE "archUpdate"
           /\ tmp' = tmp
        \/ pc'[r] = "ok"
    BY <1>1, <1>3, MovesTo DEF ArchiveFind, locals
  <2>2. pc[r] = "archFind"
    BY <1>3 DEF ArchiveFind
  <2>3. Sync(r)'
    BY <1>1, <2>1, <2>2 DEF Sync, InHand, Past, Ending, C
  <2>4. QED
    BY <1>1, <2>3, SameAdvances
<1>4. CASE RemoveGet(r)
  <2>1. PICK d \in Get(C(r)) :
          \/ /\ d # NoDoc
             /\ Goto(r, "remSet")
             /\ Keep(tmp, r, WithoutParticipant(d, U(r)))
          \/ d = NoDoc /\ Reply(r, IF job[r].op = "leave" THEN "err" ELSE "ok")
    BY <1>4 DEF RemoveGet
  <2>2. d # NoDoc => d = redis[C(r)] /\ d \in Docs
    BY <1>1 DEF Get, TypeOK
  <2>3. \/ /\ pc'[r] = "remSet" /\ d # NoDoc
           /\ tmp'[r] = WithoutParticipant(d, U(r))
        \/ pc'[r] \in Finished
    BY <1>1, <2>1, MovesTo, KeepGives DEF Finished
  <2>4. CASE pc'[r] \in Finished
    BY <1>1, <2>4, OverSync, SameAdvances
  <2>5. CASE pc'[r] = "remSet" /\ d # NoDoc /\ tmp'[r] = WithoutParticipant(d, U(r))
    <3>1. tmp'[r].status = redis[C(r)].status
      BY <2>2, <2>5, EditsKeepStatus
    <3>2. Sync(r)'
      BY <1>1, <2>2, <2>5, <3>1 DEF Sync, InHand, Past, Ending, C
    <3>3. QED
      BY <1>1, <3>2, SameAdvances
  <2>6. QED
    BY <2>3, <2>4, <2>5
<1>5. QED
  BY <1>2, <1>3, <1>4

\* A sequence of one element.
LEMMA OneSeq ==
    ASSUME NEW x
    PROVE  Len(<<x>>) = 1 /\ \A i \in DOMAIN <<x>> : <<x>>[i] = x
OBVIOUS

\* A sequence of at most one element that has one.
LEMMA AtMostOne ==
    ASSUME NEW S, NEW s \in Seq(S), Len(s) <= 1, NEW i \in DOMAIN s
    PROVE  i = 1 /\ Len(s) = 1 /\ s[i] \in S
<1>1. Len(s) \in Nat /\ DOMAIN s = 1 .. Len(s)
  OBVIOUS
<1>2. i \in Int /\ 1 <= i /\ i <= Len(s)
  BY <1>1
<1>3. i = 1 /\ Len(s) = 1
  BY <1>1, <1>2
<1>4. QED
  BY <1>3

\* The writes to MongoDB, which then has exactly what Redis has, and the
\* deletion.
LEMMA ArchiveWritesAdvance ==
    ASSUME CopiesInv, NEW r \in Requests, Standing(r),
           ArchiveInsert(r) \/ ArchiveUpdate(r) \/ ArchiveDelete(r)
    PROVE  Advances(r)
<1>1. /\ TypeOK /\ job' = job /\ C(r) \in Challenges /\ Sync(r) /\ CopyInHand(r)
      /\ mongo[C(r)] \in Seq(Docs) /\ Len(mongo[C(r)]) <= 1
  BY DEF Standing, TypeOK
<1>2. redis[C(r)] \in Docs /\ redis[C(r)] # NoDoc /\ redis[C(r)].status \in Terminal
  BY <1>1 DEF ArchiveInsert, ArchiveUpdate, ArchiveDelete, Sync, Past, Ending, TypeOK
<1>3. CASE ArchiveInsert(r)
  <2>1. pc[r] = "archInsert" /\ redis' = redis /\ tmp[r] = redis[C(r)] /\ mongo[C(r)] = <<>>
    BY <1>1, <1>3 DEF ArchiveInsert, Sync
  <2>2. Append(mongo[C(r)], tmp[r]) = <<redis[C(r)]>>
    BY <2>1
  <2>3. PICK w \in Outcomes(MongoMayFail) :
          /\ mongo' = IF w.applied THEN [mongo EXCEPT ![C(r)] = Append(@, tmp[r])] ELSE mongo
          /\ \/ w.acked /\ Goto(r, "archDel")
             \/ ~w.acked /\ Reply(r, "ok")
    BY <1>3 DEF ArchiveInsert
  <2>4. /\ mongo'[C(r)] \in {<<>>, <<redis[C(r)]>>}
        /\ w.acked => mongo'[C(r)] = <<redis[C(r)]>>
    BY <1>1, <2>1, <2>2, <2>3 DEF TypeOK, Outcomes
  <2>5. \/ pc'[r] = "archDel" /\ mongo'[C(r)] = <<redis[C(r)]>>
        \/ pc'[r] = "ok"
    BY <1>1, <2>3, <2>4, MovesTo
  <2>6. Sync(r)'
    BY <1>1, <1>2, <2>1, <2>5 DEF Sync, InHand, Past, Ending, C
  <2>7. Len(mongo'[C(r)]) <= 1 /\ \A i \in DOMAIN mongo'[C(r)] : mongo'[C(r)][i] = redis[C(r)]
    <3>1. CASE mongo'[C(r)] = <<>>
      BY <3>1
    <3>2. CASE mongo'[C(r)] = <<redis[C(r)]>>
      <4>1. PICK s : s = <<redis[C(r)]>>
        OBVIOUS
      <4>2. Len(s) = 1 /\ \A i \in DOMAIN s : s[i] = redis[C(r)]
        BY <4>1, OneSeq
      <4>3. QED
        BY <3>2, <4>1, <4>2
    <3>3. QED
      BY <2>4, <3>1, <3>2
  <2>8. QED
    BY <1>2, <2>1, <2>6, <2>7 DEF Advances, StaysOver, StaysGone
<1>4. CASE ArchiveUpdate(r)
  <2>1. /\ pc[r] = "archUpdate" /\ redis' = redis /\ tmp[r] = redis[C(r)]
        /\ mongo[C(r)] # <<>>
    BY <1>1, <1>4 DEF ArchiveUpdate, Sync
  <2>2. PICK w \in Outcomes(MongoMayFail), i \in DOMAIN mongo[C(r)] :
          /\ mongo' = IF w.applied
                      THEN [mongo EXCEPT ![C(r)][i] = [tmp[r] EXCEPT !.creator = mongo[C(r)][i].creator]]
                      ELSE mongo
          /\ \/ w.acked /\ Goto(r, "archDel")
             \/ ~w.acked /\ Reply(r, "ok")
    BY <1>4 DEF ArchiveUpdate
  <2>3. Len(mongo[C(r)]) = 1 /\ i = 1 /\ mongo[C(r)][i] \in Docs
    BY <1>1, AtMostOne
  <2>4. redis[C(r)].creator = mongo[C(r)][i].creator
    <3>1. HasCopy(C(r), redis[C(r)]) /\ HasCopy(C(r), mongo[C(r)][i])
      BY <1>2, <2>3, NoDocAssumption DEF HasCopy
    <3>2. QED
      BY <1>1, <3>1, CopyWhere DEF CopiesInv, CreatorsAgree
  <2>5. [tmp[r] EXCEPT !.creator = mongo[C(r)][i].creator] = redis[C(r)]
    BY <1>2, <2>1, <2>4 DEF Docs
  <2>6. mongo' = IF w.applied THEN [mongo EXCEPT ![C(r)][i] = redis[C(r)]] ELSE mongo
    BY <2>2, <2>5
  <2>7. mongo'[C(r)] \in {mongo[C(r)], [mongo[C(r)] EXCEPT ![i] = redis[C(r)]]}
    BY <1>1, <2>6 DEF TypeOK
  <2>8. w.acked => mongo'[C(r)] = [mongo[C(r)] EXCEPT ![i] = redis[C(r)]]
    BY <1>1, <2>6 DEF TypeOK, Outcomes
  <2>9. [mongo[C(r)] EXCEPT ![i] = redis[C(r)]] = <<redis[C(r)]>>
    BY <1>1, <1>2, <2>3
  <2>10. \/ pc'[r] = "archDel" /\ mongo'[C(r)] = <<redis[C(r)]>>
         \/ pc'[r] = "ok"
    BY <1>1, <2>2, <2>8, <2>9, MovesTo
  <2>11. Sync(r)'
    BY <1>1, <1>2, <2>1, <2>10 DEF Sync, InHand, Past, Ending, C
  <2>12. QED
    BY <1>2, <2>1, <2>7, <2>9, <2>11 DEF Advances, Standing, StaysOver, StaysGone
<1>5. CASE ArchiveDelete(r)
  <2>1. mongo' = mongo /\ redis'[C(r)] \in {redis[C(r)], NoDoc} /\ pc'[r] = "ok"
    BY <1>1, <1>5, SetGives, MovesTo DEF ArchiveDelete, Del
  <2>2. Sync(r)'
    BY <2>1, OverSync DEF Finished
  <2>3. QED
    BY <1>2, <2>1, <2>2 DEF Advances, Standing, StaysOver, StaysGone
<1>6. QED
  BY <1>3, <1>4, <1>5

\* Every step of a handler that runs alone.
LEMMA StepAdvances ==
    ASSUME IInv, CopiesInv, SerialInv, NEW r \in Requests, Step(r)
    PROVE  Advances(r)
<1>1. Standing(r)
  BY StandsBefore
<1>2. QED
  BY <1>1, LookAdvances, StoreNewAdvances, CheckAdvances, LoadAdvances, ParticipantGetAdvances,
     ParticipantSetAdvances, WritesAdvance, BoardAdvances, MarkAdvances, ArchiveLooksAdvance,
     ArchiveWritesAdvance DEF Step

\* Nobody else runs.
LEMMA StepAlone ==
    ASSUME IInv, Alone, NEW r \in Requests, Step(r)
    PROVE  /\ InFlight = {r}
           /\ \A q \in InFlight' : q = r
<1>1. r \in InFlight /\ OthersKeep(r)
  BY StepFacts DEF InFlight
<1>2. QED
  BY <1>1 DEF Alone, InFlight, OthersKeep

\* A request arrives only when nothing runs.
LEMMA ArrivalAlone ==
    ASSUME MaxInFlight = 1, IInv, Alone, NEW r \in Requests, Receive(r)
    PROVE  /\ InFlight = {}
           /\ \A q \in InFlight' : q = r
           /\ pc'[r] \in {"keys", "joinLoad", "pushLoad", "abandonLoad", "endLoad", "leaveLoad",
                          "remGet", "readRedis", "retrieveLoad"}
<1>1. TypeOK
  BY DEF IInv
<1>2. InFlight = {}
  <2>1. ASSUME NEW q \in InFlight
        PROVE  FALSE
    <3>1. InFlight = {q}
      BY <2>1 DEF Alone
    <3>2. Cardinality(InFlight) = 1
      BY <3>1, FS_Singleton
    <3>3. Cardinality(InFlight) < 1
      BY DEF Receive
    <3>4. QED
      BY <3>2, <3>3
  <2>2. QED
    BY <2>1
<1>3. PICK j \in Jobs : pc' = [pc EXCEPT ![r] = Entry[j.op]]
  BY DEF Receive
<1>4. j.op \in MemberOps \union {"push", "retrieve", "read"}
  BY DEF Jobs
<1>5. pc'[r] = Entry[j.op] /\ \A q \in Requests \ {r} : pc'[q] = pc[q]
  BY <1>1, <1>3 DEF TypeOK
<1>6. Entry[j.op] \in {"keys", "joinLoad", "pushLoad", "abandonLoad", "endLoad", "leaveLoad",
                       "remGet", "readRedis", "retrieveLoad"}
  BY <1>4 DEF Entry, MemberOps
<1>7. QED
  BY <1>2, <1>5, <1>6 DEF InFlight

\* So its steps keep the invariant, and reopen or bring back nothing.
LEMMA StepSerial ==
    ASSUME IInv, CopiesInv, SerialInv, NEW r \in Requests, Step(r)
    PROVE  /\ SerialInv'
           /\ \A c \in Challenges : StaysOver(c) /\ StaysGone(c)
<1>1. Advances(r) /\ Touches(r)
  BY StepAdvances, StepFacts
<1>2. \A q \in InFlight' : q = r
  BY StepAlone DEF SerialInv
<1>3. ArchivedOnceFinished'
  <2> SUFFICES ASSUME NEW c \in Challenges
               PROVE  /\ Len(mongo'[c]) <= 1
                      /\ \A i \in DOMAIN mongo'[c] : mongo'[c][i].status \in Terminal
    BY DEF ArchivedOnceFinished, Range
  <2>1. CASE c = C(r)
    BY <1>1, <2>1 DEF Advances
  <2>2. CASE c # C(r)
    BY <1>1, <2>2 DEF Touches, SerialInv, ArchivedOnceFinished, Range
  <2>3. QED
    BY <2>1, <2>2
<1>4. SerialInv'
  BY <1>1, <1>2, <1>3 DEF SerialInv, Alone, Advances
<1>5. ASSUME NEW c \in Challenges
      PROVE  StaysOver(c) /\ StaysGone(c)
  <2>1. CASE c = C(r)
    BY <1>1, <2>1 DEF Advances
  <2>2. CASE c # C(r)
    BY <1>1, <2>2 DEF Touches, StaysOver, StaysGone
  <2>3. QED
    BY <2>1, <2>2
<1>6. QED
  BY <1>4, <1>5

\* Every step of the system.
LEMMA NextSerial ==
    ASSUME MaxInFlight = 1, IInv, CopiesInv, SerialInv, [Next]_vars
    PROVE  /\ SerialInv'
           /\ \A c \in Challenges : StaysOver(c) /\ StaysGone(c)
<1>1. ASSUME NEW r \in Requests, Receive(r)
      PROVE  SerialInv' /\ UNCHANGED <<redis, mongo>>
  <2>1. /\ \A q \in InFlight' : q = r
        /\ pc'[r] \in {"keys", "joinLoad", "pushLoad", "abandonLoad", "endLoad", "leaveLoad",
                       "remGet", "readRedis", "retrieveLoad"}
    BY <1>1, ArrivalAlone DEF SerialInv
  <2>2. UNCHANGED <<redis, mongo>>
    BY <1>1 DEF Receive, stores
  <2>3. Sync(r)'
    BY <2>1 DEF Sync, InHand, Past, Ending
  <2>4. QED
    BY <2>1, <2>2, <2>3 DEF SerialInv, Alone, ArchivedOnceFinished
<1>2. CASE Crash
  <2>1. InFlight' = {} /\ UNCHANGED <<redis, mongo>>
    BY <1>2, CrashNoCopy DEF InFlight
  <2>2. QED
    BY <2>1 DEF SerialInv, Alone, ArchivedOnceFinished, StaysOver, StaysGone
<1>3. CASE UNCHANGED vars
  BY <1>3 DEF vars, SerialInv, Alone, InFlight, ArchivedOnceFinished, Sync, InHand, C, StaysOver,
              StaysGone
<1>4. QED
  BY <1>1, <1>2, <1>3, StepSerial DEF Next, AllServed, StaysOver, StaysGone

\* At the start nothing runs, and MongoDB is empty.
LEMMA InitSerial == Init => SerialInv
<1> SUFFICES ASSUME Init PROVE SerialInv
  OBVIOUS
<1>1. InFlight = {}
  BY DEF Init, InFlight, Steps
<1>2. \A c \in Challenges : mongo[c] = <<>>
  BY DEF Init
<1>3. ArchivedOnceFinished
  BY <1>2 DEF ArchivedOnceFinished, Range
<1>4. QED
  BY <1>1, <1>3 DEF SerialInv, Alone

\* A handler that runs alone stands on the stores as it left them: SerialInv
\* is an invariant when requests are served one after the other.
THEOREM SerialInvariance == MaxInFlight = 1 /\ Spec => []SerialInv
<1> SUFFICES ASSUME MaxInFlight = 1
             PROVE  Spec => []SerialInv
  OBVIOUS
<1>1. IInv /\ CopiesInv /\ SerialInv /\ [Next]_vars => SerialInv'
  BY NextSerial
<1>2. QED
  BY Invariance, CopiesInvariance, InitSerial, <1>1, PTL DEF Spec

\* Served one after the other, MongoDB gets a challenge once, and only when it
\* has finished, although an insert or the deletion may fail after it worked.
THEOREM ArchivesOnce == MaxInFlight = 1 /\ Spec => []ArchivedOnceFinished
<1>1. SerialInv => ArchivedOnceFinished
  BY DEF SerialInv
<1>2. QED
  BY SerialInvariance, <1>1, PTL

\* Served one after the other, a finished challenge does not open again.
THEOREM FinishedStaysFinished == MaxInFlight = 1 /\ Spec => NeverReopens
<1> SUFFICES ASSUME MaxInFlight = 1
             PROVE  Spec => NeverReopens
  OBVIOUS
<1>1. IInv /\ CopiesInv /\ SerialInv /\ [Next]_vars
          => [\A c \in Challenges :
                 redis[c] # NoDoc /\ redis[c].status \in Terminal
                     => redis'[c] = NoDoc \/ redis'[c].status \in Terminal]_vars
  BY NextSerial DEF StaysOver
<1>2. MaxInFlight = 1 /\ Spec => []SerialInv
  BY SerialInvariance
<1>3. QED
  BY Invariance, CopiesInvariance, <1>1, <1>2, PTL DEF Spec, NeverReopens

\* A step of the archive that brings nothing back.
LEMMA NoRevival ==
    ASSUME Archive!Next \/ UNCHANGED Archive!vars, \A c \in Challenges : StaysGone(c)
    PROVE  Archive!OneWay \/ UNCHANGED Archive!vars
<1>1. ASSUME NEW c \in Challenges, Archive!Revive(c)
      PROVE  UNCHANGED Archive!vars
  <2>1. c \in archived /\ live' = live \union {c} /\ archived' = archived
    BY <1>1 DEF Archive!Revive, live, archived
  <2>2. c \in live
    BY <2>1 DEF StaysGone, live, archived
  <2>3. live' = live
    BY <2>1, <2>2
  <2>4. QED
    BY <2>1, <2>3 DEF Archive!vars, live, archived
<1>2. QED
  BY <1>1 DEF Archive!Next

\* Served one after the other, the two stores implement the archive without
\* revivals: what left Redis stays in MongoDB alone.
THEOREM StoresImplementOneWay == MaxInFlight = 1 /\ Spec => KeepsOneWay
<1> SUFFICES ASSUME MaxInFlight = 1
             PROVE  Spec => KeepsOneWay
  OBVIOUS
<1>1. Init => Archive!Init
  <2> SUFFICES ASSUME Init PROVE Archive!Init
    OBVIOUS
  <2>1. mongo = [c \in Challenges |-> <<>>]
    BY DEF Init
  <2>2. QED
    BY <2>1 DEF Archive!Init
<1>2. IInv /\ CopiesInv /\ SerialInv /\ [Next]_vars => [Archive!OneWay]_(Archive!vars)
  <2> SUFFICES ASSUME IInv, CopiesInv, SerialInv, [Next]_vars
               PROVE  Archive!OneWay \/ UNCHANGED Archive!vars
    OBVIOUS
  <2>1. Archive!Next \/ UNCHANGED Archive!vars
    BY NextMoves, MovesImplement
  <2>2. QED
    BY <2>1, NextSerial, NoRevival
<1>3. MaxInFlight = 1 /\ Spec => []SerialInv
  BY SerialInvariance
<1>4. QED
  BY Invariance, CopiesInvariance, <1>1, <1>2, <1>3, PTL DEF Spec, KeepsOneWay, Archive!OneWaySpec

(***************************************************************************)
(* Acknowledged pushes.                                                    *)
(***************************************************************************)
\* The document has the push r made.
Keeps(r, d) ==
    /\ U(r) \in DOMAIN d.participants \intersect DOMAIN d.submissions
    /\ job[r].p \in DOMAIN d.participants[U(r)].done \intersect DOMAIN d.submissions[U(r)]
    /\ d.participants[U(r)].done[job[r].p] = job[r].s
    /\ d.submissions[U(r)][job[r].p] = job[r].s

\* No other request replaced it or took its user out.
Stands(r) ==
    \A q \in Requests \ {r} :
        ~ /\ Is(q, {"push", "leave", "disconnect"})
          /\ C(q) = C(r) /\ U(q) = U(r)
          /\ job[q].op = "push" => job[q].p = job[r].p

\* Neither a reader nor a handler of the challenge has a copy without it.
KeptEverywhere(r) ==
    /\ \A d \in Served(C(r)) : Keeps(r, d)
    /\ \A q \in InFlight : C(q) = C(r) =>
           (doc[q] # NoDoc => Keeps(r, doc[q])) /\ (tmp[q] # NoDoc => Keeps(r, tmp[q]))

\* Where the handler of a push stands once the SET was acknowledged.
Stored == {"initBoard", "addUser", "topK", "save", "ok"}

\* A push has its point in its hands until it is written, and from then on it
\* is everywhere.
PushKeeps(r) ==
    /\ pc[r] \in {"updGet", "updSet", "write"} => Keeps(r, doc[r])
    /\ pc[r] = "write" => tmp[r] = NoDoc
    /\ pc[r] \in Stored /\ Stands(r) => Held(C(r)) /\ KeptEverywhere(r)

\* Every push has this.
PushesInv == \A r \in Requests : Is(r, {"push"}) => PushKeeps(r)

\* Metadata of a participant is stored anew: nothing changes for others, nor
\* when it has the point.
LEMMA ParticipantKeeps ==
    ASSUME NEW r, NEW e \in Docs, Keeps(r, e), NEW u, NEW m,
           u # U(r) \/ (job[r].p \in DOMAIN m.done /\ m.done[job[r].p] = job[r].s)
    PROVE  Keeps(r, WithParticipant(e, u, m))
<1>1. /\ WithParticipant(e, u, m).submissions = e.submissions
      /\ WithParticipant(e, u, m).participants = Put(e.participants, u, m)
  BY DEF WithParticipant, Docs
<1>2. /\ U(r) \in DOMAIN Put(e.participants, u, m)
      /\ Put(e.participants, u, m)[U(r)] = IF U(r) = u THEN m ELSE e.participants[U(r)]
  BY DEF Put, Keeps
<1>3. QED
  BY <1>1, <1>2 DEF Keeps

\* Others may leave.
LEMMA WithoutKeeps ==
    ASSUME NEW r, NEW e \in Docs, Keeps(r, e), NEW u, u # U(r)
    PROVE  Keeps(r, WithoutParticipant(e, u))
<1>1. /\ WithoutParticipant(e, u).submissions = Drop(e.submissions, u)
      /\ WithoutParticipant(e, u).participants = Drop(e.participants, u)
  BY DEF WithoutParticipant, Docs
<1>2. /\ U(r) \in DOMAIN Drop(e.participants, u)
      /\ Drop(e.participants, u)[U(r)] = e.participants[U(r)]
      /\ U(r) \in DOMAIN Drop(e.submissions, u)
      /\ Drop(e.submissions, u)[U(r)] = e.submissions[U(r)]
  BY DEF Drop, Restrict, Keeps
<1>3. QED
  BY <1>1, <1>2 DEF Keeps

\* A credit for somebody else, or for another problem.
LEMMA CreditKeeps ==
    ASSUME NEW r, NEW e \in Docs, Keeps(r, e), NEW u, NEW p, NEW s,
           u # U(r) \/ p # job[r].p
    PROVE  Keeps(r, Credit(e, u, p, s))
<1> DEFINE done == Put(e.participants[u].done, p, s)
           made == IF u \in DOMAIN e.submissions THEN e.submissions[u] ELSE EmptyMap
           m == [done |-> done, total |-> TotalScore(done)]
           v == Put(made, p, s)
           x == Credit(e, u, p, s)
<1>1. x.participants = Put(e.participants, u, m) /\ x.submissions = Put(e.submissions, u, v)
  BY DEF Credit, Docs
<1>2. CASE u # U(r)
  <2>1. /\ U(r) \in DOMAIN Put(e.participants, u, m)
        /\ Put(e.participants, u, m)[U(r)] = e.participants[U(r)]
        /\ U(r) \in DOMAIN Put(e.submissions, u, v)
        /\ Put(e.submissions, u, v)[U(r)] = e.submissions[U(r)]
    BY <1>2 DEF Put, Keeps
  <2>2. QED
    BY <1>1, <2>1 DEF Keeps
<1>3. CASE u = U(r) /\ p # job[r].p
  <2>1. /\ job[r].p \in DOMAIN done /\ done[job[r].p] = job[r].s
        /\ job[r].p \in DOMAIN v /\ v[job[r].p] = job[r].s
    BY <1>3 DEF Put, Keeps
  <2>2. /\ U(r) \in DOMAIN Put(e.participants, u, m)
        /\ Put(e.participants, u, m)[U(r)] = m
        /\ U(r) \in DOMAIN Put(e.submissions, u, v)
        /\ Put(e.submissions, u, v)[U(r)] = v
    BY <1>3 DEF Put
  <2>3. m.done = done
    OBVIOUS
  <2>4. QED
    BY <1>1, <2>1, <2>2, <2>3 DEF Keeps
<1>4. QED
  BY <1>2, <1>3

\* The credit of the push itself.
LEMMA CreditIsKept ==
    ASSUME NEW r, NEW e \in Docs
    PROVE  Keeps(r, Credit(e, U(r), job[r].p, job[r].s))
<1> DEFINE u == U(r)
           p == job[r].p
           s == job[r].s
           done == Put(e.participants[u].done, p, s)
           made == IF u \in DOMAIN e.submissions THEN e.submissions[u] ELSE EmptyMap
           m == [done |-> done, total |-> TotalScore(done)]
           v == Put(made, p, s)
           x == Credit(e, u, p, s)
<1>1. x.participants = Put(e.participants, u, m) /\ x.submissions = Put(e.submissions, u, v)
  BY DEF Credit, Docs
<1>2. p \in DOMAIN done /\ done[p] = s /\ p \in DOMAIN v /\ v[p] = s
  BY DEF Put
<1>3. /\ u \in DOMAIN Put(e.participants, u, m) /\ Put(e.participants, u, m)[u] = m
      /\ u \in DOMAIN Put(e.submissions, u, v) /\ Put(e.submissions, u, v)[u] = v
  BY DEF Put
<1>4. m.done = done
  OBVIOUS
<1>5. QED
  BY <1>1, <1>2, <1>3, <1>4 DEF Keeps

\* The other fields do not matter.
LEMMA FieldKeeps ==
    ASSUME NEW r, NEW e \in Docs, Keeps(r, e), NEW l
    PROVE  /\ Keeps(r, [e EXCEPT !.leaderboard = l])
           /\ Keeps(r, [e EXCEPT !.status = l])
BY DEF Keeps, Docs

(***************************************************************************)
(* A handler q works on the challenge of a push r that is stored.          *)
(***************************************************************************)
\* What q finds has the push, and q does not replace it.
Bound(r, q) ==
    /\ C(r) = C(q) /\ Held(C(q)) /\ pc[r] \in Stored
    /\ q = r \/ ~ /\ Is(q, {"push", "leave", "disconnect"})
                  /\ U(q) = U(r)
                  /\ job[q].op = "push" => job[q].p = job[r].p
    /\ \A d \in {redis[C(q)], doc[q], tmp[q]} : d # NoDoc => Keeps(r, d)

\* What q leaves has it.
Leaves(r, q) ==
    /\ redis'[C(q)] # NoDoc => Keeps(r, redis'[C(q)])
    /\ redis'[C(q)] = NoDoc => \A i \in DOMAIN mongo'[C(q)] : Keeps(r, mongo'[C(q)][i])
    /\ doc'[q] # NoDoc => Keeps(r, doc'[q])
    /\ tmp'[q] # NoDoc => Keeps(r, tmp'[q])

\* Steps that make no copy and write none, when Redis has the challenge or
\* nothing has changed.
LEMMA IdleLeaves ==
    ASSUME NEW r \in Requests, NEW q \in Requests, Standing(q), Bound(r, q), Is(r, {"push"}),
           \A i \in DOMAIN mongo[C(q)] : redis[C(q)] = NoDoc => Keeps(r, mongo[C(q)][i]),
           UNCHANGED <<redis, mongo>>,
           doc'[q] # NoDoc => Keeps(r, doc'[q]), tmp'[q] # NoDoc => Keeps(r, tmp'[q])
    PROVE  Leaves(r, q)
BY DEF Bound, Leaves

\* Which steps those are.
LEMMA NoCopyKeeps ==
    ASSUME NEW r \in Requests, NEW q \in Requests, Standing(q), Bound(r, q),
           \/ ListKeys(q) \/ CheckKey(q) \/ InitializeLeaderboard(q) \/ UpdateParticipantScore(q)
           \/ CleanupLeaderboard(q) \/ ArchiveFind(q) \/ ReadRedis(q) \/ ReadMongo(q)
           \/ LoadForAbandon(q) \/ LoadForEnd(q) \/ LoadForLeave(q) \/ LoadForRetrieve(q)
    PROVE  /\ UNCHANGED <<redis, mongo>>
           /\ doc'[q] # NoDoc => Keeps(r, doc'[q])
           /\ tmp'[q] # NoDoc => Keeps(r, tmp'[q])
<1>1. TypeOK /\ UNCHANGED <<redis, mongo>>
  BY DEF Standing, ListKeys, CheckKey, InitializeLeaderboard, UpdateParticipantScore,
         CleanupLeaderboard, ArchiveFind, ReadRedis, ReadMongo, LoadForAbandon, LoadForEnd,
         LoadForLeave, LoadForRetrieve, CreatorOnly, Proceed, stores
<1>2. doc'[q] \in {doc[q], NoDoc} /\ tmp'[q] \in {tmp[q], NoDoc}
  <2>1. CASE ListKeys(q) \/ CheckKey(q) \/ ReadRedis(q) \/ ReadMongo(q)
    BY <1>1, <2>1, ReplyDrops DEF ListKeys, CheckKey, ReadRedis, ReadMongo, locals
  <2>2. CASE InitializeLeaderboard(q) \/ UpdateParticipantScore(q) \/ CleanupLeaderboard(q)
             \/ ArchiveFind(q)
    BY <1>1, <2>2, ReplyDrops
       DEF InitializeLeaderboard, UpdateParticipantScore, CleanupLeaderboard, ArchiveFind, locals
  <2>3. CASE LoadForAbandon(q) \/ LoadForEnd(q) \/ LoadForLeave(q) \/ LoadForRetrieve(q)
    BY <1>1, <2>3, ReplyDrops, KeepGives
       DEF LoadForAbandon, LoadForEnd, LoadForLeave, LoadForRetrieve, CreatorOnly, Proceed
  <2>4. QED
    BY <2>1, <2>2, <2>3
<1>3. QED
  BY <1>1, <1>2 DEF Bound

\* The copies a join or a push starts with.
LEMMA LoadKeeps ==
    ASSUME NEW r \in Requests, NEW q \in Requests, Standing(q), Bound(r, q),
           LoadForJoin(q) \/ LoadForPush(q)
    PROVE  /\ UNCHANGED <<redis, mongo>>
           /\ doc'[q] # NoDoc => Keeps(r, doc'[q])
           /\ tmp'[q] # NoDoc => Keeps(r, tmp'[q])
<1>1. TypeOK /\ OpInPlace(q) /\ C(q) \in Challenges /\ UNCHANGED <<redis, mongo>>
  BY DEF Standing, LoadForJoin, LoadForPush, Proceed, stores
<1>2. \A d \in Get(C(q)) : d # NoDoc => d \in Docs /\ Keeps(r, d)
  BY <1>1 DEF Get, Bound, TypeOK
<1>3. CASE LoadForJoin(q)
  <2>1. PICK d \in Get(C(q)) :
          IF d # NoDoc /\ d.status # "abandon"
          THEN IF U(q) \in DOMAIN d.participants
               THEN Proceed(q, TRUE, d, "updGet")
               ELSE Proceed(q, TRUE, WithParticipant(d, U(q), FreshMetadata), "addGet")
          ELSE Proceed(q, FALSE, d, "err")
    BY <1>3 DEF LoadForJoin
  <2>2. /\ tmp'[q] \in {tmp[q], NoDoc}
        /\ \/ doc'[q] = NoDoc
           \/ d # NoDoc /\ doc'[q] = d
           \/ /\ d # NoDoc /\ U(q) \notin DOMAIN d.participants
              /\ doc'[q] = WithParticipant(d, U(q), FreshMetadata)
    BY <1>1, <2>1, ReplyDrops, KeepGives DEF Proceed
  <2>3. d # NoDoc /\ U(q) \notin DOMAIN d.participants
            => Keeps(r, WithParticipant(d, U(q), FreshMetadata))
    <3> SUFFICES ASSUME d # NoDoc, U(q) \notin DOMAIN d.participants
                 PROVE  Keeps(r, WithParticipant(d, U(q), FreshMetadata))
      OBVIOUS
    <3>1. d \in Docs /\ Keeps(r, d) /\ U(q) # U(r)
      BY <1>2 DEF Keeps
    <3>2. QED
      BY <3>1, ParticipantKeeps
  <2>4. QED
    BY <1>1, <1>2, <2>2, <2>3 DEF Bound
<1>4. CASE LoadForPush(q)
  <2>1. PICK d \in Get(C(q)) :
          IF d # NoDoc /\ U(q) \in DOMAIN d.participants
          THEN Proceed(q, TRUE, Credit(d, U(q), job[q].p, job[q].s), "updGet")
          ELSE Proceed(q, FALSE, d, "err")
    BY <1>4 DEF LoadForPush
  <2>2. /\ tmp'[q] \in {tmp[q], NoDoc}
        /\ \/ doc'[q] = NoDoc
           \/ d # NoDoc /\ doc'[q] = Credit(d, U(q), job[q].p, job[q].s)
    BY <1>1, <2>1, ReplyDrops, KeepGives DEF Proceed
  <2>3. U(q) # U(r) \/ job[q].p # job[r].p
    BY <1>1, <1>4 DEF LoadForPush, OpInPlace, Bound, Stored, Is
  <2>4. d # NoDoc => Keeps(r, Credit(d, U(q), job[q].p, job[q].s))
    <3> SUFFICES ASSUME d # NoDoc
                 PROVE  Keeps(r, Credit(d, U(q), job[q].p, job[q].s))
      OBVIOUS
    <3>1. d \in Docs /\ Keeps(r, d)
      BY <1>2
    <3>2. QED
      BY <2>3, <3>1, CreditKeeps
  <2>5. QED
    BY <1>1, <2>2, <2>4 DEF Bound
<1>5. QED
  BY <1>3, <1>4

\* The copies repository functions work on, and the snapshot.
LEMMA GetKeeps ==
    ASSUME NEW r \in Requests, NEW q \in Requests, Standing(q), Bound(r, q), Is(r, {"push"}),
           ParticipantGet(q) \/ GetLeaderboard(q) \/ MarkGet(q) \/ ArchiveGet(q) \/ RemoveGet(q)
    PROVE  /\ UNCHANGED <<redis, mongo>>
           /\ doc'[q] # NoDoc => Keeps(r, doc'[q])
           /\ tmp'[q] # NoDoc => Keeps(r, tmp'[q])
<1>1. TypeOK /\ OpInPlace(q) /\ CopyInHand(q) /\ C(q) \in Challenges /\ UNCHANGED <<redis, mongo>>
  BY DEF Standing, ParticipantGet, GetLeaderboard, MarkGet, ArchiveGet, RemoveGet, stores
<1>2. \A d \in Get(C(q)) : d # NoDoc => d \in Docs /\ Keeps(r, d)
  BY <1>1 DEF Get, Bound, TypeOK
<1>3. CASE ParticipantGet(q)
  <2>1. doc[q] \in Docs /\ doc[q] # NoDoc /\ Keeps(r, doc[q])
    BY <1>1, <1>3, NoDocAssumption DEF ParticipantGet, CopyInHand, Bound
  <2>2. PICK m : m = doc[q].participants[U(q)]
    OBVIOUS
  <2>3. PICK d \in Get(C(q)) :
          /\ doc'[q] \in {doc[q], NoDoc}
          /\ \/ tmp'[q] \in {tmp[q], NoDoc}
             \/ d # NoDoc /\ tmp'[q] = WithParticipant(d, U(q), m)
    BY <1>1, <1>3, <2>2, ReplyDrops, KeepGives DEF ParticipantGet, locals
  <2>4. U(q) # U(r) \/ (job[r].p \in DOMAIN m.done /\ m.done[job[r].p] = job[r].s)
    BY <2>1, <2>2 DEF Keeps
  <2>5. d # NoDoc => Keeps(r, WithParticipant(d, U(q), m))
    <3> SUFFICES ASSUME d # NoDoc
                 PROVE  Keeps(r, WithParticipant(d, U(q), m))
      OBVIOUS
    <3>1. d \in Docs /\ Keeps(r, d)
      BY <1>2
    <3>2. QED
      BY <2>4, <3>1, ParticipantKeeps
  <2>6. QED
    BY <1>1, <2>3, <2>5 DEF Bound
<1>4. CASE GetLeaderboard(q)
  <2>1. doc[q] \in Docs /\ doc[q] # NoDoc /\ Keeps(r, doc[q])
    BY <1>1, <1>4, NoDocAssumption DEF GetLeaderboard, CopyInHand, Bound
  <2>2. PICK e : e = [doc[q] EXCEPT !.leaderboard = scores[C(q)]]
    OBVIOUS
  <2>3. Keeps(r, e)
    BY <2>1, <2>2, FieldKeeps
  <2>4. (Goto(q, "save") /\ Keep(doc, q, e) /\ UNCHANGED <<tmp, todo>>) \/ Reply(q, "ok")
    BY <1>4, <2>2 DEF GetLeaderboard, Keep
  <2>5. doc'[q] \in {e, NoDoc} /\ tmp'[q] \in {tmp[q], NoDoc}
    BY <1>1, <2>4, ReplyDrops, KeepGives
  <2>6. QED
    BY <1>1, <2>3, <2>5 DEF Bound
<1>5. CASE MarkGet(q)
  <2>1. PICK d \in Get(C(q)) :
          IF d # NoDoc /\ (job[q].op = "abandon" => d.creator = U(q))
          THEN /\ Goto(q, "markSet")
               /\ Keep(tmp, q, [d EXCEPT !.status = Mark(q)])
               /\ UNCHANGED <<doc, todo>>
          ELSE Reply(q, "err")
    BY <1>5 DEF MarkGet
  <2>2. PICK e : e = [d EXCEPT !.status = Mark(q)]
    OBVIOUS
  <2>3. d # NoDoc => Keeps(r, e)
    BY <1>2, <2>2, FieldKeeps
  <2>4. \/ d # NoDoc /\ Goto(q, "markSet") /\ Keep(tmp, q, e) /\ UNCHANGED <<doc, todo>>
        \/ Reply(q, "err")
    BY <2>1, <2>2 DEF Keep
  <2>5. doc'[q] \in {doc[q], NoDoc} /\ (tmp'[q] = NoDoc \/ (d # NoDoc /\ tmp'[q] = e))
    BY <1>1, <2>4, ReplyDrops, KeepGives
  <2>6. QED
    BY <1>1, <2>3, <2>5 DEF Bound
<1>6. CASE ArchiveGet(q)
  <2>1. PICK d \in Get(C(q)) :
          /\ doc'[q] \in {doc[q], NoDoc}
          /\ tmp'[q] = NoDoc \/ (d # NoDoc /\ tmp'[q] = d)
    BY <1>1, <1>6, ReplyDrops, KeepGives DEF ArchiveGet
  <2>2. QED
    BY <1>1, <1>2, <2>1 DEF Bound
<1>7. CASE RemoveGet(q)
  <2>1. PICK d \in Get(C(q)) :
          /\ doc'[q] \in {doc[q], NoDoc}
          /\ tmp'[q] = NoDoc \/ (d # NoDoc /\ tmp'[q] = WithoutParticipant(d, U(q)))
    BY <1>1, <1>7, ReplyDrops, KeepGives DEF RemoveGet
  <2>2. U(q) # U(r)
    BY <1>1, <1>7 DEF RemoveGet, OpInPlace, Bound, Is
  <2>3. d # NoDoc => Keeps(r, WithoutParticipant(d, U(q)))
    <3> SUFFICES ASSUME d # NoDoc
                 PROVE  Keeps(r, WithoutParticipant(d, U(q)))
      OBVIOUS
    <3>1. d \in Docs /\ Keeps(r, d)
      BY <1>2
    <3>2. QED
      BY <2>2, <3>1, WithoutKeeps
  <2>4. QED
    BY <1>1, <2>1, <2>3 DEF Bound
<1>8. QED
  BY <1>3, <1>4, <1>5, <1>6, <1>7

\* The writes to Redis.
LEMMA SetLeaves ==
    ASSUME NEW r \in Requests, NEW q \in Requests, Standing(q), Bound(r, q),
           ParticipantSet(q) \/ WriteBack(q) \/ SaveSnapshot(q) \/ MarkSet(q) \/ RemoveSet(q)
    PROVE  Leaves(r, q)
<1>1. TypeOK /\ OpInPlace(q) /\ CopyInHand(q) /\ Sync(q) /\ C(q) \in Challenges
  BY DEF Standing
<1>2. redis[C(q)] # NoDoc
  BY <1>1 DEF Sync, InHand, Past, ParticipantSet, WriteBack, SaveSnapshot, MarkSet, RemoveSet
<1>3. CASE ParticipantSet(q) \/ MarkSet(q) \/ RemoveSet(q)
  <2>1. tmp[q] # NoDoc
    BY <1>1, <1>3, NoDocAssumption DEF CopyInHand, ParticipantSet, MarkSet, RemoveSet
  <2>2. redis'[C(q)] \in {redis[C(q)], tmp[q]}
    BY <1>1, <1>3, SetGives DEF ParticipantSet, MarkSet, RemoveSet
  <2>3. doc'[q] \in {doc[q], NoDoc} /\ tmp'[q] \in {tmp[q], NoDoc}
    BY <1>1, <1>3, ReplyDrops, KeepGives DEF ParticipantSet, MarkSet, RemoveSet
  <2>4. QED
    BY <1>2, <2>1, <2>2, <2>3 DEF Bound, Leaves
<1>4. CASE WriteBack(q) \/ SaveSnapshot(q)
  <2>1. doc[q] # NoDoc
    BY <1>1, <1>4, NoDocAssumption DEF CopyInHand, WriteBack, SaveSnapshot
  <2>2. redis'[C(q)] \in {redis[C(q)], doc[q]}
    BY <1>1, <1>4, SetGives DEF WriteBack, SaveSnapshot
  <2>3. doc'[q] \in {doc[q], NoDoc} /\ tmp'[q] \in {tmp[q], NoDoc}
    BY <1>1, <1>4, ReplyDrops DEF WriteBack, SaveSnapshot, locals
  <2>4. QED
    BY <1>2, <2>1, <2>2, <2>3 DEF Bound, Leaves
<1>5. QED
  BY <1>3, <1>4

\* The archiving handler's writes: what it deletes from Redis, MongoDB has.
LEMMA ArchivingLeaves ==
    ASSUME NEW r \in Requests, NEW q \in Requests, Standing(q), Bound(r, q),
           ArchiveInsert(q) \/ ArchiveUpdate(q) \/ ArchiveDelete(q)
    PROVE  Leaves(r, q)
<1>1. TypeOK /\ Sync(q) /\ C(q) \in Challenges
  BY DEF Standing
<1>2. redis[C(q)] # NoDoc
  BY <1>1 DEF Sync, Past, ArchiveInsert, ArchiveUpdate, ArchiveDelete
<1>3. doc'[q] \in {doc[q], NoDoc} /\ tmp'[q] \in {tmp[q], NoDoc}
  BY <1>1, ReplyDrops DEF ArchiveInsert, ArchiveUpdate, ArchiveDelete, locals
<1>4. CASE ArchiveInsert(q) \/ ArchiveUpdate(q)
  <2>1. redis' = redis
    BY <1>4 DEF ArchiveInsert, ArchiveUpdate
  <2>2. QED
    BY <1>2, <1>3, <2>1 DEF Bound, Leaves
<1>5. CASE ArchiveDelete(q)
  <2>1. redis'[C(q)] \in {redis[C(q)], NoDoc} /\ mongo' = mongo
    BY <1>1, <1>5, SetGives DEF ArchiveDelete, Del
  <2>2. PICK s : s = <<redis[C(q)]>>
    OBVIOUS
  <2>3. mongo[C(q)] = s /\ \A i \in DOMAIN s : s[i] = redis[C(q)]
    BY <1>1, <1>5, <2>2, OneSeq DEF ArchiveDelete, Sync
  <2>4. QED
    BY <1>2, <1>3, <2>1, <2>3 DEF Bound, Leaves
<1>6. QED
  BY <1>4, <1>5

\* Whatever q does.
LEMMA StepLeaves ==
    ASSUME CopiesInv, NEW r \in Requests, Is(r, {"push"}), NEW q \in Requests, Standing(q),
           Bound(r, q), Step(q), \A d \in Served(C(q)) : Keeps(r, d)
    PROVE  Leaves(r, q)
<1>1. \A i \in DOMAIN mongo[C(q)] : redis[C(q)] = NoDoc => Keeps(r, mongo[C(q)][i])
  BY DEF Served, Range
<1>2. CASE StoreNew(q)
  <2>1. pc[q] \in {"keys", "scan"}
    BY <1>2 DEF StoreNew
  <2>2. redis[C(q)] = NoDoc /\ mongo[C(q)] = <<>>
    BY <2>1, NewIsNowhere
  <2>3. QED
    BY <2>2 DEF Bound, Held
<1>3. CASE \/ ListKeys(q) \/ CheckKey(q) \/ InitializeLeaderboard(q) \/ UpdateParticipantScore(q)
           \/ CleanupLeaderboard(q) \/ ArchiveFind(q) \/ ReadRedis(q) \/ ReadMongo(q)
           \/ LoadForAbandon(q) \/ LoadForEnd(q) \/ LoadForLeave(q) \/ LoadForRetrieve(q)
  BY <1>1, <1>3, NoCopyKeeps, IdleLeaves
<1>4. CASE LoadForJoin(q) \/ LoadForPush(q)
  BY <1>1, <1>4, LoadKeeps, IdleLeaves
<1>5. CASE ParticipantGet(q) \/ GetLeaderboard(q) \/ MarkGet(q) \/ ArchiveGet(q) \/ RemoveGet(q)
  BY <1>1, <1>5, GetKeeps, IdleLeaves
<1>6. CASE ParticipantSet(q) \/ WriteBack(q) \/ SaveSnapshot(q) \/ MarkSet(q) \/ RemoveSet(q)
  BY <1>6, SetLeaves
<1>7. CASE ArchiveInsert(q) \/ ArchiveUpdate(q) \/ ArchiveDelete(q)
  BY <1>7, ArchivingLeaves
<1>8. QED
  BY <1>2, <1>3, <1>4, <1>5, <1>6, <1>7 DEF Step

(***************************************************************************)
(* The push's own handler.                                                 *)
(***************************************************************************)
\* Until it is written back the credited copy stays in its hands; the write
\* that is acknowledged puts it into Redis.
LEMMA OwnPush ==
    ASSUME NEW r \in Requests, Standing(r), Step(r), Is(r, {"push"}), PushKeeps(r)
    PROVE  /\ pc'[r] \in {"updGet", "updSet", "write"} => Keeps(r, doc'[r])
           /\ pc'[r] = "write" => tmp'[r] = NoDoc
           /\ pc'[r] \in Stored => \/ pc[r] \in Stored
                                   \/ /\ redis'[C(r)] = doc[r] /\ doc[r] # NoDoc
                                      /\ doc' = doc /\ tmp'[r] = NoDoc /\ Keeps(r, doc[r])
<1>1. TypeOK /\ OpInPlace(r) /\ CopyInHand(r) /\ C(r) \in Challenges
  BY DEF Standing
<1>2. CASE LoadForPush(r)
  <2>1. PICK d \in Get(C(r)) :
          IF d # NoDoc /\ U(r) \in DOMAIN d.participants
          THEN Proceed(r, TRUE, Credit(d, U(r), job[r].p, job[r].s), "updGet")
          ELSE Proceed(r, FALSE, d, "err")
    BY <1>2 DEF LoadForPush
  <2>2. \/ pc'[r] = "err"
        \/ pc'[r] = "updGet" /\ d # NoDoc /\ doc'[r] = Credit(d, U(r), job[r].p, job[r].s)
    BY <1>1, <2>1, MovesTo, KeepGives DEF Proceed
  <2>3. d # NoDoc => d \in Docs
    BY <1>1 DEF Get, TypeOK
  <2>4. QED
    BY <2>2, <2>3, CreditIsKept DEF Stored
<1>3. CASE ParticipantGet(r)
  <2>1. /\ pc[r] = "updGet" /\ pc'[r] \in {"updSet", "err"}
        /\ pc'[r] = "updSet" => doc' = doc
    BY <1>1, <1>3, MovesTo DEF ParticipantGet, OpInPlace, Is
  <2>2. QED
    BY <2>1 DEF PushKeeps, Stored
<1>4. CASE ParticipantSet(r)
  <2>1. /\ pc[r] = "updSet" /\ pc'[r] \in {"write", "err"}
        /\ pc'[r] = "write" => doc' = doc /\ tmp'[r] = NoDoc
    BY <1>1, <1>4, MovesTo, KeepGives DEF ParticipantSet, OpInPlace, Is
  <2>2. QED
    BY <2>1 DEF PushKeeps, Stored
<1>5. CASE WriteBack(r)
  <2>1. doc[r] # NoDoc /\ pc[r] = "write" /\ tmp[r] = NoDoc /\ Keeps(r, doc[r])
    BY <1>1, <1>5, NoDocAssumption DEF WriteBack, CopyInHand, PushKeeps
  <2>2. \/ pc'[r] = "initBoard" /\ redis'[C(r)] = doc[r] /\ doc' = doc /\ tmp' = tmp
        \/ pc'[r] = "err"
    BY <1>1, <1>5, SetGives, MovesTo DEF WriteBack, locals
  <2>3. QED
    BY <2>1, <2>2 DEF Stored
<1>6. CASE \/ InitializeLeaderboard(r) \/ UpdateParticipantScore(r) \/ GetLeaderboard(r)
           \/ SaveSnapshot(r)
  <2>1. pc[r] \in Stored
    BY <1>6 DEF InitializeLeaderboard, UpdateParticipantScore, GetLeaderboard, SaveSnapshot, Stored
  <2>2. pc'[r] \in {"addUser", "topK", "save", "ok"}
    BY <1>1, <1>6, MovesTo DEF InitializeLeaderboard, UpdateParticipantScore, GetLeaderboard,
                               SaveSnapshot, OpInPlace, Is
  <2>3. QED
    BY <2>1, <2>2 DEF Stored
<1>7. QED
  <2>1. pc[r] \in {"pushLoad", "updGet", "updSet", "write", "initBoard", "addUser", "topK", "save"}
    BY <1>1 DEF Standing, OpInPlace, Is, Steps
  <2>2. \/ LoadForPush(r) \/ ParticipantGet(r) \/ ParticipantSet(r) \/ WriteBack(r)
        \/ InitializeLeaderboard(r) \/ UpdateParticipantScore(r) \/ GetLeaderboard(r)
        \/ SaveSnapshot(r)
    <3>1. ~(\/ ListKeys(r) \/ CheckKey(r) \/ StoreNew(r) \/ LoadForJoin(r) \/ LoadForAbandon(r)
            \/ LoadForEnd(r) \/ LoadForLeave(r) \/ LoadForRetrieve(r) \/ MarkGet(r) \/ MarkSet(r))
      BY <2>1 DEF ListKeys, CheckKey, StoreNew, LoadForJoin, LoadForAbandon, LoadForEnd,
                  LoadForLeave, LoadForRetrieve, CreatorOnly, MarkGet, MarkSet
    <3>2. ~(\/ CleanupLeaderboard(r) \/ ArchiveGet(r) \/ ArchiveFind(r) \/ ArchiveInsert(r)
            \/ ArchiveUpdate(r) \/ ArchiveDelete(r) \/ RemoveGet(r) \/ RemoveSet(r)
            \/ ReadRedis(r) \/ ReadMongo(r))
      BY <2>1 DEF CleanupLeaderboard, ArchiveGet, ArchiveFind, ArchiveInsert, ArchiveUpdate,
                  ArchiveDelete, RemoveGet, RemoveSet, ReadRedis, ReadMongo
    <3>3. QED
      BY <3>1, <3>2 DEF Step
  <2>3. QED
    BY <1>2, <1>3, <1>4, <1>5, <1>6, <2>2

\* What q leaves is all there is.
LEMMA LeavesEverywhere ==
    ASSUME NEW r \in Requests, NEW q \in Requests, job' = job, \A p \in InFlight' : p = q,
           C(r) = C(q), Leaves(r, q)
    PROVE  KeptEverywhere(r)'
<1>1. \A d \in Served(C(r))' : Keeps(r, d)
  BY DEF Served, Range, Leaves, C
<1>2. \A d : Keeps(r, d)' <=> Keeps(r, d)
  BY DEF Keeps, U
<1>3. \A p \in InFlight' : (doc'[p] # NoDoc => Keeps(r, doc'[p])) /\ (tmp'[p] # NoDoc => Keeps(r, tmp'[p]))
  BY DEF Leaves
<1>4. Keeps(r, doc[q])' <=> Keeps(r, doc'[q])
  BY DEF Keeps, U
<1>5. Keeps(r, tmp[q])' <=> Keeps(r, tmp'[q])
  BY DEF Keeps, U
<1>6. \A d \in Served(C(r))' : Keeps(r, d)'
  BY <1>1, <1>2
<1>7. QED
  BY <1>3, <1>4, <1>5, <1>6 DEF KeptEverywhere

\* Every step of a handler that runs alone keeps every push.
LEMMA StepPushes ==
    ASSUME IInv, CopiesInv, SerialInv, PushesInv, NEW q \in Requests, Step(q)
    PROVE  PushesInv'
<1>1. /\ job' = job /\ OthersKeep(q) /\ StoresKeep /\ Touches(q) /\ C(q) \in Challenges
      /\ Standing(q) /\ InFlight = {q} /\ \A p \in InFlight' : p = q
  BY StepFacts, StandsBefore, StepAlone DEF SerialInv
<1> SUFFICES ASSUME NEW r \in Requests, Is(r, {"push"})
             PROVE  PushKeeps(r)'
  BY <1>1 DEF PushesInv, Is
<1>2. PushKeeps(r)
  BY DEF PushesInv
<1>3. r = q => /\ pc'[r] \in {"updGet", "updSet", "write"} => Keeps(r, doc'[r])
               /\ pc'[r] = "write" => tmp'[r] = NoDoc
               /\ pc'[r] \in Stored => \/ pc[r] \in Stored
                                       \/ /\ redis'[C(r)] = doc[r] /\ doc[r] # NoDoc
                                          /\ doc' = doc /\ tmp'[r] = NoDoc /\ Keeps(r, doc[r])
  BY <1>1, <1>2, OwnPush
<1>4. r # q => pc'[r] = pc[r] /\ doc'[r] = doc[r] /\ tmp'[r] = tmp[r]
  BY <1>1 DEF OthersKeep
<1>5. /\ pc'[r] \in {"updGet", "updSet", "write"} => Keeps(r, doc'[r])
      /\ pc'[r] = "write" => tmp'[r] = NoDoc
  BY <1>2, <1>3, <1>4 DEF PushKeeps
<1>6. ASSUME pc'[r] \in Stored, Stands(r)
      PROVE  Held(C(r))' /\ KeptEverywhere(r)'
  <2>1. CASE pc[r] \in Stored
    <3>1. Held(C(r)) /\ KeptEverywhere(r)
      BY <1>2, <1>6, <2>1 DEF PushKeeps
    <3>2. C(r) \in Challenges
      BY <2>1, JobType DEF Stored
    <3>3. Held(C(r))'
      BY <1>1, <3>1, <3>2 DEF StoresKeep, C
    <3>4. CASE C(r) = C(q)
      <4>1. q = r \/ ~ /\ Is(q, {"push", "leave", "disconnect"})
                       /\ U(q) = U(r)
                       /\ job[q].op = "push" => job[q].p = job[r].p
        BY <1>6, <3>4 DEF Stands
      <4>2. \A d \in {redis[C(q)], doc[q], tmp[q]} : d # NoDoc => Keeps(r, d)
        BY <1>1, <3>1, <3>4 DEF KeptEverywhere, Served
      <4>3. Bound(r, q)
        BY <2>1, <3>1, <3>4, <4>1, <4>2 DEF Bound
      <4>4. \A d \in Served(C(q)) : Keeps(r, d)
        BY <3>1, <3>4 DEF KeptEverywhere
      <4>5. Leaves(r, q)
        BY <1>1, <4>3, <4>4, StepLeaves
      <4>6. QED
        BY <1>1, <3>3, <3>4, <4>5, LeavesEverywhere
    <3>5. CASE C(r) # C(q)
      <4>1. redis'[C(r)] = redis[C(r)] /\ mongo'[C(r)] = mongo[C(r)]
        BY <1>1, <3>2, <3>5 DEF Touches
      <4>2. Served(C(r))' = Served(C(r))
        BY <1>1, <4>1 DEF Served, C
      <4>3. \A d : Keeps(r, d)' <=> Keeps(r, d)
        BY <1>1 DEF Keeps, U
      <4>4. \A d \in Served(C(r))' : Keeps(r, d)'
        BY <3>1, <4>2, <4>3 DEF KeptEverywhere
      <4>5. \A p \in InFlight' : C(p)' # C(r)'
        BY <1>1, <3>5 DEF C
      <4>6. QED
        BY <3>3, <4>4, <4>5 DEF KeptEverywhere
    <3>6. QED
      BY <3>4, <3>5
  <2>2. CASE pc[r] \notin Stored
    <3>1. /\ r = q /\ redis'[C(r)] = doc[r] /\ doc[r] # NoDoc
          /\ doc' = doc /\ tmp'[r] = NoDoc /\ Keeps(r, doc[r])
      BY <1>3, <1>4, <1>6, <2>2
    <3>2. Leaves(r, q)
      BY <3>1 DEF Leaves
    <3>3. Held(C(r))'
      BY <1>1, <3>1 DEF Held, C
    <3>4. QED
      BY <1>1, <3>1, <3>2, <3>3, LeavesEverywhere
  <2>3. QED
    BY <2>1, <2>2
<1>7. Stands(r)' <=> Stands(r)
  BY <1>1 DEF Stands, Is, C, U
<1>8. Keeps(r, doc[r])' <=> Keeps(r, doc'[r])
  BY <1>1 DEF Keeps, U
<1>9. QED
  BY <1>5, <1>6, <1>7, <1>8 DEF PushKeeps

\* An arrival brings nothing into the stores.
LEMMA ArrivalPushes ==
    ASSUME MaxInFlight = 1, IInv, CopiesInv, SerialInv, PushesInv, NEW q \in Requests, Receive(q)
    PROVE  PushesInv'
<1>1. /\ TypeOK /\ UNCHANGED <<redis, mongo, doc, tmp>> /\ job[q] = NoJob
      /\ \A p \in Requests \ {q} : job'[p] = job[p] /\ pc'[p] = pc[p]
  BY ArrivalNoCopy DEF IInv
<1>2. /\ \A p \in InFlight' : p = q
      /\ pc'[q] \in {"keys", "joinLoad", "pushLoad", "abandonLoad", "endLoad", "leaveLoad",
                     "remGet", "readRedis", "retrieveLoad"}
  BY ArrivalAlone DEF SerialInv
<1>3. doc[q] = NoDoc /\ tmp[q] = NoDoc
  <2>1. pc[q] = "idle"
    BY DEF Receive
  <2>2. QED
    BY <2>1 DEF CopiesInv, Empty, Steps
<1> SUFFICES ASSUME NEW r \in Requests, Is(r, {"push"})'
             PROVE  PushKeeps(r)'
  BY DEF PushesInv
<1>4. CASE r = q
  BY <1>2, <1>4 DEF PushKeeps, Stored
<1>5. CASE r # q
  <2>1. job'[r] = job[r] /\ pc'[r] = pc[r] /\ Is(r, {"push"}) /\ PushKeeps(r)
    BY <1>1, <1>5 DEF Is, PushesInv
  <2>2. Stands(r)' => Stands(r)
    <3> SUFFICES ASSUME Stands(r)', NEW p \in Requests \ {r}, Is(p, {"push", "leave", "disconnect"}),
                        C(p) = C(r), U(p) = U(r), job[p].op = "push" => job[p].p = job[r].p
                 PROVE  FALSE
      BY DEF Stands
    <3>1. p # q
      BY <1>1 DEF Is
    <3>2. job'[p] = job[p]
      BY <1>1, <3>1
    <3>3. QED
      BY <2>1, <3>2 DEF Stands, Is, C, U
  <2>3. \A d : Keeps(r, d)' <=> Keeps(r, d)
    BY <2>1 DEF Keeps, U
  <2>4. Keeps(r, doc[r])' <=> Keeps(r, doc[r])
    BY <1>1, <2>1 DEF Keeps, U
  <2>5. Held(C(r))' <=> Held(C(r))
    BY <1>1, <2>1 DEF Held, C
  <2>6. Served(C(r))' = Served(C(r))
    BY <1>1, <2>1 DEF Served, C
  <2>7. \A p \in InFlight' : doc'[p] = NoDoc /\ tmp'[p] = NoDoc
    BY <1>1, <1>2, <1>3
  <2>8. KeptEverywhere(r) => KeptEverywhere(r)'
    BY <2>3, <2>6, <2>7 DEF KeptEverywhere
  <2>9. QED
    BY <1>1, <2>1, <2>2, <2>4, <2>5, <2>8 DEF PushKeeps
<1>6. QED
  BY <1>4, <1>5

\* After a crash only the stores have copies.
LEMMA CrashPushes ==
    ASSUME IInv, PushesInv, Crash
    PROVE  PushesInv'
<1>1. /\ UNCHANGED <<redis, mongo, job>> /\ InFlight' = {}
      /\ \A p \in Requests : (pc'[p] = pc[p] \/ pc'[p] = "crashed") /\ pc'[p] \notin Steps
  BY CrashNoCopy DEF InFlight
<1> SUFFICES ASSUME NEW r \in Requests, Is(r, {"push"})
             PROVE  PushKeeps(r)'
  BY <1>1 DEF PushesInv, Is
<1>2. PushKeeps(r) /\ (pc'[r] = pc[r] \/ pc'[r] = "crashed") /\ pc'[r] \notin Steps
  BY <1>1 DEF PushesInv
<1>3. pc'[r] \notin {"updGet", "updSet", "write"} /\ (pc'[r] \in Stored => pc[r] = "ok")
  BY <1>2 DEF Steps, Stored
<1>4. \A d : Keeps(r, d)' <=> Keeps(r, d)
  BY <1>1 DEF Keeps, U
<1>5. Served(C(r))' = Served(C(r)) /\ (Held(C(r))' <=> Held(C(r))) /\ (Stands(r)' <=> Stands(r))
  BY <1>1 DEF Served, Held, Stands, Is, C, U
<1>6. KeptEverywhere(r) => KeptEverywhere(r)'
  BY <1>1, <1>4, <1>5 DEF KeptEverywhere
<1>7. QED
  BY <1>2, <1>3, <1>5, <1>6 DEF PushKeeps, Stored

\* Nothing happens.
LEMMA StutterPushes ==
    ASSUME PushesInv, UNCHANGED vars
    PROVE  PushesInv'
<1> SUFFICES ASSUME NEW r \in Requests, Is(r, {"push"})
             PROVE  PushKeeps(r)'
  BY DEF PushesInv, Is, vars
<1>1. PushKeeps(r)
  BY DEF PushesInv
<1>2. \A d : Keeps(r, d)' <=> Keeps(r, d)
  BY DEF Keeps, U, vars
<1>3. \A q \in Requests : /\ Keeps(r, doc[q])' <=> Keeps(r, doc[q])
                         /\ Keeps(r, tmp[q])' <=> Keeps(r, tmp[q])
  BY DEF Keeps, U, vars
<1>4. Served(C(r))' = Served(C(r)) /\ (Held(C(r))' <=> Held(C(r))) /\ (Stands(r)' <=> Stands(r))
  BY DEF Served, Held, Stands, Is, C, U, vars
<1>5. KeptEverywhere(r) => KeptEverywhere(r)'
  BY <1>2, <1>3, <1>4 DEF KeptEverywhere, InFlight, C, vars
<1>6. pc' = pc /\ tmp' = tmp
  BY DEF vars
<1>7. Keeps(r, doc[r])' <=> Keeps(r, doc[r])
  BY DEF Keeps, U, vars
<1>8. QED
  BY <1>1, <1>4, <1>5, <1>6, <1>7 DEF PushKeeps

\* Served one after the other, an acknowledged push is in the document every
\* reader is given from then on, also after failures of the stores and
\* crashes, unless its user replaces it or leaves.
THEOREM PushesAreKept == MaxInFlight = 1 /\ Spec => []AckedPushKept
<1> SUFFICES ASSUME MaxInFlight = 1
             PROVE  Spec => []AckedPushKept
  OBVIOUS
<1>1. Init => PushesInv
  BY DEF Init, PushesInv, Is
<1>2. IInv /\ CopiesInv /\ SerialInv /\ PushesInv /\ [Next]_vars => PushesInv'
  BY StepPushes, ArrivalPushes, CrashPushes, StutterPushes DEF Next, AllServed
<1>3. MaxInFlight = 1 /\ Spec => []SerialInv
  BY SerialInvariance
<1>4. PushesInv => AckedPushKept
  <2> SUFFICES ASSUME PushesInv, NEW r \in Requests, Is(r, {"push"}), pc[r] = "ok", Stands(r),
                      NEW d \in Served(C(r))
               PROVE  Keeps(r, d)
    BY DEF AckedPushKept, Stands, Keeps
  <2>1. QED
    BY DEF PushesInv, PushKeeps, Stored, KeptEverywhere
<1>5. QED
  BY Invariance, CopiesInvariance, <1>1, <1>2, <1>3, <1>4, PTL DEF Spec

(***************************************************************************)
(* While Redis answers: one open challenge per creator.                    *)
(***************************************************************************)
\* c is an open challenge of u, in Redis.
OpenFor(c, u) == redis[c] # NoDoc /\ redis[c].status = "open" /\ redis[c].creator = u

\* A create that scans has yet to look at whatever stands in its way.
ScanInv ==
    /\ OneOpenPerCreator
    /\ \A r \in InFlight : pc[r] = "scan" =>
           \A c \in Challenges : OpenFor(c, U(r)) => c \in todo[r]

\* The first part, as one condition on what is open.
LEMMA OneOpenMeans ==
    OneOpenPerCreator <=> \A c1, c2 \in Challenges : \A u : OpenFor(c1, u) /\ OpenFor(c2, u) => c1 = c2
BY DEF OneOpenPerCreator, OpenFor

\* One step later.
LEMMA OneOpenMeansNext ==
    ASSUME \A c1, c2 \in Challenges : \A u : OpenFor(c1, u)' /\ OpenFor(c2, u)' => c1 = c2
    PROVE  OneOpenPerCreator'
BY DEF OneOpenPerCreator, OpenFor

\* What Redis does not have only a create puts there.
LEMMA OnlyCreateStores ==
    ASSUME NEW r \in Requests, Standing(r), Step(r), ~StoreNew(r), redis[C(r)] = NoDoc
    PROVE  redis'[C(r)] = NoDoc
<1>1. Sync(r)
  BY DEF Standing
<1>2. ~(\/ ParticipantSet(r) \/ WriteBack(r) \/ SaveSnapshot(r) \/ MarkSet(r) \/ RemoveSet(r)
        \/ ArchiveDelete(r))
  BY <1>1 DEF Sync, InHand, Past, ParticipantSet, WriteBack, SaveSnapshot, MarkSet, RemoveSet,
              ArchiveDelete
<1>3. redis' = redis
  <2>1. CASE \/ ListKeys(r) \/ CheckKey(r) \/ LoadForJoin(r) \/ LoadForPush(r)
             \/ LoadForAbandon(r) \/ LoadForEnd(r) \/ LoadForLeave(r) \/ LoadForRetrieve(r)
    BY <2>1 DEF ListKeys, CheckKey, LoadForJoin, LoadForPush, LoadForAbandon, LoadForEnd,
                LoadForLeave, LoadForRetrieve, CreatorOnly, Proceed, stores
  <2>2. CASE \/ ParticipantGet(r) \/ InitializeLeaderboard(r) \/ UpdateParticipantScore(r)
             \/ GetLeaderboard(r) \/ MarkGet(r) \/ CleanupLeaderboard(r) \/ ArchiveGet(r)
             \/ ArchiveFind(r) \/ ArchiveInsert(r) \/ ArchiveUpdate(r) \/ RemoveGet(r)
             \/ ReadRedis(r) \/ ReadMongo(r)
    BY <2>2 DEF ParticipantGet, InitializeLeaderboard, UpdateParticipantScore, GetLeaderboard,
                MarkGet, CleanupLeaderboard, ArchiveGet, ArchiveFind, ArchiveInsert, ArchiveUpdate,
                RemoveGet, ReadRedis, ReadMongo, stores
  <2>3. QED
    BY <1>2, <2>1, <2>2 DEF Step
<1>4. QED
  BY <1>3

\* No other step opens a challenge, or gives one to somebody else.
LEMMA OpenBefore ==
    ASSUME IInv, CopiesInv, SerialInv, NEW r \in Requests, Step(r), ~StoreNew(r),
           NEW c \in Challenges, NEW u, OpenFor(c, u)'
    PROVE  OpenFor(c, u)
<1>1. /\ Standing(r) /\ Advances(r) /\ Touches(r) /\ TypeOK /\ TypeOK'
  BY StandsBefore, StepAdvances, StepFacts
<1>2. redis'[c] # NoDoc /\ redis'[c].status = "open" /\ redis'[c].creator = u
  BY DEF OpenFor
<1>3. redis[c] # NoDoc /\ redis[c].status \notin Terminal
  <2>1. CASE c = C(r)
    BY <1>1, <1>2, <2>1, OnlyCreateStores DEF Advances, StaysOver, Terminal
  <2>2. CASE c # C(r)
    BY <1>1, <1>2, <2>2 DEF Touches, Terminal
  <2>3. QED
    BY <2>1, <2>2
<1>4. redis[c].status = "open"
  BY <1>1, <1>3 DEF TypeOK, Docs, Statuses, Terminal
<1>5. redis[c] \in Copies(c) /\ redis'[c] \in Copies(c)'
  <2>1. HasCopy(c, redis[c])
    BY <1>3 DEF HasCopy
  <2>2. PICK d : d = redis'[c]
    OBVIOUS
  <2>3. HasCopy(c, d)'
    BY <1>2, <2>2 DEF HasCopy
  <2>4. QED
    BY <2>1, <2>2, <2>3, CopyWhere, CopyWhereNext
<1>6. redis[c].creator = redis'[c].creator
  BY <1>5, CreatorAfter DEF CopiesInv, CreatorsAgree
<1>7. QED
  BY <1>2, <1>3, <1>4, <1>6 DEF OpenFor

\* A handler's step while Redis answers.
LEMMA StepScan ==
    ASSUME ~RedisMayFail, IInv, CopiesInv, SerialInv, ScanInv, NEW r \in Requests, Step(r)
    PROVE  ScanInv'
<1>1. /\ job' = job /\ TypeOK /\ C(r) \in Challenges /\ InFlight = {r}
      /\ \A q \in InFlight' : q = r
      /\ Standing(r) /\ Touches(r)
  BY StepFacts, StandsBefore, StepAlone DEF SerialInv
<1>2. \A c1, c2 \in Challenges : \A u : OpenFor(c1, u) /\ OpenFor(c2, u) => c1 = c2
  BY OneOpenMeans DEF ScanInv
<1>3. pc[r] = "scan" => \A c \in Challenges : OpenFor(c, U(r)) => c \in todo[r]
  BY <1>1 DEF ScanInv
<1>4. CASE StoreNew(r)
  <2>1. todo[r] = {} /\ pc[r] = "scan"
    BY <1>4 DEF StoreNew
  <2>2. redis'[C(r)] \in {redis[C(r)], NewDoc(U(r))}
    BY <1>1, <1>4, SetGives DEF StoreNew
  <2>3. redis[C(r)] = NoDoc
    BY <1>1, <2>1, NewIsNowhere
  <2>4. ASSUME NEW c \in Challenges, NEW u, OpenFor(c, u)'
        PROVE  (c = C(r) /\ u = U(r)) \/ (c # C(r) /\ OpenFor(c, u))
    BY <1>1, <2>2, <2>3, <2>4 DEF OpenFor, Touches, NewDoc
  <2>5. \A c1, c2 \in Challenges : \A u : OpenFor(c1, u)' /\ OpenFor(c2, u)' => c1 = c2
    BY <1>2, <1>3, <2>1, <2>4
  <2>6. pc'[r] # "scan"
    BY <1>1, <1>4, MovesTo DEF StoreNew
  <2>7. QED
    BY <1>1, <2>5, <2>6, OneOpenMeansNext DEF ScanInv
<1>5. CASE ~StoreNew(r)
  <2>1. \A c \in Challenges : \A u : OpenFor(c, u)' => OpenFor(c, u)
    BY <1>5, OpenBefore
  <2>2. OneOpenPerCreator'
    BY <1>2, <2>1, OneOpenMeansNext
  <2>3. ASSUME pc'[r] = "scan", NEW c \in Challenges, OpenFor(c, U(r))
        PROVE  c \in todo'[r]
    <3>1. pc[r] \in {"keys", "scan"}
      BY <2>3, BirthSteps
    <3>2. ListKeys(r) \/ CheckKey(r)
      BY <1>5, <3>1 DEF Step, LoadForJoin, LoadForPush, LoadForAbandon, LoadForEnd, LoadForLeave,
         LoadForRetrieve, CreatorOnly, ParticipantGet, ParticipantSet, WriteBack,
         InitializeLeaderboard, UpdateParticipantScore, GetLeaderboard, SaveSnapshot, MarkGet,
         MarkSet, CleanupLeaderboard, ArchiveGet, ArchiveFind, ArchiveInsert, ArchiveUpdate,
         ArchiveDelete, RemoveGet, RemoveSet, ReadRedis, ReadMongo
    <3>3. CASE ListKeys(r)
      <4>1. todo'[r] = {b \in Challenges : redis[b] # NoDoc}
        BY <1>1, <2>3, <3>3, MovesTo DEF ListKeys, Keep, TypeOK
      <4>2. QED
        BY <2>3, <4>1 DEF OpenFor
    <3>4. CASE CheckKey(r)
      <4>1. PICK k \in todo[r] : \E d \in Get(k) :
              \/ Reply(r, "err")
              \/ ~Occupies(d, U(r)) /\ Keep(todo, r, todo[r] \ {k})
        BY <3>4 DEF CheckKey
      <4>2. k \in Challenges /\ Get(k) = {redis[k]}
        BY <1>1 DEF TypeOK, Get
      <4>3. ~Reply(r, "err")
        BY <1>1, <2>3, MovesTo
      <4>4. ~Occupies(redis[k], U(r)) /\ todo'[r] = todo[r] \ {k}
        BY <1>1, <4>1, <4>2, <4>3 DEF Keep, TypeOK
      <4>5. c # k
        BY <2>3, <4>4 DEF OpenFor, Occupies, Terminal
      <4>6. QED
        BY <1>3, <2>3, <3>4, <4>4, <4>5 DEF CheckKey
    <3>5. QED
      BY <3>2, <3>3, <3>4
  <2>4. \A q \in InFlight' : pc'[q] = "scan" =>
            \A c \in Challenges : OpenFor(c, U(q)') => c \in todo'[q]
    BY <1>1, <2>3 DEF U
  <2>5. \A q \in InFlight' : pc'[q] = "scan" =>
            \A c \in Challenges : OpenFor(c, U(q))' => c \in todo'[q]
    BY <2>1, <2>4 DEF OpenFor
  <2>6. QED
    BY <2>2, <2>5 DEF ScanInv
<1>6. QED
  BY <1>4, <1>5

\* Every step of the system while Redis answers.
LEMMA NextScan ==
    ASSUME MaxInFlight = 1, ~RedisMayFail, IInv, CopiesInv, SerialInv, ScanInv, [Next]_vars
    PROVE  ScanInv'
<1>1. ASSUME NEW r \in Requests, Receive(r)
      PROVE  ScanInv'
  <2>1. /\ \A q \in InFlight' : q = r
        /\ pc'[r] \in {"keys", "joinLoad", "pushLoad", "abandonLoad", "endLoad", "leaveLoad",
                       "remGet", "readRedis", "retrieveLoad"}
        /\ UNCHANGED redis
    BY <1>1, ArrivalAlone DEF SerialInv, Receive, stores
  <2>2. QED
    BY <2>1 DEF ScanInv, OneOpenPerCreator
<1>2. CASE Crash
  <2>1. InFlight' = {} /\ UNCHANGED redis
    BY <1>2, CrashNoCopy DEF InFlight
  <2>2. QED
    BY <2>1 DEF ScanInv, OneOpenPerCreator
<1>3. CASE UNCHANGED vars
  BY <1>3 DEF vars, ScanInv, OneOpenPerCreator, InFlight, OpenFor, U
<1>4. QED
  BY <1>1, <1>2, <1>3, StepScan DEF Next, AllServed

\* Served one after the other while Redis answers, CanCreate keeps anybody from
\* having two open challenges, if nobody had two at the start.
THEOREM OneOpenEach ==
    MaxInFlight = 1 /\ ~RedisMayFail /\ OneOpenPerCreator /\ Spec => []OneOpenPerCreator
<1> SUFFICES ASSUME MaxInFlight = 1, ~RedisMayFail
             PROVE  OneOpenPerCreator /\ Spec => []OneOpenPerCreator
  OBVIOUS
<1>1. Init /\ OneOpenPerCreator => ScanInv
  BY DEF Init, ScanInv, InFlight, Steps
<1>2. IInv /\ CopiesInv /\ SerialInv /\ ScanInv /\ [Next]_vars => ScanInv'
  BY NextScan
<1>3. MaxInFlight = 1 /\ Spec => []SerialInv
  BY SerialInvariance
<1>4. ScanInv => OneOpenPerCreator
  BY DEF ScanInv
<1>5. QED
  BY Invariance, CopiesInvariance, <1>1, <1>2, <1>3, <1>4, PTL DEF Spec

(***************************************************************************)
(* While Redis answers: the boards and the documents they belong to.       *)
(***************************************************************************)
\* A handler that scores or reads the board has opened it; the persistence,
\* which deletes the document, comes after the board was closed.
BoardInPlace(r) ==
    /\ pc[r] \in {"addUser", "topK", "save"} => C(r) \in boards
    /\ pc[r] \in Ending \/ (pc[r] \in {"markGet", "markSet"} /\ job[r].op = "end")
           => C(r) \notin boards

\* An open board has its document in Redis.
BoardsInv ==
    /\ \A c \in boards : redis[c] # NoDoc
    /\ \A r \in InFlight : BoardInPlace(r)

\* Only the deletion of the persistence takes a document out of Redis.
LEMMA RedisStays ==
    ASSUME NEW r \in Requests, Standing(r), Step(r), redis[C(r)] # NoDoc, ~ArchiveDelete(r)
    PROVE  redis'[C(r)] # NoDoc
<1>1. TypeOK /\ C(r) \in Challenges /\ OpInPlace(r) /\ CopyInHand(r)
  BY DEF Standing
<1>2. CASE StoreNew(r)
  <2>1. U(r) \in Users
    BY <1>1, <1>2 DEF StoreNew, OpInPlace, Is, TypeOK, Jobs, MemberOps, U
  <2>2. NewDoc(U(r)) \in Docs
    BY <2>1, NewDocType
  <2>3. redis'[C(r)] \in {redis[C(r)], NewDoc(U(r))}
    BY <1>1, <1>2, SetGives DEF StoreNew
  <2>4. QED
    BY <2>2, <2>3, NoDocAssumption
<1>3. CASE WriteBack(r) \/ SaveSnapshot(r)
  <2>1. doc[r] \in Docs /\ redis'[C(r)] \in {redis[C(r)], doc[r]}
    BY <1>1, <1>3, SetGives DEF WriteBack, SaveSnapshot, CopyInHand
  <2>2. QED
    BY <2>1, NoDocAssumption
<1>4. CASE ParticipantSet(r) \/ MarkSet(r) \/ RemoveSet(r)
  <2>1. tmp[r] \in Docs /\ redis'[C(r)] \in {redis[C(r)], tmp[r]}
    BY <1>1, <1>4, SetGives DEF ParticipantSet, MarkSet, RemoveSet, CopyInHand
  <2>2. QED
    BY <2>1, NoDocAssumption
<1>5. CASE \/ ListKeys(r) \/ CheckKey(r) \/ LoadForJoin(r) \/ LoadForPush(r)
           \/ LoadForAbandon(r) \/ LoadForEnd(r) \/ LoadForLeave(r) \/ LoadForRetrieve(r)
  BY <1>5 DEF ListKeys, CheckKey, LoadForJoin, LoadForPush, LoadForAbandon, LoadForEnd,
              LoadForLeave, LoadForRetrieve, CreatorOnly, Proceed, stores
<1>6. CASE \/ ParticipantGet(r) \/ InitializeLeaderboard(r) \/ UpdateParticipantScore(r)
           \/ GetLeaderboard(r) \/ MarkGet(r) \/ CleanupLeaderboard(r) \/ ArchiveGet(r)
           \/ ArchiveFind(r) \/ ArchiveInsert(r) \/ ArchiveUpdate(r) \/ RemoveGet(r)
           \/ ReadRedis(r) \/ ReadMongo(r)
  BY <1>6 DEF ParticipantGet, InitializeLeaderboard, UpdateParticipantScore, GetLeaderboard,
              MarkGet, CleanupLeaderboard, ArchiveGet, ArchiveFind, ArchiveInsert, ArchiveUpdate,
              RemoveGet, ReadRedis, ReadMongo, stores
<1>7. QED
  BY <1>2, <1>3, <1>4, <1>5, <1>6 DEF Step

\* The loads, the edits of participants and the looks leave the boards alone,
\* and go where nothing is said of them.
LEMMA AwayFromBoard ==
    ASSUME NEW r \in Requests, Standing(r),
           \/ ListKeys(r) \/ CheckKey(r) \/ StoreNew(r) \/ LoadForJoin(r) \/ LoadForPush(r)
           \/ LoadForAbandon(r) \/ LoadForEnd(r) \/ LoadForLeave(r) \/ LoadForRetrieve(r)
           \/ ParticipantGet(r) \/ ParticipantSet(r) \/ WriteBack(r) \/ SaveSnapshot(r)
           \/ RemoveGet(r) \/ RemoveSet(r) \/ ReadRedis(r) \/ ReadMongo(r)
    PROVE  boards' = boards /\ BoardInPlace(r)'
<1>1. TypeOK /\ job' = job /\ OpInPlace(r)
  BY DEF Standing
<1>2. CASE \/ ListKeys(r) \/ CheckKey(r) \/ StoreNew(r) \/ SaveSnapshot(r) \/ RemoveGet(r)
           \/ RemoveSet(r) \/ ReadRedis(r) \/ ReadMongo(r)
  <2>1. /\ pc'[r] \in {"scan", "initBoard", "remSet", "readMongo"} \union Finished
        /\ boards' = boards
    BY <1>1, <1>2, MovesTo DEF ListKeys, CheckKey, StoreNew, SaveSnapshot, RemoveGet, RemoveSet,
       ReadRedis, ReadMongo, stores, Finished
  <2>2. QED
    BY <2>1 DEF BoardInPlace, Ending, Finished
<1>3. CASE \/ LoadForJoin(r) \/ LoadForPush(r) \/ LoadForLeave(r) \/ LoadForRetrieve(r)
           \/ LoadForEnd(r)
  <2>1. pc'[r] \in {"addGet", "updGet", "remGet", "initBoard", "closeBoard", "err"}
    BY <1>1, <1>3, MovesTo DEF LoadForJoin, LoadForPush, LoadForLeave, LoadForRetrieve, LoadForEnd,
       CreatorOnly, Proceed
  <2>2. boards' = boards
    BY <1>3 DEF LoadForJoin, LoadForPush, LoadForLeave, LoadForRetrieve, LoadForEnd, CreatorOnly,
       Proceed, stores
  <2>3. QED
    BY <2>1, <2>2 DEF BoardInPlace, Ending
<1>4. CASE LoadForAbandon(r)
  <2>1. pc'[r] \in {"markGet", "err"} /\ job[r].op = "abandon" /\ boards' = boards
    BY <1>1, <1>4, MovesTo DEF LoadForAbandon, CreatorOnly, Proceed, stores, OpInPlace, Is
  <2>2. QED
    BY <1>1, <2>1 DEF BoardInPlace, Ending
<1>5. CASE ParticipantGet(r) \/ ParticipantSet(r) \/ WriteBack(r)
  <2>1. /\ pc'[r] \in {"addSet", "updSet", "updGet", "write", "initBoard", "err"}
        /\ boards' = boards
    BY <1>1, <1>5, MovesTo DEF ParticipantGet, ParticipantSet, WriteBack, stores
  <2>2. QED
    BY <2>1 DEF BoardInPlace, Ending
<1>6. QED
  BY <1>2, <1>3, <1>4, <1>5

\* The steps on the board, while Redis answers: it opens, is used, is closed.
LEMMA OnBoard ==
    ASSUME ~RedisMayFail, NEW r \in Requests, Standing(r), BoardInPlace(r),
           \/ InitializeLeaderboard(r) \/ UpdateParticipantScore(r) \/ GetLeaderboard(r)
           \/ MarkGet(r) \/ MarkSet(r) \/ CleanupLeaderboard(r) \/ ArchiveGet(r)
           \/ ArchiveFind(r) \/ ArchiveInsert(r) \/ ArchiveUpdate(r) \/ ArchiveDelete(r)
    PROVE  /\ BoardInPlace(r)'
           /\ boards' \subseteq boards \union (IF InitializeLeaderboard(r) THEN {C(r)} ELSE {})
<1>1. TypeOK /\ job' = job /\ OpInPlace(r)
  BY DEF Standing
<1>2. CASE InitializeLeaderboard(r)
  <2>1. pc'[r] \in {"ok", "addUser"} /\ boards' = boards \union {C(r)}
    BY <1>1, <1>2, MovesTo DEF InitializeLeaderboard
  <2>2. QED
    BY <1>1, <1>2, <2>1 DEF BoardInPlace, Ending, C
<1>3. CASE UpdateParticipantScore(r) \/ GetLeaderboard(r)
  <2>1. pc'[r] \in {"ok", "topK", "save"} /\ boards' = boards /\ pc[r] \in {"addUser", "topK"}
    BY <1>1, <1>3, MovesTo DEF UpdateParticipantScore, GetLeaderboard, stores
  <2>2. QED
    BY <1>1, <2>1 DEF BoardInPlace, Ending, C
<1>4. CASE CleanupLeaderboard(r)
  <2>1. pc'[r] \in {"archGet", "markGet"} /\ boards' = boards \ {C(r)}
    BY <1>1, <1>4, MovesTo DEF CleanupLeaderboard
  <2>2. QED
    BY <1>1, <2>1 DEF BoardInPlace, C
<1>5. CASE MarkGet(r)
  <2>1. pc'[r] \in {"markSet", "err"} /\ boards' = boards /\ pc[r] = "markGet"
    BY <1>1, <1>5, MovesTo DEF MarkGet, stores
  <2>2. QED
    BY <1>1, <2>1 DEF BoardInPlace, Ending, C
<1>6. CASE MarkSet(r)
  <2>1. /\ pc'[r] = IF job[r].op = "abandon" THEN "closeBoard" ELSE "archGet"
        /\ boards' = boards /\ pc[r] = "markSet"
    BY <1>1, <1>6, MovesTo DEF MarkSet, Outcomes
  <2>2. Is(r, {"abandon", "end"})
    BY <1>1, <2>1 DEF OpInPlace
  <2>3. QED
    BY <1>1, <2>1, <2>2 DEF BoardInPlace, Ending, C, Is
<1>7. CASE \/ ArchiveGet(r) \/ ArchiveFind(r) \/ ArchiveInsert(r) \/ ArchiveUpdate(r)
           \/ ArchiveDelete(r)
  <2>1. pc'[r] \in Ending \union {"ok"} /\ boards' = boards /\ pc[r] \in Ending
    BY <1>1, <1>7, MovesTo DEF ArchiveGet, ArchiveFind, ArchiveInsert, ArchiveUpdate,
       ArchiveDelete, stores, Ending
  <2>2. QED
    BY <1>1, <2>1 DEF BoardInPlace, Ending, C
<1>8. QED
  BY <1>2, <1>3, <1>4, <1>5, <1>6, <1>7

\* A handler's step while Redis answers.
LEMMA StepBoards ==
    ASSUME ~RedisMayFail, IInv, CopiesInv, SerialInv, BoardsInv, NEW r \in Requests, Step(r)
    PROVE  BoardsInv'
<1>1. /\ TypeOK /\ C(r) \in Challenges /\ r \in InFlight /\ Standing(r) /\ Touches(r)
      /\ \A q \in InFlight' : q = r
  BY StepFacts, StandsBefore, StepAlone DEF SerialInv, InFlight
<1>2. BoardInPlace(r)
  BY <1>1 DEF BoardsInv
<1>3. /\ BoardInPlace(r)'
      /\ boards' \subseteq boards \union (IF InitializeLeaderboard(r) THEN {C(r)} ELSE {})
  <2>1. CASE \/ ListKeys(r) \/ CheckKey(r) \/ StoreNew(r) \/ LoadForJoin(r) \/ LoadForPush(r)
             \/ LoadForAbandon(r) \/ LoadForEnd(r) \/ LoadForLeave(r) \/ LoadForRetrieve(r)
             \/ ParticipantGet(r) \/ ParticipantSet(r) \/ WriteBack(r) \/ SaveSnapshot(r)
             \/ RemoveGet(r) \/ RemoveSet(r) \/ ReadRedis(r) \/ ReadMongo(r)
    BY <1>1, <2>1, AwayFromBoard
  <2>2. CASE \/ InitializeLeaderboard(r) \/ UpdateParticipantScore(r) \/ GetLeaderboard(r)
             \/ MarkGet(r) \/ MarkSet(r) \/ CleanupLeaderboard(r) \/ ArchiveGet(r)
             \/ ArchiveFind(r) \/ ArchiveInsert(r) \/ ArchiveUpdate(r) \/ ArchiveDelete(r)
    BY <1>1, <1>2, <2>2, OnBoard
  <2>3. QED
    BY <2>1, <2>2 DEF Step
<1>4. ASSUME NEW c \in boards'
      PROVE  redis'[c] # NoDoc
  <2>1. boards' \subseteq Challenges
    BY StepFacts DEF TypeOK
  <2>2. CASE c # C(r)
    BY <1>1, <1>3, <2>1, <2>2 DEF BoardsInv, Touches
  <2>3. CASE c = C(r)
    <3>1. redis[C(r)] # NoDoc
      <4>1. CASE InitializeLeaderboard(r)
        BY <1>1, <4>1 DEF InitializeLeaderboard, Standing, Sync
      <4>2. CASE ~InitializeLeaderboard(r)
        BY <1>3, <2>3, <4>2 DEF BoardsInv
      <4>3. QED
        BY <4>1, <4>2
    <3>2. ~ArchiveDelete(r)
      <4>1. SUFFICES ASSUME ArchiveDelete(r) PROVE FALSE
        OBVIOUS
      <4>2. pc[r] = "archDel" /\ boards' = boards
        BY <4>1 DEF ArchiveDelete
      <4>3. QED
        BY <1>2, <2>3, <4>2 DEF BoardInPlace, Ending
    <3>3. QED
      BY <1>1, <2>3, <3>1, <3>2, RedisStays
  <2>4. QED
    BY <2>2, <2>3
<1>5. QED
  BY <1>1, <1>3, <1>4 DEF BoardsInv

\* Every step of the system while Redis answers.
LEMMA NextBoards ==
    ASSUME MaxInFlight = 1, ~RedisMayFail, IInv, CopiesInv, SerialInv, BoardsInv, [Next]_vars
    PROVE  BoardsInv'
<1>1. ASSUME NEW r \in Requests, Receive(r)
      PROVE  BoardsInv'
  <2>1. /\ \A q \in InFlight' : q = r
        /\ pc'[r] \in {"keys", "joinLoad", "pushLoad", "abandonLoad", "endLoad", "leaveLoad",
                       "remGet", "readRedis", "retrieveLoad"}
        /\ UNCHANGED <<redis, boards>>
    BY <1>1, ArrivalAlone DEF SerialInv, Receive, stores
  <2>2. BoardInPlace(r)'
    BY <2>1 DEF BoardInPlace, Ending
  <2>3. QED
    BY <2>1, <2>2 DEF BoardsInv
<1>2. CASE Crash
  <2>1. InFlight' = {} /\ boards' = {}
    BY <1>2, CrashNoCopy DEF InFlight, Crash
  <2>2. QED
    BY <2>1 DEF BoardsInv
<1>3. CASE UNCHANGED vars
  BY <1>3 DEF vars, BoardsInv, BoardInPlace, InFlight, C
<1>4. QED
  BY <1>1, <1>2, <1>3, StepBoards DEF Next, AllServed

\* At the start no board is open and nothing runs.
LEMMA InitBoards == Init => BoardsInv
<1> SUFFICES ASSUME Init PROVE BoardsInv
  OBVIOUS
<1>1. InFlight = {} /\ boards = {}
  BY DEF Init, InFlight, Steps
<1>2. QED
  BY <1>1 DEF BoardsInv

\* Served one after the other while Redis answers, no board outlives its
\* challenge: the persistence deletes a document only after its board was
\* closed, and no handler opens a board for a document that is gone.
THEOREM BoardsClose == MaxInFlight = 1 /\ ~RedisMayFail /\ Spec => []NoOrphanBoard
<1> SUFFICES ASSUME MaxInFlight = 1, ~RedisMayFail
             PROVE  Spec => []NoOrphanBoard
  OBVIOUS
<1>1. IInv /\ CopiesInv /\ SerialInv /\ BoardsInv /\ [Next]_vars => BoardsInv'
  BY NextBoards
<1>2. MaxInFlight = 1 /\ Spec => []SerialInv
  BY SerialInvariance
<1>3. BoardsInv => NoOrphanBoard
  BY DEF BoardsInv, NoOrphanBoard
<1>4. QED
  BY Invariance, CopiesInvariance, InitBoards, <1>1, <1>2, <1>3, PTL DEF Spec

(***************************************************************************)
(* While Redis answers and until a crash: the board, the snapshot and the  *)
(* participants' totals are the same.                                      *)
(***************************************************************************)
\* The board of c has the total of u that the copy d has.
Matches(d, c, u) == u \in DOMAIN scores[c] /\ scores[c][u] = d.participants[u].total

\* It has the snapshot of the copy, and the total of each of its participants.
Agrees(d, c) == d.leaderboard = scores[c] /\ \A u \in DOMAIN d.participants : Matches(d, c, u)

\* An open challenge in Redis agrees with its board.
OpenAgrees(c) == redis[c] # NoDoc /\ redis[c].status = "open" => Agrees(redis[c], c)

\* The handler is about to change the document, the board or the snapshot, or
\* has closed the board of a challenge it is about to end.
Working(r) ==
    \/ InHand(r)
    \/ pc[r] \in {"closeBoard", "markGet", "markSet"} /\ job[r].op = "end"

\* The copy in the handler's hands agrees with the board but for its own user,
\* and for that user too once the board was told.
HandAgrees(r) ==
    /\ InHand(r) /\ job[r].op = "create" =>
         redis[C(r)] = NewDoc(U(r)) /\ doc[r] = NewDoc(U(r)) /\ scores[C(r)] = EmptyMap
    /\ InHand(r) /\ job[r].op # "create" /\ doc[r].status = "open" =>
         /\ \A u \in DOMAIN doc[r].participants \ {U(r)} : Matches(doc[r], C(r), u)
         /\ pc[r] \in {"topK", "save"} => Matches(doc[r], C(r), U(r))
         /\ pc[r] = "save" => doc[r].leaderboard = scores[C(r)]
    /\ pc[r] = "remSet" /\ tmp[r].status = "open" => Agrees(tmp[r], C(r))

\* What the handler of r may rely on, and leaves to the next one.
Faithful(r) == (~Working(r) => OpenAgrees(C(r))) /\ HandAgrees(r)

\* Nobody has scored in a challenge that is not there; a challenge no handler
\* works on agrees with its board.
ScoresInv ==
    crashes = 0 =>
        /\ \A c \in Challenges : Unborn(c) => scores[c] = EmptyMap
        /\ \A c \in Challenges :
              (\A r \in InFlight : C(r) = c => ~Working(r)) => OpenAgrees(c)
        /\ \A r \in InFlight : HandAgrees(r)

\* A SET while Redis answers.
LEMMA PlainSet ==
    ASSUME ~RedisMayFail, TypeOK, NEW c \in Challenges, NEW d,
           NEW w \in Outcomes(RedisMayFail), Set(c, d, w)
    PROVE  redis'[c] = d /\ w.acked /\ w.applied
BY DEF Outcomes, Set, TypeOK

\* Steps that end with no copy in use: the handler works on, or the challenge
\* is over or gone, or nothing that matters has changed.
LEMMA EmptyHanded ==
    ASSUME NEW r \in Requests, job' = job, Faithful(r),
           ~InHand(r)', pc'[r] # "remSet",
           \/ Working(r)'
           \/ redis'[C(r)] = NoDoc \/ redis'[C(r)].status \in Terminal
           \/ ~Working(r) /\ UNCHANGED <<redis, scores>>
    PROVE  Faithful(r)'
BY DEF Faithful, HandAgrees, OpenAgrees, Agrees, Matches, Terminal, C

\* Steps that keep the copy in hand and the scores as they are.
LEMMA SameHand ==
    ASSUME NEW r \in Requests, job' = job, Faithful(r), InHand(r), InHand(r)',
           doc'[r] = doc[r], scores' = scores, job[r].op = "create" => redis' = redis,
           pc'[r] \notin {"topK", "save"}
    PROVE  Faithful(r)'
<1>1. pc'[r] # "remSet"
  BY DEF InHand
<1>2. QED
  BY <1>1 DEF Faithful, Working, HandAgrees, Matches, C, U

\* The looks, the checks, and whatever comes after the copy was last used.
LEMMA LooksFaithful ==
    ASSUME ~RedisMayFail, NEW r \in Requests, Standing(r), Faithful(r),
           \/ ListKeys(r) \/ CheckKey(r) \/ LoadForAbandon(r) \/ LoadForEnd(r)
           \/ LoadForLeave(r) \/ LoadForRetrieve(r) \/ ReadRedis(r) \/ ReadMongo(r)
    PROVE  Faithful(r)' /\ scores' = scores
<1>1. TypeOK /\ job' = job /\ UNCHANGED <<redis, scores>> /\ OpInPlace(r)
  BY DEF Standing, ListKeys, CheckKey, LoadForAbandon, LoadForEnd, LoadForLeave, LoadForRetrieve,
         ReadRedis, ReadMongo, CreatorOnly, Proceed, stores
<1>2. ~Working(r)
  BY DEF ListKeys, CheckKey, LoadForAbandon, LoadForEnd, LoadForLeave, LoadForRetrieve,
         ReadRedis, ReadMongo, CreatorOnly, Working, InHand
<1>3. \/ pc'[r] \in {"scan", "err", "markGet", "closeBoard", "remGet", "ok", "readMongo", "absent"}
      \/ pc'[r] = "initBoard" /\ Is(r, {"retrieve"})
  <2>1. CASE ListKeys(r) \/ CheckKey(r) \/ ReadRedis(r) \/ ReadMongo(r)
    BY <1>1, <2>1, MovesTo DEF ListKeys, CheckKey, ReadRedis, ReadMongo
  <2>2. CASE LoadForAbandon(r) \/ LoadForEnd(r) \/ LoadForLeave(r)
    BY <1>1, <2>2, MovesTo DEF LoadForAbandon, LoadForEnd, LoadForLeave, CreatorOnly, Proceed
  <2>3. CASE LoadForRetrieve(r)
    BY <1>1, <2>3, MovesTo DEF LoadForRetrieve, Proceed, OpInPlace
  <2>4. QED
    BY <2>1, <2>2, <2>3
<1>4. ~InHand(r)' /\ pc'[r] # "remSet"
  BY <1>1, <1>3 DEF InHand, Is
<1>5. QED
  BY <1>1, <1>2, <1>4, EmptyHanded

\* The end of a challenge: its board is closed before or after the mark, and
\* from the mark on it is not open.
LEMMA EndFaithful ==
    ASSUME ~RedisMayFail, NEW r \in Requests, Standing(r), Faithful(r), Advances(r),
           \/ MarkGet(r) \/ MarkSet(r) \/ CleanupLeaderboard(r) \/ ArchiveGet(r)
           \/ ArchiveFind(r) \/ ArchiveInsert(r) \/ ArchiveUpdate(r) \/ ArchiveDelete(r)
    PROVE  Faithful(r)'
<1>1. /\ TypeOK /\ job' = job /\ OpInPlace(r) /\ C(r) \in Challenges /\ Sync(r)
      /\ pc[r] \in Past
  BY DEF Standing, MarkGet, MarkSet, CleanupLeaderboard, ArchiveGet, ArchiveFind, ArchiveInsert,
         ArchiveUpdate, ArchiveDelete, Past
<1>2. pc'[r] \in Past \union {"ok", "err"}
  BY <1>1, MovesTo DEF MarkGet, MarkSet, CleanupLeaderboard, ArchiveGet, ArchiveFind,
         ArchiveInsert, ArchiveUpdate, ArchiveDelete, Past
<1>3. ~InHand(r)' /\ pc'[r] # "remSet"
  BY <1>2 DEF Past, InHand
<1>4. /\ redis[C(r)] # NoDoc /\ Is(r, {"abandon", "end"})
      /\ pc[r] \in Ending \/ (pc[r] = "closeBoard" /\ job[r].op = "abandon")
             => redis[C(r)].status \in Terminal
  BY <1>1 DEF Sync, Past, OpInPlace
<1>5. \/ Working(r)'
      \/ redis'[C(r)] = NoDoc \/ redis'[C(r)].status \in Terminal
      \/ ~Working(r) /\ UNCHANGED <<redis, scores>>
  <2>1. CASE MarkGet(r)
    <3>1. UNCHANGED <<redis, scores>>
      BY <2>1 DEF MarkGet, stores
    <3>2. CASE job[r].op = "end"
      <4>1. pc'[r] = "markSet"
        BY <1>1, <1>4, <2>1, <3>2, MovesTo DEF MarkGet, Get
      <4>2. QED
        BY <1>1, <3>2, <4>1 DEF Working
    <3>3. CASE job[r].op # "end"
      BY <2>1, <3>1, <3>3 DEF MarkGet, Working, InHand
    <3>4. QED
      BY <3>2, <3>3
  <2>2. CASE MarkSet(r)
    <3>1. redis'[C(r)] = tmp[r]
      BY <1>1, <2>2, PlainSet DEF MarkSet
    <3>2. tmp[r].status \in Terminal
      BY <1>1, <2>2 DEF MarkSet, Sync
    <3>3. QED
      BY <3>1, <3>2
  <2>3. CASE CleanupLeaderboard(r) /\ job[r].op = "end"
    <3>1. pc'[r] = "markGet"
      BY <1>1, <2>3, MovesTo DEF CleanupLeaderboard
    <3>2. QED
      BY <1>1, <2>3, <3>1 DEF Working
  <2>4. CASE redis[C(r)].status \in Terminal
    BY <1>4, <2>4 DEF Advances, StaysOver
  <2>5. QED
    BY <1>4, <2>1, <2>2, <2>3, <2>4 DEF Ending, CleanupLeaderboard, ArchiveGet, ArchiveFind,
       ArchiveInsert, ArchiveUpdate, ArchiveDelete, Is
<1>6. QED
  BY <1>1, <1>3, <1>5, EmptyHanded

\* The participants' edits and the write of the whole copy: the copy stays in
\* hand, and the board is not asked.
LEMMA EditsFaithful ==
    ASSUME ~RedisMayFail, NEW r \in Requests, Standing(r), Faithful(r),
           ParticipantGet(r) \/ ParticipantSet(r) \/ WriteBack(r)
    PROVE  Faithful(r)' /\ scores' = scores
<1>1. /\ TypeOK /\ job' = job /\ OpInPlace(r) /\ C(r) \in Challenges /\ Sync(r)
      /\ pc[r] \in {"addGet", "updGet", "addSet", "updSet", "write"} /\ scores' = scores
  BY DEF Standing, ParticipantGet, ParticipantSet, WriteBack, stores
<1>2. InHand(r) /\ redis[C(r)] # NoDoc /\ Is(r, {"join", "push"})
  BY <1>1 DEF InHand, Sync, OpInPlace, Is
<1>3. /\ pc'[r] \in {"addSet", "updSet", "updGet", "write", "initBoard"}
      /\ doc' = doc
  <2>1. CASE ParticipantGet(r)
    BY <1>1, <1>2, <2>1, MovesTo DEF ParticipantGet, Get
  <2>2. CASE ParticipantSet(r)
    BY <1>1, <2>2, MovesTo DEF ParticipantSet, Outcomes
  <2>3. CASE WriteBack(r)
    BY <1>1, <2>3, MovesTo DEF WriteBack, Outcomes, locals
  <2>4. QED
    BY <2>1, <2>2, <2>3
<1>4. InHand(r)'
  BY <1>1, <1>2, <1>3 DEF InHand, Is
<1>5. QED
  BY <1>1, <1>2, <1>3, <1>4, SameHand DEF Is

\* The document CreateChallenge stores, on a board that is still empty.
LEMMA StoreNewFaithful ==
    ASSUME ~RedisMayFail, NEW r \in Requests, Standing(r), scores[C(r)] = EmptyMap, StoreNew(r)
    PROVE  Faithful(r)' /\ scores' = scores
<1>1. TypeOK /\ job' = job /\ C(r) \in Challenges /\ Is(r, {"create"}) /\ scores' = scores
  BY DEF Standing, StoreNew, OpInPlace
<1>2. redis'[C(r)] = NewDoc(U(r)) /\ doc'[r] = NewDoc(U(r)) /\ pc'[r] = "initBoard"
  <2>1. PICK w \in Outcomes(RedisMayFail) :
          /\ Set(C(r), NewDoc(U(r)), w)
          /\ \/ w.acked /\ Goto(r, "initBoard") /\ Keep(doc, r, NewDoc(U(r)))
             \/ ~w.acked
    BY DEF StoreNew
  <2>2. redis'[C(r)] = NewDoc(U(r)) /\ w.acked
    BY <1>1, <2>1 DEF Outcomes, Set, TypeOK
  <2>3. QED
    BY <1>1, <2>1, <2>2, MovesTo, KeepGives
<1>3. InHand(r)'
  BY <1>1, <1>2 DEF InHand, Is
<1>4. QED
  BY <1>1, <1>2, <1>3 DEF Faithful, Working, HandAgrees, C, U, Is

\* What the board agrees with the document that was read, it agrees with the
\* copy of a join or a push, but for the user it is about.
LEMMA EditAgrees ==
    ASSUME NEW d \in Docs, NEW c, Agrees(d, c), NEW u, NEW e,
           \/ e = d
           \/ \E m : e = WithParticipant(d, u, m)
           \/ u \in DOMAIN d.participants /\ \E p, s : e = Credit(d, u, p, s)
    PROVE  \A v \in DOMAIN e.participants \ {u} : Matches(e, c, v)
<1>1. \A v \in DOMAIN d.participants : Matches(d, c, v)
  BY DEF Agrees
<1>2. ASSUME NEW m, e = WithParticipant(d, u, m)
      PROVE  \A v \in DOMAIN e.participants \ {u} :
                v \in DOMAIN d.participants /\ e.participants[v] = d.participants[v]
  <2>1. e.participants = Put(d.participants, u, m)
    BY <1>2 DEF Docs, WithParticipant
  <2>2. QED
    BY <2>1 DEF Put
<1>3. ASSUME NEW p, NEW s, e = Credit(d, u, p, s)
      PROVE  \A v \in DOMAIN e.participants \ {u} :
                v \in DOMAIN d.participants /\ e.participants[v] = d.participants[v]
  <2>1. PICK m : e.participants = Put(d.participants, u, m)
    BY <1>3 DEF Docs, Credit
  <2>2. QED
    BY <2>1 DEF Put
<1>4. \A v \in DOMAIN e.participants \ {u} :
         v \in DOMAIN d.participants /\ e.participants[v] = d.participants[v]
  BY <1>2, <1>3
<1>5. QED
  BY <1>1, <1>4 DEF Matches

\* The GET of a join and of a push.
LEMMA LoadsFaithful ==
    ASSUME ~RedisMayFail, NEW r \in Requests, Standing(r), Faithful(r),
           LoadForJoin(r) \/ LoadForPush(r)
    PROVE  Faithful(r)' /\ scores' = scores
<1>1. /\ TypeOK /\ job' = job /\ UNCHANGED <<redis, scores>> /\ OpInPlace(r) /\ C(r) \in Challenges
      /\ pc[r] \in {"joinLoad", "pushLoad"}
  BY DEF Standing, LoadForJoin, LoadForPush, Proceed, stores
<1>2. ~Working(r) /\ Is(r, {"join", "push"})
  BY <1>1 DEF Working, InHand, OpInPlace, Is
<1>3. redis[C(r)] # NoDoc => redis[C(r)] \in Docs
  BY <1>1 DEF TypeOK
<1>4. Get(C(r)) = {redis[C(r)]}
  BY DEF Get
<1>5. \/ pc'[r] = "err"
      \/ /\ pc'[r] \in {"addGet", "updGet"} /\ redis[C(r)] # NoDoc
         /\ \/ doc'[r] = redis[C(r)]
            \/ \E m : doc'[r] = WithParticipant(redis[C(r)], U(r), m)
            \/ /\ U(r) \in DOMAIN redis[C(r)].participants
               /\ \E p, s : doc'[r] = Credit(redis[C(r)], U(r), p, s)
  <2>1. CASE LoadForJoin(r)
    BY <1>1, <1>4, <2>1, MovesTo, KeepGives DEF LoadForJoin, Proceed
  <2>2. CASE LoadForPush(r)
    BY <1>1, <1>4, <2>2, MovesTo, KeepGives DEF LoadForPush, Proceed
  <2>3. QED
    BY <2>1, <2>2
<1>6. CASE pc'[r] = "err"
  BY <1>1, <1>2, <1>6, EmptyHanded DEF InHand
<1>7. CASE pc'[r] # "err"
  <2>1. doc'[r].status = redis[C(r)].status
    BY <1>3, <1>5, <1>7, EditsKeepStatus
  <2>2. ASSUME doc'[r].status = "open", NEW v \in DOMAIN doc'[r].participants \ {U(r)}
        PROVE  Matches(doc'[r], C(r), v)
    <3>1. Agrees(redis[C(r)], C(r))
      BY <1>2, <1>5, <1>7, <2>1, <2>2 DEF Faithful, OpenAgrees
    <3>2. PICK e : e = doc'[r]
      OBVIOUS
    <3>3. \A u \in DOMAIN e.participants \ {U(r)} : Matches(e, C(r), u)
      BY <1>3, <1>5, <1>7, <3>1, <3>2, EditAgrees
    <3>4. QED
      BY <2>2, <3>2, <3>3
  <2>3. InHand(r)' /\ pc'[r] \notin {"topK", "save", "remSet"}
    BY <1>5, <1>7 DEF InHand
  <2>4. QED
    BY <1>1, <1>2, <2>2, <2>3 DEF Faithful, Working, HandAgrees, Matches, C, U, Is
<1>8. QED
  BY <1>1, <1>6, <1>7

\* Opening the board changes nothing on it.
LEMMA OpenBoardFaithful ==
    ASSUME ~RedisMayFail, NEW r \in Requests, Standing(r), Faithful(r), InitializeLeaderboard(r)
    PROVE  Faithful(r)' /\ scores' = scores
<1>1. /\ TypeOK /\ job' = job /\ UNCHANGED <<redis, scores>> /\ OpInPlace(r)
      /\ pc[r] = "initBoard"
  BY DEF Standing, InitializeLeaderboard
<1>2. CASE job[r].op = "retrieve"
  <2>1. pc'[r] = "ok" /\ ~Working(r)
    BY <1>1, <1>2, MovesTo DEF InitializeLeaderboard, Working, InHand
  <2>2. QED
    BY <1>1, <2>1, EmptyHanded DEF InHand
<1>3. CASE job[r].op # "retrieve"
  <2>1. pc'[r] = "addUser" /\ doc' = doc
    BY <1>1, <1>3, MovesTo DEF InitializeLeaderboard, locals
  <2>2. InHand(r) /\ InHand(r)'
    BY <1>1, <1>3, <2>1 DEF InHand
  <2>3. QED
    BY <1>1, <2>1, <2>2, SameHand
<1>4. QED
  BY <1>2, <1>3

\* The user's total on the board is the one of the copy.
LEMMA ScoreFaithful ==
    ASSUME ~RedisMayFail, NEW r \in Requests, Standing(r), BoardInPlace(r), Faithful(r),
           UpdateParticipantScore(r)
    PROVE  Faithful(r)' /\ \A c \in Challenges \ {C(r)} : scores'[c] = scores[c]
<1>1. /\ TypeOK /\ job' = job /\ UNCHANGED redis /\ OpInPlace(r) /\ C(r) \in Challenges
      /\ pc[r] = "addUser" /\ C(r) \in boards
  BY DEF Standing, UpdateParticipantScore, BoardInPlace
<1>2. InHand(r)
  BY <1>1 DEF InHand
<1>3. scores' = [scores EXCEPT ![C(r)] = Put(@, U(r), doc[r].participants[U(r)].total)]
  BY <1>1 DEF UpdateParticipantScore, Outcomes
<1>4. /\ scores'[C(r)] = Put(scores[C(r)], U(r), doc[r].participants[U(r)].total)
      /\ \A c \in Challenges \ {C(r)} : scores'[c] = scores[c]
  BY <1>1, <1>3 DEF TypeOK
<1>5. CASE job[r].op = "create"
  <2>1. pc'[r] = "ok"
    BY <1>1, <1>5, MovesTo DEF UpdateParticipantScore
  <2>2. redis[C(r)] = NewDoc(U(r)) /\ doc[r] = NewDoc(U(r)) /\ scores[C(r)] = EmptyMap
    BY <1>2, <1>5 DEF Faithful, HandAgrees
  <2>3. /\ NewDoc(U(r)).participants = [x \in {U(r)} |-> FreshMetadata]
        /\ NewDoc(U(r)).leaderboard = [x \in {U(r)} |-> 0]
    BY DEF NewDoc
  <2>4. scores'[C(r)] = [x \in {U(r)} |-> 0]
    BY <1>4, <2>2, <2>3 DEF Put, EmptyMap, FreshMetadata
  <2>5. OpenAgrees(C(r))'
    BY <1>1, <2>2, <2>3, <2>4 DEF OpenAgrees, Agrees, Matches, FreshMetadata, C
  <2>6. QED
    BY <1>4, <2>1, <2>5 DEF Faithful, HandAgrees, InHand
<1>6. CASE job[r].op # "create"
  <2>1. pc'[r] = "topK" /\ doc' = doc
    BY <1>1, <1>6, MovesTo DEF UpdateParticipantScore, locals
  <2>2. doc[r].status = "open" => \A v \in DOMAIN doc[r].participants \ {U(r)} : Matches(doc[r], C(r), v)
    BY <1>2, <1>6 DEF Faithful, HandAgrees
  <2>3. doc[r].status = "open" => \A v \in DOMAIN doc[r].participants \ {U(r)} :
          v \in DOMAIN scores'[C(r)] /\ scores'[C(r)][v] = doc[r].participants[v].total
    BY <1>4, <2>2 DEF Put, Matches
  <2>4. U(r) \in DOMAIN scores'[C(r)] /\ scores'[C(r)][U(r)] = doc[r].participants[U(r)].total
    BY <1>4 DEF Put
  <2>5. QED
    BY <1>1, <1>4, <1>6, <2>1, <2>3, <2>4 DEF Faithful, Working, HandAgrees, InHand, Matches, C, U
<1>7. QED
  BY <1>5, <1>6

\* The snapshot is the board.
LEMMA SnapshotFaithful ==
    ASSUME ~RedisMayFail, NEW r \in Requests, Standing(r), BoardInPlace(r), Faithful(r),
           GetLeaderboard(r) \/ SaveSnapshot(r)
    PROVE  Faithful(r)' /\ scores' = scores
<1>1. /\ TypeOK /\ job' = job /\ OpInPlace(r) /\ C(r) \in Challenges /\ CopyInHand(r)
      /\ pc[r] \in {"topK", "save"} /\ C(r) \in boards /\ UNCHANGED scores
  BY DEF Standing, GetLeaderboard, SaveSnapshot, BoardInPlace, stores
<1>2. InHand(r) /\ job[r].op # "create" /\ doc[r] \in Docs
  BY <1>1 DEF InHand, OpInPlace, CopyInHand, Is
<1>3. doc[r].status = "open" =>
         /\ \A u \in DOMAIN doc[r].participants : Matches(doc[r], C(r), u)
         /\ pc[r] = "save" => doc[r].leaderboard = scores[C(r)]
  BY <1>1, <1>2 DEF Faithful, HandAgrees
<1>4. CASE GetLeaderboard(r)
  <2>1. PICK e : e = [doc[r] EXCEPT !.leaderboard = scores[C(r)]]
    OBVIOUS
  <2>2. e.leaderboard = scores[C(r)] /\ e.participants = doc[r].participants /\ e.status = doc[r].status
    BY <1>2, <2>1 DEF Docs
  <2>3. Goto(r, "save") /\ Keep(doc, r, e)
    BY <1>1, <1>4, <2>1 DEF GetLeaderboard, Keep
  <2>4. pc'[r] = "save" /\ doc'[r] = e
    BY <1>1, <2>3, MovesTo, KeepGives
  <2>5. QED
    BY <1>1, <1>2, <1>3, <2>2, <2>4 DEF Faithful, Working, HandAgrees, InHand, Matches, C, U
<1>5. CASE SaveSnapshot(r)
  <2>1. redis'[C(r)] = doc[r] /\ pc'[r] = "ok" /\ pc[r] = "save"
    BY <1>1, <1>5, PlainSet, MovesTo DEF SaveSnapshot
  <2>2. QED
    BY <1>1, <1>3, <2>1 DEF Faithful, HandAgrees, InHand, OpenAgrees, Agrees, Matches, C
<1>6. QED
  BY <1>1, <1>4, <1>5

\* A participant who leaves the document takes nothing from the board, and
\* those who stay agree with it.
LEMMA RemoveFaithful ==
    ASSUME ~RedisMayFail, NEW r \in Requests, Standing(r), Faithful(r),
           RemoveGet(r) \/ RemoveSet(r)
    PROVE  Faithful(r)' /\ scores' = scores
<1>1. /\ TypeOK /\ job' = job /\ C(r) \in Challenges /\ UNCHANGED scores
      /\ pc[r] \in {"remGet", "remSet"}
  BY DEF Standing, RemoveGet, RemoveSet, stores
<1>2. ~Working(r)
  BY <1>1 DEF Working, InHand
<1>3. CASE RemoveGet(r) /\ redis[C(r)] = NoDoc
  <2>1. pc'[r] \in Finished /\ UNCHANGED redis
    BY <1>1, <1>3, MovesTo DEF RemoveGet, Get, Finished, stores
  <2>2. QED
    BY <1>1, <1>2, <2>1, EmptyHanded DEF InHand, Finished
<1>4. CASE RemoveGet(r) /\ redis[C(r)] # NoDoc
  <2>1. redis[C(r)] \in Docs
    BY <1>1, <1>4 DEF TypeOK
  <2>2. PICK e : e = WithoutParticipant(redis[C(r)], U(r))
    OBVIOUS
  <2>3. /\ e.status = redis[C(r)].status /\ e.leaderboard = redis[C(r)].leaderboard
        /\ e.participants = Drop(redis[C(r)].participants, U(r))
    BY <2>1, <2>2 DEF Docs, WithoutParticipant
  <2>4. \A v \in DOMAIN e.participants :
           v \in DOMAIN redis[C(r)].participants /\ e.participants[v] = redis[C(r)].participants[v]
    BY <2>3 DEF Drop, Restrict
  <2>5. Goto(r, "remSet") /\ Keep(tmp, r, e) /\ UNCHANGED redis
    BY <1>4, <2>2 DEF RemoveGet, Get, Keep, stores
  <2>6. pc'[r] = "remSet" /\ tmp'[r] = e
    BY <1>1, <2>5, MovesTo, KeepGives
  <2>7. QED
    BY <1>1, <1>2, <1>4, <2>3, <2>4, <2>5, <2>6
       DEF Faithful, OpenAgrees, Agrees, Matches, HandAgrees, InHand, C
<1>5. CASE RemoveSet(r)
  <2>1. redis'[C(r)] = tmp[r] /\ pc'[r] \in Finished /\ pc[r] = "remSet"
    BY <1>1, <1>5, PlainSet, MovesTo DEF RemoveSet, Finished
  <2>2. QED
    BY <1>1, <2>1 DEF Faithful, HandAgrees, InHand, OpenAgrees, Agrees, Matches, Finished, C
<1>6. QED
  BY <1>1, <1>3, <1>4, <1>5

\* A handler's step changes scores at its own challenge only, and leaves that
\* challenge, its copy and its board in agreement.
LEMMA StepFaithful ==
    ASSUME ~RedisMayFail, NEW r \in Requests, Step(r), Standing(r), Advances(r), BoardInPlace(r),
           Faithful(r), StoreNew(r) => scores[C(r)] = EmptyMap
    PROVE  /\ Faithful(r)'
           /\ \A c \in Challenges \ {C(r)} : scores'[c] = scores[c]
           /\ pc[r] \in {"keys", "scan"} => scores' = scores
<1>1. CASE \/ ListKeys(r) \/ CheckKey(r) \/ LoadForAbandon(r) \/ LoadForEnd(r)
           \/ LoadForLeave(r) \/ LoadForRetrieve(r) \/ ReadRedis(r) \/ ReadMongo(r)
  BY <1>1, LooksFaithful
<1>2. CASE \/ StoreNew(r) \/ LoadForJoin(r) \/ LoadForPush(r) \/ ParticipantGet(r)
           \/ ParticipantSet(r) \/ WriteBack(r)
  BY <1>2, StoreNewFaithful, LoadsFaithful, EditsFaithful
<1>3. CASE \/ InitializeLeaderboard(r) \/ GetLeaderboard(r) \/ SaveSnapshot(r)
           \/ RemoveGet(r) \/ RemoveSet(r)
  BY <1>3, OpenBoardFaithful, SnapshotFaithful, RemoveFaithful
<1>4. CASE UpdateParticipantScore(r)
  BY <1>4, ScoreFaithful DEF UpdateParticipantScore
<1>5. CASE \/ MarkGet(r) \/ MarkSet(r) \/ CleanupLeaderboard(r) \/ ArchiveGet(r)
           \/ ArchiveFind(r) \/ ArchiveInsert(r) \/ ArchiveUpdate(r) \/ ArchiveDelete(r)
  <2>1. Faithful(r)'
    BY <1>5, EndFaithful
  <2>2. pc[r] \notin {"keys", "scan"}
    BY <1>5 DEF MarkGet, MarkSet, CleanupLeaderboard, ArchiveGet, ArchiveFind, ArchiveInsert,
                ArchiveUpdate, ArchiveDelete
  <2>3. \A c \in Challenges \ {C(r)} : scores'[c] = scores[c]
    <3>1. CASE CleanupLeaderboard(r)
      BY <3>1 DEF CleanupLeaderboard, Standing, TypeOK
    <3>2. CASE ~CleanupLeaderboard(r)
      BY <1>5, <3>2 DEF MarkGet, MarkSet, ArchiveGet, ArchiveFind, ArchiveInsert, ArchiveUpdate,
                        ArchiveDelete, stores
    <3>3. QED
      BY <3>1, <3>2
  <2>4. QED
    BY <2>1, <2>2, <2>3
<1>6. QED
  BY <1>1, <1>2, <1>3, <1>4, <1>5 DEF Step

\* What is not there has no score after the step either.
LEMMA StepScores ==
    ASSUME ~RedisMayFail, IInv, CopiesInv, SerialInv, BoardsInv, ScoresInv,
           NEW r \in Requests, Step(r)
    PROVE  ScoresInv'
<1>1. /\ job' = job /\ TypeOK /\ C(r) \in Challenges /\ Standing(r) /\ Touches(r) /\ Advances(r)
      /\ InFlight = {r} /\ \A q \in InFlight' : q = r
  BY StepFacts, StandsBefore, StepAdvances, StepAlone DEF SerialInv
<1>2. crashes' = crashes
  BY DEF Step, ListKeys, CheckKey, StoreNew, LoadForJoin, LoadForPush, LoadForAbandon, LoadForEnd,
         LoadForLeave, LoadForRetrieve, CreatorOnly, Proceed, ParticipantGet, ParticipantSet,
         WriteBack, InitializeLeaderboard, UpdateParticipantScore, GetLeaderboard, SaveSnapshot,
         MarkGet, MarkSet, CleanupLeaderboard, ArchiveGet, ArchiveFind, ArchiveInsert,
         ArchiveUpdate, ArchiveDelete, RemoveGet, RemoveSet, ReadRedis, ReadMongo, Goto, Reply
<1> SUFFICES ASSUME crashes = 0
             PROVE  /\ \A c \in Challenges : Unborn(c)' => scores'[c] = EmptyMap
                    /\ \A c \in Challenges :
                          (\A q \in InFlight' : C(q)' = c => ~Working(q)') => OpenAgrees(c)'
                    /\ \A q \in InFlight' : HandAgrees(q)'
  BY <1>2 DEF ScoresInv
<1>3. Faithful(r) /\ BoardInPlace(r)
  BY <1>1 DEF ScoresInv, Faithful, BoardsInv
<1>4. ASSUME pc[r] \in {"keys", "scan"}
      PROVE  scores[C(r)] = EmptyMap
  <2>1. Creates(r, C(r))
    BY <1>1, <1>4 DEF Standing, OpInPlace, Creates
  <2>2. QED
    BY <1>1, <1>4, <2>1 DEF ScoresInv, Unborn
<1>5. /\ Faithful(r)'
      /\ \A c \in Challenges \ {C(r)} : scores'[c] = scores[c]
      /\ pc[r] \in {"keys", "scan"} => scores' = scores
  BY <1>1, <1>3, <1>4, StepFaithful DEF StoreNew
<1>6. ASSUME NEW c \in Challenges, Unborn(c)'
      PROVE  scores'[c] = EmptyMap
  <2>1. Unborn(c)
    BY <1>6, UnbornSteps
  <2>2. scores[c] = EmptyMap
    BY <2>1 DEF ScoresInv
  <2>3. CASE c = C(r) /\ pc[r] \notin {"keys", "scan"}
    <3>1. Copies(c) = {}
      BY <2>1 DEF CopiesInv, NoneBeforeBirth
    <3>2. redis[c] = NoDoc
      BY <1>1, <3>1, HeldHasCopy DEF Held
    <3>3. ~UpdateParticipantScore(r) /\ ~CleanupLeaderboard(r)
      BY <1>1, <2>3, <3>2
         DEF UpdateParticipantScore, CleanupLeaderboard, Standing, Sync, InHand, Past
    <3>4. scores' = scores
      BY <3>3 DEF Step, ListKeys, CheckKey, StoreNew, LoadForJoin, LoadForPush, LoadForAbandon,
         LoadForEnd, LoadForLeave, LoadForRetrieve, CreatorOnly, Proceed, ParticipantGet,
         ParticipantSet, WriteBack, InitializeLeaderboard, GetLeaderboard, SaveSnapshot, MarkGet,
         MarkSet, ArchiveGet, ArchiveFind, ArchiveInsert, ArchiveUpdate, ArchiveDelete, RemoveGet,
         RemoveSet, ReadRedis, ReadMongo, stores
    <3>5. QED
      BY <2>2, <3>4
  <2>4. QED
    BY <1>5, <2>2, <2>3
<1>7. ASSUME NEW c \in Challenges, \A q \in InFlight' : C(q)' = c => ~Working(q)'
      PROVE  OpenAgrees(c)'
  <2>1. CASE c = C(r)
    <3>1. ~Working(r)'
      <4>1. CASE r \in InFlight'
        BY <1>1, <1>7, <2>1, <4>1 DEF C
      <4>2. CASE r \notin InFlight'
        BY <4>2 DEF InFlight, Working, InHand, Steps
      <4>3. QED
        BY <4>1, <4>2
    <3>2. OpenAgrees(C(r))'
      BY <1>5, <3>1 DEF Faithful
    <3>3. C(r)' = C(r)
      BY <1>1 DEF C
    <3>4. QED
      BY <2>1, <3>2, <3>3 DEF OpenAgrees, Agrees, Matches
  <2>2. CASE c # C(r)
    <3>1. OpenAgrees(c)
      BY <1>1, <2>2 DEF ScoresInv
    <3>2. redis'[c] = redis[c] /\ scores'[c] = scores[c]
      BY <1>1, <1>5, <2>2 DEF Touches
    <3>3. QED
      BY <3>1, <3>2 DEF OpenAgrees, Agrees, Matches
  <2>3. QED
    BY <2>1, <2>2
<1>8. QED
  BY <1>1, <1>5, <1>6, <1>7 DEF Faithful

\* A request that arrives holds nothing, and names for a create a challenge
\* that was not there.
LEMMA ArrivalScores ==
    ASSUME MaxInFlight = 1, IInv, CopiesInv, SerialInv, ScoresInv, NEW r \in Requests, Receive(r)
    PROVE  ScoresInv'
<1>1. /\ TypeOK /\ InFlight = {} /\ \A q \in InFlight' : q = r
      /\ pc'[r] \in {"keys", "joinLoad", "pushLoad", "abandonLoad", "endLoad", "leaveLoad",
                     "remGet", "readRedis", "retrieveLoad"}
      /\ UNCHANGED <<redis, scores, crashes>>
  BY ArrivalAlone DEF SerialInv, IInv, Receive, stores
<1>2. ~Working(r)' /\ HandAgrees(r)'
  BY <1>1 DEF Working, HandAgrees, InHand
<1>3. ASSUME NEW c \in Challenges, Unborn(c)'
      PROVE  Unborn(c)
  <2>1. PICK j \in Jobs : /\ (j.op = "create") = ~Named(j.c)
                          /\ job' = [job EXCEPT ![r] = j]
    BY DEF Receive
  <2>2. job'[r] = j /\ job[r] = NoJob
    BY <1>1, <2>1, ArrivalNoCopy DEF TypeOK
  <2>3. \A q \in Requests \ {r} : job'[q] = job[q] /\ pc'[q] = pc[q]
    BY ArrivalNoCopy
  <2>4. CASE ~Named(c)'
    BY <2>2, <2>3, <2>4 DEF Unborn, Named, C
  <2>5. ASSUME NEW q \in Requests, Creates(q, c)', pc'[q] \in {"keys", "scan"}
        PROVE  Unborn(c)
    <3>1. CASE q = r
      BY <2>1, <2>2, <2>5, <3>1 DEF Unborn, Creates, Is, C
    <3>2. CASE q # r
      BY <2>3, <2>5, <3>2 DEF Unborn, Creates, Is, C
    <3>3. QED
      BY <3>1, <3>2
  <2>6. QED
    BY <1>3, <2>4, <2>5 DEF Unborn
<1>4. QED
  BY <1>1, <1>2, <1>3 DEF ScoresInv, OpenAgrees, Agrees, Matches

\* Every step of the system while Redis answers.
LEMMA NextScores ==
    ASSUME MaxInFlight = 1, ~RedisMayFail, IInv, CopiesInv, SerialInv, BoardsInv, ScoresInv,
           [Next]_vars
    PROVE  ScoresInv'
<1>1. ASSUME Crash
      PROVE  ScoresInv'
  <2>1. crashes' # 0
    BY <1>1 DEF Crash, IInv, TypeOK
  <2>2. QED
    BY <2>1 DEF ScoresInv
<1>2. ASSUME UNCHANGED vars
      PROVE  ScoresInv'
  BY <1>2 DEF vars, ScoresInv, Unborn, Named, Creates, Is, InFlight, Working, HandAgrees, InHand,
              OpenAgrees, Agrees, Matches, C, U
<1>3. QED
  BY <1>1, <1>2, StepScores, ArrivalScores DEF Next, AllServed

\* The members of the challenges that were there at the start have no points,
\* on the board either.
LEMMA InitScores == Init => ScoresInv
<1> SUFFICES ASSUME Init PROVE ScoresInv
  OBVIOUS
<1>1. InFlight = {} /\ \A r \in Requests : job[r] = NoJob
  BY DEF Init, InFlight, Steps
<1>2. PICK owner \in [Preloaded -> Users], members \in [Preloaded -> SUBSET Users] :
        /\ redis = [c \in Challenges |->
                       IF c \in Preloaded
                       THEN [NewDoc(owner[c]) EXCEPT
                               !.participants = [u \in members[c] \union {owner[c]} |-> FreshMetadata],
                               !.leaderboard = [u \in members[c] \union {owner[c]} |-> 0]]
                       ELSE NoDoc]
        /\ scores = [c \in Challenges |->
                       IF c \in Preloaded THEN [u \in members[c] \union {owner[c]} |-> 0]
                                          ELSE EmptyMap]
  BY DEF Init
<1>3. ASSUME NEW c \in Challenges
      PROVE  (c \notin Preloaded => scores[c] = EmptyMap) /\ OpenAgrees(c)
  <2>1. CASE c \in Preloaded
    <3>1. /\ redis[c].participants = [u \in members[c] \union {owner[c]} |-> FreshMetadata]
          /\ redis[c].leaderboard = [u \in members[c] \union {owner[c]} |-> 0]
          /\ scores[c] = [u \in members[c] \union {owner[c]} |-> 0]
      BY <1>2, <2>1 DEF NewDoc
    <3>2. QED
      BY <2>1, <3>1 DEF OpenAgrees, Agrees, Matches, FreshMetadata
  <2>2. CASE c \notin Preloaded
    BY <1>2, <2>2 DEF OpenAgrees
  <2>3. QED
    BY <2>1, <2>2
<1>4. \A c : Unborn(c) => c \notin Preloaded
  BY <1>1 DEF Unborn, Named, Creates, Is
<1>5. QED
  BY <1>1, <1>3, <1>4 DEF ScoresInv

\* Served one after the other while Redis answers, and until the process
\* crashes, the open board, the snapshot and the totals of an open challenge
\* are the same whenever no handler runs.
THEOREM BoardsAgree == MaxInFlight = 1 /\ ~RedisMayFail /\ Spec => []BoardAgrees
<1> SUFFICES ASSUME MaxInFlight = 1, ~RedisMayFail
             PROVE  Spec => []BoardAgrees
  OBVIOUS
<1>1. IInv /\ CopiesInv /\ SerialInv /\ BoardsInv /\ [Next]_vars => BoardsInv'
  BY NextBoards
<1>2. IInv /\ CopiesInv /\ SerialInv /\ BoardsInv /\ ScoresInv /\ [Next]_vars => ScoresInv'
  BY NextScores
<1>3. MaxInFlight = 1 /\ Spec => []SerialInv
  BY SerialInvariance
<1>4. TypeOK /\ ScoresInv => BoardAgrees
  BY DEF TypeOK, ScoresInv, BoardAgrees, Quiet, OpenAgrees, Agrees, Matches
<1>5. IInv => TypeOK
  BY DEF IInv
<1>6. QED
  BY Invariance, CopiesInvariance, InitBoards, InitScores, <1>1, <1>2, <1>3, <1>4, <1>5, PTL
     DEF Spec

====
