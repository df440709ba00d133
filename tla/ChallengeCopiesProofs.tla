---- MODULE ChallengeCopiesProofs ----
(***************************************************************************)
(* What holds of every copy of a challenge's document, in a store or in a  *)
(* handler's hands: where a copy can come from, who its creator is, who    *)
(* ended it, and that its points were pushed.                              *)
(***************************************************************************)
EXTENDS ChallengeLifecycleProofs

(***************************************************************************)
(* The invariant of the copies.                                            *)
(***************************************************************************)
Creates(r, c) == Is(r, {"create"}) /\ C(r) = c

\* The creator's identity is settled by one request: a challenge that was not
\* there at the start is created once.
CreatedOnce ==
    \A r \in Requests, c \in Challenges : Creates(r, c) =>
        /\ c \notin Preloaded
        /\ \A q \in Requests : Creates(q, c) => q = r

\* Nobody has asked for the challenge, or its document is not stored yet.
Unborn(c) ==
    \/ ~Named(c)
    \/ \E r \in Requests : Creates(r, c) /\ pc[r] \in {"keys", "scan"}

NoneBeforeBirth == \A c \in Challenges : Unborn(c) => Copies(c) = {}

CreatorsAgree == \A c \in Challenges : \A d, e \in Copies(c) : d.creator = e.creator

Past == {"closeBoard", "markGet", "markSet", "archGet", "archFind", "archInsert",
         "archUpdate", "archDel"}

\* A handler that is past the check of the creator works for the creator, and
\* the challenge has not gone.
Checked(r) ==
    pc[r] \in Past => Held(C(r)) /\ \A d \in Copies(C(r)) : d.creator = U(r)

\* A handler that has not begun or is over holds nothing.
Empty(r) == pc[r] \notin Steps => doc[r] = NoDoc /\ tmp[r] = NoDoc

CopiesInv ==
    /\ CreatedOnce
    /\ NoneBeforeBirth
    /\ CreatorsAgree
    /\ \A r \in Requests : Checked(r) /\ Empty(r)
    /\ OnlyCreatorTerminates

(***************************************************************************)
(* Where copies come from.                                                 *)
(***************************************************************************)
\* A copy of c is in Redis, in MongoDB or in the hands of a handler for c.
HasCopy(c, d) ==
    /\ d # NoDoc
    /\ \/ d = redis[c]
       \/ \E i \in DOMAIN mongo[c] : d = mongo[c][i]
       \/ \E q \in Requests : job[q] # NoJob /\ C(q) = c /\ (d = doc[q] \/ d = tmp[q])

\* The membership in Copies, as one condition.
LEMMA CopyWhere ==
    ASSUME NEW c, NEW d
    PROVE  d \in Copies(c) <=> HasCopy(c, d)
BY DEF Copies, HasCopy, Range

\* The same one step later.
LEMMA CopyWhereNext ==
    ASSUME NEW c, NEW d
    PROVE  d \in Copies(c)' <=> HasCopy(c, d)'
BY DEF Copies, HasCopy, Range

\* A copy is a document.
LEMMA CopyType ==
    ASSUME TypeOK, NEW c \in Challenges, NEW d \in Copies(c)
    PROVE  d \in Docs
<1>1. HasCopy(c, d)
  BY CopyWhere
<1>2. ASSUME NEW i \in DOMAIN mongo[c]
      PROVE  mongo[c][i] \in Docs
  BY DEF TypeOK
<1>3. QED
  BY <1>1, <1>2 DEF TypeOK, HasCopy

\* The metadata a join or a push of r may file: fresh, or its user's entry in
\* a copy.
Known(r, m) ==
    \/ m = FreshMetadata
    \/ \E f \in Copies(C(r)) : U(r) \in DOMAIN f.participants /\ m = f.participants[U(r)]

\* How a handler r makes a new copy d of the copy e.
Edited(r, e, d) ==
    \/ \E m : Known(r, m) /\ d = WithParticipant(e, U(r), m)
    \/ d = WithoutParticipant(e, U(r))
    \/ /\ Is(r, {"push"})
       /\ U(r) \in DOMAIN e.participants
       /\ d = Credit(e, U(r), job[r].p, job[r].s)
    \/ \E l : d = [e EXCEPT !.leaderboard = l]
    \/ /\ Is(r, {"abandon", "end"})
       /\ pc[r] = "markGet"
       /\ job[r].op = "abandon" => e.creator = U(r)
       /\ d = [e EXCEPT !.status = Mark(r)]
    \/ \E f \in Copies(C(r)) : d = [e EXCEPT !.creator = f.creator]

Made(r, d) ==
    \/ Creates(r, C(r)) /\ StoreNew(r) /\ d = NewDoc(U(r))
    \/ \E e \in Copies(C(r)) : Edited(r, e, d)

\* What r may put somewhere.
Had(r, d) == d = NoDoc \/ d \in Copies(C(r)) \/ Made(r, d)

\* Every copy after the step of r was there before, or r made it.
Flow(r) ==
    \A c \in Challenges : \A d \in Copies(c)' : d \in Copies(c) \/ (c = C(r) /\ Made(r, d))

\* The step of r changes stores at its challenge only, and puts there and
\* into its own hands only what it may.
Touches(r) ==
    /\ \A b \in Challenges \ {C(r)} : redis'[b] = redis[b] /\ mongo'[b] = mongo[b]
    /\ Had(r, redis'[C(r)])
    /\ \A i \in DOMAIN mongo'[C(r)] : Had(r, mongo'[C(r)][i])
    /\ Had(r, doc'[r])
    /\ Had(r, tmp'[r])

\* So every copy has a known origin.
LEMMA TouchesFlow ==
    ASSUME IInv, NEW r \in Requests, pc[r] # "idle", job' = job, OthersKeep(r), Touches(r)
    PROVE  Flow(r)
<1> SUFFICES ASSUME NEW c \in Challenges, NEW d \in Copies(c)'
             PROVE  d \in Copies(c) \/ (c = C(r) /\ Made(r, d))
  BY DEF Flow
<1>1. HasCopy(c, d)'
  BY CopyWhereNext
<1>2. C(r) \in Challenges
  BY JobType
<1>3. HasCopy(c, d) => d \in Copies(c)
  BY CopyWhere
<1>4. CASE d = redis'[c]
  BY <1>1, <1>2, <1>3, <1>4 DEF Touches, Had, HasCopy
<1>5. CASE \E i \in DOMAIN mongo'[c] : d = mongo'[c][i]
  BY <1>1, <1>2, <1>3, <1>5 DEF Touches, Had, HasCopy
<1>6. ASSUME NEW q \in Requests, job'[q] # NoJob, C(q)' = c, d = doc'[q] \/ d = tmp'[q]
      PROVE  d \in Copies(c) \/ (c = C(r) /\ Made(r, d))
  <2>1. CASE q = r
    BY <1>1, <1>6, <2>1 DEF Touches, Had, HasCopy, C
  <2>2. CASE q # r
    BY <1>1, <1>3, <1>6, <2>2 DEF OthersKeep, HasCopy, C
  <2>3. QED
    BY <2>1, <2>2
<1>7. QED
  BY <1>1, <1>4, <1>5, <1>6 DEF HasCopy

\* What r finds in its hands and in the stores at its challenge.
LEMMA HadAlready ==
    ASSUME IInv, NEW r \in Requests, pc[r] # "idle"
    PROVE  /\ Had(r, NoDoc)
           /\ Had(r, redis[C(r)])
           /\ \A i \in DOMAIN mongo[C(r)] : Had(r, mongo[C(r)][i])
           /\ Had(r, doc[r])
           /\ Had(r, tmp[r])
<1>1. job[r] # NoJob
  BY JobType, NoJobAssumption
<1>2. ASSUME NEW d, HasCopy(C(r), d)
      PROVE  Had(r, d)
  BY <1>2, CopyWhere DEF Had
<1>3. QED
  BY <1>1, <1>2 DEF HasCopy, Had

\* Which copies a reply or a step without a new copy leaves in r's hands.
LEMMA ReplyDrops ==
    ASSUME TypeOK, NEW r \in Requests, NEW answer, Reply(r, answer)
    PROVE  doc'[r] = NoDoc /\ tmp'[r] = NoDoc
BY DEF Reply, TypeOK

\* A copy kept in r's hands.
LEMMA KeepGives ==
    ASSUME TypeOK, NEW r \in Requests, NEW d
    PROVE  /\ Keep(doc, r, d) => doc'[r] = d
           /\ Keep(tmp, r, d) => tmp'[r] = d
BY DEF Keep, TypeOK

\* What a GET of r's challenge returns.
LEMMA GetHad ==
    ASSUME IInv, NEW r \in Requests, pc[r] # "idle", NEW d \in Get(C(r))
    PROVE  /\ Had(r, d)
           /\ d # NoDoc => d \in Copies(C(r))
<1>1. d = redis[C(r)] \/ d = NoDoc
  BY DEF Get
<1>2. d # NoDoc => HasCopy(C(r), d)
  BY <1>1 DEF HasCopy
<1>3. QED
  BY <1>1, <1>2, HadAlready, CopyWhere

\* A SET of r's challenge stores d, or nothing.
LEMMA SetTouches ==
    ASSUME IInv, NEW r \in Requests, pc[r] # "idle", NEW d, NEW w, Set(C(r), d, w),
           Had(r, d), UNCHANGED mongo
    PROVE  /\ \A b \in Challenges \ {C(r)} : redis'[b] = redis[b] /\ mongo'[b] = mongo[b]
           /\ Had(r, redis'[C(r)])
           /\ \A i \in DOMAIN mongo'[C(r)] : Had(r, mongo'[C(r)][i])
<1>1. C(r) \in Challenges /\ TypeOK
  BY JobType DEF IInv
<1>2. redis'[C(r)] \in {redis[C(r)], d} /\ \A b \in Challenges \ {C(r)} : redis'[b] = redis[b]
  BY <1>1 DEF Set, TypeOK
<1>3. QED
  BY <1>2, HadAlready

\* The same of stores that did not change.
LEMMA SameTouches ==
    ASSUME IInv, NEW r \in Requests, pc[r] # "idle", UNCHANGED <<redis, mongo>>
    PROVE  /\ \A b \in Challenges \ {C(r)} : redis'[b] = redis[b] /\ mongo'[b] = mongo[b]
           /\ Had(r, redis'[C(r)])
           /\ \A i \in DOMAIN mongo'[C(r)] : Had(r, mongo'[C(r)][i])
BY HadAlready

\* Steps that make no copy: the checks of CanCreate and of the creator, the
\* board, and the looks of a reader.
LEMMA NoCopyTouches ==
    ASSUME IInv, NEW r \in Requests,
           \/ ListKeys(r) \/ CheckKey(r) \/ InitializeLeaderboard(r) \/ UpdateParticipantScore(r)
           \/ CleanupLeaderboard(r) \/ ArchiveFind(r) \/ ReadRedis(r) \/ ReadMongo(r)
    PROVE  Touches(r)
<1>1. pc[r] # "idle" /\ TypeOK /\ UNCHANGED <<redis, mongo>>
  BY DEF IInv, ListKeys, CheckKey, InitializeLeaderboard, UpdateParticipantScore,
         CleanupLeaderboard, ArchiveFind, ReadRedis, ReadMongo, stores
<1>2. doc'[r] \in {doc[r], NoDoc} /\ tmp'[r] \in {tmp[r], NoDoc}
  <2>1. CASE ListKeys(r) \/ CheckKey(r) \/ ReadRedis(r) \/ ReadMongo(r)
    BY <1>1, <2>1, ReplyDrops DEF ListKeys, CheckKey, ReadRedis, ReadMongo, locals
  <2>2. CASE InitializeLeaderboard(r) \/ UpdateParticipantScore(r) \/ CleanupLeaderboard(r)
             \/ ArchiveFind(r)
    BY <1>1, <2>2, ReplyDrops
       DEF InitializeLeaderboard, UpdateParticipantScore, CleanupLeaderboard, ArchiveFind, locals
  <2>3. QED
    BY <2>1, <2>2
<1>3. QED
  BY <1>1, <1>2, SameTouches, HadAlready DEF Touches

\* The loads that only check, those that keep a copy: what they keep is had.
LEMMA ProceedTouches ==
    ASSUME IInv, NEW r \in Requests, pc[r] # "idle",
           NEW allowed \in BOOLEAN, NEW d, NEW step, Proceed(r, allowed, d, step), allowed => Had(r, d)
    PROVE  Touches(r)
<1>1. TypeOK /\ UNCHANGED <<redis, mongo>>
  BY DEF IInv, Proceed, stores
<1>2. Had(r, doc'[r]) /\ tmp'[r] \in {tmp[r], NoDoc}
  BY <1>1, ReplyDrops, KeepGives, HadAlready DEF Proceed
<1>3. QED
  BY <1>1, <1>2, SameTouches, HadAlready DEF Touches

\* The edits, made of a copy.
LEMMA EditHad ==
    ASSUME NEW r, NEW e \in Copies(C(r)), NEW d, Edited(r, e, d)
    PROVE  Had(r, d)
BY DEF Had, Made

\* The first GET of a handler.
LEMMA LoadTouches ==
    ASSUME IInv, NEW r \in Requests,
           \/ LoadForJoin(r) \/ LoadForPush(r) \/ LoadForAbandon(r) \/ LoadForEnd(r)
           \/ LoadForLeave(r) \/ LoadForRetrieve(r)
    PROVE  Touches(r)
<1>1. pc[r] # "idle" /\ OpInPlace(r)
  BY DEF IInv, LoadForJoin, LoadForPush, LoadForAbandon, LoadForEnd, LoadForLeave,
         LoadForRetrieve, CreatorOnly
<1>2. CASE LoadForAbandon(r) \/ LoadForEnd(r) \/ LoadForLeave(r)
  <2>1. PICK d \in Get(C(r)), step \in {"markGet", "closeBoard", "remGet"} :
          Proceed(r, d # NoDoc /\ d.creator = U(r), NoDoc, step)
    BY <1>2 DEF LoadForAbandon, LoadForEnd, LoadForLeave, CreatorOnly
  <2>2. (d # NoDoc /\ d.creator = U(r)) \in BOOLEAN
    OBVIOUS
  <2>3. QED
    BY <1>1, <2>1, <2>2, ProceedTouches, HadAlready
<1>3. CASE LoadForRetrieve(r)
  <2>1. PICK d \in Get(C(r)), connected \in BOOLEAN :
          Proceed(r, d # NoDoc /\ connected, NoDoc, "initBoard")
    BY <1>3 DEF LoadForRetrieve
  <2>2. QED
    BY <1>1, <2>1, ProceedTouches, HadAlready
<1>4. CASE LoadForJoin(r)
  <2>1. PICK d \in Get(C(r)) :
          IF d # NoDoc /\ d.status # "abandon"
          THEN IF U(r) \in DOMAIN d.participants
               THEN Proceed(r, TRUE, d, "updGet")
               ELSE Proceed(r, TRUE, WithParticipant(d, U(r), FreshMetadata), "addGet")
          ELSE Proceed(r, FALSE, d, "err")
    BY <1>4 DEF LoadForJoin
  <2>2. d # NoDoc => Had(r, WithParticipant(d, U(r), FreshMetadata))
    BY <1>1, GetHad, EditHad DEF Edited, Known
  <2>3. Had(r, d)
    BY <1>1, GetHad
  <2>4. CASE d # NoDoc /\ d.status # "abandon" /\ U(r) \in DOMAIN d.participants
    BY <1>1, <2>1, <2>3, <2>4, ProceedTouches
  <2>5. CASE d # NoDoc /\ d.status # "abandon" /\ U(r) \notin DOMAIN d.participants
    <3>1. PICK e : e = WithParticipant(d, U(r), FreshMetadata)
      OBVIOUS
    <3>2. Proceed(r, TRUE, e, "addGet")
      BY <2>1, <2>5, <3>1 DEF Proceed, Keep
    <3>3. Had(r, e)
      BY <2>2, <2>5, <3>1
    <3>4. QED
      BY <1>1, <3>2, <3>3, ProceedTouches
  <2>6. CASE ~(d # NoDoc /\ d.status # "abandon")
    <3>1. Proceed(r, FALSE, d, "err")
      BY <2>1, <2>6
    <3>2. QED
      BY <1>1, <3>1, ProceedTouches
  <2>7. QED
    BY <2>4, <2>5, <2>6
<1>5. CASE LoadForPush(r)
  <2>1. PICK d \in Get(C(r)) :
          IF d # NoDoc /\ U(r) \in DOMAIN d.participants
          THEN Proceed(r, TRUE, Credit(d, U(r), job[r].p, job[r].s), "updGet")
          ELSE Proceed(r, FALSE, d, "err")
    BY <1>5 DEF LoadForPush
  <2>2. Is(r, {"push"})
    BY <1>1, <1>5 DEF LoadForPush, OpInPlace
  <2>3. d # NoDoc /\ U(r) \in DOMAIN d.participants
            => Had(r, Credit(d, U(r), job[r].p, job[r].s))
    BY <1>1, <2>2, GetHad, EditHad DEF Edited
  <2>4. CASE d # NoDoc /\ U(r) \in DOMAIN d.participants
    <3>1. PICK e : e = Credit(d, U(r), job[r].p, job[r].s)
      OBVIOUS
    <3>2. Proceed(r, TRUE, e, "updGet")
      BY <2>1, <2>4, <3>1 DEF Proceed, Keep
    <3>3. Had(r, e)
      BY <2>3, <2>4, <3>1
    <3>4. QED
      BY <1>1, <3>2, <3>3, ProceedTouches
  <2>5. CASE ~(d # NoDoc /\ U(r) \in DOMAIN d.participants)
    <3>1. Proceed(r, FALSE, d, "err")
      BY <2>1, <2>5
    <3>2. QED
      BY <1>1, <3>1, ProceedTouches
  <2>6. QED
    BY <2>4, <2>5
<1>6. QED
  BY <1>2, <1>3, <1>4, <1>5

\* Joins and pushes take a participant's entry from their own copy.
LEMMA ParticipantTouches ==
    ASSUME IInv, NEW r \in Requests, ParticipantGet(r) \/ ParticipantSet(r)
    PROVE  Touches(r)
<1>1. pc[r] # "idle" /\ TypeOK /\ CopyInHand(r)
  BY DEF IInv, ParticipantGet, ParticipantSet
<1>2. CASE ParticipantGet(r)
  <2>1. doc[r] \in Docs /\ U(r) \in DOMAIN doc[r].participants
    BY <1>1, <1>2 DEF ParticipantGet, CopyInHand
  <2>2. doc[r] \in Copies(C(r))
    <3>1. HasCopy(C(r), doc[r])
      BY <1>1, <2>1, NoDocAssumption, JobType, NoJobAssumption DEF HasCopy
    <3>2. QED
      BY <3>1, CopyWhere
  <2>3. Known(r, doc[r].participants[U(r)])
    BY <2>1, <2>2 DEF Known
  <2>4. PICK d \in Get(C(r)) :
          \/ /\ d # NoDoc
             /\ Keep(tmp, r, WithParticipant(d, U(r), doc[r].participants[U(r)]))
             /\ UNCHANGED doc
          \/ UNCHANGED <<doc, tmp>>
          \/ Reply(r, "err")
    BY <1>2 DEF ParticipantGet, locals
  <2>5. PICK e : e = WithParticipant(d, U(r), doc[r].participants[U(r)])
    OBVIOUS
  <2>6. d # NoDoc => Had(r, e)
    BY <1>1, <2>3, <2>5, GetHad, EditHad DEF Edited
  <2>7. Had(r, doc'[r]) /\ Had(r, tmp'[r])
    <3>1. CASE d # NoDoc /\ Keep(tmp, r, e) /\ UNCHANGED doc
      BY <1>1, <2>6, <3>1, KeepGives, HadAlready
    <3>2. CASE UNCHANGED <<doc, tmp>> \/ Reply(r, "err")
      BY <1>1, <3>2, ReplyDrops, HadAlready
    <3>3. QED
      BY <2>4, <2>5, <3>1, <3>2
  <2>8. UNCHANGED <<redis, mongo>>
    BY <1>2 DEF ParticipantGet, stores
  <2>9. QED
    BY <1>1, <2>7, <2>8, SameTouches DEF Touches
<1>3. CASE ParticipantSet(r)
  <2>1. doc'[r] \in {doc[r], NoDoc} /\ tmp'[r] = NoDoc
    BY <1>1, <1>3, ReplyDrops, KeepGives DEF ParticipantSet
  <2>2. (\E w : Set(C(r), tmp[r], w)) /\ UNCHANGED mongo
    BY <1>3 DEF ParticipantSet
  <2>3. QED
    BY <1>1, <2>1, <2>2, SetTouches, HadAlready DEF Touches
<1>4. QED
  BY <1>2, <1>3

\* The other writes of a copy to Redis.
LEMMA WriteTouches ==
    ASSUME IInv, NEW r \in Requests,
           \/ WriteBack(r) \/ SaveSnapshot(r) \/ MarkSet(r) \/ RemoveSet(r) \/ ArchiveDelete(r)
    PROVE  Touches(r)
<1>1. pc[r] # "idle" /\ TypeOK
  BY DEF IInv, WriteBack, SaveSnapshot, MarkSet, RemoveSet, ArchiveDelete
<1>2. /\ (\E w : Set(C(r), doc[r], w)) \/ (\E w : Set(C(r), tmp[r], w)) \/ (\E w : Set(C(r), NoDoc, w))
      /\ UNCHANGED mongo
  BY DEF WriteBack, SaveSnapshot, MarkSet, RemoveSet, ArchiveDelete, Del
<1>3. doc'[r] \in {doc[r], NoDoc} /\ tmp'[r] \in {tmp[r], NoDoc}
  BY <1>1, ReplyDrops, KeepGives
     DEF WriteBack, SaveSnapshot, MarkSet, RemoveSet, ArchiveDelete, locals
<1>4. QED
  BY <1>1, <1>2, <1>3, SetTouches, HadAlready DEF Touches

\* The document a create stores.
LEMMA StoreNewTouches ==
    ASSUME IInv, NEW r \in Requests, StoreNew(r)
    PROVE  Touches(r)
<1>1. pc[r] = "scan" /\ TypeOK /\ OpInPlace(r)
  BY DEF IInv, StoreNew
<1>2. Creates(r, C(r))
  BY <1>1 DEF OpInPlace, Creates
<1>3. PICK e : e = NewDoc(U(r))
  OBVIOUS
<1>4. Had(r, e)
  BY <1>2, <1>3 DEF Had, Made
<1>5. (\E w : Set(C(r), e, w)) /\ UNCHANGED mongo
  BY <1>3 DEF StoreNew
<1>6. doc'[r] \in {e, NoDoc} /\ tmp'[r] \in {tmp[r], NoDoc}
  BY <1>1, <1>3, ReplyDrops, KeepGives DEF StoreNew
<1>7. QED
  BY <1>1, <1>4, <1>5, <1>6, SetTouches, HadAlready DEF Touches

\* The GETs that edit what they read: the leaderboard, the mark, the removal.
LEMMA GetTouches ==
    ASSUME IInv, NEW r \in Requests,
           GetLeaderboard(r) \/ MarkGet(r) \/ ArchiveGet(r) \/ RemoveGet(r)
    PROVE  Touches(r)
<1>1. pc[r] # "idle" /\ TypeOK /\ CopyInHand(r) /\ OpInPlace(r) /\ UNCHANGED <<redis, mongo>>
  BY DEF IInv, GetLeaderboard, MarkGet, ArchiveGet, RemoveGet, stores
<1>2. CASE GetLeaderboard(r)
  <2>1. doc[r] \in Copies(C(r))
    <3>1. doc[r] # NoDoc
      BY <1>1, <1>2, NoDocAssumption DEF GetLeaderboard, CopyInHand
    <3>2. HasCopy(C(r), doc[r])
      BY <1>1, <3>1, JobType, NoJobAssumption DEF HasCopy
    <3>3. QED
      BY <3>2, CopyWhere
  <2>2. PICK e : e = [doc[r] EXCEPT !.leaderboard = scores[C(r)]]
    OBVIOUS
  <2>3. Had(r, e)
    <3>1. Edited(r, doc[r], e)
      BY <2>2 DEF Edited
    <3>2. QED
      BY <2>1, <3>1 DEF Had, Made
  <2>4. doc'[r] \in {e, NoDoc} /\ tmp'[r] \in {tmp[r], NoDoc}
    BY <1>1, <1>2, <2>2, ReplyDrops, KeepGives DEF GetLeaderboard
  <2>5. QED
    BY <1>1, <2>3, <2>4, SameTouches, HadAlready DEF Touches
<1>3. CASE MarkGet(r)
  <2>1. PICK d \in Get(C(r)) :
          IF d # NoDoc /\ (job[r].op = "abandon" => d.creator = U(r))
          THEN /\ Keep(tmp, r, [d EXCEPT !.status = Mark(r)])
               /\ UNCHANGED doc
          ELSE Reply(r, "err")
    BY <1>3 DEF MarkGet
  <2>2. PICK e : e = [d EXCEPT !.status = Mark(r)]
    OBVIOUS
  <2>3. Is(r, {"abandon", "end"}) /\ pc[r] = "markGet"
    BY <1>1, <1>3 DEF MarkGet, OpInPlace
  <2>4. CASE d # NoDoc /\ (job[r].op = "abandon" => d.creator = U(r))
    <3>1. Had(r, e)
      BY <1>1, <2>2, <2>3, <2>4, GetHad, EditHad DEF Edited
    <3>2. doc'[r] = doc[r] /\ tmp'[r] = e
      BY <1>1, <2>1, <2>2, <2>4, KeepGives
    <3>3. QED
      BY <1>1, <3>1, <3>2, SameTouches, HadAlready DEF Touches
  <2>5. CASE ~(d # NoDoc /\ (job[r].op = "abandon" => d.creator = U(r)))
    BY <1>1, <2>1, <2>5, ReplyDrops, SameTouches, HadAlready DEF Touches
  <2>6. QED
    BY <2>4, <2>5
<1>4. CASE ArchiveGet(r)
  <2>1. PICK d \in Get(C(r)) : (Keep(tmp, r, d) /\ UNCHANGED doc) \/ Reply(r, "ok")
    BY <1>4 DEF ArchiveGet
  <2>2. tmp'[r] \in {d, NoDoc} /\ doc'[r] \in {doc[r], NoDoc}
    BY <1>1, <2>1, ReplyDrops, KeepGives
  <2>3. QED
    BY <1>1, <2>2, GetHad, SameTouches, HadAlready DEF Touches
<1>5. CASE RemoveGet(r)
  <2>1. PICK d \in Get(C(r)) :
          \/ d # NoDoc /\ Keep(tmp, r, WithoutParticipant(d, U(r))) /\ UNCHANGED doc
          \/ Reply(r, "err") \/ Reply(r, "ok")
    BY <1>5 DEF RemoveGet
  <2>2. PICK e : e = WithoutParticipant(d, U(r))
    OBVIOUS
  <2>3. d # NoDoc => Had(r, e)
    BY <1>1, <2>2, GetHad, EditHad DEF Edited
  <2>4. \/ d # NoDoc /\ tmp'[r] = e /\ doc'[r] = doc[r]
        \/ tmp'[r] = NoDoc /\ doc'[r] = NoDoc
    BY <1>1, <2>1, <2>2, ReplyDrops, KeepGives
  <2>5. QED
    BY <1>1, <2>3, <2>4, SameTouches, HadAlready DEF Touches
<1>6. QED
  BY <1>2, <1>3, <1>4, <1>5

\* MongoDB gets the copy read from Redis, with the creator it had.
LEMMA ArchiveTouches ==
    ASSUME IInv, NEW r \in Requests, ArchiveInsert(r) \/ ArchiveUpdate(r)
    PROVE  Touches(r)
<1>1. /\ pc[r] # "idle" /\ TypeOK /\ C(r) \in Challenges /\ tmp[r] \in Docs
      /\ mongo[C(r)] \in Seq(Docs)
      /\ UNCHANGED redis
  BY JobType DEF IInv, ArchiveInsert, ArchiveUpdate, CopyInHand, TypeOK
<1>2. tmp[r] \in Copies(C(r))
  <2>1. HasCopy(C(r), tmp[r])
    BY <1>1, NoDocAssumption, JobType, NoJobAssumption DEF HasCopy
  <2>2. QED
    BY <2>1, CopyWhere
<1>3. doc'[r] \in {doc[r], NoDoc} /\ tmp'[r] \in {tmp[r], NoDoc}
  BY <1>1, ReplyDrops DEF ArchiveInsert, ArchiveUpdate, locals
<1>4. CASE ArchiveInsert(r)
  <2>1. mongo' = mongo \/ mongo' = [mongo EXCEPT ![C(r)] = Append(@, tmp[r])]
    BY <1>4 DEF ArchiveInsert
  <2>2. \A i \in DOMAIN Append(mongo[C(r)], tmp[r]) :
          \/ i \in DOMAIN mongo[C(r)] /\ Append(mongo[C(r)], tmp[r])[i] = mongo[C(r)][i]
          \/ Append(mongo[C(r)], tmp[r])[i] = tmp[r]
    BY <1>1
  <2>3. \A i \in DOMAIN mongo'[C(r)] : Had(r, mongo'[C(r)][i])
    BY <1>1, <2>1, <2>2, HadAlready DEF TypeOK
  <2>4. \A b \in Challenges \ {C(r)} : mongo'[b] = mongo[b]
    BY <1>1, <2>1 DEF TypeOK
  <2>5. QED
    BY <1>1, <1>3, <2>3, <2>4, HadAlready DEF Touches
<1>5. CASE ArchiveUpdate(r)
  <2>1. PICK i \in DOMAIN mongo[C(r)] :
          \/ mongo' = mongo
          \/ mongo' = [mongo EXCEPT ![C(r)][i] = [tmp[r] EXCEPT !.creator = mongo[C(r)][i].creator]]
    BY <1>5 DEF ArchiveUpdate
  <2>2. mongo[C(r)][i] \in Copies(C(r))
    <3>1. mongo[C(r)][i] \in Docs
      BY <1>1
    <3>2. HasCopy(C(r), mongo[C(r)][i])
      BY <3>1, NoDocAssumption DEF HasCopy
    <3>3. QED
      BY <3>2, CopyWhere
  <2>3. PICK e : e = [tmp[r] EXCEPT !.creator = mongo[C(r)][i].creator]
    OBVIOUS
  <2>4. Had(r, e)
    BY <1>2, <2>2, <2>3, EditHad DEF Edited
  <2>5. \A k \in DOMAIN mongo'[C(r)] :
          k \in DOMAIN mongo[C(r)] /\ (mongo'[C(r)][k] = mongo[C(r)][k] \/ mongo'[C(r)][k] = e)
    BY <1>1, <2>1, <2>3 DEF TypeOK
  <2>6. \A k \in DOMAIN mongo'[C(r)] : Had(r, mongo'[C(r)][k])
    BY <1>1, <2>4, <2>5, HadAlready
  <2>7. \A b \in Challenges \ {C(r)} : mongo'[b] = mongo[b]
    BY <1>1, <2>1 DEF TypeOK
  <2>8. QED
    BY <1>1, <1>3, <2>6, <2>7, HadAlready DEF Touches
<1>6. QED
  BY <1>4, <1>5

\* A step is a step of a request that has arrived.
LEMMA StepBegun ==
    ASSUME NEW r \in Requests, Step(r)
    PROVE  pc[r] \in Steps /\ pc[r] # "idle"
<1>1. CASE \/ ListKeys(r) \/ CheckKey(r) \/ StoreNew(r) \/ LoadForJoin(r) \/ LoadForPush(r)
           \/ LoadForAbandon(r) \/ LoadForEnd(r) \/ LoadForLeave(r) \/ LoadForRetrieve(r)
           \/ ParticipantGet(r) \/ ParticipantSet(r) \/ WriteBack(r)
  BY <1>1 DEF ListKeys, CheckKey, StoreNew, LoadForJoin, LoadForPush, LoadForAbandon,
              LoadForEnd, LoadForLeave, LoadForRetrieve, CreatorOnly, ParticipantGet,
              ParticipantSet, WriteBack, Steps
<1>2. CASE \/ InitializeLeaderboard(r) \/ UpdateParticipantScore(r) \/ GetLeaderboard(r)
           \/ SaveSnapshot(r) \/ MarkGet(r) \/ MarkSet(r) \/ CleanupLeaderboard(r)
  BY <1>2 DEF InitializeLeaderboard, UpdateParticipantScore, GetLeaderboard, SaveSnapshot,
              MarkGet, MarkSet, CleanupLeaderboard, Steps
<1>3. CASE \/ ArchiveGet(r) \/ ArchiveFind(r) \/ ArchiveInsert(r) \/ ArchiveUpdate(r)
           \/ ArchiveDelete(r) \/ RemoveGet(r) \/ RemoveSet(r) \/ ReadRedis(r) \/ ReadMongo(r)
  BY <1>3 DEF ArchiveGet, ArchiveFind, ArchiveInsert, ArchiveUpdate, ArchiveDelete, RemoveGet,
              RemoveSet, ReadRedis, ReadMongo, Steps
<1>4. QED
  BY <1>1, <1>2, <1>3 DEF Step

\* Every step of a handler changes the stores at its challenge only.
LEMMA StepTouches ==
    ASSUME IInv, NEW r \in Requests, Step(r)
    PROVE  Touches(r)
BY NoCopyTouches, LoadTouches, ParticipantTouches, WriteTouches, StoreNewTouches, GetTouches,
   ArchiveTouches DEF Step

\* Every step of a handler makes copies only in the ways Made lists.
LEMMA StepFlows ==
    ASSUME IInv, NEW r \in Requests, Step(r)
    PROVE  Flow(r)
<1>1. Touches(r)
  BY StepTouches
<1>2. pc[r] # "idle"
  BY StepBegun
<1>3. job' = job
  BY StepKeepsJob
<1>4. OthersKeep(r)
  BY StepSafe DEF Safe
<1>5. QED
  BY <1>1, <1>2, <1>3, <1>4, TouchesFlow

(***************************************************************************)
(* Steps, as the invariant of the copies needs them.                       *)
(***************************************************************************)
\* A create comes to the scan from its start only, and leaves it by storing.
LEMMA BirthSteps ==
    ASSUME IInv, NEW r \in Requests, Step(r)
    PROVE  /\ pc'[r] \in {"keys", "scan"} => pc[r] \in {"keys", "scan"}
           /\ StoreNew(r) => pc[r] = "scan" /\ pc'[r] \notin {"keys", "scan"}
<1>1. TypeOK
  BY DEF IInv
<1>2. CASE ListKeys(r) \/ CheckKey(r) \/ StoreNew(r)
  BY <1>1, <1>2 DEF ListKeys, CheckKey, StoreNew, TypeOK, Goto, Reply
<1>3. CASE \/ LoadForJoin(r) \/ LoadForPush(r) \/ LoadForAbandon(r)
           \/ LoadForEnd(r) \/ LoadForLeave(r) \/ LoadForRetrieve(r)
  BY <1>1, <1>3 DEF LoadForJoin, LoadForPush, LoadForAbandon, LoadForEnd, LoadForLeave,
                    LoadForRetrieve, CreatorOnly, Proceed, TypeOK, Goto, Reply, StoreNew
<1>4. CASE \/ ParticipantGet(r) \/ ParticipantSet(r) \/ WriteBack(r) \/ InitializeLeaderboard(r)
           \/ UpdateParticipantScore(r) \/ GetLeaderboard(r) \/ SaveSnapshot(r)
  BY <1>1, <1>4 DEF ParticipantGet, ParticipantSet, WriteBack, InitializeLeaderboard,
                    UpdateParticipantScore, GetLeaderboard, SaveSnapshot, TypeOK, Goto, Reply, StoreNew
<1>5. CASE \/ MarkGet(r) \/ MarkSet(r) \/ CleanupLeaderboard(r) \/ ArchiveGet(r) \/ ArchiveFind(r)
           \/ ArchiveInsert(r) \/ ArchiveUpdate(r) \/ ArchiveDelete(r)
  BY <1>1, <1>5 DEF MarkGet, MarkSet, CleanupLeaderboard, ArchiveGet, ArchiveFind, ArchiveInsert,
                    ArchiveUpdate, ArchiveDelete, TypeOK, Goto, Reply, StoreNew
<1>6. CASE RemoveGet(r) \/ RemoveSet(r) \/ ReadRedis(r) \/ ReadMongo(r)
  BY <1>1, <1>6 DEF RemoveGet, RemoveSet, ReadRedis, ReadMongo, TypeOK, Goto, Reply, StoreNew
<1>7. QED
  BY <1>2, <1>3, <1>4, <1>5, <1>6 DEF Step

\* The termination of a challenge begins with the check of its creator.
LEMMA PastSteps ==
    ASSUME IInv, NEW r \in Requests, Step(r), pc'[r] \in Past
    PROVE  \/ pc[r] \in Past
           \/ \E d \in Copies(C(r)) : d = redis[C(r)] /\ d.creator = U(r)
<1>1. TypeOK
  BY DEF IInv
<1>2. CASE ListKeys(r) \/ CheckKey(r) \/ StoreNew(r)
  BY <1>1, <1>2 DEF ListKeys, CheckKey, StoreNew, TypeOK, Goto, Reply, Past
<1>3. CASE LoadForJoin(r) \/ LoadForPush(r) \/ LoadForLeave(r) \/ LoadForRetrieve(r)
  BY <1>1, <1>3 DEF LoadForJoin, LoadForPush, LoadForLeave,
                    LoadForRetrieve, CreatorOnly, Proceed, TypeOK, Goto, Reply, Past
<1>4. CASE LoadForAbandon(r) \/ LoadForEnd(r)
  <2>1. PICK d \in Get(C(r)), step \in {"markGet", "closeBoard"} :
          Proceed(r, d # NoDoc /\ d.creator = U(r), NoDoc, step)
    BY <1>4 DEF LoadForAbandon, LoadForEnd, CreatorOnly
  <2>2. CASE d # NoDoc /\ d.creator = U(r)
    <3>1. HasCopy(C(r), d) /\ d = redis[C(r)]
      BY <2>2 DEF Get, HasCopy
    <3>2. QED
      BY <2>2, <3>1, CopyWhere
  <2>3. CASE ~(d # NoDoc /\ d.creator = U(r))
    BY <1>1, <2>1, <2>3 DEF Proceed, Reply, Goto, TypeOK, Past
  <2>4. QED
    BY <2>2, <2>3
<1>5. CASE \/ ParticipantGet(r) \/ ParticipantSet(r) \/ WriteBack(r) \/ InitializeLeaderboard(r)
           \/ UpdateParticipantScore(r) \/ GetLeaderboard(r) \/ SaveSnapshot(r)
  BY <1>1, <1>5 DEF ParticipantGet, ParticipantSet, WriteBack, InitializeLeaderboard,
                    UpdateParticipantScore, GetLeaderboard, SaveSnapshot, TypeOK, Goto, Reply, Past
<1>6. CASE \/ MarkGet(r) \/ MarkSet(r) \/ CleanupLeaderboard(r) \/ ArchiveGet(r) \/ ArchiveFind(r)
           \/ ArchiveInsert(r) \/ ArchiveUpdate(r) \/ ArchiveDelete(r)
  BY <1>6 DEF MarkGet, MarkSet, CleanupLeaderboard, ArchiveGet, ArchiveFind, ArchiveInsert,
              ArchiveUpdate, ArchiveDelete, Past
<1>7. CASE RemoveGet(r) \/ RemoveSet(r) \/ ReadRedis(r) \/ ReadMongo(r)
  BY <1>1, <1>7 DEF RemoveGet, RemoveSet, ReadRedis, ReadMongo, TypeOK, Goto, Reply, Past
<1>8. QED
  BY <1>2, <1>3, <1>4, <1>5, <1>6, <1>7 DEF Step

\* A handler that answers drops its copies.
LEMMA EmptySteps ==
    ASSUME IInv, NEW r \in Requests, Step(r)
    PROVE  Empty(r)'
<1>1. TypeOK
  BY DEF IInv
<1>2. CASE ListKeys(r) \/ CheckKey(r) \/ StoreNew(r)
  BY <1>1, <1>2, ReplyDrops DEF ListKeys, CheckKey, StoreNew, TypeOK, Goto, Steps, Empty
<1>3. CASE LoadForJoin(r) \/ LoadForPush(r) \/ LoadForRetrieve(r)
  BY <1>1, <1>3, ReplyDrops DEF LoadForJoin, LoadForPush,
                    LoadForRetrieve, Proceed, TypeOK, Goto, Steps, Empty
<1>4. CASE LoadForAbandon(r) \/ LoadForEnd(r) \/ LoadForLeave(r)
  <2>1. PICK d \in Get(C(r)), step \in {"markGet", "closeBoard", "remGet"} :
          Proceed(r, d # NoDoc /\ d.creator = U(r), NoDoc, step)
    BY <1>4 DEF LoadForAbandon, LoadForEnd, LoadForLeave, CreatorOnly
  <2>2. QED
    BY <1>1, <2>1, ReplyDrops DEF Proceed, TypeOK, Goto, Steps, Empty
<1>5. CASE \/ ParticipantGet(r) \/ ParticipantSet(r) \/ WriteBack(r) \/ InitializeLeaderboard(r)
           \/ UpdateParticipantScore(r) \/ GetLeaderboard(r) \/ SaveSnapshot(r)
  BY <1>1, <1>5, ReplyDrops DEF ParticipantGet, ParticipantSet, WriteBack, InitializeLeaderboard,
                    UpdateParticipantScore, GetLeaderboard, SaveSnapshot, TypeOK, Goto, Steps, Empty
<1>6. CASE \/ MarkGet(r) \/ MarkSet(r) \/ CleanupLeaderboard(r) \/ ArchiveGet(r) \/ ArchiveFind(r)
           \/ ArchiveInsert(r) \/ ArchiveUpdate(r) \/ ArchiveDelete(r)
  BY <1>1, <1>6, ReplyDrops
     DEF MarkGet, MarkSet, CleanupLeaderboard, ArchiveGet, ArchiveFind, ArchiveInsert,
              ArchiveUpdate, ArchiveDelete, TypeOK, Goto, Steps, Empty
<1>7. CASE RemoveGet(r) \/ RemoveSet(r) \/ ReadRedis(r) \/ ReadMongo(r)
  BY <1>1, <1>7, ReplyDrops DEF RemoveGet, RemoveSet, ReadRedis, ReadMongo, TypeOK, Goto, Steps, Empty
<1>8. QED
  BY <1>2, <1>3, <1>4, <1>5, <1>6, <1>7 DEF Step

(***************************************************************************)
(* The invariant of the copies is one.                                     *)
(***************************************************************************)
\* A new copy has the creator of an old one, unless it is the first.
LEMMA MadeCreator ==
    ASSUME IInv, NEW r \in Requests, pc[r] # "idle", NEW d, Made(r, d)
    PROVE  \/ StoreNew(r) /\ Creates(r, C(r)) /\ d = NewDoc(U(r))
           \/ \E e \in Copies(C(r)) : d.creator = e.creator
<1>1. ASSUME NEW e \in Copies(C(r)), Edited(r, e, d)
      PROVE  \E f \in Copies(C(r)) : d.creator = f.creator
  <2>1. e \in Docs
    BY JobType, CopyType DEF IInv
  <2>2. CASE \E f \in Copies(C(r)) : d = [e EXCEPT !.creator = f.creator]
    BY <2>1, <2>2 DEF Docs
  <2>3. CASE d.creator = e.creator
    BY <2>3
  <2>4. \/ d.creator = e.creator
        \/ \E f \in Copies(C(r)) : d = [e EXCEPT !.creator = f.creator]
    BY <1>1, <2>1 DEF Edited, Docs, WithParticipant, WithoutParticipant, Credit
  <2>5. QED
    BY <2>2, <2>3, <2>4
<1>2. QED
  BY <1>1 DEF Made

\* A challenge that is held has a copy.
LEMMA HeldHasCopy ==
    ASSUME TypeOK, NEW c \in Challenges, Held(c)
    PROVE  Copies(c) # {}
<1>1. CASE redis[c] # NoDoc
  <2>1. HasCopy(c, redis[c])
    BY <1>1 DEF HasCopy
  <2>2. QED
    BY <2>1, CopyWhere
<1>2. CASE mongo[c] # <<>>
  <2>1. mongo[c] \in Seq(Docs) /\ 1 \in DOMAIN mongo[c]
    BY <1>2 DEF TypeOK
  <2>2. mongo[c][1] \in Docs
    BY <2>1
  <2>3. HasCopy(c, mongo[c][1])
    BY <2>1, <2>2, NoDocAssumption DEF HasCopy
  <2>4. QED
    BY <2>3, CopyWhere
<1>3. QED
  BY <1>1, <1>2 DEF Held

\* What all steps of handlers have in common.
LEMMA StepFacts ==
    ASSUME IInv, NEW r \in Requests, Step(r)
    PROVE  /\ job' = job
           /\ pc[r] \in Steps /\ pc[r] # "idle" /\ job[r] \in Jobs /\ C(r) \in Challenges
           /\ Flow(r) /\ Touches(r) /\ OthersKeep(r) /\ StoresKeep
           /\ TypeOK /\ TypeOK'
<1>1. Safe(r) /\ job' = job
  BY StepSafe, StepKeepsJob
<1>2. pc[r] \in Steps /\ pc[r] # "idle"
  BY StepBegun
<1>3. QED
  BY <1>1, <1>2, StepFlows, StepTouches, JobType, StepKeeps DEF Safe, IInv

\* A handler's step leaves a challenge unborn only when it was, and without
\* a copy.
LEMMA UnbornSteps ==
    ASSUME IInv, CopiesInv, NEW r \in Requests, Step(r), NEW c \in Challenges, Unborn(c)'
    PROVE  Unborn(c) /\ ~(c = C(r) /\ StoreNew(r) /\ Creates(r, c))
<1>1. job' = job /\ OthersKeep(r)
  BY StepFacts
<1>2. \A q \in Requests : Creates(q, c)' <=> Creates(q, c)
  BY <1>1 DEF Creates, Is, C
<1>3. Named(c)' <=> Named(c)
  BY <1>1 DEF Named, C
<1>4. \A q \in Requests : pc'[q] \in {"keys", "scan"} => pc[q] \in {"keys", "scan"}
  BY <1>1, BirthSteps DEF OthersKeep
<1>5. Unborn(c)
  BY <1>2, <1>3, <1>4 DEF Unborn
<1>6. ASSUME StoreNew(r), Creates(r, c)
      PROVE  FALSE
  <2>1. Named(c)
    BY <1>6 DEF Creates, Is, Named
  <2>2. PICK q \in Requests : Creates(q, c) /\ pc'[q] \in {"keys", "scan"}
    BY <1>2, <1>3, <2>1 DEF Unborn
  <2>3. q = r
    BY <1>6, <2>2 DEF CopiesInv, CreatedOnce
  <2>4. QED
    BY <1>6, <2>2, <2>3, BirthSteps
<1>7. QED
  BY <1>5, <1>6

\* The creator of every copy after a step: the one there was, or, when there
\* was no copy at all, the user of the create.
LEMMA CreatorAfter ==
    ASSUME IInv, CopiesInv, NEW r \in Requests, Step(r), NEW c \in Challenges
    PROVE  \/ \A d \in Copies(c)' : \E e \in Copies(c) : d.creator = e.creator
           \/ /\ Copies(c) = {} /\ Unborn(c)
              /\ \A d \in Copies(c)' : d = NewDoc(U(r))
<1>1. pc[r] # "idle" /\ Flow(r)
  BY StepFacts
<1>2. CASE c = C(r) /\ StoreNew(r) /\ Creates(r, c)
  <2>1. pc[r] = "scan"
    BY <1>2, BirthSteps
  <2>2. Unborn(c)
    BY <1>2, <2>1 DEF Unborn
  <2>3. Copies(c) = {}
    BY <2>2 DEF CopiesInv, NoneBeforeBirth
  <2>4. \A d \in Copies(c)' : d = NewDoc(U(r))
    BY <1>1, <1>2, <2>3, MadeCreator DEF Flow
  <2>5. QED
    BY <2>2, <2>3, <2>4
<1>3. CASE ~(c = C(r) /\ StoreNew(r) /\ Creates(r, c))
  BY <1>1, <1>3, MadeCreator DEF Flow
<1>4. QED
  BY <1>2, <1>3

\* A termination stays one by the creator, whatever the step of r brings.
LEMMA CheckedKeeps ==
    ASSUME IInv, CopiesInv, NEW r \in Requests, Step(r), NEW q \in Requests, pc'[q] \in Past
    PROVE  Held(C(q))' /\ \A d \in Copies(C(q))' : d.creator = U(q)
<1>1. job' = job /\ OthersKeep(r) /\ StoresKeep /\ TypeOK
  BY StepFacts
<1>2. Held(C(q)) /\ \A d \in Copies(C(q)) : d.creator = U(q)
  <2>1. CASE pc[q] \in Past
    BY <2>1 DEF CopiesInv, Checked
  <2>2. CASE pc[q] \notin Past
    <3>1. q = r
      BY <1>1, <2>2 DEF OthersKeep
    <3>2. PICK d \in Copies(C(q)) : d = redis[C(q)] /\ d.creator = U(q)
      BY <2>2, <3>1, PastSteps
    <3>3. d # NoDoc
      BY CopyWhere DEF HasCopy
    <3>4. C(q) \in Challenges
      BY <3>1, StepFacts
    <3>5. \A e \in Copies(C(q)) : e.creator = d.creator
      BY <3>4 DEF CopiesInv, CreatorsAgree
    <3>6. QED
      BY <3>2, <3>3, <3>5 DEF Held
  <2>3. QED
    BY <2>1, <2>2
<1>3. C(q) \in Challenges
  <2>1. pc[q] # "idle"
    <3>1. q = r \/ pc[q] = pc'[q]
      BY <1>1 DEF OthersKeep
    <3>2. QED
      BY <3>1, StepFacts DEF Past
  <2>2. QED
    BY <2>1, JobType
<1>4. C(q)' = C(q)
  BY <1>1 DEF C
<1>5. Copies(C(q)) # {}
  BY <1>1, <1>2, <1>3, HeldHasCopy
<1>6. \A d \in Copies(C(q))' : \E e \in Copies(C(q)) : d.creator = e.creator
  <2>1. PICK c \in Challenges : c = C(q)
    BY <1>3
  <2>2. \A d \in Copies(c)' : \E e \in Copies(c) : d.creator = e.creator
    BY <1>5, <2>1, CreatorAfter
  <2>3. QED
    BY <1>4, <2>1, <2>2
<1>7. QED
  BY <1>1, <1>2, <1>3, <1>4, <1>6 DEF StoresKeep

\* Nobody but the creator finishes a copy.
LEMMA TerminatesKeeps ==
    ASSUME IInv, CopiesInv, NEW r \in Requests, Step(r)
    PROVE  OnlyCreatorTerminates'
<1>1. job' = job /\ Flow(r) /\ pc[r] # "idle" /\ C(r) \in Challenges /\ TypeOK
  BY StepFacts
<1> DEFINE Ended(c, d) == d.status \in Terminal =>
              \E q \in Requests : /\ Is(q, {IF d.status = "abandon" THEN "abandon" ELSE "end"})
                                  /\ C(q) = c /\ U(q) = d.creator
<1>2. \A c \in Challenges : \A d \in Copies(c) : Ended(c, d)
  BY DEF CopiesInv, OnlyCreatorTerminates
<1>3. ASSUME NEW e \in Copies(C(r)), NEW d, Edited(r, e, d)
      PROVE  Ended(C(r), d)
  <2>1. e \in Docs
    BY <1>1, CopyType
  <2>2. CASE \E f \in Copies(C(r)) : d = [e EXCEPT !.creator = f.creator]
    <3>1. d.creator = e.creator /\ d.status = e.status
      BY <1>1, <2>1, <2>2 DEF Docs, CopiesInv, CreatorsAgree
    <3>2. QED
      BY <1>1, <1>2, <3>1
  <2>3. CASE /\ Is(r, {"abandon", "end"})
             /\ pc[r] = "markGet"
             /\ job[r].op = "abandon" => e.creator = U(r)
             /\ d = [e EXCEPT !.status = Mark(r)]
    <3>1. e.creator = U(r)
      BY <2>3 DEF CopiesInv, Checked, Past
    <3>2. d.creator = U(r) /\ d.status = Mark(r)
      BY <2>1, <2>3, <3>1 DEF Docs
    <3>3. Is(r, {IF d.status = "abandon" THEN "abandon" ELSE "end"})
      BY <2>3, <3>2 DEF Is, Mark
    <3>4. QED
      BY <3>2, <3>3
  <2>4. CASE d.creator = e.creator /\ d.status = e.status
    BY <1>1, <1>2, <2>4
  <2>5. \/ d.creator = e.creator /\ d.status = e.status
        \/ \E f \in Copies(C(r)) : d = [e EXCEPT !.creator = f.creator]
        \/ /\ Is(r, {"abandon", "end"})
           /\ pc[r] = "markGet"
           /\ job[r].op = "abandon" => e.creator = U(r)
           /\ d = [e EXCEPT !.status = Mark(r)]
    BY <1>3, <2>1 DEF Edited, Docs, WithParticipant, WithoutParticipant, Credit
  <2>6. QED
    BY <2>2, <2>3, <2>4, <2>5
<1>4. ASSUME NEW u
      PROVE  NewDoc(u).status \notin Terminal
  BY DEF NewDoc, Terminal
<1>5. \A c \in Challenges : \A d \in Copies(c)' : Ended(c, d)
  <2> SUFFICES ASSUME NEW c \in Challenges, NEW d \in Copies(c)'
               PROVE  Ended(c, d)
    OBVIOUS
  <2>1. CASE d \in Copies(c)
    BY <1>2, <2>1
  <2>2. CASE c = C(r) /\ Made(r, d)
    <3>1. CASE d = NewDoc(U(r))
      BY <1>4, <3>1
    <3>2. CASE \E e \in Copies(C(r)) : Edited(r, e, d)
      BY <1>3, <2>2, <3>2
    <3>3. QED
      BY <2>2, <3>1, <3>2 DEF Made
  <2>3. QED
    BY <1>1, <2>1, <2>2 DEF Flow
<1>6. \A q \in Requests : \A c, u, ops : Is(q, ops) /\ C(q) = c /\ U(q) = u
                                         => (Is(q, ops) /\ C(q) = c /\ U(q) = u)'
  BY <1>1 DEF Is, C, U
<1>7. QED
  BY <1>5, <1>6 DEF OnlyCreatorTerminates

\* A handler's step keeps the invariant.
LEMMA StepCopies ==
    ASSUME IInv, CopiesInv, NEW r \in Requests, Step(r)
    PROVE  CopiesInv'
<1>1. job' = job /\ OthersKeep(r) /\ TypeOK
  BY StepFacts
<1>2. CreatedOnce'
  BY <1>1 DEF CopiesInv, CreatedOnce, Creates, Is, C
<1>3. NoneBeforeBirth'
  <2> SUFFICES ASSUME NEW c \in Challenges, Unborn(c)'
               PROVE  Copies(c)' = {}
    BY DEF NoneBeforeBirth
  <2>1. Unborn(c) /\ ~(c = C(r) /\ StoreNew(r) /\ Creates(r, c))
    BY UnbornSteps
  <2>2. Copies(c) = {}
    BY <2>1 DEF CopiesInv, NoneBeforeBirth
  <2>3. QED
    BY <2>1, <2>2, StepFacts, MadeCreator DEF Flow
<1>4. CreatorsAgree'
  <2> SUFFICES ASSUME NEW c \in Challenges, NEW d \in Copies(c)', NEW e \in Copies(c)'
               PROVE  d.creator = e.creator
    BY DEF CreatorsAgree
  <2>1. \A f, g \in Copies(c) : f.creator = g.creator
    BY DEF CopiesInv, CreatorsAgree
  <2>2. QED
    BY <2>1, CreatorAfter
<1>5. ASSUME NEW q \in Requests
      PROVE  Checked(q)'
  <2>1. U(q)' = U(q)
    BY <1>1 DEF U
  <2>2. QED
    BY <2>1, CheckedKeeps DEF Checked
<1>6. ASSUME NEW q \in Requests
      PROVE  Empty(q)'
  <2>1. CASE q = r
    BY <2>1, EmptySteps
  <2>2. CASE q # r
    BY <1>1, <2>2 DEF OthersKeep, CopiesInv, Empty
  <2>3. QED
    BY <2>1, <2>2
<1>7. QED
  BY <1>2, <1>3, <1>4, <1>5, <1>6, TerminatesKeeps DEF CopiesInv

\* A request that arrives holds nothing, so there is no new copy.
LEMMA ArrivalNoCopy ==
    ASSUME IInv, CopiesInv, NEW r \in Requests, Receive(r)
    PROVE  /\ UNCHANGED <<redis, mongo, doc, tmp>>
           /\ job[r] = NoJob
           /\ \A q \in Requests \ {r} : job'[q] = job[q] /\ pc'[q] = pc[q]
           /\ \A c : \A d \in Copies(c)' : d \in Copies(c)
<1>1. TypeOK /\ UNCHANGED <<redis, mongo, doc, tmp>> /\ pc[r] = "idle"
  BY DEF IInv, Receive, stores, locals
<1>2. job[r] = NoJob /\ doc[r] = NoDoc /\ tmp[r] = NoDoc
  BY <1>1 DEF IInv, OpInPlace, CopiesInv, Empty, Steps
<1>3. \A q \in Requests \ {r} : job'[q] = job[q] /\ pc'[q] = pc[q]
  BY <1>1 DEF TypeOK, Receive
<1>4. ASSUME NEW c, NEW d \in Copies(c)'
      PROVE  d \in Copies(c)
  <2>1. HasCopy(c, d)'
    BY CopyWhereNext
  <2>2. HasCopy(c, d)
    BY <1>1, <1>2, <1>3, <2>1 DEF HasCopy, C
  <2>3. QED
    BY <2>2, CopyWhere
<1>5. QED
  BY <1>1, <1>2, <1>3, <1>4

\* It keeps the invariant: what it creates nobody else creates.
LEMMA ArrivalCopies ==
    ASSUME IInv, CopiesInv, NEW r \in Requests, Receive(r)
    PROVE  CopiesInv'
<1>1. TypeOK /\ UNCHANGED <<redis, mongo, doc, tmp>> /\ pc[r] = "idle"
  BY DEF IInv, Receive, stores, locals
<1>2. job[r] = NoJob
  BY ArrivalNoCopy
<1>3. PICK j \in Jobs : /\ (j.op = "create") = ~Named(j.c)
                        /\ job' = [job EXCEPT ![r] = j]
                        /\ pc' = [pc EXCEPT ![r] = Entry[j.op]]
  BY DEF Receive
<1>4. job'[r] = j /\ pc'[r] = Entry[j.op] /\ j # NoJob /\ j.c \in Challenges
  BY <1>1, <1>3, NoJobAssumption DEF TypeOK, Jobs
<1>5. \A q \in Requests \ {r} : job'[q] = job[q] /\ pc'[q] = pc[q]
  BY ArrivalNoCopy
<1>6. \A c : \A d \in Copies(c)' : d \in Copies(c)
  BY ArrivalNoCopy
<1>7. \A q \in Requests : Is(q, {"create"}) =>
        Named(C(q)) /\ C(q)' = C(q) /\ q # r
  BY <1>2, <1>5 DEF Is, Named, C
<1>8. \A q \in Requests : \A c : Creates(q, c)' <=> Creates(q, c) \/ (q = r /\ j.op = "create" /\ c = j.c)
  BY <1>2, <1>4, <1>5 DEF Creates, Is, C
<1>9. CreatedOnce'
  <2> SUFFICES ASSUME NEW q \in Requests, NEW c \in Challenges, Creates(q, c)'
               PROVE  c \notin Preloaded /\ \A p \in Requests : Creates(p, c)' => p = q
    BY DEF CreatedOnce
  <2>1. \A p \in Requests : Creates(p, c) => Named(c)
    BY <1>7 DEF Creates
  <2>2. j.op = "create" => ~Named(j.c)
    BY <1>3
  <2>3. \A p \in Requests : Creates(p, c) => c \notin Preloaded /\ \A s \in Requests : Creates(s, c) => s = p
    BY DEF CopiesInv, CreatedOnce
  <2>4. c \in Preloaded => Named(c)
    BY DEF Named
  <2>5. QED
    BY <1>8, <2>1, <2>2, <2>3, <2>4
<1>10. NoneBeforeBirth'
  <2> SUFFICES ASSUME NEW c \in Challenges, Unborn(c)'
               PROVE  Copies(c)' = {}
    BY DEF NoneBeforeBirth
  <2>1. Named(c) => Named(c)'
    BY <1>2, <1>5 DEF Named, C
  <2>2. CASE ~Named(c)'
    BY <1>6, <2>1, <2>2 DEF Unborn, CopiesInv, NoneBeforeBirth
  <2>3. CASE \E q \in Requests : Creates(q, c)' /\ pc'[q] \in {"keys", "scan"}
    <3>1. PICK q \in Requests : Creates(q, c)' /\ pc'[q] \in {"keys", "scan"}
      BY <2>3
    <3>2. CASE q = r
      BY <1>2, <1>3, <1>6, <1>8, <3>1, <3>2 DEF Unborn, CopiesInv, NoneBeforeBirth, Creates, Is
    <3>3. CASE q # r
      BY <1>5, <1>6, <1>8, <3>1, <3>3 DEF Unborn, CopiesInv, NoneBeforeBirth
    <3>4. QED
      BY <3>2, <3>3
  <2>4. QED
    BY <2>2, <2>3 DEF Unborn
<1>11. CreatorsAgree'
  BY <1>6 DEF CopiesInv, CreatorsAgree
<1>12. ASSUME NEW q \in Requests
       PROVE  Checked(q)' /\ Empty(q)'
  <2>1. CASE q = r
    <3>1. j.op \in MemberOps \union {"push", "retrieve", "read"}
      BY DEF Jobs
    <3>2. pc'[r] \in Steps \ Past
      BY <1>4, <3>1 DEF Entry, MemberOps, Steps, Past
    <3>3. QED
      BY <2>1, <3>2 DEF Checked, Empty
  <2>2. CASE q # r
    <3>1. Checked(q) /\ Empty(q)
      BY DEF CopiesInv
    <3>2. Checked(q)'
      BY <1>1, <1>5, <1>6, <2>2, <3>1 DEF Checked, Held, C, U
    <3>3. Empty(q)'
      BY <1>1, <1>5, <2>2, <3>1 DEF Empty
    <3>4. QED
      BY <3>2, <3>3
  <2>3. QED
    BY <2>1, <2>2
<1>13. OnlyCreatorTerminates'
  <2>1. \A q \in Requests : \A c, u, ops : Is(q, ops) /\ C(q) = c /\ U(q) = u
                                          => (Is(q, ops) /\ C(q) = c /\ U(q) = u)'
    BY <1>2, <1>5 DEF Is, C, U
  <2>2. QED
    BY <1>6, <2>1 DEF CopiesInv, OnlyCreatorTerminates
<1>14. QED
  BY <1>9, <1>10, <1>11, <1>12, <1>13 DEF CopiesInv

\* A crash drops copies, and makes none.
LEMMA CrashNoCopy ==
    ASSUME IInv, Crash
    PROVE  /\ UNCHANGED <<redis, mongo, job>>
           /\ \A q \in Requests : /\ doc'[q] = NoDoc /\ tmp'[q] = NoDoc
                                  /\ pc'[q] = pc[q] \/ pc'[q] = "crashed"
                                  /\ pc'[q] \notin Steps
           /\ \A c : \A d \in Copies(c)' : d \in Copies(c)
<1>1. /\ UNCHANGED <<redis, mongo, job>>
      /\ \A q \in Requests : doc'[q] = NoDoc /\ tmp'[q] = NoDoc
      /\ \A q \in Requests : pc'[q] = pc[q] \/ pc'[q] = "crashed"
      /\ \A q \in Requests : pc'[q] \notin Steps
  BY DEF Crash, IInv, TypeOK, Steps
<1>2. ASSUME NEW c, NEW d \in Copies(c)'
      PROVE  d \in Copies(c)
  <2>1. HasCopy(c, d)'
    BY CopyWhereNext
  <2>2. HasCopy(c, d)
    BY <1>1, <2>1 DEF HasCopy, C
  <2>3. QED
    BY <2>2, CopyWhere
<1>3. QED
  BY <1>1, <1>2

\* So it keeps the invariant.
LEMMA CrashCopies ==
    ASSUME IInv, CopiesInv, Crash
    PROVE  CopiesInv'
<1>1. /\ UNCHANGED <<redis, mongo, job>>
      /\ \A q \in Requests : pc'[q] = pc[q] \/ pc'[q] = "crashed"
      /\ \A q \in Requests : doc'[q] = NoDoc /\ tmp'[q] = NoDoc /\ pc'[q] \notin Steps
  BY CrashNoCopy
<1>2. \A c : \A d \in Copies(c)' : d \in Copies(c)
  BY CrashNoCopy
<1>3. CreatedOnce'
  BY <1>1 DEF CopiesInv, CreatedOnce, Creates, Is, C
<1>4. NoneBeforeBirth'
  <2> SUFFICES ASSUME NEW c \in Challenges, Unborn(c)'
               PROVE  Copies(c)' = {}
    BY DEF NoneBeforeBirth
  <2>1. Unborn(c)
    BY <1>1 DEF Unborn, Named, Creates, Is, C, Steps
  <2>2. QED
    BY <1>2, <2>1 DEF CopiesInv, NoneBeforeBirth
<1>5. CreatorsAgree'
  BY <1>2 DEF CopiesInv, CreatorsAgree
<1>6. ASSUME NEW q \in Requests
      PROVE  Checked(q)' /\ Empty(q)'
  BY <1>1 DEF Checked, Empty, Past, Steps
<1>7. OnlyCreatorTerminates'
  BY <1>1, <1>2 DEF CopiesInv, OnlyCreatorTerminates, Is, C, U
<1>8. QED
  BY <1>3, <1>4, <1>5, <1>6, <1>7 DEF CopiesInv

\* At the start there are the documents an earlier process left, one copy each.
LEMMA InitCopies == Init => CopiesInv
<1> SUFFICES ASSUME Init PROVE CopiesInv
  OBVIOUS
<1>1. /\ mongo = [c \in Challenges |-> <<>>]
      /\ \A q \in Requests : job[q] = NoJob /\ doc[q] = NoDoc /\ tmp[q] = NoDoc /\ pc[q] = "idle"
  BY DEF Init
<1>2. \A c \in Challenges : redis[c] # NoDoc => c \in Preloaded /\ redis[c].status = "open"
  BY DEF Init, NewDoc
<1>3. \A c \in Challenges : \A d \in Copies(c) : d = redis[c] /\ d # NoDoc
  <2> SUFFICES ASSUME NEW c \in Challenges, NEW d \in Copies(c)
               PROVE  d = redis[c] /\ d # NoDoc
    OBVIOUS
  <2>1. HasCopy(c, d)
    BY CopyWhere
  <2>2. DOMAIN mongo[c] = {}
    BY <1>1
  <2>3. QED
    BY <1>1, <2>1, <2>2 DEF HasCopy
<1>4. CreatedOnce
  BY <1>1 DEF CreatedOnce, Creates, Is
<1>5. NoneBeforeBirth
  <2> SUFFICES ASSUME NEW c \in Challenges, Unborn(c)
               PROVE  Copies(c) = {}
    BY DEF NoneBeforeBirth
  <2>1. c \notin Preloaded
    BY <1>1 DEF Unborn, Named, Creates, Is
  <2>2. QED
    BY <1>2, <1>3, <2>1
<1>6. CreatorsAgree
  BY <1>3 DEF CreatorsAgree
<1>7. ASSUME NEW q \in Requests
      PROVE  Checked(q) /\ Empty(q)
  BY <1>1 DEF Checked, Empty, Past
<1>8. OnlyCreatorTerminates
  BY <1>2, <1>3 DEF OnlyCreatorTerminates, Terminal
<1>9. QED
  BY <1>4, <1>5, <1>6, <1>7, <1>8 DEF CopiesInv

\* A stuttering step keeps it.
LEMMA StutterCopies ==
    ASSUME CopiesInv, UNCHANGED vars
    PROVE  CopiesInv'
<1>1. \A c, d : d \in Copies(c)' <=> d \in Copies(c)
  BY CopyWhere, CopyWhereNext DEF HasCopy, C, vars
<1>2. /\ CreatedOnce' /\ NoneBeforeBirth' /\ CreatorsAgree'
  BY <1>1 DEF CopiesInv, CreatedOnce, NoneBeforeBirth, CreatorsAgree, Unborn, Named, Creates, Is, C, vars
<1>3. \A r \in Requests : Checked(r)' /\ Empty(r)'
  BY <1>1 DEF CopiesInv, Checked, Empty, Held, C, U, vars
<1>4. OnlyCreatorTerminates'
  BY <1>1 DEF CopiesInv, OnlyCreatorTerminates, Is, C, U, vars
<1>5. QED
  BY <1>2, <1>3, <1>4 DEF CopiesInv

\* All copies of a challenge name one creator, whoever terminates it passed the
\* check as that creator, and before a challenge is stored there is no copy.
THEOREM CopiesInvariance == Spec => []CopiesInv
<1>1. IInv /\ CopiesInv /\ [Next]_vars => CopiesInv'
  BY StepCopies, ArrivalCopies, CrashCopies, StutterCopies DEF Next, AllServed
<1>2. QED
  BY Invariance, InitCopies, <1>1, PTL DEF Spec

\* Whatever copies go stale and come back, and whatever fails, a copy says
\* "abandoned" or "ended" only when the challenge's creator asked for it.
THEOREM TerminatedByCreator == Spec => []OnlyCreatorTerminates
<1>1. CopiesInv => OnlyCreatorTerminates
  BY DEF CopiesInv
<1>2. QED
  BY CopiesInvariance, <1>1, PTL

(***************************************************************************)
(* Points come from pushes.                                                *)
(***************************************************************************)
Granted(c, u, p, s) ==
    \E r \in Requests :
        Is(r, {"push"}) /\ job[r] = [op |-> "push", c |-> c, u |-> u, p |-> p, s |-> s]

\* NoPhantomScore of one document: every problem done and every submission.
Genuine(c, d) ==
    /\ \A u \in DOMAIN d.participants : \A p \in DOMAIN d.participants[u].done :
           Granted(c, u, p, d.participants[u].done[p])
    /\ \A u \in DOMAIN d.submissions : \A p \in DOMAIN d.submissions[u] :
           Granted(c, u, p, d.submissions[u][p])

\* The property says it of every copy.
LEMMA PhantomSplit == NoPhantomScore <=> \A c \in Challenges : \A d \in Copies(c) : Genuine(c, d)
BY DEF NoPhantomScore, Genuine, Granted

\* A map of problems with one more entry.
LEMMA PutEntries ==
    ASSUME NEW m, NEW k, NEW v, NEW x \in DOMAIN Put(m, k, v)
    PROVE  (x = k /\ Put(m, k, v)[x] = v) \/ (x \in DOMAIN m /\ Put(m, k, v)[x] = m[x])
BY DEF Put

\* A new document has no points.
LEMMA NewGenuine ==
    ASSUME NEW c, NEW u
    PROVE  Genuine(c, NewDoc(u))
BY DEF Genuine, NewDoc, FreshMetadata, EmptyMap

\* A push's credit adds the points it was asked to.
LEMMA CreditGenuine ==
    ASSUME IInv, NEW r \in Requests, Is(r, {"push"}), pc[r] # "idle",
           NEW e \in Docs, Genuine(C(r), e), U(r) \in DOMAIN e.participants
    PROVE  Genuine(C(r), Credit(e, U(r), job[r].p, job[r].s))
<1> DEFINE u == U(r)
           p == job[r].p
           s == job[r].s
           done == Put(e.participants[u].done, p, s)
           made == IF u \in DOMAIN e.submissions THEN e.submissions[u] ELSE EmptyMap
           d == Credit(e, u, p, s)
<1>1. Granted(C(r), u, p, s)
  <2>1. job[r] \in Jobs
    BY JobType
  <2>2. job[r] = [op |-> "push", c |-> C(r), u |-> u, p |-> p, s |-> s]
    BY <2>1 DEF Is, Jobs, MemberOps, C, U
  <2>3. QED
    BY <2>2 DEF Granted
<1>2. /\ d.participants = Put(e.participants, u, [done |-> done, total |-> TotalScore(done)])
      /\ d.submissions = Put(e.submissions, u, Put(made, p, s))
  BY DEF Credit, Docs
<1>3. \A q \in DOMAIN done : Granted(C(r), u, q, done[q])
  BY <1>1, PutEntries DEF Genuine
<1>4. \A q \in DOMAIN made : Granted(C(r), u, q, made[q])
  BY DEF Genuine, EmptyMap
<1>5. \A q \in DOMAIN Put(made, p, s) : Granted(C(r), u, q, Put(made, p, s)[q])
  <2> HIDE DEF made, p, s, u
  <2>1. QED
    BY <1>1, <1>4, PutEntries
<1> HIDE DEF u, p, s, done, made, d
<1>6. ASSUME NEW v \in DOMAIN d.participants, NEW q \in DOMAIN d.participants[v].done
      PROVE  Granted(C(r), v, q, d.participants[v].done[q])
  <2>1. CASE v = u /\ d.participants[v] = [done |-> done, total |-> TotalScore(done)]
    BY <1>3, <1>6, <2>1
  <2>2. CASE v \in DOMAIN e.participants /\ d.participants[v] = e.participants[v]
    BY <1>6, <2>2 DEF Genuine
  <2>3. QED
    BY <1>2, <2>1, <2>2, PutEntries
<1>7. ASSUME NEW v \in DOMAIN d.submissions, NEW q \in DOMAIN d.submissions[v]
      PROVE  Granted(C(r), v, q, d.submissions[v][q])
  <2>1. CASE v = u /\ d.submissions[v] = Put(made, p, s)
    BY <1>5, <1>7, <2>1
  <2>2. CASE v \in DOMAIN e.submissions /\ d.submissions[v] = e.submissions[v]
    BY <1>7, <2>2 DEF Genuine
  <2>3. QED
    BY <1>2, <2>1, <2>2, PutEntries
<1>8. Genuine(C(r), d)
  BY <1>6, <1>7 DEF Genuine
<1>9. QED
  BY <1>8 DEF d, u, p, s

\* Every edit keeps the points genuine.
LEMMA EditGenuine ==
    ASSUME IInv, NEW r \in Requests, pc[r] # "idle", NEW e \in Copies(C(r)), NEW d, Edited(r, e, d),
           \A f \in Copies(C(r)) : Genuine(C(r), f)
    PROVE  Genuine(C(r), d)
<1>1. C(r) \in Challenges /\ TypeOK
  BY JobType DEF IInv
<1>2. e \in Docs /\ Genuine(C(r), e)
  BY <1>1, CopyType
<1>3. CASE \E m : Known(r, m) /\ d = WithParticipant(e, U(r), m)
  <2>1. PICK m : Known(r, m) /\ d = WithParticipant(e, U(r), m)
    BY <1>3
  <2>2. d.participants = Put(e.participants, U(r), m) /\ d.submissions = e.submissions
    BY <1>2, <2>1 DEF WithParticipant, Docs
  <2>3. \A p \in DOMAIN m.done : Granted(C(r), U(r), p, m.done[p])
    BY <2>1 DEF Known, Genuine, FreshMetadata, EmptyMap
  <2>4. ASSUME NEW v \in DOMAIN d.participants, NEW q \in DOMAIN d.participants[v].done
        PROVE  Granted(C(r), v, q, d.participants[v].done[q])
    BY <1>2, <2>2, <2>3, <2>4, PutEntries DEF Genuine
  <2>5. QED
    BY <1>2, <2>2, <2>4 DEF Genuine
<1>4. CASE d = WithoutParticipant(e, U(r))
  <2>1. /\ DOMAIN d.participants \subseteq DOMAIN e.participants
        /\ \A v \in DOMAIN d.participants : d.participants[v] = e.participants[v]
        /\ DOMAIN d.submissions \subseteq DOMAIN e.submissions
        /\ \A v \in DOMAIN d.submissions : d.submissions[v] = e.submissions[v]
    BY <1>2, <1>4 DEF WithoutParticipant, Drop, Restrict, Docs
  <2>2. QED
    BY <1>2, <2>1 DEF Genuine
<1>5. CASE /\ Is(r, {"push"})
           /\ U(r) \in DOMAIN e.participants
           /\ d = Credit(e, U(r), job[r].p, job[r].s)
  BY <1>2, <1>5, CreditGenuine
<1>6. CASE \/ \E l : d = [e EXCEPT !.leaderboard = l]
           \/ d = [e EXCEPT !.status = Mark(r)]
           \/ \E f \in Copies(C(r)) : d = [e EXCEPT !.creator = f.creator]
  <2>1. d.participants = e.participants /\ d.submissions = e.submissions
    BY <1>2, <1>6 DEF Docs
  <2>2. QED
    BY <1>2, <2>1 DEF Genuine
<1>7. QED
  BY <1>3, <1>4, <1>5, <1>6 DEF Edited

\* Requests and copies stay, so their points do.
LEMMA StepPoints ==
    ASSUME IInv, NoPhantomScore, NEW r \in Requests, Step(r)
    PROVE  NoPhantomScore'
<1>1. job' = job /\ Flow(r) /\ pc[r] # "idle" /\ C(r) \in Challenges
  BY StepFacts
<1>2. \A c \in Challenges : \A d \in Copies(c) : Genuine(c, d)
  BY PhantomSplit
<1>3. \A c \in Challenges : \A d \in Copies(c)' : Genuine(c, d)
  <2> SUFFICES ASSUME NEW c \in Challenges, NEW d \in Copies(c)'
               PROVE  Genuine(c, d)
    OBVIOUS
  <2>1. CASE d \in Copies(c)
    BY <1>2, <2>1
  <2>2. CASE c = C(r) /\ Made(r, d)
    <3>1. CASE d = NewDoc(U(r))
      BY <3>1, NewGenuine
    <3>2. CASE \E e \in Copies(C(r)) : Edited(r, e, d)
      BY <1>1, <1>2, <2>2, <3>2, EditGenuine
    <3>3. QED
      BY <2>2, <3>1, <3>2 DEF Made
  <2>3. QED
    BY <1>1, <2>1, <2>2 DEF Flow
<1>4. QED
  BY <1>1, <1>3 DEF NoPhantomScore, Genuine, Granted, Is

\* The points of copies that were there before: requests are not forgotten.
LEMMA OtherPoints ==
    ASSUME NoPhantomScore,
           \A c \in Challenges : \A d \in Copies(c)' : d \in Copies(c),
           \A q \in Requests : job[q] # NoJob => job'[q] = job[q]
    PROVE  NoPhantomScore'
<1>1. \A c \in Challenges : \A d \in Copies(c)' : Genuine(c, d)
  BY PhantomSplit
<1>2. \A c, u, p, s : Granted(c, u, p, s) => Granted(c, u, p, s)'
  BY DEF Granted, Is
<1>3. QED
  BY <1>1, <1>2 DEF NoPhantomScore, Genuine, Granted

\* Mixing stale copies, retries and crashes lose points, and never invent or
\* move them: for any number of pushes, users and problems.
THEOREM PointsWerePushed == Spec => []NoPhantomScore
<1>1. Init => NoPhantomScore
  <2> SUFFICES ASSUME Init, NEW c \in Challenges, NEW d \in Copies(c)
               PROVE  Genuine(c, d)
    BY PhantomSplit
  <2>1. d = redis[c] /\ d # NoDoc
    <3>1. HasCopy(c, d)
      BY CopyWhere
    <3>2. mongo[c] = <<>> /\ \A q \in Requests : job[q] = NoJob
      BY DEF Init
    <3>3. QED
      BY <3>1, <3>2 DEF HasCopy
  <2>2. /\ \A u \in DOMAIN d.participants : d.participants[u] = FreshMetadata
        /\ d.submissions = EmptyMap
    <3>1. PICK owner \in [Preloaded -> Users], members \in [Preloaded -> SUBSET Users] :
            redis = [b \in Challenges |->
                        IF b \in Preloaded
                        THEN [NewDoc(owner[b]) EXCEPT
                                !.participants = [u \in members[b] \union {owner[b]} |-> FreshMetadata],
                                !.leaderboard = [u \in members[b] \union {owner[b]} |-> 0]]
                        ELSE NoDoc]
      BY DEF Init
    <3>2. d = [NewDoc(owner[c]) EXCEPT
                 !.participants = [u \in members[c] \union {owner[c]} |-> FreshMetadata],
                 !.leaderboard = [u \in members[c] \union {owner[c]} |-> 0]]
      BY <2>1, <3>1
    <3>3. /\ d.participants = [u \in members[c] \union {owner[c]} |-> FreshMetadata]
          /\ d.submissions = EmptyMap
      BY <3>2 DEF NewDoc
    <3>4. QED
      BY <3>3
  <2>3. QED
    BY <2>2 DEF Genuine, FreshMetadata, EmptyMap
<1>2. IInv /\ CopiesInv /\ NoPhantomScore /\ [Next]_vars => NoPhantomScore'
  <2> SUFFICES ASSUME IInv, CopiesInv, NoPhantomScore, [Next]_vars
               PROVE  NoPhantomScore'
    OBVIOUS
  <2>1. ASSUME NEW r \in Requests, Receive(r)
        PROVE  NoPhantomScore'
    BY <2>1, ArrivalNoCopy, OtherPoints
  <2>2. CASE Crash
    BY <2>2, CrashNoCopy, OtherPoints
  <2>3. CASE UNCHANGED vars
    <3>1. \A c, d : d \in Copies(c)' <=> d \in Copies(c)
      BY <2>3, CopyWhere, CopyWhereNext DEF HasCopy, C, vars
    <3>2. QED
      BY <2>3, <3>1, OtherPoints DEF vars
  <2>4. QED
    BY <2>1, <2>2, <2>3, StepPoints DEF Next, AllServed
<1>3. QED
  BY Invariance, CopiesInvariance, <1>1, <1>2, PTL DEF Spec

(***************************************************************************)
(* Told that it is over, the creator finds the challenge in MongoDB.       *)
(***************************************************************************)
\* While the stores answer, a termination succeeds only past the archive.
LEMMA EndSteps ==
    ASSUME IInv, CopiesInv, ~RedisMayFail, ~MongoMayFail,
           NEW r \in Requests, Step(r), Is(r, {"abandon", "end"}), pc'[r] = "ok"
    PROVE  mongo[C(r)] # <<>>
<1>1. TypeOK /\ OpInPlace(r) /\ ArchiveOrder(r) /\ Checked(r)
  BY DEF IInv, CopiesInv
<1>2. CASE ListKeys(r) \/ CheckKey(r) \/ StoreNew(r)
  BY <1>1, <1>2 DEF ListKeys, CheckKey, StoreNew, OpInPlace, Is
<1>3. CASE \/ LoadForJoin(r) \/ LoadForPush(r) \/ LoadForAbandon(r)
           \/ LoadForEnd(r) \/ LoadForLeave(r) \/ LoadForRetrieve(r)
  BY <1>1, <1>3 DEF LoadForJoin, LoadForPush, LoadForAbandon, LoadForEnd, LoadForLeave,
                    LoadForRetrieve, CreatorOnly, Proceed, TypeOK, Goto, Reply, OpInPlace, Is
<1>4. CASE \/ ParticipantGet(r) \/ ParticipantSet(r) \/ WriteBack(r) \/ InitializeLeaderboard(r)
           \/ UpdateParticipantScore(r) \/ GetLeaderboard(r) \/ SaveSnapshot(r)
  BY <1>1, <1>4 DEF ParticipantGet, ParticipantSet, WriteBack, InitializeLeaderboard,
                    UpdateParticipantScore, GetLeaderboard, SaveSnapshot, OpInPlace, Is
<1>5. CASE MarkGet(r) \/ MarkSet(r) \/ CleanupLeaderboard(r)
  BY <1>1, <1>5 DEF MarkGet, MarkSet, CleanupLeaderboard, TypeOK, Goto, Reply
<1>6. CASE ArchiveGet(r)
  <2>1. Held(C(r))
    BY <1>1, <1>6 DEF ArchiveGet, Checked, Past
  <2>2. redis[C(r)] = NoDoc
    BY <1>1, <1>6 DEF ArchiveGet, Get, Goto, TypeOK
  <2>3. QED
    BY <2>1, <2>2 DEF Held
<1>7. CASE ArchiveFind(r) \/ ArchiveInsert(r) \/ ArchiveUpdate(r)
  BY <1>1, <1>7 DEF ArchiveFind, ArchiveInsert, ArchiveUpdate, Outcomes, Goto, TypeOK
<1>8. CASE ArchiveDelete(r)
  BY <1>1, <1>8 DEF ArchiveDelete, ArchiveOrder
<1>9. CASE RemoveGet(r) \/ RemoveSet(r) \/ ReadRedis(r) \/ ReadMongo(r)
  BY <1>1, <1>9 DEF RemoveGet, RemoveSet, ReadRedis, ReadMongo, OpInPlace, Is
<1>10. QED
  BY <1>2, <1>3, <1>4, <1>5, <1>6, <1>7, <1>8, <1>9 DEF Step

\* Whatever other requests do to the document meanwhile, an abandonment or an
\* end that was acknowledged has the challenge in MongoDB from then on.
THEOREM EndsAreArchived == ~RedisMayFail /\ ~MongoMayFail /\ Spec => []EndedIsArchived
<1> SUFFICES ASSUME ~RedisMayFail, ~MongoMayFail
             PROVE  Spec => []EndedIsArchived
  OBVIOUS
<1>1. Init => EndedIsArchived
  BY DEF Init, EndedIsArchived, Is
<1>2. IInv /\ CopiesInv /\ EndedIsArchived /\ [Next]_vars => EndedIsArchived'
  <2>0. SUFFICES ASSUME IInv, CopiesInv, EndedIsArchived, [Next]_vars
                 PROVE  EndedIsArchived'
    OBVIOUS
  <2> SUFFICES ASSUME NEW q \in Requests, Is(q, {"abandon", "end"})', pc'[q] = "ok"
               PROVE  mongo'[C(q)'] # <<>>
    BY DEF EndedIsArchived
  <2>1. StoresKeep
    BY <2>0, NextKeeps
  <2>2. ASSUME Is(q, {"abandon", "end"}), C(q)' = C(q), mongo[C(q)] # <<>>, pc[q] # "idle"
        PROVE  mongo'[C(q)'] # <<>>
    BY <2>0, <2>1, <2>2, JobType DEF StoresKeep
  <2>3. ASSUME NEW r \in Requests, Step(r)
        PROVE  mongo'[C(q)'] # <<>>
    <3>1. job' = job /\ OthersKeep(r) /\ pc[r] # "idle"
      BY <2>0, <2>3, StepFacts
    <3>2. Is(q, {"abandon", "end"}) /\ C(q)' = C(q)
      BY <3>1 DEF Is, C
    <3>3. mongo[C(q)] # <<>> /\ pc[q] # "idle"
      <4>1. CASE q = r
        BY <2>0, <2>3, <3>1, <3>2, <4>1, EndSteps
      <4>2. CASE q # r
        BY <2>0, <3>1, <3>2, <4>2 DEF OthersKeep, EndedIsArchived
      <4>3. QED
        BY <4>1, <4>2
    <3>4. QED
      BY <2>2, <3>2, <3>3
  <2>4. ASSUME NEW r \in Requests, Receive(r)
        PROVE  mongo'[C(q)'] # <<>>
    <3>1. CASE q = r
      <4>1. pc'[r] \in Steps
        <5>1. TypeOK
          BY <2>0 DEF IInv
        <5>2. PICK j \in Jobs : pc' = [pc EXCEPT ![r] = Entry[j.op]]
          BY <2>4 DEF Receive
        <5>3. j.op \in MemberOps \union {"push", "retrieve", "read"}
          BY DEF Jobs
        <5>4. QED
          BY <5>1, <5>2, <5>3 DEF Entry, MemberOps, Steps, TypeOK
      <4>2. QED
        BY <3>1, <4>1 DEF Steps
    <3>2. CASE q # r
      BY <2>0, <2>2, <2>4, <3>2, ArrivalNoCopy DEF EndedIsArchived, Is, C
    <3>3. QED
      BY <3>1, <3>2
  <2>5. CASE Crash
    <3>1. pc[q] = "ok" /\ job'[q] = job[q]
      BY <2>0, <2>5, CrashNoCopy
    <3>2. QED
      BY <2>0, <2>2, <3>1 DEF EndedIsArchived, Is, C
  <2>6. CASE UNCHANGED vars
    BY <2>0, <2>6 DEF EndedIsArchived, Is, C, vars
  <2>7. QED
    BY <2>0, <2>3, <2>4, <2>5, <2>6 DEF Next, AllServed
<1>3. QED
  BY Invariance, CopiesInvariance, <1>1, <1>2, PTL DEF Spec
====
