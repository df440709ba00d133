---- MODULE ChallengeLifecycleProofs ----
(***************************************************************************)
(* Theorems about ChallengeLifecycle, for every value of its constants:    *)
(* the types, that no challenge is lost, and that the stores implement     *)
(* ChallengeArchive.                                                       *)
(***************************************************************************)
EXTENDS ChallengeLifecycle, GoMapsProofs, TLAPS

(***************************************************************************)
(* The documents: each operation of Documents returns a document.          *)
(***************************************************************************)
\* A collection with one more document.
LEMMA AppendSeq ==
    ASSUME NEW S, NEW s \in Seq(S), NEW e \in S
    PROVE  Append(s, e) \in Seq(S) /\ Append(s, e) # <<>>
<1>1. Append(s, e) \in Seq(S)
  OBVIOUS
<1>2. Len(Append(s, e)) = Len(s) + 1 /\ Len(s) \in Nat
  OBVIOUS
<1>3. Len(<<>>) = 0
  OBVIOUS
<1>4. QED
  BY <1>1, <1>2, <1>3

\* A collection that has nothing for a challenge.
LEMMA EmptySeq == ASSUME NEW S PROVE <<>> \in Seq(S)
OBVIOUS

\* A participant nobody has credited yet.
LEMMA FreshMetadataType == FreshMetadata \in Metadata
BY EmptyMapType DEF FreshMetadata, Metadata, Done, Totals

\* CreateChallenge's document, and one whose members joined before the start.
LEMMA NewDocType ==
    ASSUME NEW u \in Users, NEW S \in SUBSET Users
    PROVE  /\ NewDoc(u) \in Docs
           /\ DOMAIN NewDoc(u).participants = {u}
           /\ [NewDoc(u) EXCEPT !.participants = [x \in S |-> FreshMetadata],
                                !.leaderboard = [x \in S |-> 0]] \in Docs
<1>1. /\ [x \in {u} |-> FreshMetadata] \in PMap(Users, Metadata)
      /\ [x \in S |-> FreshMetadata] \in PMap(Users, Metadata)
  BY FreshMetadataType, MapType
<1>2. /\ [x \in {u} |-> 0] \in PMap(Users, Totals)
      /\ [x \in S |-> 0] \in PMap(Users, Totals)
  BY MapType DEF Totals
<1>3. EmptyMap \in PMap(Users, Done)
  BY EmptyMapType
<1>4. QED
  BY <1>1, <1>2, <1>3 DEF NewDoc, Docs, Statuses

\* AddParticipant's edit, which makes the user a participant.
LEMMA WithParticipantType ==
    ASSUME NEW d \in Docs, NEW u \in Users, NEW m \in Metadata
    PROVE  /\ WithParticipant(d, u, m) \in Docs
           /\ u \in DOMAIN WithParticipant(d, u, m).participants
<1>1. d.participants \in PMap(Users, Metadata)
  BY DEF Docs
<1>2. Put(d.participants, u, m) \in PMap(Users, Metadata)
  BY <1>1, PutType
<1>3. u \in DOMAIN Put(d.participants, u, m)
  BY DEF Put
<1>4. QED
  BY <1>2, <1>3 DEF WithParticipant, Docs

\* RemoveParticipant's edit.
LEMMA WithoutParticipantType ==
    ASSUME NEW d \in Docs, NEW u \in Users
    PROVE  WithoutParticipant(d, u) \in Docs
<1>1. /\ Drop(d.participants, u) \in PMap(Users, Metadata)
      /\ Drop(d.submissions, u) \in PMap(Users, Done)
  BY DropType DEF Docs
<1>2. QED
  BY <1>1 DEF WithoutParticipant, Docs

\* The push's computation: the total it stores is the sum of a map of problems
\* done, so it is a total.
LEMMA CreditType ==
    ASSUME NEW d \in Docs, NEW u \in DOMAIN d.participants,
           NEW p \in Problems, NEW s \in Scores
    PROVE  /\ Credit(d, u, p, s) \in Docs
           /\ u \in DOMAIN Credit(d, u, p, s).participants
<1> DEFINE done == Put(d.participants[u].done, p, s)
           made == IF u \in DOMAIN d.submissions THEN d.submissions[u] ELSE EmptyMap
<1>1. /\ u \in Users
      /\ d.participants[u] \in Metadata
  BY EntryType DEF Docs
<1>2. done \in Done
  BY <1>1, PutType DEF Metadata, Done
<1>3. [done |-> done, total |-> TotalScore(done)] \in Metadata
  BY <1>2 DEF Metadata, Totals
<1>4. /\ Put(d.participants, u, [done |-> done, total |-> TotalScore(done)]) \in PMap(Users, Metadata)
      /\ u \in DOMAIN Put(d.participants, u, [done |-> done, total |-> TotalScore(done)])
  BY <1>1, <1>3, PutType DEF Docs
<1>5. made \in Done
  BY EntryType, EmptyMapType DEF Docs, Done
<1>6. Put(made, p, s) \in Done
  BY <1>5, PutType DEF Done
<1>7. Put(d.submissions, u, Put(made, p, s)) \in PMap(Users, Done)
  BY <1>1, <1>6, PutType DEF Docs
<1> HIDE DEF done, made
<1>8. QED
  BY <1>4, <1>7 DEF Credit, Docs, done, made

(***************************************************************************)
(* The pieces of a step: what a GET returns, what a SET and a change of    *)
(* step or a reply do to the types and to the rest of the state.           *)
(***************************************************************************)
\* The other handlers are where they were, with what they had.
OthersKeep(r) ==
    \A q \in Requests \ {r} :
        pc'[q] = pc[q] /\ job'[q] = job[q] /\ doc'[q] = doc[q] /\ tmp'[q] = tmp[q]

\* No challenge is lost, and nothing leaves MongoDB.
StoresKeep ==
    \A c \in Challenges : /\ Held(c) => Held(c)'
                          /\ mongo[c] # <<>> => mongo'[c] # <<>>

\* What the invariant says of one handler.
Shape(r) == OpInPlace(r) /\ CopyInHand(r) /\ ArchiveOrder(r)

StoreTypes ==
    /\ redis \in [Challenges -> Docs \union {NoDoc}]
    /\ mongo \in [Challenges -> Seq(Docs)]
    /\ boards \subseteq Challenges
    /\ scores \in [Challenges -> PMap(Users, Totals)]

LocalTypes ==
    /\ crashes \in 0 .. MaxCrashes
    /\ pc \in [Requests -> {"idle"} \union Steps \union Finished]
    /\ job \in [Requests -> Jobs \union {NoJob}]
    /\ doc \in [Requests -> Docs \union {NoDoc}]
    /\ tmp \in [Requests -> Docs \union {NoDoc}]
    /\ todo \in [Requests -> SUBSET Challenges]

\* The stores' types and the handlers' types.
LEMMA TypeOKSplit == TypeOK <=> StoreTypes /\ LocalTypes
BY DEF TypeOK, StoreTypes, LocalTypes

\* A step of r keeps the invariant when it keeps the types and the stores'
\* contents and brings r itself to a state the invariant describes: what the
\* invariant says of the other handlers only needs the stores not to forget.
LEMMA StepKeeps ==
    ASSUME IInv, NEW r \in Requests,
           StoreTypes', LocalTypes', OthersKeep(r), StoresKeep, Shape(r)'
    PROVE  IInv'
<1>1. TypeOK'
  BY TypeOKSplit DEF TypeOK, StoreTypes, LocalTypes
<1>2. ASSUME NEW q \in Requests, q # r
      PROVE  OpInPlace(q)' /\ CopyInHand(q)' /\ ArchiveOrder(q)'
  <2>1. pc'[q] = pc[q] /\ job'[q] = job[q] /\ doc'[q] = doc[q] /\ tmp'[q] = tmp[q]
    BY <1>2 DEF OthersKeep
  <2>2. OpInPlace(q) /\ CopyInHand(q) /\ ArchiveOrder(q)
    BY DEF IInv
  <2>3. OpInPlace(q)'
    BY <2>1, <2>2 DEF OpInPlace, Is
  <2>4. CopyInHand(q)'
    BY <2>1, <2>2 DEF CopyInHand, U
  <2>5. pc[q] \in {"archFind", "archInsert", "archUpdate", "archDel"} => C(q) \in Challenges
    BY <2>2 DEF OpInPlace, Jobs, C
  <2>6. ArchiveOrder(q)'
    BY <2>1, <2>2, <2>5 DEF ArchiveOrder, StoresKeep, C
  <2>7. QED
    BY <2>3, <2>4, <2>6
<1>3. QED
  BY <1>1, <1>2 DEF IInv, Shape

\* The fields of a job that is under way.
LEMMA JobType ==
    ASSUME IInv, NEW r \in Requests, pc[r] # "idle"
    PROVE  /\ job[r] \in Jobs
           /\ C(r) \in Challenges
           /\ job[r].op \in MemberOps \union {"push"} => U(r) \in Users
           /\ job[r].op = "push" => job[r].p \in Problems /\ job[r].s \in Scores
<1>1. job[r] \in Jobs
  BY DEF IInv, OpInPlace
<1>2. QED
  BY <1>1 DEF Jobs, MemberOps, C, U

\* GetChallengeByID returns what Redis has, or nothing.
LEMMA GetType ==
    ASSUME TypeOK, NEW c \in Challenges, NEW d \in Get(c)
    PROVE  /\ d \in Docs \union {NoDoc}
           /\ d # NoDoc => d \in Docs /\ redis[c] = d
BY DEF TypeOK, Get

\* A SET, applied or not, touches one key.
LEMMA SetType ==
    ASSUME TypeOK, NEW c \in Challenges, NEW d \in Docs \union {NoDoc}, NEW w, Set(c, d, w)
    PROVE  /\ redis' \in [Challenges -> Docs \union {NoDoc}]
           /\ \A b \in Challenges \ {c} : redis'[b] = redis[b]
           /\ redis'[c] \in {redis[c], d}
BY DEF TypeOK, Set

\* Writing a document loses nothing.
LEMMA SetKeeps ==
    ASSUME TypeOK, NEW c \in Challenges, NEW d \in Docs, NEW w, Set(c, d, w),
           UNCHANGED mongo
    PROVE  StoresKeep
<1>1. d # NoDoc
  BY NoDocAssumption
<1>2. QED
  BY <1>1, SetType DEF StoresKeep, Held

\* A step that calls no store.
LEMMA SameStores ==
    ASSUME TypeOK, UNCHANGED stores
    PROVE  StoreTypes' /\ StoresKeep
BY DEF TypeOK, StoreTypes, StoresKeep, Held, stores

\* A change of step moves one handler only.
LEMMA GotoType ==
    ASSUME TypeOK, NEW r \in Requests, NEW step \in Steps \union Finished, Goto(r, step)
    PROVE  /\ pc' \in [Requests -> {"idle"} \union Steps \union Finished]
           /\ pc'[r] = step
           /\ \A q \in Requests \ {r} : pc'[q] = pc[q]
           /\ job' = job
           /\ crashes' = crashes
BY DEF TypeOK, Goto

\* A reply leaves the handler without anything to keep in order.
LEMMA ReplyType ==
    ASSUME IInv, NEW r \in Requests, NEW answer \in Finished, Reply(r, answer), pc[r] # "idle"
    PROVE  LocalTypes' /\ OthersKeep(r) /\ Shape(r)'
<1>1. TypeOK /\ job[r] \in Jobs
  BY JobType DEF IInv
<1>2. /\ pc' \in [Requests -> {"idle"} \union Steps \union Finished]
      /\ pc'[r] = answer
      /\ \A q \in Requests \ {r} : pc'[q] = pc[q]
      /\ job' = job
      /\ crashes' = crashes
  BY <1>1, GotoType DEF Reply
<1>3. LocalTypes'
  BY <1>1, <1>2 DEF TypeOK, LocalTypes, Reply
<1>4. OthersKeep(r)
  BY <1>1, <1>2 DEF TypeOK, OthersKeep, Reply
<1>5. Shape(r)'
  BY <1>1, <1>2 DEF Shape, OpInPlace, CopyInHand, ArchiveOrder, Finished
<1>6. QED
  BY <1>3, <1>4, <1>5

\* A change of step whose copies have their types.
LEMMA GotoKeeps ==
    ASSUME IInv, NEW r \in Requests, NEW step \in Steps \union Finished, Goto(r, step),
           doc' \in [Requests -> Docs \union {NoDoc}],
           tmp' \in [Requests -> Docs \union {NoDoc}],
           todo' \in [Requests -> SUBSET Challenges],
           \A q \in Requests \ {r} : doc'[q] = doc[q] /\ tmp'[q] = tmp[q]
    PROVE  /\ LocalTypes'
           /\ OthersKeep(r)
           /\ pc'[r] = step
           /\ job'[r] = job[r]
<1>1. TypeOK
  BY DEF IInv
<1>2. /\ pc' \in [Requests -> {"idle"} \union Steps \union Finished]
      /\ pc'[r] = step
      /\ \A q \in Requests \ {r} : pc'[q] = pc[q]
      /\ job' = job
      /\ crashes' = crashes
  BY <1>1, GotoType
<1>3. QED
  BY <1>1, <1>2 DEF TypeOK, LocalTypes, OthersKeep

\* A copy kept by one handler.
LEMMA KeepType ==
    ASSUME NEW copy, NEW copyNext, NEW S, copy \in [Requests -> S],
           NEW r \in Requests, NEW d \in S, copyNext = [copy EXCEPT ![r] = d]
    PROVE  /\ copyNext \in [Requests -> S]
           /\ copyNext[r] = d
           /\ \A q \in Requests \ {r} : copyNext[q] = copy[q]
OBVIOUS

\* What every step of a handler does: the types stay, the other handlers stay,
\* the stores do not forget, and the handler is in order.
Safe(r) == StoreTypes' /\ LocalTypes' /\ OthersKeep(r) /\ StoresKeep /\ Shape(r)'

\* The checks at the head of a handler, when the step they lead to is in order.
LEMMA ProceedSafe ==
    ASSUME IInv, NEW r \in Requests, pc[r] # "idle",
           NEW allowed \in BOOLEAN, NEW d, NEW step, Proceed(r, allowed, d, step),
           allowed => d \in Docs \union {NoDoc} /\ step \in Steps,
           allowed /\ pc'[r] = step /\ job'[r] = job[r] /\ doc'[r] = d /\ tmp' = tmp
               => Shape(r)'
    PROVE  Safe(r)
<1>1. TypeOK
  BY DEF IInv
<1>2. StoreTypes' /\ StoresKeep
  BY <1>1, SameStores DEF Proceed
<1>3. CASE ~allowed
  <2>1. Reply(r, "err") /\ "err" \in Finished
    BY <1>3 DEF Proceed, Finished
  <2>2. QED
    BY <1>2, <2>1, ReplyType DEF Safe
<1>4. CASE allowed
  <2>1. Goto(r, step) /\ doc' = [doc EXCEPT ![r] = d] /\ UNCHANGED <<tmp, todo>>
    BY <1>4 DEF Proceed, Keep, Reply
  <2>2. QED
    BY <1>1, <1>2, <1>4, <2>1, GotoKeeps DEF TypeOK, Safe
<1>5. QED
  BY <1>3, <1>4

(***************************************************************************)
(* One lemma per step of a handler.                                        *)
(***************************************************************************)
LEMMA ListKeysSafe ==
    ASSUME IInv, NEW r \in Requests, ListKeys(r)
    PROVE  Safe(r)
<1>1. TypeOK /\ OpInPlace(r) /\ pc[r] # "idle"
  BY DEF IInv, ListKeys
<1>2. StoreTypes' /\ StoresKeep
  BY <1>1, SameStores DEF ListKeys
<1>3. CASE Reply(r, "err")
  BY <1>1, <1>2, <1>3, ReplyType DEF Safe, Finished
<1>4. CASE /\ Goto(r, "scan")
           /\ Keep(todo, r, {c \in Challenges : redis[c] # NoDoc})
           /\ UNCHANGED <<doc, tmp>>
  <2>1. LocalTypes' /\ OthersKeep(r) /\ pc'[r] = "scan" /\ job'[r] = job[r]
    BY <1>1, <1>4, GotoKeeps DEF TypeOK, Keep, Steps
  <2>2. Shape(r)'
    BY <1>1, <2>1 DEF Shape, OpInPlace, Is, CopyInHand, ArchiveOrder, ListKeys
  <2>3. QED
    BY <1>2, <2>1, <2>2 DEF Safe
<1>5. QED
  BY <1>3, <1>4 DEF ListKeys

\* The loop of CanCreate drops keys or replies.
LEMMA CheckKeySafe ==
    ASSUME IInv, NEW r \in Requests, CheckKey(r)
    PROVE  Safe(r)
<1>1. TypeOK /\ OpInPlace(r) /\ Shape(r) /\ pc[r] # "idle"
  BY DEF IInv, CheckKey, Shape
<1>2. StoreTypes' /\ StoresKeep
  BY <1>1, SameStores DEF CheckKey
<1>3. CASE Reply(r, "err")
  BY <1>1, <1>2, <1>3, ReplyType DEF Safe, Finished
<1>4. CASE \E k \in todo[r] : /\ Keep(todo, r, todo[r] \ {k})
                              /\ UNCHANGED <<doc, tmp, crashes, pc, job>>
  <2>1. LocalTypes' /\ OthersKeep(r)
    BY <1>1, <1>4 DEF TypeOK, Keep, LocalTypes, OthersKeep
  <2>2. Shape(r)'
    BY <1>1, <1>4 DEF Shape, OpInPlace, Is, CopyInHand, ArchiveOrder, CheckKey, U
  <2>3. QED
    BY <1>2, <2>1, <2>2 DEF Safe
<1>5. QED
  BY <1>3, <1>4 DEF CheckKey

\* CreateChallenge stores the document it made and keeps it as its copy.
LEMMA StoreNewSafe ==
    ASSUME IInv, NEW r \in Requests, StoreNew(r)
    PROVE  Safe(r)
<1>1. TypeOK /\ OpInPlace(r) /\ pc[r] = "scan"
  BY DEF IInv, StoreNew
<1>2. /\ job[r] \in Jobs /\ C(r) \in Challenges /\ U(r) \in Users
      /\ job[r].op = "create"
  BY <1>1, JobType DEF OpInPlace, Is, MemberOps
<1>3. NewDoc(U(r)) \in Docs /\ U(r) \in DOMAIN NewDoc(U(r)).participants
  BY <1>2, NewDocType
<1>4. PICK w \in Outcomes(RedisMayFail) :
        /\ Set(C(r), NewDoc(U(r)), w)
        /\ \/ /\ w.acked
              /\ Goto(r, "initBoard")
              /\ Keep(doc, r, NewDoc(U(r)))
              /\ UNCHANGED <<tmp, todo>>
           \/ /\ ~w.acked
              /\ Reply(r, "err")
  BY DEF StoreNew
<1>5. StoreTypes' /\ StoresKeep
  <2>1. UNCHANGED <<mongo, boards, scores>>
    BY DEF StoreNew
  <2>2. QED
    BY <1>1, <1>2, <1>3, <1>4, <2>1, SetType, SetKeeps DEF StoreTypes, TypeOK
<1>6. CASE Reply(r, "err")
  BY <1>1, <1>5, <1>6, ReplyType DEF Safe, Finished
<1>7. CASE Goto(r, "initBoard") /\ Keep(doc, r, NewDoc(U(r))) /\ UNCHANGED <<tmp, todo>>
  <2>1. /\ LocalTypes' /\ OthersKeep(r) /\ pc'[r] = "initBoard" /\ job'[r] = job[r]
        /\ doc'[r] = NewDoc(U(r))
    BY <1>1, <1>3, <1>7, GotoKeeps DEF TypeOK, Keep, Steps
  <2>2. Shape(r)'
    BY <1>2, <1>3, <2>1, NoJobAssumption
       DEF Shape, OpInPlace, Is, CopyInHand, ArchiveOrder, U
  <2>3. QED
    BY <1>5, <2>1, <2>2 DEF Safe
<1>8. QED
  BY <1>4, <1>6, <1>7

\* A join goes on with a copy that lists the user.
LEMMA LoadForJoinSafe ==
    ASSUME IInv, NEW r \in Requests, LoadForJoin(r)
    PROVE  Safe(r)
<1>1. TypeOK /\ OpInPlace(r) /\ pc[r] = "joinLoad"
  BY DEF IInv, LoadForJoin
<1>2. job[r] \in Jobs /\ C(r) \in Challenges /\ U(r) \in Users /\ job[r].op = "join"
  BY <1>1, JobType DEF OpInPlace, Is, MemberOps
<1>3. PICK d \in Get(C(r)) :
        IF d # NoDoc /\ d.status # "abandon"
        THEN IF U(r) \in DOMAIN d.participants
             THEN Proceed(r, TRUE, d, "updGet")
             ELSE Proceed(r, TRUE, WithParticipant(d, U(r), FreshMetadata), "addGet")
        ELSE Proceed(r, FALSE, d, "err")
  BY DEF LoadForJoin
<1>4. d # NoDoc => d \in Docs
  BY <1>1, <1>2, GetType
<1>5. ASSUME NEW e \in Docs, U(r) \in DOMAIN e.participants, NEW step \in {"updGet", "addGet"},
             pc'[r] = step, job'[r] = job[r], doc'[r] = e
      PROVE  Shape(r)'
  BY <1>2, <1>5, NoJobAssumption DEF Shape, OpInPlace, Is, CopyInHand, ArchiveOrder, U
<1>6. CASE d # NoDoc /\ d.status # "abandon" /\ U(r) \in DOMAIN d.participants
  BY <1>1, <1>3, <1>4, <1>5, <1>6, ProceedSafe DEF Steps
<1>7. CASE d # NoDoc /\ d.status # "abandon" /\ U(r) \notin DOMAIN d.participants
  <2>1. PICK e : e = WithParticipant(d, U(r), FreshMetadata)
    OBVIOUS
  <2>2. e \in Docs /\ U(r) \in DOMAIN e.participants
    BY <1>2, <1>4, <1>7, <2>1, FreshMetadataType, WithParticipantType
  <2>3. Proceed(r, TRUE, e, "addGet")
    BY <1>3, <1>7, <2>1 DEF Proceed, Keep
  <2>4. QED
    BY <1>1, <1>5, <2>2, <2>3, ProceedSafe DEF Steps
<1>8. CASE ~(d # NoDoc /\ d.status # "abandon")
  BY <1>1, <1>3, <1>8, ProceedSafe
<1>9. QED
  BY <1>6, <1>7, <1>8

\* A push goes on with a copy that lists and credits the user.
LEMMA LoadForPushSafe ==
    ASSUME IInv, NEW r \in Requests, LoadForPush(r)
    PROVE  Safe(r)
<1>1. TypeOK /\ OpInPlace(r) /\ pc[r] = "pushLoad"
  BY DEF IInv, LoadForPush
<1>2. /\ job[r] \in Jobs /\ C(r) \in Challenges /\ U(r) \in Users /\ job[r].op = "push"
      /\ job[r].p \in Problems /\ job[r].s \in Scores
  BY <1>1, JobType DEF OpInPlace, Is, MemberOps
<1>3. PICK d \in Get(C(r)) :
        IF d # NoDoc /\ U(r) \in DOMAIN d.participants
        THEN Proceed(r, TRUE, Credit(d, U(r), job[r].p, job[r].s), "updGet")
        ELSE Proceed(r, FALSE, d, "err")
  BY DEF LoadForPush
<1>4. CASE d # NoDoc /\ U(r) \in DOMAIN d.participants
  <2>0. PICK e : e = Credit(d, U(r), job[r].p, job[r].s)
    OBVIOUS
  <2>1. e \in Docs /\ U(r) \in DOMAIN e.participants
    BY <1>1, <1>2, <1>4, <2>0, GetType, CreditType
  <2>2. pc'[r] = "updGet" /\ job'[r] = job[r] /\ doc'[r] = e => Shape(r)'
    BY <1>2, <2>1, NoJobAssumption DEF Shape, OpInPlace, Is, CopyInHand, ArchiveOrder, U
  <2>3. Proceed(r, TRUE, e, "updGet")
    BY <1>3, <1>4, <2>0 DEF Proceed, Keep
  <2>4. QED
    BY <1>1, <2>1, <2>2, <2>3, ProceedSafe DEF Steps
<1>5. CASE ~(d # NoDoc /\ U(r) \in DOMAIN d.participants)
  BY <1>1, <1>3, <1>5, ProceedSafe
<1>6. QED
  BY <1>4, <1>5

\* End, abandon and leave go on without a copy.
LEMMA CreatorOnlySafe ==
    ASSUME IInv, NEW r \in Requests, NEW load, NEW step \in {"markGet", "closeBoard", "remGet"},
           CreatorOnly(r, load, step), load # "idle",
           step \in {"markGet", "closeBoard"} => Is(r, {"abandon", "end"}),
           step = "remGet" => Is(r, {"leave"})
    PROVE  Safe(r)
<1>1. TypeOK /\ pc[r] # "idle"
  BY DEF IInv, CreatorOnly
<1>2. job[r] \in Jobs
  BY <1>1, JobType
<1>3. PICK d \in Get(C(r)) : Proceed(r, d # NoDoc /\ d.creator = U(r), NoDoc, step)
  BY DEF CreatorOnly
<1>4. pc'[r] = step /\ job'[r] = job[r] => Shape(r)'
  BY <1>2 DEF Shape, OpInPlace, Is, CopyInHand, ArchiveOrder
<1>5. QED
  BY <1>1, <1>3, <1>4, ProceedSafe DEF Steps

\* AbandonChallenge goes on to its second GET.
LEMMA LoadForAbandonSafe ==
    ASSUME IInv, NEW r \in Requests, LoadForAbandon(r)
    PROVE  Safe(r)
<1>1. Is(r, {"abandon", "end"})
  BY DEF IInv, OpInPlace, LoadForAbandon, CreatorOnly, Is
<1>2. QED
  BY <1>1, CreatorOnlySafe DEF LoadForAbandon

\* EndChallenge goes on to the board.
LEMMA LoadForEndSafe ==
    ASSUME IInv, NEW r \in Requests, LoadForEnd(r)
    PROVE  Safe(r)
<1>1. Is(r, {"abandon", "end"})
  BY DEF IInv, OpInPlace, LoadForEnd, CreatorOnly, Is
<1>2. QED
  BY <1>1, CreatorOnlySafe DEF LoadForEnd

\* LeaveChallenge goes on to RemoveParticipant.
LEMMA LoadForLeaveSafe ==
    ASSUME IInv, NEW r \in Requests, LoadForLeave(r)
    PROVE  Safe(r)
<1>1. Is(r, {"leave"})
  BY DEF IInv, OpInPlace, LoadForLeave, CreatorOnly, Is
<1>2. QED
  BY <1>1, CreatorOnlySafe DEF LoadForLeave

\* RetreiveChallenge goes on to the board.
LEMMA LoadForRetrieveSafe ==
    ASSUME IInv, NEW r \in Requests, LoadForRetrieve(r)
    PROVE  Safe(r)
<1>1. TypeOK /\ OpInPlace(r) /\ pc[r] = "retrieveLoad"
  BY DEF IInv, LoadForRetrieve
<1>2. job[r] \in Jobs /\ job[r].op = "retrieve"
  BY <1>1, JobType DEF OpInPlace, Is
<1>3. PICK d \in Get(C(r)), connected \in BOOLEAN :
        Proceed(r, d # NoDoc /\ connected, NoDoc, "initBoard")
  BY DEF LoadForRetrieve
<1>4. pc'[r] = "initBoard" /\ job'[r] = job[r] => Shape(r)'
  BY <1>2, NoJobAssumption DEF Shape, OpInPlace, Is, CopyInHand, ArchiveOrder
<1>5. QED
  BY <1>1, <1>3, <1>4, ProceedSafe DEF Steps

\* AddParticipant's copy is what it read with the user in it.
LEMMA ParticipantGetSafe ==
    ASSUME IInv, NEW r \in Requests, ParticipantGet(r)
    PROVE  Safe(r)
<1>1. /\ TypeOK /\ OpInPlace(r) /\ CopyInHand(r) /\ pc[r] # "idle"
      /\ pc[r] \in {"addGet", "updGet"}
  BY DEF IInv, ParticipantGet
<1>2. /\ job[r] \in Jobs /\ C(r) \in Challenges /\ U(r) \in Users
      /\ job[r].op \in {"join", "push"}
      /\ pc[r] = "addGet" => job[r].op = "join"
  BY <1>1, JobType DEF OpInPlace, Is, MemberOps
<1>3. doc[r] \in Docs /\ U(r) \in DOMAIN doc[r].participants
  BY <1>1 DEF CopyInHand
<1>4. doc[r].participants[U(r)] \in Metadata
  BY <1>3, EntryType DEF Docs
<1>5. StoreTypes' /\ StoresKeep
  BY <1>1, SameStores DEF ParticipantGet
<1>6. ASSUME NEW d \in Get(C(r)), d # NoDoc,
             Goto(r, IF pc[r] = "addGet" THEN "addSet" ELSE "updSet"),
             Keep(tmp, r, WithParticipant(d, U(r), doc[r].participants[U(r)])),
             UNCHANGED <<doc, todo>>
      PROVE  Safe(r)
  <2> DEFINE e == WithParticipant(d, U(r), doc[r].participants[U(r)])
             step == IF pc[r] = "addGet" THEN "addSet" ELSE "updSet"
  <2>1. e \in Docs
    BY <1>1, <1>2, <1>4, <1>6, GetType, WithParticipantType
  <2>2. tmp' = [tmp EXCEPT ![r] = e] /\ Goto(r, step) /\ step \in Steps
    BY <1>6 DEF Keep, Steps
  <2> HIDE DEF e
  <2>3. /\ LocalTypes' /\ OthersKeep(r) /\ pc'[r] = step /\ job'[r] = job[r]
        /\ tmp'[r] = e
    BY <1>1, <1>6, <2>1, <2>2, GotoKeeps DEF TypeOK
  <2>4. Shape(r)'
    BY <1>2, <1>3, <1>6, <2>1, <2>3, NoJobAssumption
       DEF Shape, OpInPlace, Is, CopyInHand, ArchiveOrder, U
  <2>5. QED
    BY <1>5, <2>3, <2>4 DEF Safe
<1>7. CASE /\ job[r].op = "join"
           /\ Goto(r, IF pc[r] = "addGet" THEN "updGet" ELSE "initBoard")
           /\ UNCHANGED locals
  <2> DEFINE step == IF pc[r] = "addGet" THEN "updGet" ELSE "initBoard"
  <2>1. /\ LocalTypes' /\ OthersKeep(r) /\ pc'[r] = step /\ job'[r] = job[r]
    BY <1>1, <1>7, GotoKeeps DEF TypeOK, Steps, locals
  <2>2. Shape(r)'
    BY <1>2, <1>3, <1>7, <2>1, NoJobAssumption
       DEF Shape, OpInPlace, Is, CopyInHand, ArchiveOrder, U, locals
  <2>3. QED
    BY <1>5, <2>1, <2>2 DEF Safe
<1>8. CASE Reply(r, "err")
  BY <1>1, <1>5, <1>8, ReplyType DEF Safe, Finished
<1>9. QED
  BY <1>6, <1>7, <1>8 DEF ParticipantGet

\* AddParticipant writes that copy.
LEMMA ParticipantSetSafe ==
    ASSUME IInv, NEW r \in Requests, ParticipantSet(r)
    PROVE  Safe(r)
<1>1. /\ TypeOK /\ OpInPlace(r) /\ CopyInHand(r) /\ pc[r] # "idle"
      /\ pc[r] \in {"addSet", "updSet"}
  BY DEF IInv, ParticipantSet
<1>2. /\ job[r] \in Jobs /\ C(r) \in Challenges
      /\ job[r].op \in {"join", "push"}
  BY <1>1, JobType DEF OpInPlace, Is
<1>3. doc[r] \in Docs /\ U(r) \in DOMAIN doc[r].participants /\ tmp[r] \in Docs
  BY <1>1 DEF CopyInHand
<1>4. PICK w \in Outcomes(RedisMayFail) :
        /\ Set(C(r), tmp[r], w)
        /\ \/ /\ job[r].op = "join"
              /\ Goto(r, IF pc[r] = "addSet" THEN "updGet" ELSE "initBoard")
              /\ Keep(tmp, r, NoDoc)
              /\ UNCHANGED <<doc, todo>>
           \/ /\ job[r].op = "push"
              /\ Goto(r, "write")
              /\ Keep(tmp, r, NoDoc)
              /\ UNCHANGED <<doc, todo>>
           \/ Reply(r, "err")
  BY DEF ParticipantSet
<1>5. StoreTypes' /\ StoresKeep
  <2>1. UNCHANGED <<mongo, boards, scores>>
    BY DEF ParticipantSet
  <2>2. QED
    BY <1>1, <1>2, <1>3, <1>4, <2>1, SetType, SetKeeps DEF StoreTypes, TypeOK
<1>6. ASSUME NEW step \in {"updGet", "initBoard", "write"}, Goto(r, step), Keep(tmp, r, NoDoc),
             UNCHANGED <<doc, todo>>, step = "write" <=> job[r].op = "push"
      PROVE  Safe(r)
  <2>1. LocalTypes' /\ OthersKeep(r) /\ pc'[r] = step /\ job'[r] = job[r]
    BY <1>1, <1>6, GotoKeeps DEF TypeOK, Keep, Steps
  <2>2. Shape(r)'
    BY <1>2, <1>3, <1>6, <2>1, NoJobAssumption
       DEF Shape, OpInPlace, Is, CopyInHand, ArchiveOrder, U
  <2>3. QED
    BY <1>5, <2>1, <2>2 DEF Safe
<1>7. CASE Reply(r, "err")
  BY <1>1, <1>5, <1>7, ReplyType DEF Safe, Finished
<1>8. QED
  BY <1>2, <1>4, <1>6, <1>7

\* A push writes the copy it credited.
LEMMA WriteBackSafe ==
    ASSUME IInv, NEW r \in Requests, WriteBack(r)
    PROVE  Safe(r)
<1>1. TypeOK /\ OpInPlace(r) /\ CopyInHand(r) /\ pc[r] = "write"
  BY DEF IInv, WriteBack
<1>2. job[r] \in Jobs /\ C(r) \in Challenges /\ job[r].op = "push"
  BY <1>1, JobType DEF OpInPlace, Is
<1>3. doc[r] \in Docs /\ U(r) \in DOMAIN doc[r].participants
  BY <1>1 DEF CopyInHand
<1>4. PICK w \in Outcomes(RedisMayFail) :
        /\ Set(C(r), doc[r], w)
        /\ (Goto(r, "initBoard") /\ UNCHANGED locals) \/ Reply(r, "err")
  BY DEF WriteBack
<1>5. StoreTypes' /\ StoresKeep
  <2>1. UNCHANGED <<mongo, boards, scores>>
    BY DEF WriteBack
  <2>2. QED
    BY <1>1, <1>2, <1>3, <1>4, <2>1, SetType, SetKeeps DEF StoreTypes, TypeOK
<1>6. CASE Goto(r, "initBoard") /\ UNCHANGED locals
  <2>1. LocalTypes' /\ OthersKeep(r) /\ pc'[r] = "initBoard" /\ job'[r] = job[r]
    BY <1>1, <1>6, GotoKeeps DEF TypeOK, locals, Steps
  <2>2. Shape(r)'
    BY <1>2, <1>3, <1>6, <2>1, NoJobAssumption
       DEF Shape, OpInPlace, Is, CopyInHand, ArchiveOrder, U, locals
  <2>3. QED
    BY <1>5, <2>1, <2>2 DEF Safe
<1>7. CASE Reply(r, "err")
  BY <1>1, <1>5, <1>7, ReplyType DEF Safe, Finished
<1>8. QED
  BY <1>4, <1>6, <1>7

\* Opening a board touches no document.
LEMMA InitializeLeaderboardSafe ==
    ASSUME IInv, NEW r \in Requests, InitializeLeaderboard(r)
    PROVE  Safe(r)
<1>1. TypeOK /\ OpInPlace(r) /\ CopyInHand(r) /\ pc[r] = "initBoard"
  BY DEF IInv, InitializeLeaderboard
<1>2. job[r] \in Jobs /\ C(r) \in Challenges
  BY <1>1, JobType
<1>3. StoreTypes' /\ StoresKeep
  BY <1>1, <1>2 DEF TypeOK, StoreTypes, StoresKeep, Held, InitializeLeaderboard
<1>4. CASE Reply(r, "ok")
  BY <1>1, <1>3, <1>4, ReplyType DEF Safe, Finished
<1>5. CASE /\ job[r].op \in {"create", "join", "push"}
           /\ Goto(r, "addUser")
           /\ UNCHANGED locals
  <2>1. LocalTypes' /\ OthersKeep(r) /\ pc'[r] = "addUser" /\ job'[r] = job[r]
    BY <1>1, <1>5, GotoKeeps DEF TypeOK, locals, Steps
  <2>2. Shape(r)'
    BY <1>1, <1>2, <1>5, <2>1, NoJobAssumption
       DEF Shape, OpInPlace, Is, CopyInHand, ArchiveOrder, U, locals
  <2>3. QED
    BY <1>3, <2>1, <2>2 DEF Safe
<1>6. QED
  BY <1>4, <1>5 DEF InitializeLeaderboard

\* The score put on the board is a participant's total.
LEMMA UpdateParticipantScoreSafe ==
    ASSUME IInv, NEW r \in Requests, UpdateParticipantScore(r)
    PROVE  Safe(r)
<1>1. TypeOK /\ OpInPlace(r) /\ CopyInHand(r) /\ pc[r] = "addUser"
  BY DEF IInv, UpdateParticipantScore
<1>2. /\ job[r] \in Jobs /\ C(r) \in Challenges /\ U(r) \in Users
      /\ job[r].op \in {"create", "join", "push"}
  BY <1>1, JobType DEF OpInPlace, Is, MemberOps
<1>3. doc[r] \in Docs /\ U(r) \in DOMAIN doc[r].participants
  BY <1>1 DEF CopyInHand
<1>4. scores' \in [Challenges -> PMap(Users, Totals)]
  <2>1. doc[r].participants[U(r)].total \in Totals
    <3>1. doc[r].participants \in PMap(Users, Metadata)
      BY <1>3 DEF Docs
    <3>2. doc[r].participants[U(r)] \in Metadata
      BY <1>3, <3>1, EntryType
    <3>3. QED
      BY <3>2 DEF Metadata
  <2>2. Put(scores[C(r)], U(r), doc[r].participants[U(r)].total) \in PMap(Users, Totals)
    BY <1>1, <1>2, <2>1, PutType DEF TypeOK
  <2>3. QED
    BY <1>1, <1>2, <2>2 DEF TypeOK, UpdateParticipantScore
<1>5. StoreTypes' /\ StoresKeep
  BY <1>1, <1>4 DEF TypeOK, StoreTypes, StoresKeep, Held, UpdateParticipantScore
<1>6. CASE Reply(r, "ok")
  BY <1>1, <1>5, <1>6, ReplyType DEF Safe, Finished
<1>7. CASE job[r].op # "create" /\ Goto(r, "topK") /\ UNCHANGED locals
  <2>1. LocalTypes' /\ OthersKeep(r) /\ pc'[r] = "topK" /\ job'[r] = job[r]
    BY <1>1, <1>7, GotoKeeps DEF TypeOK, locals, Steps
  <2>2. Shape(r)'
    BY <1>2, <1>3, <1>7, <2>1, NoJobAssumption
       DEF Shape, OpInPlace, Is, CopyInHand, ArchiveOrder, U, locals
  <2>3. QED
    BY <1>5, <2>1, <2>2 DEF Safe
<1>8. QED
  BY <1>6, <1>7 DEF UpdateParticipantScore

\* The snapshot in the copy is what the board has.
LEMMA GetLeaderboardSafe ==
    ASSUME IInv, NEW r \in Requests, GetLeaderboard(r)
    PROVE  Safe(r)
<1>1. TypeOK /\ OpInPlace(r) /\ CopyInHand(r) /\ pc[r] = "topK"
  BY DEF IInv, GetLeaderboard
<1>2. /\ job[r] \in Jobs /\ C(r) \in Challenges /\ job[r].op \in {"join", "push"}
  BY <1>1, JobType DEF OpInPlace, Is
<1>3. StoreTypes' /\ StoresKeep
  BY <1>1, SameStores DEF GetLeaderboard
<1>4. PICK e : e = [doc[r] EXCEPT !.leaderboard = scores[C(r)]]
  OBVIOUS
<1>5. e \in Docs /\ U(r) \in DOMAIN e.participants
  BY <1>1, <1>2, <1>4 DEF CopyInHand, TypeOK, Docs
<1>6. CASE Goto(r, "save") /\ doc' = [doc EXCEPT ![r] = e] /\ UNCHANGED <<tmp, todo>>
  <2>1. /\ LocalTypes' /\ OthersKeep(r) /\ pc'[r] = "save" /\ job'[r] = job[r]
        /\ doc'[r] = e
    BY <1>1, <1>5, <1>6, GotoKeeps DEF TypeOK, Steps
  <2>2. Shape(r)'
    BY <1>2, <1>5, <2>1, NoJobAssumption DEF Shape, OpInPlace, Is, CopyInHand, ArchiveOrder, U
  <2>3. QED
    BY <1>3, <2>1, <2>2 DEF Safe
<1>7. CASE Reply(r, "ok")
  BY <1>1, <1>3, <1>7, ReplyType DEF Safe, Finished
<1>8. QED
  BY <1>4, <1>6, <1>7 DEF GetLeaderboard, Keep

\* Join and push write the copy with the snapshot.
LEMMA SaveSnapshotSafe ==
    ASSUME IInv, NEW r \in Requests, SaveSnapshot(r)
    PROVE  Safe(r)
<1>1. TypeOK /\ CopyInHand(r) /\ pc[r] = "save"
  BY DEF IInv, SaveSnapshot
<1>2. C(r) \in Challenges /\ doc[r] \in Docs
  BY <1>1, JobType DEF CopyInHand
<1>3. StoreTypes' /\ StoresKeep
  BY <1>1, <1>2, SetType, SetKeeps DEF StoreTypes, TypeOK, SaveSnapshot
<1>4. QED
  BY <1>1, <1>3, ReplyType DEF Safe, Finished, SaveSnapshot

\* The copy to be marked is what Redis had.
LEMMA MarkGetSafe ==
    ASSUME IInv, NEW r \in Requests, MarkGet(r)
    PROVE  Safe(r)
<1>1. TypeOK /\ OpInPlace(r) /\ pc[r] = "markGet"
  BY DEF IInv, MarkGet
<1>2. job[r] \in Jobs /\ C(r) \in Challenges /\ job[r].op \in {"abandon", "end"}
  BY <1>1, JobType DEF OpInPlace, Is
<1>3. StoreTypes' /\ StoresKeep
  BY <1>1, SameStores DEF MarkGet
<1>4. ASSUME NEW d \in Get(C(r)), d # NoDoc, Goto(r, "markSet"),
             Keep(tmp, r, [d EXCEPT !.status = Mark(r)]), UNCHANGED <<doc, todo>>
      PROVE  Safe(r)
  <2>1. PICK e : e = [d EXCEPT !.status = Mark(r)]
    OBVIOUS
  <2>2. e \in Docs
    BY <1>1, <1>2, <1>4, <2>1, GetType DEF Docs, Statuses, Terminal, Mark
  <2>3. tmp' = [tmp EXCEPT ![r] = e]
    BY <1>4, <2>1 DEF Keep
  <2>4. /\ LocalTypes' /\ OthersKeep(r) /\ pc'[r] = "markSet" /\ job'[r] = job[r]
        /\ tmp'[r] = e
    BY <1>1, <1>4, <2>2, <2>3, GotoKeeps DEF TypeOK, Steps
  <2>5. Shape(r)'
    BY <1>2, <2>2, <2>4, NoJobAssumption DEF Shape, OpInPlace, Is, CopyInHand, ArchiveOrder
  <2>6. QED
    BY <1>3, <2>4, <2>5 DEF Safe
<1>5. CASE Reply(r, "err")
  BY <1>1, <1>3, <1>5, ReplyType DEF Safe, Finished
<1>6. QED
  BY <1>4, <1>5 DEF MarkGet

\* Abandon and end write the marked copy.
LEMMA MarkSetSafe ==
    ASSUME IInv, NEW r \in Requests, MarkSet(r)
    PROVE  Safe(r)
<1>1. TypeOK /\ OpInPlace(r) /\ CopyInHand(r) /\ pc[r] = "markSet"
  BY DEF IInv, MarkSet
<1>2. job[r] \in Jobs /\ C(r) \in Challenges /\ job[r].op \in {"abandon", "end"}
  BY <1>1, JobType DEF OpInPlace, Is
<1>3. PICK w \in Outcomes(RedisMayFail) :
        /\ Set(C(r), tmp[r], w)
        /\ \/ /\ Goto(r, IF job[r].op = "abandon" THEN "closeBoard" ELSE "archGet")
              /\ Keep(tmp, r, NoDoc)
              /\ UNCHANGED <<doc, todo>>
           \/ Reply(r, "err")
  BY DEF MarkSet
<1>4. StoreTypes' /\ StoresKeep
  <2>1. UNCHANGED <<mongo, boards, scores>> /\ tmp[r] \in Docs
    BY <1>1 DEF MarkSet, CopyInHand
  <2>2. QED
    BY <1>1, <1>2, <1>3, <2>1, SetType, SetKeeps DEF StoreTypes, TypeOK
<1>5. ASSUME NEW step \in {"closeBoard", "archGet"}, Goto(r, step), Keep(tmp, r, NoDoc),
             UNCHANGED <<doc, todo>>
      PROVE  Safe(r)
  <2>1. LocalTypes' /\ OthersKeep(r) /\ pc'[r] = step /\ job'[r] = job[r]
    BY <1>1, <1>5, GotoKeeps DEF TypeOK, Keep, Steps
  <2>2. Shape(r)'
    BY <1>2, <2>1, NoJobAssumption DEF Shape, OpInPlace, Is, CopyInHand, ArchiveOrder
  <2>3. QED
    BY <1>4, <2>1, <2>2 DEF Safe
<1>6. CASE Reply(r, "err")
  BY <1>1, <1>4, <1>6, ReplyType DEF Safe, Finished
<1>7. QED
  BY <1>3, <1>5, <1>6

\* Closing a board touches no document.
LEMMA CleanupLeaderboardSafe ==
    ASSUME IInv, NEW r \in Requests, CleanupLeaderboard(r)
    PROVE  Safe(r)
<1>1. TypeOK /\ OpInPlace(r) /\ pc[r] = "closeBoard"
  BY DEF IInv, CleanupLeaderboard
<1>2. job[r] \in Jobs /\ C(r) \in Challenges /\ job[r].op \in {"abandon", "end"}
  BY <1>1, JobType DEF OpInPlace, Is
<1>3. [scores EXCEPT ![C(r)] = EmptyMap] \in [Challenges -> PMap(Users, Totals)]
  BY <1>1, <1>2, EmptyMapType DEF TypeOK
<1>4. StoreTypes' /\ StoresKeep
  BY <1>1, <1>3 DEF TypeOK, StoreTypes, StoresKeep, Held, CleanupLeaderboard
<1>5. PICK step \in {"archGet", "markGet"} : Goto(r, step) /\ UNCHANGED locals
  BY DEF CleanupLeaderboard
<1>6. LocalTypes' /\ OthersKeep(r) /\ pc'[r] = step /\ job'[r] = job[r]
  BY <1>1, <1>5, GotoKeeps DEF TypeOK, locals, Steps
<1>7. Shape(r)'
  BY <1>2, <1>6, NoJobAssumption DEF Shape, OpInPlace, Is, CopyInHand, ArchiveOrder
<1>8. QED
  BY <1>4, <1>6, <1>7 DEF Safe

\* persistChallengeToMongoDB goes on only with a challenge that exists.
LEMMA ArchiveGetSafe ==
    ASSUME IInv, NEW r \in Requests, ArchiveGet(r)
    PROVE  Safe(r)
<1>1. TypeOK /\ OpInPlace(r) /\ pc[r] = "archGet"
  BY DEF IInv, ArchiveGet
<1>2. job[r] \in Jobs /\ C(r) \in Challenges /\ job[r].op \in {"abandon", "end"}
  BY <1>1, JobType DEF OpInPlace, Is
<1>3. StoreTypes' /\ StoresKeep /\ UNCHANGED stores
  BY <1>1, SameStores DEF ArchiveGet
<1>4. ASSUME NEW d \in Get(C(r)), d # NoDoc, Goto(r, "archFind"), Keep(tmp, r, d),
             UNCHANGED <<doc, todo>>
      PROVE  Safe(r)
  <2>1. d \in Docs /\ Held(C(r))
    BY <1>1, <1>2, <1>4, GetType DEF Held
  <2>2. /\ LocalTypes' /\ OthersKeep(r) /\ pc'[r] = "archFind" /\ job'[r] = job[r]
        /\ tmp'[r] = d
    BY <1>1, <1>4, <2>1, GotoKeeps DEF TypeOK, Keep, Steps
  <2>3. Shape(r)'
    BY <1>2, <1>3, <2>1, <2>2, NoJobAssumption
       DEF Shape, OpInPlace, Is, CopyInHand, ArchiveOrder, Held, C, stores
  <2>4. QED
    BY <1>3, <2>2, <2>3 DEF Safe
<1>5. CASE Reply(r, "ok")
  BY <1>1, <1>3, <1>5, ReplyType DEF Safe, Finished
<1>6. QED
  BY <1>4, <1>5 DEF ArchiveGet

\* FindOne sends a known challenge to the update, a new one to the insert.
LEMMA ArchiveFindSafe ==
    ASSUME IInv, NEW r \in Requests, ArchiveFind(r)
    PROVE  Safe(r)
<1>1. TypeOK /\ OpInPlace(r) /\ CopyInHand(r) /\ ArchiveOrder(r) /\ pc[r] = "archFind"
  BY DEF IInv, ArchiveFind
<1>2. job[r] \in Jobs /\ C(r) \in Challenges /\ job[r].op \in {"abandon", "end"}
  BY <1>1, JobType DEF OpInPlace, Is
<1>3. StoreTypes' /\ StoresKeep /\ UNCHANGED stores
  BY <1>1, SameStores DEF ArchiveFind
<1>4. CASE /\ Goto(r, IF mongo[C(r)] = <<>> THEN "archInsert" ELSE "archUpdate")
           /\ UNCHANGED locals
  <2>1. PICK step \in {"archInsert", "archUpdate"} : Goto(r, step)
    BY <1>4
  <2>2. LocalTypes' /\ OthersKeep(r) /\ pc'[r] = step /\ job'[r] = job[r]
    BY <1>1, <1>4, <2>1, GotoKeeps DEF TypeOK, locals, Steps
  <2>3. Shape(r)'
    BY <1>1, <1>2, <1>3, <1>4, <2>2, NoJobAssumption
       DEF Shape, OpInPlace, Is, CopyInHand, ArchiveOrder, Held, C, stores, locals
  <2>4. QED
    BY <1>3, <2>2, <2>3 DEF Safe
<1>5. CASE Reply(r, "ok")
  BY <1>1, <1>3, <1>5, ReplyType DEF Safe, Finished
<1>6. QED
  BY <1>4, <1>5 DEF ArchiveFind

\* After an acknowledged insert MongoDB has the challenge.
LEMMA ArchiveInsertSafe ==
    ASSUME IInv, NEW r \in Requests, ArchiveInsert(r)
    PROVE  Safe(r)
<1>1. TypeOK /\ OpInPlace(r) /\ CopyInHand(r) /\ ArchiveOrder(r) /\ pc[r] = "archInsert"
  BY DEF IInv, ArchiveInsert
<1>2. /\ job[r] \in Jobs /\ C(r) \in Challenges /\ job[r].op \in {"abandon", "end"}
      /\ tmp[r] \in Docs
  BY <1>1, JobType DEF OpInPlace, Is, CopyInHand
<1>3. PICK w \in Outcomes(MongoMayFail) :
        /\ mongo' = IF w.applied THEN [mongo EXCEPT ![C(r)] = Append(@, tmp[r])] ELSE mongo
        /\ (w.acked /\ Goto(r, "archDel") /\ UNCHANGED locals) \/ Reply(r, "ok")
  BY DEF ArchiveInsert
<1>4. /\ mongo' \in [Challenges -> Seq(Docs)]
      /\ \A c \in Challenges : mongo[c] # <<>> => mongo'[c] # <<>>
      /\ w.applied => mongo'[C(r)] # <<>>
  <2>1. /\ Append(mongo[C(r)], tmp[r]) \in Seq(Docs)
        /\ Append(mongo[C(r)], tmp[r]) # <<>>
    <3>1. mongo[C(r)] \in Seq(Docs)
      BY <1>1, <1>2 DEF TypeOK
    <3>2. QED
      BY <1>2, <3>1, AppendSeq
  <2>2. QED
    BY <1>1, <1>2, <1>3, <2>1 DEF TypeOK
<1>5. StoreTypes' /\ StoresKeep
  BY <1>1, <1>4 DEF TypeOK, StoreTypes, StoresKeep, Held, ArchiveInsert
<1>6. CASE w.acked /\ Goto(r, "archDel") /\ UNCHANGED locals
  <2>1. LocalTypes' /\ OthersKeep(r) /\ pc'[r] = "archDel" /\ job'[r] = job[r]
    BY <1>1, <1>6, GotoKeeps DEF TypeOK, locals, Steps
  <2>2. w.applied
    BY <1>6 DEF Outcomes
  <2>3. Shape(r)'
    BY <1>1, <1>2, <1>4, <1>6, <2>1, <2>2, NoJobAssumption
       DEF Shape, OpInPlace, Is, CopyInHand, ArchiveOrder, C, locals
  <2>4. QED
    BY <1>5, <2>1, <2>3 DEF Safe
<1>7. CASE Reply(r, "ok")
  BY <1>1, <1>5, <1>7, ReplyType DEF Safe, Finished
<1>8. QED
  BY <1>3, <1>6, <1>7

\* An update keeps what MongoDB has of the challenge.
LEMMA ArchiveUpdateSafe ==
    ASSUME IInv, NEW r \in Requests, ArchiveUpdate(r)
    PROVE  Safe(r)
<1>1. TypeOK /\ OpInPlace(r) /\ CopyInHand(r) /\ ArchiveOrder(r) /\ pc[r] = "archUpdate"
  BY DEF IInv, ArchiveUpdate
<1>2. /\ job[r] \in Jobs /\ C(r) \in Challenges /\ job[r].op \in {"abandon", "end"}
      /\ tmp[r] \in Docs
  BY <1>1, JobType DEF OpInPlace, Is, CopyInHand
<1>3. PICK w \in Outcomes(MongoMayFail), i \in DOMAIN mongo[C(r)] :
        /\ mongo' = IF w.applied
                    THEN [mongo EXCEPT ![C(r)][i] = [tmp[r] EXCEPT !.creator = mongo[C(r)][i].creator]]
                    ELSE mongo
        /\ (Goto(r, "archDel") /\ UNCHANGED locals) \/ Reply(r, "ok")
  BY DEF ArchiveUpdate
<1>4. /\ mongo' \in [Challenges -> Seq(Docs)]
      /\ \A c \in Challenges : mongo[c] # <<>> => mongo'[c] # <<>>
      /\ mongo'[C(r)] # <<>>
  <2> DEFINE s == mongo[C(r)]
             e == [tmp[r] EXCEPT !.creator = s[i].creator]
  <2>1. s \in Seq(Docs) /\ i \in 1 .. Len(s) /\ s[i] \in Docs /\ s # <<>>
    BY <1>1, <1>2, <1>3 DEF TypeOK
  <2>2. e \in Docs
    BY <1>2, <2>1 DEF Docs
  <2>3. [s EXCEPT ![i] = e] \in Seq(Docs) /\ [s EXCEPT ![i] = e] # <<>>
    <3> HIDE DEF s, e
    <3>1. QED
      BY <2>1, <2>2
  <2>4. mongo' = IF w.applied THEN [mongo EXCEPT ![C(r)] = [s EXCEPT ![i] = e]] ELSE mongo
    BY <1>3
  <2> HIDE DEF e
  <2>5. QED
    BY <1>1, <1>2, <2>1, <2>3, <2>4 DEF TypeOK
<1>5. StoreTypes' /\ StoresKeep
  BY <1>1, <1>4 DEF TypeOK, StoreTypes, StoresKeep, Held, ArchiveUpdate
<1>6. CASE Goto(r, "archDel") /\ UNCHANGED locals
  <2>1. LocalTypes' /\ OthersKeep(r) /\ pc'[r] = "archDel" /\ job'[r] = job[r]
    BY <1>1, <1>6, GotoKeeps DEF TypeOK, locals, Steps
  <2>2. Shape(r)'
    BY <1>1, <1>2, <1>4, <1>6, <2>1, NoJobAssumption
       DEF Shape, OpInPlace, Is, CopyInHand, ArchiveOrder, C, locals
  <2>3. QED
    BY <1>5, <2>1, <2>2 DEF Safe
<1>7. CASE Reply(r, "ok")
  BY <1>1, <1>5, <1>7, ReplyType DEF Safe, Finished
<1>8. QED
  BY <1>3, <1>6, <1>7

\* The one step that takes a challenge out of Redis.
LEMMA ArchiveDeleteSafe ==
    ASSUME IInv, NEW r \in Requests, ArchiveDelete(r)
    PROVE  Safe(r)
<1>1. TypeOK /\ OpInPlace(r) /\ ArchiveOrder(r) /\ pc[r] = "archDel"
  BY DEF IInv, ArchiveDelete
<1>2. C(r) \in Challenges /\ mongo[C(r)] # <<>>
  BY <1>1, JobType DEF ArchiveOrder
<1>3. /\ redis' \in [Challenges -> Docs \union {NoDoc}]
      /\ \A b \in Challenges \ {C(r)} : redis'[b] = redis[b]
  BY <1>1, <1>2, SetType DEF ArchiveDelete, Del
<1>4. StoreTypes' /\ StoresKeep
  BY <1>1, <1>2, <1>3 DEF TypeOK, StoreTypes, StoresKeep, Held, ArchiveDelete
<1>5. QED
  BY <1>1, <1>4, ReplyType DEF Safe, Finished, ArchiveDelete

\* RemoveParticipant's copy is what it read without the user.
LEMMA RemoveGetSafe ==
    ASSUME IInv, NEW r \in Requests, RemoveGet(r)
    PROVE  Safe(r)
<1>1. TypeOK /\ OpInPlace(r) /\ pc[r] = "remGet"
  BY DEF IInv, RemoveGet
<1>2. /\ job[r] \in Jobs /\ C(r) \in Challenges /\ U(r) \in Users
      /\ job[r].op \in {"leave", "disconnect"}
  BY <1>1, JobType DEF OpInPlace, Is, MemberOps
<1>3. StoreTypes' /\ StoresKeep
  BY <1>1, SameStores DEF RemoveGet
<1>4. ASSUME NEW d \in Get(C(r)), d # NoDoc, Goto(r, "remSet"),
             Keep(tmp, r, WithoutParticipant(d, U(r))), UNCHANGED <<doc, todo>>
      PROVE  Safe(r)
  <2>1. PICK e : e = WithoutParticipant(d, U(r))
    OBVIOUS
  <2>2. e \in Docs
    BY <1>1, <1>2, <1>4, <2>1, GetType, WithoutParticipantType
  <2>3. tmp' = [tmp EXCEPT ![r] = e]
    BY <1>4, <2>1 DEF Keep
  <2>4. /\ LocalTypes' /\ OthersKeep(r) /\ pc'[r] = "remSet" /\ job'[r] = job[r]
        /\ tmp'[r] = e
    BY <1>1, <1>4, <2>2, <2>3, GotoKeeps DEF TypeOK, Steps
  <2>5. Shape(r)'
    BY <1>2, <2>2, <2>4, NoJobAssumption DEF Shape, OpInPlace, Is, CopyInHand, ArchiveOrder
  <2>6. QED
    BY <1>3, <2>4, <2>5 DEF Safe
<1>5. CASE Reply(r, IF job[r].op = "leave" THEN "err" ELSE "ok")
  <2>1. PICK answer \in Finished : Reply(r, answer)
    BY <1>5 DEF Finished
  <2>2. QED
    BY <1>1, <1>3, <2>1, ReplyType DEF Safe
<1>6. QED
  BY <1>4, <1>5 DEF RemoveGet

\* RemoveParticipant writes that copy.
LEMMA RemoveSetSafe ==
    ASSUME IInv, NEW r \in Requests, RemoveSet(r)
    PROVE  Safe(r)
<1>1. TypeOK /\ CopyInHand(r) /\ pc[r] = "remSet"
  BY DEF IInv, RemoveSet
<1>2. C(r) \in Challenges /\ tmp[r] \in Docs
  BY <1>1, JobType DEF CopyInHand
<1>3. StoreTypes' /\ StoresKeep
  BY <1>1, <1>2, SetType, SetKeeps DEF StoreTypes, TypeOK, RemoveSet
<1>4. PICK answer \in Finished : Reply(r, answer)
  BY DEF RemoveSet, Finished
<1>5. QED
  BY <1>1, <1>3, <1>4, ReplyType DEF Safe

\* A reader that finds nothing in Redis goes on to MongoDB.
LEMMA ReadRedisSafe ==
    ASSUME IInv, NEW r \in Requests, ReadRedis(r)
    PROVE  Safe(r)
<1>1. TypeOK /\ OpInPlace(r) /\ pc[r] = "readRedis"
  BY DEF IInv, ReadRedis
<1>2. job[r] \in Jobs /\ job[r].op = "read"
  BY <1>1, JobType DEF OpInPlace, Is
<1>3. StoreTypes' /\ StoresKeep
  BY <1>1, SameStores DEF ReadRedis
<1>4. CASE Reply(r, "ok")
  BY <1>1, <1>3, <1>4, ReplyType DEF Safe, Finished
<1>5. CASE Goto(r, "readMongo") /\ UNCHANGED locals
  <2>1. LocalTypes' /\ OthersKeep(r) /\ pc'[r] = "readMongo" /\ job'[r] = job[r]
    BY <1>1, <1>5, GotoKeeps DEF TypeOK, locals, Steps
  <2>2. Shape(r)'
    BY <1>2, <2>1, NoJobAssumption DEF Shape, OpInPlace, Is, CopyInHand, ArchiveOrder
  <2>3. QED
    BY <1>3, <2>1, <2>2 DEF Safe
<1>6. QED
  BY <1>4, <1>5 DEF ReadRedis

\* A reader's second look ends it.
LEMMA ReadMongoSafe ==
    ASSUME IInv, NEW r \in Requests, ReadMongo(r)
    PROVE  Safe(r)
<1>1. TypeOK /\ pc[r] = "readMongo"
  BY DEF IInv, ReadMongo
<1>2. StoreTypes' /\ StoresKeep
  BY <1>1, SameStores DEF ReadMongo
<1>3. PICK answer \in Finished : Reply(r, answer)
  BY DEF ReadMongo, Finished
<1>4. QED
  BY <1>1, <1>2, <1>3, ReplyType DEF Safe

\* A request starts at its operation's first step.
LEMMA ReceiveSafe ==
    ASSUME IInv, NEW r \in Requests, Receive(r)
    PROVE  Safe(r)
<1>1. TypeOK
  BY DEF IInv
<1>2. StoreTypes' /\ StoresKeep
  BY <1>1, SameStores DEF Receive
<1>3. PICK j \in Jobs : /\ job' = [job EXCEPT ![r] = j]
                        /\ pc' = [pc EXCEPT ![r] = Entry[j.op]]
  BY DEF Receive
<1>4. /\ j.op \in MemberOps \union {"push", "retrieve", "read"}
      /\ j # NoJob
  BY NoJobAssumption DEF Jobs
<1>5. Entry[j.op] \in Steps
  BY <1>4 DEF Entry, Steps, MemberOps
<1>6. UNCHANGED <<doc, tmp, todo, crashes>>
  BY DEF Receive, locals
<1>7. LocalTypes' /\ OthersKeep(r) /\ job'[r] = j /\ pc'[r] = Entry[j.op]
  BY <1>1, <1>3, <1>5, <1>6 DEF TypeOK, LocalTypes, OthersKeep
<1>8. Shape(r)'
  BY <1>4, <1>7 DEF Shape, OpInPlace, Is, CopyInHand, ArchiveOrder, Entry, MemberOps
<1>9. QED
  BY <1>2, <1>7, <1>8 DEF Safe

(***************************************************************************)
(* The inductive invariant.                                                *)
(***************************************************************************)
LEMMA InitIInv == Init => IInv
<1> SUFFICES ASSUME Init PROVE IInv
  OBVIOUS
<1>1. PICK owner \in [Preloaded -> Users], members \in [Preloaded -> SUBSET Users] :
        /\ redis = [c \in Challenges |->
                      IF c \in Preloaded
                      THEN [NewDoc(owner[c]) EXCEPT
                              !.participants = [u \in members[c] \union {owner[c]} |-> FreshMetadata],
                              !.leaderboard = [u \in members[c] \union {owner[c]} |-> 0]]
                      ELSE NoDoc]
        /\ scores = [c \in Challenges |->
                      IF c \in Preloaded THEN [u \in members[c] \union {owner[c]} |-> 0]
                                         ELSE EmptyMap]
  BY DEF Init
<1>2. redis \in [Challenges -> Docs \union {NoDoc}]
  <2> DEFINE D(c) == [NewDoc(owner[c]) EXCEPT
                        !.participants = [u \in members[c] \union {owner[c]} |-> FreshMetadata],
                        !.leaderboard = [u \in members[c] \union {owner[c]} |-> 0]]
  <2>1. ASSUME NEW c \in Preloaded
        PROVE  D(c) \in Docs
    <3>1. owner[c] \in Users /\ members[c] \union {owner[c]} \in SUBSET Users
      OBVIOUS
    <3>2. QED
      BY <3>1, NewDocType
  <2>2. redis = [c \in Challenges |-> IF c \in Preloaded THEN D(c) ELSE NoDoc]
    BY <1>1
  <2> HIDE DEF D
  <2>3. QED
    BY <2>1, <2>2
<1>3. scores \in [Challenges -> PMap(Users, Totals)]
  <2>1. ASSUME NEW c \in Preloaded
        PROVE  [u \in members[c] \union {owner[c]} |-> 0] \in PMap(Users, Totals)
    BY MapType DEF Totals
  <2>2. EmptyMap \in PMap(Users, Totals)
    BY EmptyMapType
  <2>3. QED
    BY <1>1, <2>1, <2>2
<1>4. mongo \in [Challenges -> Seq(Docs)]
  <2>1. <<>> \in Seq(Docs)
    BY EmptySeq
  <2>2. QED
    BY <2>1 DEF Init
<1>5. TypeOK
  <2>1. /\ pc \in [Requests -> {"idle"} \union Steps \union Finished]
        /\ job \in [Requests -> Jobs \union {NoJob}]
        /\ doc \in [Requests -> Docs \union {NoDoc}]
        /\ tmp \in [Requests -> Docs \union {NoDoc}]
        /\ todo \in [Requests -> SUBSET Challenges]
    BY DEF Init
  <2>2. boards \subseteq Challenges /\ crashes \in 0 .. MaxCrashes
    <3>1. boards = {} /\ crashes = 0
      BY DEF Init
    <3>2. MaxCrashes \in Nat
      BY LifecycleAssumption
    <3>3. QED
      BY <3>1, <3>2
  <2>3. QED
    BY <1>2, <1>3, <1>4, <2>1, <2>2 DEF TypeOK
<1>6. ASSUME NEW r \in Requests
      PROVE  OpInPlace(r) /\ CopyInHand(r) /\ ArchiveOrder(r)
  BY DEF Init, OpInPlace, CopyInHand, ArchiveOrder
<1>7. QED
  BY <1>5, <1>6 DEF IInv

\* Every step of every handler.
LEMMA StepSafe ==
    ASSUME IInv, NEW r \in Requests, Step(r)
    PROVE  Safe(r)
BY ListKeysSafe, CheckKeySafe, StoreNewSafe, LoadForJoinSafe, LoadForPushSafe,
   LoadForAbandonSafe, LoadForEndSafe, LoadForLeaveSafe, LoadForRetrieveSafe,
   ParticipantGetSafe, ParticipantSetSafe, WriteBackSafe,
   InitializeLeaderboardSafe, UpdateParticipantScoreSafe, GetLeaderboardSafe,
   SaveSnapshotSafe, MarkGetSafe, MarkSetSafe, CleanupLeaderboardSafe,
   ArchiveGetSafe, ArchiveFindSafe, ArchiveInsertSafe, ArchiveUpdateSafe,
   ArchiveDeleteSafe, RemoveGetSafe, RemoveSetSafe, ReadRedisSafe, ReadMongoSafe
   DEF Step

\* A crash only drops handlers, their copies and the boards.
LEMMA CrashKeeps ==
    ASSUME IInv, Crash
    PROVE  IInv' /\ StoresKeep
<1>1. TypeOK'
  <2>1. TypeOK
    BY DEF IInv
  <2>2. /\ redis' \in [Challenges -> Docs \union {NoDoc}]
        /\ mongo' \in [Challenges -> Seq(Docs)]
        /\ scores' \in [Challenges -> PMap(Users, Totals)]
        /\ job' \in [Requests -> Jobs \union {NoJob}]
    BY <2>1 DEF TypeOK, Crash
  <2>3. /\ doc' \in [Requests -> Docs \union {NoDoc}]
        /\ tmp' \in [Requests -> Docs \union {NoDoc}]
        /\ todo' \in [Requests -> SUBSET Challenges]
        /\ boards' \subseteq Challenges
    BY DEF Crash
  <2>4. crashes' \in 0 .. MaxCrashes
    BY <2>1, LifecycleAssumption DEF TypeOK, Crash
  <2>5. pc' \in [Requests -> {"idle"} \union Steps \union Finished]
    <3>1. ASSUME NEW r \in Requests
          PROVE  (IF pc[r] \in Steps THEN "crashed" ELSE pc[r]) \in {"idle"} \union Steps \union Finished
      BY <2>1 DEF TypeOK, Finished
    <3>2. QED
      BY <3>1 DEF Crash
  <2>6. QED
    BY <2>2, <2>3, <2>4, <2>5 DEF TypeOK
<1>2. StoresKeep
  BY DEF StoresKeep, Held, Crash
<1>3. ASSUME NEW q \in Requests
      PROVE  OpInPlace(q)' /\ CopyInHand(q)' /\ ArchiveOrder(q)'
  <2>1. OpInPlace(q) /\ pc[q] \in {"idle"} \union Steps \union Finished
    BY DEF IInv, TypeOK
  <2>2. /\ pc'[q] = IF pc[q] \in Steps THEN "crashed" ELSE pc[q]
        /\ job'[q] = job[q]
    BY DEF IInv, TypeOK, Crash
  <2>3. pc'[q] \in {"idle"} \union Finished
    BY <2>1, <2>2 DEF Finished
  <2>4. QED
    BY <2>1, <2>2, <2>3 DEF OpInPlace, CopyInHand, ArchiveOrder, Is, Finished, Steps
<1>4. QED
  BY <1>1, <1>2, <1>3 DEF IInv

\* No handler changes what its request asks.
LEMMA StepKeepsJob ==
    ASSUME NEW r \in Requests, Step(r)
    PROVE  job' = job
<1>1. CASE \/ ListKeys(r) \/ CheckKey(r) \/ StoreNew(r) \/ LoadForJoin(r) \/ LoadForPush(r)
           \/ LoadForAbandon(r) \/ LoadForEnd(r) \/ LoadForLeave(r) \/ LoadForRetrieve(r)
  BY <1>1 DEF ListKeys, CheckKey, StoreNew, LoadForJoin, LoadForPush, LoadForAbandon,
              LoadForEnd, LoadForLeave, LoadForRetrieve, CreatorOnly, Proceed, Goto, Reply
<1>2. CASE \/ ParticipantGet(r) \/ ParticipantSet(r) \/ WriteBack(r) \/ InitializeLeaderboard(r)
           \/ UpdateParticipantScore(r) \/ GetLeaderboard(r) \/ SaveSnapshot(r)
  BY <1>2 DEF ParticipantGet, ParticipantSet, WriteBack, InitializeLeaderboard,
              UpdateParticipantScore, GetLeaderboard, SaveSnapshot, Goto, Reply
<1>3. CASE \/ MarkGet(r) \/ MarkSet(r) \/ CleanupLeaderboard(r) \/ ArchiveGet(r) \/ ArchiveFind(r)
           \/ ArchiveInsert(r) \/ ArchiveUpdate(r) \/ ArchiveDelete(r)
  BY <1>3 DEF MarkGet, MarkSet, CleanupLeaderboard, ArchiveGet, ArchiveFind, ArchiveInsert,
              ArchiveUpdate, ArchiveDelete, Goto, Reply
<1>4. CASE RemoveGet(r) \/ RemoveSet(r) \/ ReadRedis(r) \/ ReadMongo(r)
  BY <1>4 DEF RemoveGet, RemoveSet, ReadRedis, ReadMongo, Goto, Reply
<1>5. QED
  BY <1>1, <1>2, <1>3, <1>4 DEF Step

\* Every step of the system keeps the invariant and forgets no challenge.
LEMMA NextKeeps ==
    ASSUME IInv, [Next]_vars
    PROVE  IInv' /\ StoresKeep
<1>1. ASSUME NEW r \in Requests, Receive(r) \/ Step(r)
      PROVE  IInv' /\ StoresKeep
  <2>1. Safe(r)
    BY <1>1, ReceiveSafe, StepSafe
  <2>2. QED
    BY <2>1, StepKeeps DEF Safe
<1>2. CASE Crash
  BY <1>2, CrashKeeps
<1>3. CASE UNCHANGED vars
  <2>1. TypeOK'
    BY <1>3 DEF IInv, TypeOK, vars
  <2>2. \A r \in Requests : OpInPlace(r)' /\ CopyInHand(r)' /\ ArchiveOrder(r)'
    BY <1>3 DEF IInv, OpInPlace, CopyInHand, ArchiveOrder, Is, U, C, Held, vars
  <2>3. StoresKeep
    BY <1>3 DEF StoresKeep, Held, vars
  <2>4. QED
    BY <2>1, <2>2, <2>3 DEF IInv
<1>4. QED
  BY <1>1, <1>2, <1>3 DEF Next, AllServed

\* IInv is an invariant: in every reachable state each handler stands where
\* its operation may, with the copies its next step uses, and whoever is about
\* to delete a challenge from Redis has it in MongoDB.
THEOREM Invariance == Spec => []IInv
<1>1. IInv /\ [Next]_vars => IInv'
  BY NextKeeps
<1>2. QED
  BY InitIInv, <1>1, PTL DEF Spec

\* Every variable keeps its type, in particular no handler dereferences a
\* document it failed to read, for every number of requests and challenges.
THEOREM TypeCorrectness == Spec => []TypeOK
<1>1. IInv => TypeOK
  BY DEF IInv
<1>2. QED
  BY Invariance, <1>1, PTL

\* Whatever overlaps, fails or crashes, a challenge in Redis or in MongoDB
\* stays in one of them.
THEOREM NothingLost == Spec => NeverLost
<1>1. IInv /\ [Next]_vars => [\A c \in Challenges : Held(c) => Held(c)']_vars
  BY NextKeeps DEF StoresKeep
<1>2. QED
  BY Invariance, <1>1, PTL DEF Spec, NeverLost
====
