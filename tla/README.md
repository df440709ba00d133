# ChallengeService in TLA+

ChallengeService runs coding challenges: a creator opens one, participants join over a
WebSocket, their accepted submissions are pushed in over gRPC, a leaderboard follows, and the
creator ends or abandons the challenge, which moves its record from Redis to MongoDB.

The program has no lock and no transaction around a challenge. Each request reads the whole JSON
document from Redis, changes its copy and writes it back whole, while gRPC calls and WebSocket
readers run concurrently. Around the documents there are three more places where goroutines meet:
the leaderboard boards, the registry of WebSocket connections, and the requests that spread over
goroutines of their own. Each has a module, and each module is checked by itself.

## 1. Inventory

| Component | Source | State | Operations | Hard part | What makes it correct |
|---|---|---|---|---|---|
| Challenge requests | `internal/service/challenge.go`, `internal/wss/handlers/join-challenge.go`, `retrieve-challenge.go`, `cleanupConnection` in `internal/wss/server.go` | a copy of the document per running request | create, join, push, leave, disconnect, retrieve, abandon, end, read | interleavings of read-modify-write, partial failure, crash | no challenge lost, no invented score, only the creator terminates, finished means archived |
| Redis repository | `internal/repo/redis.go` | one document per challenge | GET, SET, DEL, KEYS; `CanCreate`'s scan | check-then-act, errors skipped | one open challenge per creator |
| MongoDB repository | `internal/repo/mongo.go` | archived documents | find, insert, update | duplicate or half-acknowledged insert | archived once, after it finished |
| LeaderboardManager | `internal/leaderboard/manager.go` | map of open boards; RedisBoard's scores | initialize, cleanup, score, list, rank | board handle used after unlock, sort, leaks | board agrees with the document, no board without a challenge |
| Local state | `internal/local/local.go` | per challenge a map from user to connection (sessions, event channel: unused) | add, remove, get, list | one entry per user and challenge, removed by name | a live connection stays registered, an ended one does not |
| WebSocket server and broadcasts | `internal/wss/server.go`, `dispatcher.go`, `broadcasts/`, `handlers/` | last user and challenge named on a connection | read loop, dispatch, clean up, broadcast | reconnect against cleanup, concurrent writers | messages reach members only, joiners learn of each other, every loop is cleaned up |
| Fetch pool, `CanCreate`'s goroutines | `challenge.go` 29-51, `redis.go` 236-313 | WaitGroup, mutex, channel | submit, collect, early exit | submit error, blocked sender, cancelled context | goroutines and requests end, no conflict missed, nothing dropped |
| Start, shutdown, database clients | `cmd/main.go`, `internal/db/` | none of its own | wiring, signals, RDB settings | restart, release of the pool | see `Crash`, `Release` and `Exit` below |
| Tokens, auth, config, types, conversions | `internal/jwt`, `wss/middleware`, `config`, `model`, `utils`, proto | none | pure functions, external calls | - | not modelled |

Interaction: the gRPC service and the WebSocket handlers share the repositories, the manager and
the local state through `global.State`. `EndChallenge` and `LeaveChallenge` are methods of the
service that nothing in the repository calls yet; `lifecycle.md` describes the first as the normal way
a challenge ends, and both are modelled as requests.

The hazards, each at its line, are listed in `PROJECT.json` with the properties that cover them.

## 2. Modules

| Module | What it is |
|---|---|
| `GoMaps` | Go's `map[K]V` as partial functions: `PMap`, `Put`, `Drop`. |
| `Documents` | The challenge document and the pure edits made on a copy: `NewDoc`, `WithParticipant`, `WithoutParticipant`, `Credit`, `Occupies`. |
| `ChallengeLifecycle` | The requests against Redis, MongoDB, the board map and the scores. One action per store call or mutex section. |
| `ChallengeArchive` | Abstract: `live` and `archived` sets; a challenge is opened, archived, evicted, perhaps revived. |
| `LeaderboardManager` | The boards as handles, and the handlers' calls on them one by one; the sort, the limit, the rank. |
| `Connections` | The WebSocket registry, the read loops with their cleanup, broadcasts and overlapping writes. |
| `FanOut` | `CanCreate`'s goroutines and the listings over the worker pool. |
| `KeyScan` | Abstract: a sequential scan of the keys that existed at its start, and what may make it refuse, pass over a key or fail. |
| `MCLifecycle`, `MCLeaderboard`, `MCConnections`, `MCFanOut` | The instances for TLC: documents to choose from, symmetry. |
| `ChallengeLifecycleProofs` | Types, inductive invariant, nothing lost. |
| `ChallengeStoresProofs` | `ChallengeLifecycle` implements `ChallengeArchive`; a read finds every challenge that existed when it was asked. |
| `ChallengeCopiesProofs` | What holds of every copy of a document: only the creator ended it, its points were pushed; an ended challenge is archived. |
| `ChallengeSerialProofs` | The promises of requests served one after the other. |
| `GoMapsProofs` | The operations of `GoMaps` keep maps of their type. |
| `LeaderboardProofs` | `LeaderboardManager`: types, no board leaks, answers are the sorted top, a push appears on the list it sends, with its rank. |
| `ConnectionsProofs` | `Connections`: types and its four safety properties. |
| `FanOutProofs` | `FanOut`: types, its four invariants, room in the channel, and that it implements `KeyScan`. |

How they fit together. `ChallengeLifecycle` holds the stores, and takes three things in a simple
form that the other modules justify or refine:

- its `CanCreate` looks at the keys one after the other. `KeyScan` states that by itself: every key is looked
  at, the first conflict refuses, a key is passed over only if its GET failed, without a conflict the create
  is refused only if KEYS failed or the caller has gone, and the document is stored only for a caller who waits.
  `FanOut` shows that the goroutines with their channel implement it (`ScansKeys`);
- a handler's two or three calls of the leaderboard manager (open, add the user, list) are
  steps in the same order as in `LeaderboardManager`, which adds what happens between `getBoard` and
  the use of the board;
- a disconnection is one request for the stores. When it happens and for which names, and
  what it does to the registry and to other connections, is in `Connections`, where in turn a join
  is accepted or refused at will.

### How `ChallengeLifecycle` follows the code

`redis`, `mongo`, `boards`, `scores` are the shared stores. A request `r` has a control point `pc[r]`, the
request itself `job[r]`, the handler's copy `doc[r]`, the copy inside a repository function
`tmp[r]`, and the keys `CanCreate` still has to look at, `todo[r]`. The control points follow each handler:

    create      keys, scan*, (store) initBoard, addUser
    join        joinLoad, [addGet, addSet,] updGet, updSet, initBoard, addUser, topK, save
    push        pushLoad, updGet, updSet, write, initBoard, addUser, topK, save
    abandon     abandonLoad, markGet, markSet, closeBoard, archGet, archFind, archInsert|archUpdate, archDel
    end         endLoad, closeBoard, markGet, markSet, archGet, ...
    leave       leaveLoad, remGet, remSet
    disconnect  remGet, remSet
    retrieve    retrieveLoad, initBoard
    read        readRedis, readMongo

`UpdateParticipant` is `AddParticipant`, so both are `ParticipantGet` and `ParticipantSet`; what
follows them differs by operation, as in the code (join logs the error and goes on, push returns
it). Errors of the leaderboard and of the persistence are logged by the code and so do not stop
a handler here.

Abstractions, all of data:

- the leaderboard in a document is the map from user to total; order and ranks are in
  `LeaderboardManager`, and instances have fewer than the 50 users it is cut at;
- a GET that fails and a GET that finds nothing take the same path in every handler and are one case;
- a write that fails may or may not have been applied (`Outcomes`), also when the reply is lost;
- an unsuccessful submission, a refused join (password, token) and a malformed request change
  nothing and are not requests;
- the caller chooses the challenge's ID; it does not reuse one, and other requests name a
  challenge somebody created (`Named`);
- `retrieve` goes on or stops at will where the code asks whether the user is connected;
- RedisBoard, Redis and MongoDB survive a crash of the process. RDB snapshots are Redis' own
  affair. Whether `Close` erases a board's scores is left open: both are explored.

`Crash` kills every running handler with its copies and all open boards; `main.go` restores no
board on start, although `lifecycle.md` 227-228 announces it: `InitializeLeaderboard` opens them again on demand.

### How `LeaderboardManager` follows the code

`Boards` is the manager's map; a board is a number per challenge, so that a handle a handler
still holds can be told from the one now in the map. `alive` are the boards whose connection is
open. The handlers are reduced to what they ask of the manager:

    create      init, getAdd, add
    join        init, getAdd, add, getList, topK, sort*, limit
    push        init, getAdd, add, getList, topK, sort*, limit, getRank, rank
    retrieve    init, getList, topK, sort*, limit
    list        getList, topK, sort*, limit
    end         close

`InitializeLeaderboard` and `CleanupLeaderboard` hold the lock throughout and are one step. Every other
function is `getBoard` under the read lock (`get...`) and then the use of the pointer outside it.
The sort is one comparison per step, with the two loop variables of the code.

RedisBoard is external. What it may do is taken from how the manager uses it: a call on an open
board works, or fails when `MayFail`; a call on a board somebody closed meanwhile fails or
still reaches Redis; `Close` may or may not leave the scores; a `Close` that fails leaves the board open
or not. `GetTopKGlobal` may return any K of the highest, ties in any order.

`seen` and `calm` are history variables: the scores a listing was computed from, and whether anything
failed for a handler or anybody interfered with it.

### How `Connections` follows the code

A goroutine is the read loop of a connection (`Conns`) or a gRPC request that broadcasts (`Casters`).
A read loop reads a message and runs its handler to the end before it reads the next:

    Join         registers (AddWSClient), BroadcastEntity, EndWrite*, EndCast, own reply, read
    Show         own write (two when the middleware refused), read
    RefuseJoin, Ping   own write, read
    Unknown      read
    ReadError    [RemoveWSClient, BroadcastEntity, EndWrite*, EndCast,] ended

- A registry operation is one step. The two locks of `local.go` are taken one after the other, but
  challenge states are never dropped (`CleanupChallenge` has no caller), so the pointer that is used after
  the outer lock is released is always the one in the map.
- Every message replaces the names the connection remembers (`names`, "Track for cleanup"), before
  and whether or not it is accepted; the entry a join makes is for the user of the token the message carries, whichever
  user it names, and the next join on the same connection may carry another one. The cleanup uses the names.
- `GetAllWSClients` copies the registry under the lock, and the writes follow without it.
- A write is two steps, its start and its return. Several goroutines may be inside a write to one
  connection: what the comments at `broadcast.go:39` ("Send to each connection sequentially to avoid concurrent write
  issues") and `:44` ("Send synchronously to avoid concurrent writes to the same connection") are after is reached within
  one broadcast, not between two. The library allows one writer and detects some overlaps with a panic, so an overlapping write
  goes through or panics. In a read loop net/http recovers the panic and the deferred `Close` runs, but not the cleanup
  (`PanicLoop`); in a gRPC handler the process dies (`PanicCaster`).
- When the middleware refuses, it sends an error, and the dispatcher then calls the handler as
  well; `Show` has both writes.
- A client goes (`Leave`) only where the server notices: at the read, or in the error of the middleware.
  Elsewhere it is the same as going a little later, since results of writes are ignored.

`joined`, `contested` and `heard` are history variables: as which users, and in which challenges, a connection was added;
which of these another connection has named or joined as since, or had last named before; and who was told of whom.

Left out are the contents of messages but for the names, and sessions (removed, never added or read).

### How `FanOut` follows the code

One request of one user, while others change the documents (`OtherWrite`):

    create   keys, collect* (a goroutine per key: get, send), set
    open     keys, read*, submit* (a task per challenge: get, append), wait
    owned    keys, read*

`chan` is the buffered `resultChan`, `wg` the counter of the wait group, `listed` the slice under
the mutex. `gone` is the end of the request's context: calls of Redis fail from then on, and
the `select` of the collecting loop may take either case. `CanCreate` returns early on a conflict and cancels its
goroutines, which go on to send. `Submit` waits for a worker; a pool that was released returns an
error, which the code drops after `wg.Add`.

`main` returns as soon as `ListenAndServe` does, with the pool released first: `Release`, then `Exit`,
which ends the process under the request. `Release` is only offered while a request submits, the only
time it can tell.

## 3. Runs

Every bound is a constant. Of `ChallengeLifecycle`: `Requests` (requests in a run), `MaxInFlight` (at
the same time), `MaxCrashes`, `Ops`, `Preloaded` (challenges open in Redis at the start, with any subset of
the users as members besides the creator). Of `LeaderboardManager`: `Callers`, the documents handlers hold
(`Copies`) and the scores Redis may already have (`Kept`). Of `Connections`: `Conns`, `Casters`, `MaxMessages`
read in all, `Named` users. Of `FanOut`: `Challenges`, `PoolSize`, `MaxWrites`.

| Run | Bounds | Shows |
|---|---|---|
| `all_ops` | 2 requests, overlapping, all nine operations, 2 challenges, failures of both stores, 1 crash | `TypeOK`, and the proofs' `IInv` |
| `faulty` | 3 requests, 2 at a time, push, abandon, end, disconnect, failures of both stores, 1 crash | `NeverLost`, `OnlyCreatorTerminates`, `KeepsArchive` (refinement) |
| `concurrent` | 3 requests at the same time, join, push, abandon, read, stores answer | `NoPhantomScore`, `EndedIsArchived`, `ReaderNeverMisses` |
| `serial` | 4 requests one after the other, create, join, push, disconnect, end, 2 challenges, MongoDB failures, 1 crash | `OneOpenPerCreator`, `ArchivedOnceFinished`, `AckedPushKept`, `BoardAgrees`, `NoOrphanBoard`, `NeverReopens`, `KeepsOneWay` |
| `live` | 2 overlapping requests of any kind, stores answer, `FairSpec` | `OverIsArchived`, `EveryRequestEnds` |
| `connections` | 2 connections of one user or two, 2 challenges, 3 messages, 1 gRPC broadcast, any client goes at any time | `TypeOK`, `NoDeadEntry`, `SoleConnectionKept`, `OnlyMembersWritten`, `SomebodyIsTold`; no deadlock |
| `leaderboard` | 2 handlers of any of the six kinds, 1 challenge with 4 users of which a board returns 3, failures of RedisBoard | `TypeOK`, `MapMatchesBoards`, `AnswerIsTop`, `PushListsItself`, `RankAgrees` |
| `fan_out` | a create or a listing over 3 challenges (own, public, private), 2 workers, 1 write of others, failures, caller goes, shutdown | `TypeOK`, `RefusedForCause`, `ConflictFound`, `ListedMattered`, `SteadyIsListed`, `ScansKeys` (refinement), `GoroutinesEnd`, `RequestEnds` |
| `revival` | push against abandon | violated: `GoneStaysGone` |
| `two_creates` | two creates | violated: `OneOpenPerCreator` |
| `lost_push` | two pushes | violated: `AckedPushKept` |
| `inactive_push` | abandon with a failing MongoDB, then push | violated: `PushesOnlyToActive` |

Why the bounds of the lifecycle are enough to meet the interesting cases: a race in this code needs a reader
with a stale copy and a writer in between (2 requests) and, for archival, a third that comes
after; one challenge is enough unless creation is involved, and then two; two users are the
creator and somebody else; a crash twice is a crash after a shorter prefix. Users and requests
are only compared, so the runs without liveness use symmetry over both.

The other bounds. `leaderboard`: every race on a board is between its user and one who closes or scores;
four users against a limit of three make the cut and two kinds of ties happen (on score, on
score and problems), and one limit is below what the board returns. Handlers, users, and challenges
that do not share a board do not meet. `connections`: the cases are a connection against its own successor, against another
user's, and against a broadcast; three messages are two joins and one more that changes the names. Naming
somebody who has no connection adds nothing to naming the other user. `fan_out`: three challenges with two workers make a task wait; one
challenge of each kind can be in the way or listed or not; one write changes it before, between or after the two reads.
Symmetry is over callers in `leaderboard` and over users and challenges in `connections`; `fan_out`
has liveness and no symmetry. `connections` has a `VIEW`, which hides what no step and no property
reads any more: the histories `contested` and `heard` of a connection whose cleanup has begun or whose loop is over, and the copy of the
registry in a read loop (1.9 instead of 3 million states).

`serial` states what the code promises when requests do not overlap. The same promises are broken
when they do: that is what `revival`, `two_creates` and `lost_push` show on the smallest instance, and why
the properties of `concurrent` and `faulty` are the weaker ones that survive the races. Together
they draw the line between what a client can rely on and what it cannot. Leaving and
abandoning are not among `serial`'s operations, to keep four requests within minutes (a
disconnection leaves, `end` archives as abandoning does); `faulty` abandons, `all_ops` does both.

Deadlock is checked in every run. The only way to stop is an action that says so: `AllServed`
(all requests answered or crashed), `AllDone` in `LeaderboardManager` and `FanOut` (no handler and no
goroutine has anything left), `AllOver` in `Connections` (every read loop and every broadcast over). A handler or a read loop
that cannot go on would be reported. The behaviours of `Connections` are finite but for that last step, so this
is also how it says that every connection whose client went is cleaned up, given that writes
return: the code sets no write deadline.

Fairness: `FairSpec` is weak fairness of every handler's steps. A handler is a goroutine, and
every store call returns with a reply or an error, so an enabled step is eventually taken. Nothing
is assumed of arrivals (`Receive`) or of crashes. `live` allows no store failure:
`OverIsArchived` is false when MongoDB refuses, since nothing retries. `FanOut` assumes the same of its
handler and of each goroutine, and that a process that released its pool exits: `main` has nothing left
to do but return. That last one is needed: a task that the released pool refused leaves the wait group
above zero, and only the end of the process ends that request (`RequestEnds`).

Each property has a mutant of the code (`..._Something` operators next to the action they
replace) that TLC finds violating it.

### What the passing runs draw the line at

- A connection keeps the entry of each user and challenge it joined as and no other connection named or joined as, and stays open
  (`SoleConnectionKept`). The second half needs this of everything it joined as: `RemoveWSClient` closes the connection it
  removes, so a cleanup for one challenge also ends what the user has in others.
- An ended connection leaves an entry behind only if its last messages named something else than what it
  joined as (`NoDeadEntry`), or if its loop panicked.
- Two overlapping joins: at least one is told of the other (`SomebodyIsTold`), since each registers before it
  copies the registry. Both may be.
- `CanCreate` counts a GET that failed as no conflict. Of a Redis that answers it misses none that
  was there all the time, not even when the caller goes in the middle (`ConflictFound`): what is stored is
  stored only if the SET was sent before.
- A push that was not interfered with is on the leaderboard it sends, unless K others have at
  least as much (`PushListsItself`), with the rank that is its position (`RankAgrees`) when the
  scores did not change and nobody ties with it; RedisBoard ranks ties in an order of its own.

### What the violating runs show

- `revival`: a push that loaded the document before an abandonment writes it back after the
  deletion (`challenge.go:369`, also `join-challenge.go:138`). The challenge is in MongoDB
  and open in Redis; `lifecycle.md:168` says Redis has it only while it is active.
- `two_creates`: `CanCreate` and the SET are separate; `lifecycle.md:40` allows one active challenge.
- `lost_push`: of two overlapping pushes the later SET removes the other's submission, though
  both were told "submission processed successfully".
- `inactive_push`: the comment at `challenge.go:282` says the load verifies that the
  challenge is active; the status is never read.

Two more promises of `serial` do not survive an overlap, for which there is no run; `Revival.cfg` with the operations and the
invariant exchanged shows each (for the second also two scores):

- `NoOrphanBoard`, by a retrieve and an abandonment: a retrieve that loaded the challenge before the abandonment closed its board
  and deleted it opens the board again (`retrieve-challenge.go:72`), and no request finds the challenge any more to close it;
- `BoardAgrees`, by two pushes of one user for one problem: one writes the score last (`challenge.go:353`), the other the document
  (lines 339 and 369). No submission but a replaced one is lost, and yet the board and Redis keep different totals.

## 4. Proofs

Assumptions of the lifecycle: `ScoresAssumption` (scores are integers), `NoDocAssumption` and `NoJobAssumption`
(the two null values are not documents or jobs), `LifecycleAssumption` (the bounds have their
types). Everything else is arbitrary: any users, problems, challenges and requests, any number in
flight, any number of crashes, failures allowed or not. `LeaderboardAssumption` says that users, which are numbered in
the order of their IDs, and problems are finite sets (a list of entries has a length), and that limits are numbers; `TotalsAssumption` that
the total of any problems solved is an integer, which sums are, but a sum is defined by recursion
and so beyond the prover. `ConnectionsAssumption` says that connections are numbered, that no connection is a gRPC
request, and that `None` is none of them. `FanOutAssumption` has a finite number of challenges, and documents with one of the
statuses.

- `TypeCorrectness`, `Invariance` (`ChallengeLifecycleProofs`): `TypeOK` is not inductive. A handler
  that writes `doc[r]` needs to know it holds a document that lists its user, and this follows from
  where its `pc` stands. `IInv` adds, per request: the operation fits the control point
  (`OpInPlace`), the copies the next step uses are documents (`CopyInHand`), and the archiving
  handler's challenge exists, and is in MongoDB once deletion is next (`ArchiveOrder`).
  The last part speaks of shared state that other handlers change. It is kept because no step
  takes a challenge out of both stores and none takes one out of MongoDB (`StoresKeep`).
  There is one lemma per action (`...Safe`), then `StepKeeps` lifts it to the other handlers.
- `NothingLost`: `NeverLost` from the same lemmas.
- `StoresImplementArchive` (`ChallengeStoresProofs`): under `live` = in Redis and `archived` = in
  MongoDB, each step is `Open`, `Archive`, `Evict`, `Revive` or a stutter of `ChallengeArchive`.
- `ReadersFind` (`ChallengeStoresProofs`): `ReaderNeverMisses`, assuming `~RedisMayFail` (a failed
  GET reads like a missing key and sends the reader to MongoDB, where the challenge may not be
  yet). `ReaderInv` says what a reader may rely on at each of its two looks: before the first the
  challenge is in one of the stores, before the second it is in MongoDB. `StoresKeep` again keeps
  both facts while other handlers step.
- `TerminatedByCreator` (`ChallengeCopiesProofs`): `OnlyCreatorTerminates` speaks of every copy of a document, in a store or in a
  handler's hands, and any of them may be written back late. It is not inductive: a handler that marks a document passed the check
  of the creator on another copy, two GETs earlier. `CopiesInv` adds what makes the check still good: all copies
  of a challenge have one creator (`CreatorsAgree`), because it is created by one request (`CreatedOnce`) and there is no copy before that
  one's SET (`NoneBeforeBirth`), so a handler past the check works for the creator of every copy (`Checked`). The proof asks
  where a copy can come from: `Flow` says that every copy after a step was there before or was made by the handler that stepped, and
  `Made` names the six ways to make one. With that, a property of all copies is kept if each way to make a copy keeps it.
- `PointsWerePushed`: `NoPhantomScore` by the same `Flow`, with no further invariant. Points enter by `Credit` only, and the
  metadata a join or push files is fresh or its user's own (`Known`).
- `EndsAreArchived`: `EndedIsArchived` while both stores answer, as in `concurrent`. The creator is told `ok` only
  after the archiving steps; with errors, which the persistence logs and drops, the same `ok` is sent without them.

The promises of `serial` (`ChallengeSerialProofs`) are proved for `MaxInFlight = 1`, any number of requests, all nine operations, crashes at
any step and failures of MongoDB. `MaxInFlight = 1` is not for convenience: with two requests that overlap, `two_creates` breaks the promise of one open challenge, `lost_push`
that of an acknowledged push, and `revival` brings back what was archived. Failures of Redis are allowed too unless the bullet says otherwise.

- `SerialInvariance`: one handler runs (`Alone`), and `Sync` says what it then knows of the stores from where it stands: its challenge is in
  Redis, with the status of the copy it is about to write or already finished, and MongoDB has what it looked up. A crash or an error
  anywhere leaves a state in which the next handler can begin, since a handler that stands at its first step claims nothing.
  `ArchivesOnce`, `FinishedStaysFinished` and `StoresImplementOneWay` (no `Revive`) follow.
- `PushesAreKept`: `PushKeeps` follows a push's point from the handler's hands into the document (after the acknowledged SET) and from then on
  into every copy a reader or a handler of the challenge has, until a request that may take it out (`Stands`).
- `OneOpenEach`: while `CanCreate` scans, whatever stands in its way is among the keys it has not looked at (`ScanInv`). Needs
  a Redis that answers, since a GET that failed counts as no conflict, and that it is so at the start, since the challenges
  found at the start may have any creators.
- `BoardsClose`: the archiving steps come after the board was closed, and a board is opened only for a document in Redis (`BoardsInv`). Needs a Redis that
  answers: a `Close` that fails keeps the entry and is only logged.
- `BoardsAgree`: `ScoresInv` says that a challenge nobody works on agrees with its board, and what the copy in a handler's hands has of it
  step by step: all totals but the user's own, then that one too (from `topK`), then the snapshot (`save`). Needs a Redis
  that answers, and no crash so far, which is part of the property: a crash between `write` and `addUser` leaves the total without its score.

- `TypeCorrectness`, `NoBoardLeaks` (`LeaderboardProofs`): two boards never share a number, and the
  board that is open for a challenge is the one in the map. That rests on the manager's lock: opening and closing are
  one step each, and a handle kept after the unlock is used but never put back.
- `AnswersAreTop` (`LeaderboardProofs`): the exchange sort swaps entry `outer` with entry `inner` when they are in the wrong order. Its invariant
  (`SortInv`) has two parts: the entries before `outer` are in order and precede all that follow
  (`OrderedUpTo`), and entry `outer` precedes those from `outer + 1` to before `inner` (`Leads`). Together with
  `Faithful` (each entry is a user's score, no user twice) and `Complete` (nobody left out has a higher score than somebody
  listed) this gives the sorted top once `outer` has run through, and the cut keeps it.
- `PushesListThemselves` (`LeaderboardProofs`): `PushInv` follows a push for which nothing failed and with which nobody interfered
  (`calm`): its board is in the map until it asks for the list, Redis has its total from `AddUser` on, and then
  the list has its user or is full.
- `RanksAgree` (`LeaderboardProofs`): RedisBoard counts the users with a higher score, the list has a position. On a sorted list that leaves out
  nobody higher, mapping the positions before a user to their users is a bijection onto those with a higher score when nobody ties
  with it (`HigherStandBefore`), so the two numbers are equal.
- `ConnectionsProofs`: the four safety properties share one inductive invariant. `LoopInv` says where a
  goroutine may stand and that what it still has to write to joined the challenge its broadcast is about
  (`MembersOnly` follows); `RegistryInv` that every entry is of a connection that joined as its user; `NamesInv` that
  the user and challenge last named on a connection are contested of every other one that joined as them, which is what keeps a cleanup by name away from a connection that stands alone
  (`SoleConnections`); `RemovedInv` that a cleanup past its removal has left no entry (`NoDeadEntries`); `ToldInv` that of two members
  one was told or still will be, by an announcement that has yet to copy the registry or to write (`JoinersAreTold`). `QuietStep`
  treats all the steps that leave the registry alone; joining, removing and the death of the process have a lemma each.

- `FanOutProofs`: `CollectInv` counts. While CanCreate collects, the results it waits for are the goroutines yet to send plus
  the results in the channel, and a conflict that was sent and not received is still in it. So `left = 0` means that nothing
  was found (`ConflictsAreFound`), and there is always room to send (`SendersNeverWait`). `WaitInv` says that
  `wg` is the number of tasks that have not called `wg.Done`, those a released pool dropped included; when it is zero every task
  ended, and what was there all the time is listed (`SteadyAreListed`). `HistoryInv` relates what was read to
  what mattered. For `FanOutImplementsScan` a goroutine's GET is a check of `KeyScan`, a GET of a conflict its refusal (from then on nothing
  but that refusal, or the end of the process, can come, since the result is in the channel or will be), the caller's end in the `select` its
  refusal without a conflict, the SET its acceptance or failure, and the sends are invisible.

Every invariant and every safety property that the passing runs check is stated by one of these theorems, the two refinements of `ChallengeArchive`
and the one of `KeyScan` included. Only model-checked is liveness, which is out of the prover's reach: `OverIsArchived`, `EveryRequestEnds`,
`GoroutinesEnd`, `RequestEnds`, and the absence of deadlock. What the theorems leave to TLC besides is sums: `TotalsAssumption` takes the totals
of `LeaderboardManager` to be integers. The strengthenings in the proof modules (`SerialInv`, `PushesInv`, `ScanInv`, `BoardsInv`, `ScoresInv`)
belong to no run of their own; they imply the properties of `serial`.

## 5. Plan

Done: the lifecycle, the leaderboard, the registry, the fan-out; the proofs of section 4. Left (all proofs):

1. The promises of `ChallengeSerialProofs` that speak of one challenge (all but `OneOpenEach`), from one handler at a time per challenge
   rather than in all: `Sync` and `PushKeeps` mention only the handler's own challenge already.
2. `CanCreate` in `ChallengeLifecycle` as an implementation of `KeyScan` too, so that `FanOutImplementsScan` and `OneOpenEach` meet in a theorem
   and not only in the text of section 2.

## 6. Not modelled

- Tokens, the API gateway call, configuration, RDB settings and BGSAVE, signal handling, proto conversions: stateless,
  or calls of external systems. `middleware/auth.go` is never constructed; the middleware in use is a
  closure in `main.go`, and what its error does is in `Connections`.
- `GetChallengeHistory`: one query of MongoDB.
- Code without a caller at this commit: `CanJoin`, `mongo.go`'s `AbandonChallenge`, `SendEvent`, `GetEventChannel`,
  `CleanupChallenge`, `GetAllChallengeIDs`, and sessions, which are removed but never added or read.
- `MaxUsers` is stored and never compared with anything. The 30-minute session timeout of `lifecycle.md:218` is a
  constant without a use. No write deadline is set, so a client that neither reads nor closes may block whoever writes to
  it; `Connections` takes every write to return.
