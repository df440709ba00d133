---- MODULE FanOut ----
(***************************************************************************)
(* The requests that spread over goroutines: CreateChallenge, whose        *)
(* CanCreate reads every challenge in a goroutine of its own and collects  *)
(* the results over a channel, and the listings GetActiveOpenChallenges,   *)
(* which fetches over the worker pool, and GetOwnersActiveChallenges,      *)
(* which reads in a loop.  One such request of one user runs against       *)
(* everything the others do to the documents in Redis.                     *)
(*                                                                         *)
(* The caller may go away, which cancels the context; Redis may fail; the  *)
(* process may shut down, which releases the pool before it exits.         *)
(***************************************************************************)
EXTENDS Integers, Sequences, FiniteSets

CONSTANTS
    Challenges,
    Mine,            \* challenges the user is the creator of
    Private,         \* challenges created as private ones
    Docs,            \* documents: the status, and is the user a participant?
    NoDoc,
    Kinds,           \* requests: "create", "open", "owned"
    PoolSize,        \* workers of the pool (100)
    MaxWrites,       \* bound: writes of other requests
    RedisMayFail     \* may a call of Redis fail while the caller waits?

ASSUME FanOutAssumption ==
    /\ IsFiniteSet(Challenges)
    /\ Mine \subseteq Challenges /\ Private \subseteq Challenges
    /\ Docs \subseteq [status : {"open", "over"}, member : BOOLEAN]
    /\ NoDoc \notin Docs
    /\ Kinds \subseteq {"create", "open", "owned"}
    /\ PoolSize \in Nat \ {0}
    /\ MaxWrites \in Nat
    /\ RedisMayFail \in BOOLEAN

VARIABLES
    db,              \* challenge -> its document in Redis, or NoDoc
    writes,          \* number of writes of other requests
    kind,            \* the request
    pc,              \* where its handler stands
    gone,            \* has the caller gone, and so ended the context?
    cancelled,       \* has CanCreate cancelled the context of its goroutines?
    keys,            \* what KEYS returned
    todo,            \* keys the handler has yet to read or to submit
    left,            \* results CanCreate still waits for
    work,            \* challenge -> its goroutine or task
    found,           \* challenges a goroutine or the handler picked out
    chan,            \* resultChan, of results canCreate
    wg,              \* the wait group's counter
    listed,          \* the challenges of the answer
    released,        \* has main released the pool?
    steady,          \* history: challenges that mattered all the time since KEYS
    ever,            \* history: challenges that mattered at some time since KEYS
    lost             \* history: a call of Redis failed while the caller waited

creating == <<left, chan, cancelled>>
listing == <<todo, wg, listed>>
history == <<steady, ever, lost>>
vars == <<db, writes, kind, pc, gone, keys, creating, listing, work, found, released, history>>

Answered == {"stored", "refused", "failed", "listed", "error"}

\* What a request is about: open challenges the user is in, public open
\* challenges, the user's own.
Matters(c, d) ==
    /\ d # NoDoc
    /\ \/ kind = "create" /\ d.status = "open" /\ (c \in Mine \/ d.member)
       \/ kind = "open" /\ d.status = "open" /\ c \notin Private
       \/ kind = "owned" /\ c \in Mine

TypeOK ==
    /\ db \in [Challenges -> Docs \union {NoDoc}]
    /\ writes \in 0..MaxWrites
    /\ kind \in Kinds
    /\ pc \in {"keys", "collect", "set", "read", "submit", "wait", "exited"} \union Answered
    /\ {gone, cancelled, released, lost} \subseteq BOOLEAN
    /\ keys \subseteq Challenges /\ todo \subseteq keys
    /\ listed \subseteq found /\ found \subseteq keys
    /\ left \in 0..Cardinality(keys)
    /\ work \in [Challenges -> {"none", "get", "send", "append", "ended"}]
    /\ chan \in Seq(BOOLEAN) /\ Len(chan) <= Cardinality(keys)
    /\ wg \in 0..Cardinality(keys)
    /\ steady \subseteq ever /\ ever \subseteq Challenges

Init ==
    /\ db \in [Challenges -> Docs \union {NoDoc}]
    /\ writes = 0
    /\ kind \in Kinds
    /\ pc = "keys"
    /\ gone = FALSE
    /\ cancelled = FALSE
    /\ keys = {}
    /\ todo = {}
    /\ left = 0
    /\ work = [c \in Challenges |-> "none"]
    /\ found = {}
    /\ chan = <<>>
    /\ wg = 0
    /\ listed = {}
    /\ released = FALSE
    /\ steady = {}
    /\ ever = {}
    /\ lost = FALSE

Become(c, stage) == work' = [work EXCEPT ![c] = stage]

(***************************************************************************)
(* Redis.  A GET that fails, a missing key and a malformed document are    *)
(* one case everywhere: NoDoc.  Once the context ended, calls fail, except *)
(* those that were under way.                                              *)
(***************************************************************************)
Done == gone \/ cancelled
Fallible == RedisMayFail \/ Done

\* The answers a GET of c may have; history: was it one a failure gave?
Answers(c) == {db[c]} \union (IF Fallible THEN {NoDoc} ELSE {})
Loses(c, d) == lost' = (lost \/ (d # db[c] /\ ~Done)) /\ UNCHANGED <<steady, ever>>

\* Mutant: one result too few is waited for.
Expected_OneLess(ks) == Cardinality(ks) - 1

\* CanCreate waits for a result per key.
Expected(ks) == Cardinality(ks)

\* KEYS, by all three; the create goes on to its goroutines, or without a
\* challenge to its SET.
Keys ==
    /\ pc = "keys"
    /\ \/ /\ keys' = {c \in Challenges : db[c] # NoDoc}
          /\ steady' = {c \in Challenges : Matters(c, db[c])}
          /\ ever' = steady'
          /\ \/ /\ kind = "create" /\ keys' # {}
                /\ work' = [c \in Challenges |-> IF c \in keys' THEN "get" ELSE "none"]
                /\ left' = Expected(keys')
                /\ pc' = "collect"
                /\ UNCHANGED todo
             \/ /\ kind = "create" /\ keys' = {}
                /\ pc' = "set"
                /\ UNCHANGED <<work, left, todo>>
             \/ /\ kind # "create"
                /\ todo' = keys'
                /\ pc' = "read"
                /\ UNCHANGED <<work, left>>
          /\ UNCHANGED lost
       \/ /\ Fallible
          /\ pc' = IF kind = "create" THEN "refused" ELSE "error"
          /\ lost' = (lost \/ ~Done)
          /\ UNCHANGED <<keys, steady, ever, todo, work, left>>
    /\ UNCHANGED <<db, writes, kind, gone, chan, cancelled, wg, listed, found, released>>

(***************************************************************************)
(* CanCreate and the SET after it.                                         *)
(***************************************************************************)
\* Mutant: challenges that are over count as well.
Occupies_Over(c, d) == d # NoDoc /\ (c \in Mine \/ d.member)

\* The challenge c, read as d, stops the user from creating another one.
Occupies(c, d) == d # NoDoc /\ d.status # "over" /\ (c \in Mine \/ d.member)

\* A goroutine reads its challenge and has its result.
Read(c) ==
    /\ kind = "create"
    /\ work[c] = "get"
    /\ \E d \in Answers(c) :
         /\ found' = IF Occupies(c, d) THEN found \union {c} ELSE found
         /\ Loses(c, d)
    /\ Become(c, "send")
    /\ UNCHANGED <<db, writes, kind, pc, gone, keys, creating, listing, released>>

\* Mutant: the channel has no room for the last result.
Capacity_OneLess == Cardinality(keys) - 1

\* resultChan is made for all results.
Capacity == Cardinality(keys)

\* It sends the result, for which the channel must have room.
Send(c) ==
    /\ work[c] = "send"
    /\ Len(chan) < Capacity
    /\ chan' = Append(chan, c \notin found)
    /\ Become(c, "ended")
    /\ UNCHANGED <<db, writes, kind, pc, gone, keys, left, cancelled, listing, found, released, history>>

\* The loop that collects the results ends early on a conflict.  When the
\* context has ended too, either case of the select may be taken.  Whichever
\* way CanCreate returns, it cancels the context of the goroutines.
Collect ==
    /\ pc = "collect"
    /\ \/ /\ left = 0
          /\ pc' = "set"
          /\ cancelled' = TRUE
          /\ UNCHANGED <<chan, left>>
       \/ /\ left > 0 /\ chan # <<>>
          /\ chan' = Tail(chan)
          /\ \/ /\ ~Head(chan)
                /\ pc' = "refused"
                /\ cancelled' = TRUE
                /\ UNCHANGED left
             \/ /\ Head(chan)
                /\ left' = left - 1
                /\ UNCHANGED <<pc, cancelled>>
       \/ /\ left > 0 /\ gone
          /\ pc' = "refused"
          /\ cancelled' = TRUE
          /\ UNCHANGED <<chan, left>>
    /\ UNCHANGED <<db, writes, kind, gone, keys, listing, work, found, released, history>>

\* Mutant: the document is stored for a caller who has gone.
StoreNew_Detached ==
    /\ pc = "set"
    /\ \/ pc' = "stored" /\ UNCHANGED lost
       \/ RedisMayFail /\ pc' = "failed" /\ lost' = TRUE
    /\ UNCHANGED <<db, writes, kind, gone, keys, creating, listing, work, found, released, steady, ever>>

\* The SET, with the context of the request: once the caller has gone it is
\* not sent.  What it stores is in ChallengeLifecycle.
StoreNew ==
    /\ pc = "set"
    /\ \/ ~gone /\ pc' = "stored" /\ UNCHANGED lost
       \/ gone /\ pc' = "failed" /\ UNCHANGED lost
       \/ ~gone /\ RedisMayFail /\ pc' = "failed" /\ lost' = TRUE
    /\ UNCHANGED <<db, writes, kind, gone, keys, creating, listing, work, found, released, steady, ever>>

(***************************************************************************)
(* The listings.                                                           *)
(***************************************************************************)
\* Mutant: the status is not looked at.
Picks_Any(c, d) == d # NoDoc /\ (kind = "owned" => c \in Mine)

\* GetChallengesByStatus picks the open ones, GetOwnersActiveChallenges the
\* user's own, whatever their status.
Picks(c, d) ==
    /\ d # NoDoc
    /\ \/ kind = "open" /\ d.status = "open"
       \/ kind = "owned" /\ c \in Mine

\* The handler reads the challenges one after the other, in any order.
ReadNext(c) ==
    /\ pc = "read"
    /\ c \in todo
    /\ todo' = todo \ {c}
    /\ \E d \in Answers(c) :
         /\ found' = IF Picks(c, d) THEN found \union {c} ELSE found
         /\ Loses(c, d)
    /\ UNCHANGED <<db, writes, kind, pc, gone, keys, creating, wg, listed, work, released>>

\* The owner's listing is complete; the open ones picked out are fetched again.
ReadAll ==
    /\ pc = "read"
    /\ todo = {}
    /\ \/ kind = "owned" /\ pc' = "listed" /\ listed' = found /\ UNCHANGED todo
       \/ kind = "open" /\ pc' = "submit" /\ todo' = found /\ UNCHANGED listed
    /\ UNCHANGED <<db, writes, kind, gone, keys, creating, wg, work, found, released, history>>

Busy == {c \in Challenges : work[c] \in {"get", "append"}}

\* wg.Add, then Submit, which waits for a worker.  The error of a pool that
\* was released is dropped, and no task started.
Submit(c) ==
    /\ pc = "submit"
    /\ c \in todo
    /\ \/ ~released /\ Cardinality(Busy) < PoolSize /\ Become(c, "get")
       \/ released /\ UNCHANGED work
    /\ wg' = wg + 1
    /\ todo' = todo \ {c}
    /\ UNCHANGED <<db, writes, kind, pc, gone, keys, creating, listed, found, released, history>>

\* wg.Wait, and the answer.
Wait ==
    /\ \/ pc = "submit" /\ todo = {} /\ pc' = "wait"
       \/ pc = "wait" /\ wg = 0 /\ pc' = "listed"
    /\ UNCHANGED <<db, writes, kind, gone, keys, creating, listing, work, found, released, history>>

\* Mutant: a task calls wg.Done before it appends, and again when it is done.
Fetch_DoneTwice(c) ==
    /\ kind = "open"
    /\ work[c] = "get"
    /\ \E d \in Answers(c) :
         /\ Become(c, IF d = NoDoc THEN "ended" ELSE "append")
         /\ Loses(c, d)
    /\ wg' = wg - 1
    /\ UNCHANGED <<db, writes, kind, pc, gone, keys, creating, todo, listed, found, released>>

\* Mutant: a task whose GET fails does not call wg.Done.
Fetch_NoDone(c) ==
    /\ kind = "open"
    /\ work[c] = "get"
    /\ \E d \in Answers(c) :
         /\ Become(c, IF d = NoDoc THEN "ended" ELSE "append")
         /\ Loses(c, d)
    /\ UNCHANGED <<db, writes, kind, pc, gone, keys, creating, listing, found, released>>

\* A task reads its challenge; when it cannot, wg.Done is all it does.
Fetch(c) ==
    /\ kind = "open"
    /\ work[c] = "get"
    /\ \E d \in Answers(c) :
         /\ Become(c, IF d = NoDoc THEN "ended" ELSE "append")
         /\ wg' = IF d = NoDoc THEN wg - 1 ELSE wg
         /\ Loses(c, d)
    /\ UNCHANGED <<db, writes, kind, pc, gone, keys, creating, todo, listed, found, released>>

\* Mutant: the list is appended to without the lock, and a task is overtaken
\* by another one, which writes back the list as it was before.
AppendTo_Races(c) ==
    IF c \in Private \/ \E d \in Challenges \ {c} : work[d] = "append" THEN listed ELSE listed \union {c}

\* What the list is after the task of c held the lock.
AppendTo(c) == IF c \in Private THEN listed ELSE listed \union {c}

AppendTask(c) ==
    /\ work[c] = "append"
    /\ listed' = AppendTo(c)
    /\ wg' = wg - 1
    /\ Become(c, "ended")
    /\ UNCHANGED <<db, writes, kind, pc, gone, keys, creating, todo, found, released, history>>

(***************************************************************************)
(* The others, the caller and the process.                                 *)
(***************************************************************************)
Ongoing == pc \notin Answered \union {"exited"}

\* Another request creates, changes, archives or revives a challenge.
OtherWrite(c, d) ==
    /\ Ongoing
    /\ writes < MaxWrites
    /\ d # db[c]
    /\ db' = [db EXCEPT ![c] = d]
    /\ writes' = writes + 1
    /\ steady' = IF Matters(c, d) THEN steady ELSE steady \ {c}
    /\ ever' = IF Matters(c, d) /\ pc # "keys" THEN ever \union {c} ELSE ever
    /\ UNCHANGED <<kind, pc, gone, keys, creating, listing, work, found, released, lost>>

CallerGoes ==
    /\ Ongoing
    /\ ~gone
    /\ gone' = TRUE
    /\ UNCHANGED <<db, writes, kind, pc, keys, creating, listing, work, found, released, history>>

\* A signal makes ListenAndServe return; main releases the pool and returns.
\* Only Submit can tell that the pool is released.
Release ==
    /\ pc = "submit"
    /\ ~released
    /\ released' = TRUE
    /\ UNCHANGED <<db, writes, kind, pc, gone, keys, creating, listing, work, found, history>>

\* The end of main ends the process under the requests that are running.
Exit ==
    /\ Ongoing
    /\ pc' = "exited"
    /\ keys' = {} /\ todo' = {} /\ found' = {} /\ listed' = {}
    /\ work' = [c \in Challenges |-> "none"]
    /\ chan' = <<>> /\ left' = 0 /\ wg' = 0
    /\ UNCHANGED <<db, writes, kind, gone, cancelled, released, history>>

AllDone ==
    /\ \/ pc = "exited"
       \/ pc \in Answered /\ \A c \in Challenges : work[c] \in {"none", "ended"}
    /\ UNCHANGED vars

Handler ==
    \/ Keys \/ Collect \/ StoreNew \/ ReadAll \/ Wait
    \/ \E c \in Challenges : ReadNext(c) \/ Submit(c)

Goroutine(c) == Read(c) \/ Send(c) \/ Fetch(c) \/ AppendTask(c)

Next ==
    \/ Handler \/ \E c \in Challenges : Goroutine(c)
    \/ \E c \in Challenges, d \in Docs \union {NoDoc} : OtherWrite(c, d)
    \/ CallerGoes \/ Release \/ Exit \/ AllDone

\* The scheduler runs every goroutine, a call of Redis is answered or fails,
\* and a process that released its pool returns from main.
Fairness == WF_vars(Handler) /\ WF_vars(released /\ Exit) /\ \A c \in Challenges : WF_vars(Goroutine(c))

Spec == Init /\ [][Next]_vars /\ Fairness

(***************************************************************************)
(* Properties.                                                             *)
(***************************************************************************)
\* CanCreate refuses a caller who waits, of a Redis that answers, only for an
\* open challenge the user was in while it looked.
RefusedForCause == pc = "refused" /\ ~gone /\ ~lost => ever # {}

\* A challenge that was in the way all the time is found: no create stores its
\* document past it, even though a GET that fails counts as no conflict and the
\* failures of an ended context may be collected before the context is.
ConflictFound == pc = "stored" /\ ~lost => steady = {}

\* A listing has nothing that did not belong into it at some time since KEYS.
ListedMattered == listed \subseteq ever

\* For a caller who waits, and a Redis that answers, it has everything that
\* belonged into it all the time: no task's entry is lost.
SteadyIsListed == pc = "listed" /\ ~gone /\ ~lost => steady \subseteq listed

\* All goroutines of CanCreate end, also those whose result nobody takes.
GoroutinesEnd == kind = "create" /\ Busy # {} ~> \A c \in Challenges : work[c] \in {"none", "ended"}

\* Every request is answered, unless the process exits under it: a task that
\* the released pool refused keeps wg.Wait waiting no longer than that.
RequestEnds == Ongoing ~> ~Ongoing

\* CanCreate's goroutines look like a scan of the keys one after the other: a
\* create is refused for a conflict read, or has a failure to blame, and stored
\* only when every key was read for a caller who waits.
Verdict ==
    CASE kind # "create" \/ pc = "keys" -> "new"
      [] kind = "create" /\ (pc = "refused" \/ found # {}) -> "no"
      [] pc \in {"collect", "set"} /\ found = {} -> "scan"
      [] pc = "stored" -> "yes"
      [] pc = "failed" -> "failed"
      [] kind = "create" /\ pc = "exited" -> "over"

\* The keys that scan has yet to look at.
Unread == IF Verdict = "scan" THEN {c \in Challenges : work[c] = "get"} ELSE {}

Scan == INSTANCE KeyScan WITH todo <- Unread, verdict <- Verdict

ScansKeys == Scan!Spec
====
