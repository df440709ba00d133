---- MODULE Connections ----
(***************************************************************************)
(* The WebSocket side: one goroutine per connection reads messages and     *)
(* runs their handlers to the end, requests of the gRPC side broadcast     *)
(* from goroutines of their own, and all of them share the registry of     *)
(* connections (LocalStateManager.WSClients, a challenge at a time).       *)
(*                                                                         *)
(* A registry operation holds the locks throughout and is one step.  A     *)
(* write to a connection is two steps, for nothing keeps two goroutines    *)
(* from writing to one connection at a time; gorilla/websocket allows one  *)
(* writer, and what overlapping writes do is left open: they go through,   *)
(* or panic.  The contents of the messages are left out, except the user   *)
(* and the challenge they name.  What the handlers do to the stores is in  *)
(* ChallengeLifecycle; here a join is accepted or refused at will.         *)
(***************************************************************************)
EXTENDS GoMaps, Integers, FiniteSets

CONSTANTS
    Users,
    Challenges,
    Conns,           \* connections, numbered in the order of their upgrade
    Casters,         \* gRPC requests that broadcast
    None,            \* no user, no challenge, no connection
    Named,           \* whom messages that name a challenge may name
    MaxMessages      \* bound: messages read in all

Goroutines == Conns \union Casters

ASSUME ConnectionsAssumption ==
    /\ None \notin Users \union Challenges \union Goroutines
    /\ Conns \subseteq Nat
    /\ Conns \intersect Casters = {}
    /\ Named \subseteq Users \union {None}
    /\ MaxMessages \in Nat

VARIABLES
    clients,         \* challenge -> its WSClients: user -> connection
    sock,            \* connection -> "new", "open", "gone" (the client went), "closed"
    at,              \* goroutine -> where it stands
    names,           \* connection -> the last user and challenge named on it
    job,             \* goroutine -> what it announces, and for which challenge
    snap,            \* goroutine -> the copy GetAllWSClients gave it
    todo,            \* goroutine -> connections it has yet to write to
    writing,         \* goroutine -> the connection it is writing to
    torn,            \* goroutines whose write overlapped another one
    msgs,            \* number of messages read
    joined,          \* history: connection -> users and challenges it was added as
    contested,       \* history: those of them another connection has named or
                     \* joined as since, or had last named before
    heard            \* history: <<{j, k}, c>>: j was told that k joined c, or k that j did

locals == <<at, job, snap, todo>>
history == <<joined, contested, heard>>
vars == <<clients, sock, locals, names, writing, torn, msgs, history>>

Handling == {"refuse", "snap", "cast", "reply"}
Over == {"ended", "panicked", "done", "dead"}
Kinds == {"join", "left", "silent", "event", "board"}

Nobody == [u |-> None, c |-> None]
NoJob == [kind |-> "none", c |-> None]

TypeOK ==
    /\ clients \in [Challenges -> PMap(Users, Conns)]
    /\ sock \in [Conns -> {"new", "open", "gone", "closed"}]
    /\ at \in [Goroutines -> {"off", "read"} \union Handling \union {"remove"} \union Over]
    /\ names \in [Conns -> [u : Users \union {None}, c : Challenges \union {None}]]
    /\ job \in [Goroutines -> {NoJob} \union [kind : Kinds, c : Challenges]]
    /\ snap \in [Goroutines -> SUBSET Conns]
    /\ todo \in [Goroutines -> SUBSET Conns]
    /\ writing \in [Goroutines -> Conns \union {None}]
    /\ torn \subseteq {g \in Goroutines : writing[g] # None}
    /\ msgs \in 0..MaxMessages
    /\ contested \in [Conns -> SUBSET (Users \X Challenges)]
    /\ joined \in [Conns -> SUBSET (Users \X Challenges)]
    /\ heard \subseteq (SUBSET Conns) \X Challenges

Init ==
    /\ clients = [c \in Challenges |-> EmptyMap]
    /\ sock = [k \in Conns |-> "new"]
    /\ at = [g \in Goroutines |-> "off"]
    /\ names = [k \in Conns |-> Nobody]
    /\ job = [g \in Goroutines |-> NoJob]
    /\ snap = [g \in Goroutines |-> {}]
    /\ todo = [g \in Goroutines |-> {}]
    /\ writing = [g \in Goroutines |-> None]
    /\ torn = {}
    /\ msgs = 0
    /\ contested = [k \in Conns |-> {}]
    /\ joined = [k \in Conns |-> {}]
    /\ heard = {}

Goto(g, step) == at' = [at EXCEPT ![g] = step]

\* The goroutine g is through with what it was doing, and goes on at step.
Finish(g, step) ==
    /\ Goto(g, step)
    /\ job' = [job EXCEPT ![g] = NoJob]
    /\ snap' = [snap EXCEPT ![g] = {}]
    /\ todo' = [todo EXCEPT ![g] = {}]

Close(k) == sock' = [sock EXCEPT ![k] = "closed"]

\* g goes on with the next of the writes it has to make, if there is one; a
\* write to a connection another goroutine is writing to overlaps that one.
\* (Between two writes of a broadcast nothing happens that others see.)
WriteNext(g, targets) ==
    \/ /\ targets = {}
       /\ writing' = [writing EXCEPT ![g] = None]
       /\ todo' = [todo EXCEPT ![g] = {}]
       /\ torn' = torn \ {g}
    \/ \E k \in targets :
         LET others == {h \in Goroutines \ {g} : writing[h] = k}
         IN  /\ writing' = [writing EXCEPT ![g] = k]
             /\ todo' = [todo EXCEPT ![g] = targets \ {k}]
             /\ torn' = (torn \ {g}) \union (IF others = {} THEN {} ELSE others \union {g})

(***************************************************************************)
(* The read loop.                                                          *)
(***************************************************************************)
\* WsHandler: the connection is upgraded.
Upgrade(k) ==
    /\ sock[k] = "new"
    /\ \A j \in Conns : j < k => sock[j] # "new"
    /\ at[k] = "off"
    /\ sock' = [sock EXCEPT ![k] = "open"]
    /\ Goto(k, "read")
    /\ UNCHANGED <<clients, names, job, snap, todo, writing, torn, msgs, history>>

\* "Track for cleanup": each name a message carries replaces the last one.
Track(k, u, c) == [u |-> IF u = None THEN names[k].u ELSE u,
                   c |-> IF c = None THEN names[k].c ELSE c]

NamedBy(k) == <<names[k].u, names[k].c>>

\* ReadMessage returns a message, which names u and c (None: it does not).
\* History: it registers k for the users and challenges in as.
Receive(k, u, c, as) ==
    /\ at[k] = "read"
    /\ sock[k] = "open"
    /\ msgs < MaxMessages
    /\ msgs' = msgs + 1
    /\ names' = [names EXCEPT ![k] = Track(k, u, c)]
    /\ joined' = [joined EXCEPT ![k] = @ \union as]
    /\ contested' = [j \in Conns |->
          IF j = k
          THEN (contested[k] \ as) \union {p \in as : \E i \in Conns \ {k} : NamedBy(i) = p}
          ELSE contested[j] \union (joined[j] \intersect (as \union {NamedBy(k)'}))]

\* A handler writes to its own connection (SendErrorWithType, SendJSON).
Answer(k, step) == Goto(k, step) /\ WriteNext(k, {k})

\* The dispatcher has no handler for a message.
Unknown(k) ==
    /\ \E c \in Challenges, u \in Named : Receive(k, u, c, {})
    /\ Goto(k, "read")
    /\ UNCHANGED <<clients, sock, job, snap, todo, writing, torn, heard>>

\* A message that changes no registry is answered.
Answered(k, step) ==
    /\ Answer(k, step)
    /\ UNCHANGED <<clients, sock, job, snap, heard>>

Ping(k) == Receive(k, None, None, {}) /\ Answered(k, "reply")

\* A join fails: no authentication, no such challenge, a wrong password.
RefuseJoin(k) ==
    \E c \in Challenges, u \in Named : Receive(k, u, c, {}) /\ Answered(k, "reply")

\* The leaderboard, and what a joined user may retrieve, or their refusal.  A
\* middleware that refuses sends its error, and then the handler runs as well.
Show(k) ==
    \E c \in Challenges, u \in Named, step \in {"refuse", "reply"} :
        Receive(k, u, c, {}) /\ Answered(k, step)

\* Mutant: the challenge's map is made anew.
Register_Fresh(c, u, k) == clients' = [clients EXCEPT ![c] = Put(EmptyMap, u, k)]

\* AddWSClient.
Register(c, u, k) == clients' = [clients EXCEPT ![c] = Put(@, u, k)]

\* An accepted join registers the connection for the user its token is for,
\* whichever user it names; each join brings a token of its own.  This is the
\* first of its steps that others see.
Join(k) ==
    /\ \E c \in Challenges, subject \in Users :
         /\ \E u \in Named : Receive(k, u, c, {<<subject, c>>})
         /\ Register(c, subject, k)
         /\ job' = [job EXCEPT ![k] = [kind |-> "join", c |-> c]]
    /\ Goto(k, "snap")
    /\ UNCHANGED <<sock, snap, todo, writing, torn, heard>>

\* Mutant: the cleanup gives up when the challenge cannot be loaded.
ReadError_GivesUp(k) ==
    /\ at[k] = "read"
    /\ sock[k] \in {"gone", "closed"}
    /\ \/ Goto(k, "ended") /\ Close(k) /\ UNCHANGED job
       \/ /\ None \notin {names[k].u, names[k].c}
          /\ job' = [job EXCEPT ![k] = [kind |-> "left", c |-> names[k].c]]
          /\ Goto(k, "remove") /\ UNCHANGED sock
    /\ UNCHANGED <<clients, names, snap, todo, writing, torn, msgs, history>>

\* ReadMessage fails when the client has gone or the server closed its end.
\* cleanupConnection then takes the participant out of the document and loads
\* the challenge, which it may not find.
ReadError(k) ==
    /\ at[k] = "read"
    /\ sock[k] \in {"gone", "closed"}
    /\ IF None \in {names[k].u, names[k].c}
       THEN Goto(k, "ended") /\ Close(k) /\ UNCHANGED job
       ELSE /\ \E kind \in {"left", "silent"} :
                 job' = [job EXCEPT ![k] = [kind |-> kind, c |-> names[k].c]]
            /\ Goto(k, "remove")
            /\ UNCHANGED sock
    /\ UNCHANGED <<clients, names, snap, todo, writing, torn, msgs, history>>

\* Mutant: the entry is set to nil.
Unregister_Nil(c, u) == clients' = [clients EXCEPT ![c] = Put(@, u, None)]

Unregister(c, u) == clients' = [clients EXCEPT ![c] = Drop(@, u)]

\* Mutant: every connection of the challenge is closed.
Registered_All(c, u) == Range(clients[c])

\* The connection the user has in the challenge, if any (GetWSClient).
Registered(c, u) == {clients[c][v] : v \in DOMAIN clients[c] \intersect {u}}

\* The entry of the user last named is removed and its connection closed:
\* whichever connection that user has there now.
RemoveWSClient(k) ==
    /\ at[k] = "remove"
    /\ Unregister(names[k].c, names[k].u)
    /\ LET closed == Registered(names[k].c, names[k].u)
                        \union (IF job[k].kind = "left" THEN {} ELSE {k})
       IN  sock' = [j \in Conns |-> IF j \in closed THEN "closed" ELSE sock[j]]
    /\ IF job[k].kind = "left"
       THEN Goto(k, "snap") /\ UNCHANGED <<job, snap, todo>>
       ELSE Finish(k, "ended")
    /\ UNCHANGED <<names, writing, torn, msgs, history>>

(***************************************************************************)
(* Broadcasts and replies.                                                 *)
(***************************************************************************)
\* Mutant: the copy has the connections of every challenge.
GetAllWSClients_Everybody(c) == UNION {Range(clients[d]) : d \in Challenges}

GetAllWSClients(c) == Range(clients[c])

\* g broadcasts to a copy of the registry made under the lock.
Broadcast(g, all) ==
    /\ snap' = [snap EXCEPT ![g] = all]
    /\ WriteNext(g, all)
    /\ Goto(g, "cast")
    /\ UNCHANGED <<clients, sock, names, msgs, history>>

\* A join or a cleanup comes to its broadcast.
BroadcastEntity(k) ==
    /\ at[k] = "snap"
    /\ Broadcast(k, GetAllWSClients(job[k].c))
    /\ UNCHANGED job

\* AbandonChallenge and PushSubmissionStatus do; with nobody registered they
\* write to nobody.
Announce(g) ==
    /\ at[g] = "off"
    /\ \E c \in Challenges :
         /\ GetAllWSClients(c) # {}
         /\ job' = [job EXCEPT ![g] = [kind |-> "event", c |-> c]]
         /\ Broadcast(g, GetAllWSClients(c))

\* A write of its own returns.  After the error of the middleware the handler
\* runs and writes too, unless that error could not be sent.
AfterOwn(k) ==
    \/ at[k] = "refuse" /\ sock[k] # "closed" /\ Answer(k, "reply")
    \/ /\ at[k] = "refuse" => sock[k] # "open"
       /\ Goto(k, "read")
       /\ WriteNext(k, {})

\* The write returns; what it returns, BroadcastStandardMessage ignores.
EndWrite(g) ==
    /\ writing[g] # None
    /\ \/ /\ at[g] = "cast"
          /\ WriteNext(g, todo[g])
          /\ heard' = IF job[g].kind = "join" /\ writing[g] # g
                      THEN heard \union {<<{writing[g], g}, job[g].c>>} ELSE heard
          /\ UNCHANGED at
       \/ /\ at[g] # "cast"
          /\ AfterOwn(g)
          /\ UNCHANGED heard
    /\ UNCHANGED <<clients, sock, names, job, snap, msgs, contested, joined>>

\* Everybody in the copy was written to.  An abandonment is then done; a push
\* goes on to the leaderboard, if it has one, with the same copy.
EndCast(g) ==
    /\ at[g] = "cast"
    /\ writing[g] = None
    /\ \/ /\ job[g].kind = "join"
          /\ Finish(g, "reply")
          /\ WriteNext(g, {g})
          /\ UNCHANGED sock
       \/ /\ job[g].kind = "left"
          /\ Finish(g, "ended")
          /\ Close(g)
          /\ UNCHANGED <<writing, torn>>
       \/ /\ job[g].kind = "event"
          /\ job' = [job EXCEPT ![g].kind = "board"]
          /\ WriteNext(g, snap[g])
          /\ UNCHANGED <<at, snap, sock>>
       \/ /\ job[g].kind \in {"event", "board"}
          /\ Finish(g, "done")
          /\ UNCHANGED <<sock, writing, torn>>
    /\ UNCHANGED <<clients, names, msgs, history>>

\* An overlapping write panics.  net/http recovers a panic of a read loop,
\* whose deferred Close runs, and nothing else of it.
PanicLoop(k) ==
    /\ k \in torn
    /\ writing' = [writing EXCEPT ![k] = None]
    /\ torn' = torn \ {k}
    /\ Close(k)
    /\ Finish(k, "panicked")
    /\ UNCHANGED <<clients, names, msgs, history>>

\* Nothing recovers a panic in a gRPC handler: the process dies.
PanicCaster(g) ==
    /\ g \in torn
    /\ clients' = [c \in Challenges |-> EmptyMap]
    /\ sock' = [k \in Conns |-> "closed"]
    /\ writing' = [h \in Goroutines |-> None]
    /\ torn' = {}
    /\ at' = [h \in Goroutines |-> "dead"]
    /\ names' = [k \in Conns |-> Nobody]
    /\ job' = [h \in Goroutines |-> NoJob]
    /\ snap' = [h \in Goroutines |-> {}]
    /\ todo' = [h \in Goroutines |-> {}]
    /\ contested' = [k \in Conns |-> {}]
    /\ joined' = [k \in Conns |-> {}]
    /\ heard' = {}
    /\ UNCHANGED msgs

\* The client goes, which only a read and the error of a middleware notice.
Leave(k) ==
    /\ sock[k] = "open"
    /\ at[k] \in {"read", "refuse"}
    /\ sock' = [sock EXCEPT ![k] = "gone"]
    /\ UNCHANGED <<clients, locals, names, writing, torn, msgs, history>>

\* The only way to stop: every read loop is over, and every broadcast.
AllOver ==
    /\ \A k \in Conns : at[k] \in Over
    /\ \A g \in Casters : at[g] \in Over \union {"off"}
    /\ UNCHANGED vars

LoopStep(k) ==
    \/ Upgrade(k) \/ Unknown(k) \/ Ping(k) \/ RefuseJoin(k) \/ Show(k) \/ Join(k)
    \/ ReadError(k) \/ RemoveWSClient(k)
    \/ BroadcastEntity(k) \/ EndWrite(k) \/ EndCast(k) \/ PanicLoop(k)

CasterStep(g) == Announce(g) \/ EndWrite(g) \/ EndCast(g) \/ PanicCaster(g)

Next ==
    \/ \E k \in Conns : LoopStep(k) \/ Leave(k)
    \/ \E g \in Casters : CasterStep(g)
    \/ AllOver

Spec == Init /\ [][Next]_vars

(***************************************************************************)
(* Properties.                                                             *)
(***************************************************************************)
\* cleanupConnection leaves no entry of a connection that ended behind, unless
\* the last names read on it are not those of the entry: a client that named
\* another user or challenge since its join, or no user, is not removed.  (A
\* read loop that panicked cleans nothing up.)
NoDeadEntry ==
    \A c \in Challenges : \A u \in DOMAIN clients[c] :
        at[clients[c][u]] = "ended" => names[clients[c][u]] # [u |-> u, c |-> c]

\* The read loop of k is neither cleaning up nor over.
Alive(k) == at[k] \in {"read"} \union Handling /\ ~(at[k] \in {"snap", "cast"} /\ job[k].kind # "join")

\* As whom and where k joined, with no other connection contesting it.
Sole(k) == joined[k] \ contested[k]

\* As one of them it is in the challenge c.
Member(k, c) == \E u \in Users : <<u, c>> \in Sole(k)

\* While the read loop of a connection that joined runs, joins and cleanups of
\* other connections leave it alone unless one of them concerns a user it
\* joined as, and the challenge: it stays registered for every user and
\* challenge only it joined as, and is not closed when that is so for all.
SoleConnectionKept ==
    \A k \in Conns :
        Alive(k) =>
            /\ \A u \in Users, c \in Challenges :
                 <<u, c>> \in Sole(k) => u \in DOMAIN clients[c] /\ clients[c][u] = k
            /\ joined[k] # {} /\ Sole(k) = joined[k] => sock[k] # "closed"

\* A goroutine writes to another's connection only what it announces for a
\* challenge which that connection joined.
OnlyMembersWritten ==
    \A g \in Goroutines :
        writing[g] \notin {None, g} => \E u \in Users : <<u, job[g].c>> \in joined[writing[g]]

\* Of two users who joined a challenge, and whose joins were announced, at
\* least one was told of the other: a join registers before it looks who is
\* there.
Announced(k, c) ==
    /\ Alive(k) /\ ~(at[k] \in {"snap", "cast"} /\ job[k].c = c)
    /\ Member(k, c)

SomebodyIsTold ==
    \A j, k \in Conns, c \in Challenges :
        j # k /\ Announced(j, c) /\ Announced(k, c) =>
            <<{j, k}, c>> \in heard
====
