---- MODULE ConnectionsProofs ----
(***************************************************************************)
(* Theorems about Connections, for every value of its constants: any       *)
(* number of users, connections, challenges, messages and broadcasts.      *)
(***************************************************************************)
EXTENDS Connections, GoMapsProofs, TLAPS

(***************************************************************************)
(* The inductive invariant.                                                *)
(***************************************************************************)
\* A cleanup that has removed its entry, or has yet to do so.
Leaving(g) == at[g] = "remove" \/ (at[g] \in {"snap", "cast"} /\ job[g].kind = "left")

\* Which goroutine may stand where, and what it then has in hand.
Station(g) ==
    /\ g \in Casters => at[g] \in {"off", "cast", "done", "dead"}
    /\ at[g] \in {"snap", "cast", "remove"} => job[g] # NoJob
    /\ at[g] = "remove" => job[g].kind \in {"left", "silent"}
    /\ at[g] = "snap" => job[g].kind \in {"join", "left"}
    /\ at[g] = "cast" => job[g].kind \in IF g \in Conns THEN {"join", "left"} ELSE {"event", "board"}
    /\ Leaving(g) => None \notin {names[g].u, names[g].c} /\ job[g].c = names[g].c

\* What it is writing to, or has yet to.
Writing(g) ==
    /\ at[g] \in {"refuse", "reply"} => writing[g] = g
    /\ at[g] \notin {"refuse", "reply", "cast"} => writing[g] = None
    /\ at[g] = "cast" /\ writing[g] = None => todo[g] = {}

\* A broadcast is to connections that joined.
ToMembers(g) ==
    at[g] = "cast" =>
        \A k \in Conns : k \in snap[g] \union todo[g] \union {writing[g]} =>
            \E u \in Users : <<u, job[g].c>> \in joined[k]

LoopInv == \A g \in Goroutines : Station(g) /\ Writing(g) /\ ToMembers(g)

\* An entry of the registry is of a connection that joined as its user.
RegistryInv ==
    /\ \A c \in Challenges : \A u \in DOMAIN clients[c] : <<u, c>> \in joined[clients[c][u]]
    /\ \A k \in Conns : at[k] = "off" => joined[k] = {}

\* What a connection last named is contested of every other one that joined as it.
NamesInv ==
    \A j, k \in Conns : j # k /\ NamedBy(j) \in joined[k] => NamedBy(j) \in contested[k]

\* A cleanup that has removed its entry leaves none of that name.
Removed(k) == at[k] = "ended" \/ (at[k] \in {"snap", "cast"} /\ job[k].kind = "left")
RemovedInv ==
    \A k \in Conns, c \in Challenges, u \in Users :
        Removed(k) /\ names[k] = [u |-> u, c |-> c] /\ u \in DOMAIN clients[c] => clients[c][u] # k

\* The announcement of j's join still has to reach k.
Pending(j, k, c) ==
    /\ job[j].kind = "join" /\ job[j].c = c
    /\ at[j] = "snap" \/ (at[j] = "cast" /\ k \in todo[j] \union {writing[j]})

ToldInv ==
    \A j, k \in Conns, c \in Challenges :
        /\ j # k /\ Alive(j) /\ Alive(k)
        /\ Member(j, c) /\ Member(k, c)
        => <<{j, k}, c>> \in heard \/ Pending(j, k, c) \/ Pending(k, j, c)

IInv ==
    /\ TypeOK /\ LoopInv /\ RegistryInv /\ NamesInv /\ RemovedInv
    /\ SoleConnectionKept /\ ToldInv

\* At the start nobody is connected.
LEMMA InitIInv == Init => IInv
<1> SUFFICES ASSUME Init PROVE IInv
  OBVIOUS
<1> USE ConnectionsAssumption DEF Init
<1>1. EmptyMap \in PMap(Users, Conns)
  BY EmptyMapType
<1>2. TypeOK
  BY <1>1 DEF TypeOK, NoJob, Nobody
<1>3. LoopInv
  BY DEF LoopInv, Station, Writing, ToMembers, Leaving, Goroutines
<1>4. DOMAIN EmptyMap = {}
  BY DEF EmptyMap
<1>5. RegistryInv
  BY <1>4 DEF RegistryInv
<1>6. NamesInv /\ RemovedInv
  BY <1>4 DEF NamesInv, RemovedInv, Nobody, Removed
<1>7. SoleConnectionKept /\ ToldInv
  BY DEF SoleConnectionKept, ToldInv, Member, Sole
<1>8. QED
  BY <1>2, <1>3, <1>5, <1>6, <1>7 DEF IInv

(***************************************************************************)
(* What the parts of the actions do.                                       *)
(***************************************************************************)
\* g starts the next write to one of targets, or has none left.
LEMMA WriteNextDoes ==
    ASSUME TypeOK, NEW g \in Goroutines, NEW targets \in SUBSET Conns, WriteNext(g, targets)
    PROVE  /\ writing' \in [Goroutines -> Conns \union {None}]
           /\ todo' \in [Goroutines -> SUBSET Conns]
           /\ torn' \subseteq {h \in Goroutines : writing'[h] # None}
           /\ \A h \in Goroutines \ {g} : writing'[h] = writing[h] /\ todo'[h] = todo[h]
           /\ \/ targets = {} /\ writing'[g] = None /\ todo'[g] = {}
              \/ writing'[g] \in targets /\ todo'[g] = targets \ {writing'[g]}
<1>1. /\ writing \in [Goroutines -> Conns \union {None}]
      /\ todo \in [Goroutines -> SUBSET Conns]
      /\ torn \subseteq {h \in Goroutines : writing[h] # None}
      /\ None \notin Conns
  BY ConnectionsAssumption DEF TypeOK, Goroutines
<1>2. CASE /\ targets = {}
           /\ writing' = [writing EXCEPT ![g] = None]
           /\ todo' = [todo EXCEPT ![g] = {}]
           /\ torn' = torn \ {g}
  BY <1>1, <1>2
<1>3. ASSUME NEW k \in targets,
             writing' = [writing EXCEPT ![g] = k],
             todo' = [todo EXCEPT ![g] = targets \ {k}],
             NEW others \in SUBSET {h \in Goroutines \ {g} : writing[h] = k},
             torn' \subseteq torn \union others \union {g}
      PROVE  /\ writing' \in [Goroutines -> Conns \union {None}]
             /\ todo' \in [Goroutines -> SUBSET Conns]
             /\ torn' \subseteq {h \in Goroutines : writing'[h] # None}
             /\ \A h \in Goroutines \ {g} : writing'[h] = writing[h] /\ todo'[h] = todo[h]
             /\ writing'[g] \in targets /\ todo'[g] = targets \ {writing'[g]}
  BY <1>1, <1>3
<1>4. QED
  BY <1>2, <1>3 DEF WriteNext

\* A message is read: what the connection remembers and joined as, and what is
\* then contested.
LEMMA ReceiveDoes ==
    ASSUME TypeOK, NamesInv, NEW k \in Conns,
           NEW u \in Users \union {None}, NEW c \in Challenges \union {None},
           NEW as \in SUBSET (Users \X Challenges), Receive(k, u, c, as)
    PROVE  /\ at[k] = "read" /\ sock[k] = "open"
           /\ msgs' \in 0..MaxMessages
           /\ names' \in [Conns -> [u : Users \union {None}, c : Challenges \union {None}]]
           /\ joined' \in [Conns -> SUBSET (Users \X Challenges)]
           /\ contested' \in [Conns -> SUBSET (Users \X Challenges)]
           /\ joined'[k] = joined[k] \union as
           /\ contested[k] \subseteq contested'[k] \union as
           /\ \A j \in Conns \ {k} :
                /\ names'[j] = names[j] /\ joined'[j] = joined[j]
                /\ contested[j] \subseteq contested'[j]
                /\ as \intersect joined[j] \subseteq contested'[j]
           /\ NamesInv'
<1> DEFINE now == Track(k, u, c)
<1>1. /\ names \in [Conns -> [u : Users \union {None}, c : Challenges \union {None}]]
      /\ joined \in [Conns -> SUBSET (Users \X Challenges)]
      /\ contested \in [Conns -> SUBSET (Users \X Challenges)]
      /\ msgs \in 0..MaxMessages /\ MaxMessages \in Nat
  BY ConnectionsAssumption DEF TypeOK
<1>2. now \in [u : Users \union {None}, c : Challenges \union {None}]
  BY <1>1 DEF Track
<1>3. /\ at[k] = "read" /\ sock[k] = "open" /\ msgs < MaxMessages /\ msgs' = msgs + 1
      /\ names' = [names EXCEPT ![k] = now]
      /\ joined' = [joined EXCEPT ![k] = @ \union as]
      /\ contested' = [j \in Conns |->
            IF j = k
            THEN (contested[k] \ as) \union {p \in as : \E i \in Conns \ {k} : NamedBy(i) = p}
            ELSE contested[j] \union (joined[j] \intersect (as \union {NamedBy(k)'}))]
  BY DEF Receive
<1>4. msgs' \in 0..MaxMessages
  BY <1>1, <1>3
<1>5. names' \in [Conns -> [u : Users \union {None}, c : Challenges \union {None}]]
  BY <1>1, <1>2, <1>3
<1>6. /\ joined' \in [Conns -> SUBSET (Users \X Challenges)]
      /\ joined'[k] = joined[k] \union as
      /\ \A j \in Conns \ {k} : joined'[j] = joined[j]
  BY <1>1, <1>3
<1>7. contested' \in [Conns -> SUBSET (Users \X Challenges)]
  BY <1>1, <1>3
<1>8. /\ contested'[k] = (contested[k] \ as) \union {p \in as : \E i \in Conns \ {k} : NamedBy(i) = p}
      /\ \A j \in Conns \ {k} :
           contested'[j] = contested[j] \union (joined[j] \intersect (as \union {NamedBy(k)'}))
  BY <1>3
<1>9. \A j \in Conns \ {k} : names'[j] = names[j] /\ NamedBy(j)' = NamedBy(j)
  BY <1>1, <1>3 DEF NamedBy
<1>10. NamesInv'
  <2>1. ASSUME NEW i \in Conns, NEW j \in Conns, i # j, NamedBy(i)' \in joined'[j]
        PROVE  NamedBy(i)' \in contested'[j]
    <3>1. CASE i = k
      BY <1>6, <1>8, <2>1, <3>1
    <3>2. CASE i # k /\ j # k
      <4>1. NamedBy(i)' = NamedBy(i) /\ joined'[j] = joined[j] /\ contested[j] \subseteq contested'[j]
        BY <1>6, <1>8, <1>9, <3>2
      <4>2. NamedBy(i) \in joined[j] => NamedBy(i) \in contested[j]
        BY <2>1 DEF NamesInv
      <4>3. QED
        BY <2>1, <4>1, <4>2
    <3>3. CASE j = k
      <4>1. NamedBy(i) \in joined[k] \union as /\ NamedBy(i)' = NamedBy(i) /\ i \in Conns \ {k}
        BY <1>6, <1>9, <2>1, <3>3
      <4>2. NamedBy(i) \in joined[k] => NamedBy(i) \in contested[k]
        BY <4>1 DEF NamesInv
      <4>3. QED
        BY <1>8, <3>3, <4>1, <4>2
    <3>4. QED
      BY <3>1, <3>2, <3>3
  <2>2. QED
    BY <2>1 DEF NamesInv
<1>11. QED
  BY <1>3, <1>4, <1>5, <1>6, <1>7, <1>8, <1>9, <1>10

(***************************************************************************)
(* Steps that change no registry.                                          *)
(***************************************************************************)
\* The step concerns the goroutine g alone.
Others(g) ==
    \A h \in Goroutines \ {g} :
        /\ at'[h] = at[h] /\ job'[h] = job[h]
        /\ snap'[h] = snap[h] /\ todo'[h] = todo[h] /\ writing'[h] = writing[h]
        /\ h \in Conns => names'[h] = names[h]

\* A step that touches no other goroutine keeps the loops right once its own is.
LEMMA LoopFrame ==
    ASSUME LoopInv, NEW g \in Goroutines, Others(g),
           \A k \in Conns : joined[k] \subseteq joined'[k],
           Station(g)', Writing(g)', ToMembers(g)'
    PROVE  LoopInv'
<1>1. ASSUME NEW h \in Goroutines, h # g
      PROVE  Station(h)' /\ Writing(h)' /\ ToMembers(h)'
  <2>1. /\ Station(h) /\ Writing(h) /\ ToMembers(h)
        /\ at'[h] = at[h] /\ job'[h] = job[h]
        /\ snap'[h] = snap[h] /\ todo'[h] = todo[h] /\ writing'[h] = writing[h]
        /\ h \in Conns => names'[h] = names[h]
    BY <1>1 DEF LoopInv, Others
  <2>2. Station(h)'
    <3>1. CASE h \in Conns
      BY <2>1, <3>1 DEF Station, Leaving
    <3>2. CASE h \notin Conns
      <4>1. ~Leaving(h) /\ ~Leaving(h)'
        BY <2>1, <3>2 DEF Station, Leaving, Goroutines
      <4>2. QED
        BY <2>1, <3>2, <4>1 DEF Station
    <3>3. QED
      BY <3>1, <3>2
  <2>3. Writing(h)'
    BY <2>1 DEF Writing
  <2>4. ToMembers(h)'
    BY <2>1 DEF ToMembers
  <2>5. QED
    BY <2>2, <2>3, <2>4
<1>2. QED
  BY <1>1 DEF LoopInv

\* A live connection is registered as whom it joined, if nobody contested that.
LEMMA Registers ==
    ASSUME SoleConnectionKept, NEW k \in Conns, Alive(k),
           NEW u \in Users, NEW c \in Challenges, <<u, c>> \in Sole(k)
    PROVE  u \in DOMAIN clients[c] /\ clients[c][u] = k
BY DEF SoleConnectionKept

\* The registry and who was told stay right when nobody comes to life, no
\* live connection is closed, and nobody is left out of an announcement.
LEMMA QuietStep ==
    ASSUME IInv, NEW g \in Goroutines, Others(g),
           UNCHANGED <<clients, joined>>, heard \subseteq heard',
           \A k \in Conns : contested[k] \subseteq contested'[k],
           g \in Conns =>
             /\ Alive(g)' => Alive(g) \/ joined[g] = {}
             /\ at'[g] = "off" => at[g] = "off"
             /\ Removed(g)' => \/ Removed(g) /\ names'[g] = names[g]
                               \/ None \in {names'[g].u, names'[g].c},
           \A k \in Conns : Alive(k)' /\ sock'[k] = "closed" => sock[k] = "closed",
           \A k \in Conns, c \in Challenges :
             g \in Conns /\ Alive(g)' /\ Pending(g, k, c) /\ k # g
               /\ Alive(k) /\ Member(k, c)
             => Pending(g, k, c)' \/ <<{g, k}, c>> \in heard'
    PROVE  RegistryInv' /\ RemovedInv' /\ SoleConnectionKept' /\ ToldInv'
<1>1. /\ TypeOK /\ LoopInv /\ RegistryInv /\ RemovedInv /\ SoleConnectionKept /\ ToldInv
      /\ Conns \subseteq Goroutines
  BY DEF IInv, Goroutines
<1>2. \A h \in Conns \ {g} : at'[h] = at[h] /\ job'[h] = job[h] /\ names'[h] = names[h]
  BY <1>1 DEF Others
<1>3. \A h \in Conns \ {g} : (Alive(h)' <=> Alive(h)) /\ (Removed(h)' <=> Removed(h))
  BY <1>2 DEF Alive, Removed
<1>4. RegistryInv'
  BY <1>1, <1>2 DEF RegistryInv
<1>5. RemovedInv'
  <2>1. ASSUME NEW k \in Conns, NEW c \in Challenges, NEW u \in Users,
               Removed(k)', names'[k] = [u |-> u, c |-> c], u \in DOMAIN clients'[c]
        PROVE  clients'[c][u] # k
    <3>1. None \notin {names'[k].u, names'[k].c}
      BY <2>1, ConnectionsAssumption
    <3>2. Removed(k) /\ names'[k] = names[k]
      BY <1>2, <1>3, <2>1, <3>1
    <3>3. QED
      BY <1>1, <2>1, <3>2 DEF RemovedInv
  <2>2. QED
    BY <2>1 DEF RemovedInv
<1>6. /\ \A k \in Conns : Alive(k)' => Alive(k) \/ joined[k] = {}
      /\ \A k \in Conns : Sole(k)' \subseteq Sole(k)
      /\ \A k \in Conns, c \in Challenges : Member(k, c)' => Member(k, c)
  <2>1. \A k \in Conns : Sole(k)' \subseteq Sole(k)
    BY DEF Sole
  <2>2. QED
    BY <1>3, <2>1 DEF Member
<1>7. SoleConnectionKept'
  <2>1. ASSUME NEW k \in Conns, Alive(k)', joined[k] # {}
        PROVE  /\ \A u \in Users, c \in Challenges :
                    <<u, c>> \in Sole(k)' => u \in DOMAIN clients'[c] /\ clients'[c][u] = k
               /\ Sole(k)' = joined'[k] => sock'[k] # "closed"
    <3>1. Alive(k) /\ Sole(k)' \subseteq Sole(k) /\ Sole(k) \subseteq joined[k]
      BY <1>6, <2>1 DEF Sole
    <3>2. Sole(k)' = joined'[k] => Sole(k) = joined[k]
      BY <3>1
    <3>3. QED
      BY <1>1, <2>1, <3>1, <3>2 DEF SoleConnectionKept
  <2>2. \A k \in Conns : Sole(k)' \subseteq joined[k]
    BY DEF Sole
  <2>3. QED
    BY <2>1, <2>2 DEF SoleConnectionKept
<1>8. ToldInv'
  <2>1. ASSUME NEW j \in Conns, NEW k \in Conns, NEW c \in Challenges, j # k,
               Alive(j)', Alive(k)', Member(j, c)', Member(k, c)'
        PROVE  <<{j, k}, c>> \in heard' \/ Pending(j, k, c)' \/ Pending(k, j, c)'
    <3>1. /\ Alive(j) /\ Alive(k) /\ Member(j, c) /\ Member(k, c)
      BY <1>6, <2>1 DEF Member, Sole
    <3>2. <<{j, k}, c>> \in heard \/ Pending(j, k, c) \/ Pending(k, j, c)
      BY <1>1, <2>1, <3>1 DEF ToldInv
    <3>3. {k, j} = {j, k}
      OBVIOUS
    <3>4. Pending(j, k, c) => Pending(j, k, c)' \/ <<{j, k}, c>> \in heard'
      <4>1. CASE j = g
        BY <2>1, <3>1, <4>1
      <4>2. CASE j # g
        BY <1>1, <4>2 DEF Pending, Others
      <4>3. QED
        BY <4>1, <4>2
    <3>5. Pending(k, j, c) => Pending(k, j, c)' \/ <<{j, k}, c>> \in heard'
      <4>1. CASE k = g
        BY <2>1, <3>1, <3>3, <4>1
      <4>2. CASE k # g
        BY <1>1, <4>2 DEF Pending, Others
      <4>3. QED
        BY <4>1, <4>2
    <3>6. QED
      BY <3>2, <3>4, <3>5
  <2>2. QED
    BY <2>1 DEF ToldInv
<1>9. QED
  BY <1>4, <1>5, <1>7, <1>8

\* The functions that say where the goroutines stand.
LEMMA LocalTypes ==
    ASSUME TypeOK
    PROVE  /\ at \in [Goroutines -> {"off", "read"} \union Handling \union {"remove"} \union Over]
           /\ names \in [Conns -> [u : Users \union {None}, c : Challenges \union {None}]]
           /\ job \in [Goroutines -> {NoJob} \union [kind : Kinds, c : Challenges]]
           /\ snap \in [Goroutines -> SUBSET Conns]
           /\ todo \in [Goroutines -> SUBSET Conns]
           /\ writing \in [Goroutines -> Conns \union {None}]
           /\ sock \in [Conns -> {"new", "open", "gone", "closed"}]
           /\ joined \in [Conns -> SUBSET (Users \X Challenges)]
           /\ contested \in [Conns -> SUBSET (Users \X Challenges)]
           /\ clients \in [Challenges -> PMap(Users, Conns)]
BY DEF TypeOK

\* A new connection is in no entry.
LEMMA UpgradeKeeps ==
    ASSUME IInv, NEW k \in Conns, Upgrade(k)
    PROVE  IInv'
<1>1. k \in Goroutines /\ TypeOK /\ LoopInv /\ RegistryInv /\ NamesInv
  BY DEF IInv, Goroutines
<1>2. /\ at[k] = "off" /\ at' = [at EXCEPT ![k] = "read"]
      /\ sock' = [sock EXCEPT ![k] = "open"]
      /\ UNCHANGED <<clients, names, job, snap, todo, writing, torn, msgs, history>>
  BY DEF Upgrade, Goto
<1>3. TypeOK'
  BY <1>1, <1>2 DEF TypeOK, history
<1>4. Others(k) /\ at'[k] = "read"
  BY <1>1, <1>2, LocalTypes DEF Others
<1>5. Station(k)' /\ Writing(k)' /\ ToMembers(k)'
  BY <1>1, <1>2, <1>4, ConnectionsAssumption DEF LoopInv, Station, Writing, ToMembers, Leaving
<1>6. LoopInv'
  BY <1>1, <1>2, <1>4, <1>5, LoopFrame DEF history
<1>7. NamesInv'
  BY <1>1, <1>2 DEF NamesInv, NamedBy, history
<1>8. joined[k] = {}
  BY <1>1, <1>2 DEF RegistryInv
<1>9. ~Removed(k)'
  BY <1>4 DEF Removed
<1>10. \A j \in Conns, c \in Challenges : ~Pending(k, j, c)
  BY <1>2 DEF Pending
<1>11. \A j \in Conns : Alive(j)' /\ sock'[j] = "closed" => sock[j] = "closed"
  BY <1>1, <1>2, LocalTypes
<1>12. RegistryInv' /\ RemovedInv' /\ SoleConnectionKept' /\ ToldInv'
  BY <1>1, <1>2, <1>4, <1>8, <1>9, <1>10, <1>11, QuietStep DEF history
<1>13. QED
  BY <1>3, <1>6, <1>7, <1>12 DEF IInv


\* A message that changes no registry is read, and answered or ignored.
LEMMA MessageKeeps ==
    ASSUME IInv, NEW k \in Conns,
           NEW u \in Users \union {None}, NEW c \in Challenges \union {None},
           Receive(k, u, c, {}), NEW step \in {"read", "refuse", "reply"}, Goto(k, step),
           UNCHANGED <<clients, sock, job, snap, heard>>,
           IF step = "read" THEN UNCHANGED <<todo, writing, torn>> ELSE WriteNext(k, {k})
    PROVE  IInv'
<1>1. k \in Goroutines /\ TypeOK /\ LoopInv /\ RegistryInv /\ NamesInv /\ None \notin Conns
  BY ConnectionsAssumption DEF IInv, Goroutines
<1>2. /\ at[k] = "read" /\ msgs' \in 0..MaxMessages
      /\ names' \in [Conns -> [u : Users \union {None}, c : Challenges \union {None}]]
      /\ contested' \in [Conns -> SUBSET (Users \X Challenges)]
      /\ UNCHANGED joined
      /\ \A j \in Conns \ {k} : names'[j] = names[j]
      /\ \A j \in Conns : contested[j] \subseteq contested'[j]
      /\ NamesInv'
  <2>1. {} \in SUBSET (Users \X Challenges)
    OBVIOUS
  <2>2. /\ at[k] = "read" /\ msgs' \in 0..MaxMessages
        /\ names' \in [Conns -> [u : Users \union {None}, c : Challenges \union {None}]]
        /\ joined' \in [Conns -> SUBSET (Users \X Challenges)]
        /\ contested' \in [Conns -> SUBSET (Users \X Challenges)]
        /\ joined'[k] = joined[k] \union {} /\ contested[k] \subseteq contested'[k] \union {}
        /\ \A j \in Conns \ {k} :
             /\ names'[j] = names[j] /\ joined'[j] = joined[j]
             /\ contested[j] \subseteq contested'[j]
        /\ NamesInv'
    BY <1>1, <2>1, ReceiveDoes
  <2>3. UNCHANGED joined
    BY <1>1, <2>2, LocalTypes
  <2>4. QED
    BY <2>2, <2>3
<1>3. writing[k] = None
  BY <1>1, <1>2 DEF LoopInv, Writing, Handling
<1>4. /\ writing' \in [Goroutines -> Conns \union {None}]
      /\ todo' \in [Goroutines -> SUBSET Conns]
      /\ torn' \subseteq {h \in Goroutines : writing'[h] # None}
      /\ \A h \in Goroutines \ {k} : writing'[h] = writing[h] /\ todo'[h] = todo[h]
      /\ writing'[k] = IF step = "read" THEN None ELSE k
  <2>1. CASE step = "read"
    BY <1>1, <1>3, <2>1 DEF TypeOK
  <2>2. CASE step # "read"
    BY <1>1, <2>2, WriteNextDoes
  <2>3. QED
    BY <2>1, <2>2
<1>5. at' = [at EXCEPT ![k] = step] /\ at'[k] = step
  BY <1>1, LocalTypes DEF Goto
<1>6. at' \in [Goroutines -> {"off", "read"} \union Handling \union {"remove"} \union Over]
  BY <1>1, <1>5, LocalTypes DEF Handling
<1>7. TypeOK'
  BY <1>1, <1>2, <1>4, <1>6 DEF TypeOK
<1>8. Others(k)
  BY <1>1, <1>2, <1>4, <1>5, LocalTypes DEF Others
<1>9. Station(k)' /\ Writing(k)' /\ ToMembers(k)'
  BY <1>1, <1>4, <1>5, ConnectionsAssumption DEF Station, Writing, ToMembers, Leaving
<1>10. LoopInv'
  BY <1>1, <1>2, <1>8, <1>9, LoopFrame
<1>11. Alive(k) /\ ~Removed(k)' /\ at'[k] # "off"
  BY <1>2, <1>5 DEF Removed, Alive
<1>12. \A j \in Conns, d \in Challenges : ~Pending(k, j, d)
  BY <1>2 DEF Pending
<1>13. RegistryInv' /\ RemovedInv' /\ SoleConnectionKept' /\ ToldInv'
  BY <1>1, <1>2, <1>8, <1>11, <1>12, QuietStep
<1>14. QED
  BY <1>2, <1>7, <1>10, <1>13 DEF IInv

\* Messages that do not register anybody only change names and steps.
LEMMA MessagesKeep ==
    ASSUME IInv, NEW k \in Conns, Unknown(k) \/ Ping(k) \/ RefuseJoin(k) \/ Show(k)
    PROVE  IInv'
<1>1. Named \subseteq Users \union {None}
  BY ConnectionsAssumption
<1>2. CASE Unknown(k)
  <2>1. PICK c \in Challenges, u \in Named : Receive(k, u, c, {})
    BY <1>2 DEF Unknown
  <2>2. /\ Goto(k, "read") /\ UNCHANGED <<todo, writing, torn>>
        /\ UNCHANGED <<clients, sock, job, snap, heard>>
    BY <1>2 DEF Unknown
  <2>3. QED
    BY <1>1, <2>1, <2>2, MessageKeeps
<1>3. ASSUME NEW u \in Users \union {None}, NEW c \in Challenges \union {None},
             NEW step \in {"refuse", "reply"}, Receive(k, u, c, {}), Answered(k, step)
      PROVE  IInv'
  <2>1. /\ Goto(k, step) /\ WriteNext(k, {k})
        /\ UNCHANGED <<clients, sock, job, snap, heard>>
    BY <1>3 DEF Answered, Answer
  <2>2. QED
    BY <1>3, <2>1, MessageKeeps
<1>4. CASE Ping(k)
  BY <1>3, <1>4 DEF Ping
<1>5. CASE RefuseJoin(k)
  BY <1>1, <1>3, <1>5 DEF RefuseJoin
<1>6. CASE Show(k)
  BY <1>1, <1>3, <1>6 DEF Show
<1>7. QED
  BY <1>2, <1>4, <1>5, <1>6

\* A client that goes closes its side of the socket, and nothing else.
LEMMA LeaveKeeps ==
    ASSUME IInv, NEW k \in Conns, Leave(k)
    PROVE  IInv'
<1>1. k \in Goroutines /\ TypeOK /\ LoopInv /\ NamesInv
  BY DEF IInv, Goroutines
<1>2. /\ at[k] \in {"read", "refuse"} /\ sock' = [sock EXCEPT ![k] = "gone"]
      /\ UNCHANGED <<clients, at, job, snap, todo, names, writing, torn, msgs,
                     joined, contested, heard>>
  BY DEF Leave, locals, history
<1>3. TypeOK'
  BY <1>1, <1>2 DEF TypeOK
<1>4. Others(k)
  BY <1>2 DEF Others
<1>5. LoopInv'
  BY <1>1, <1>2 DEF LoopInv, Station, Writing, ToMembers, Leaving
<1>6. NamesInv'
  BY <1>1, <1>2 DEF NamesInv, NamedBy
<1>7. /\ Alive(k)' <=> Alive(k)
      /\ Removed(k)' <=> Removed(k)
      /\ \A j \in Conns, c \in Challenges : Pending(k, j, c)' <=> Pending(k, j, c)
  BY <1>2 DEF Alive, Removed, Pending
<1>8. \A j \in Conns : sock'[j] = "closed" => sock[j] = "closed"
  BY <1>1, <1>2, LocalTypes
<1>9. RegistryInv' /\ RemovedInv' /\ SoleConnectionKept' /\ ToldInv'
  BY <1>1, <1>2, <1>4, <1>7, <1>8, QuietStep
<1>10. QED
  BY <1>3, <1>5, <1>6, <1>9 DEF IInv

\* A loop whose read failed goes to its cleanup, or ends if it knows no names.
LEMMA ReadErrorKeeps ==
    ASSUME IInv, NEW k \in Conns, ReadError(k)
    PROVE  IInv'
<1>1. k \in Goroutines /\ TypeOK /\ LoopInv /\ NamesInv
  BY DEF IInv, Goroutines
<1>2. /\ at[k] = "read"
      /\ UNCHANGED <<clients, names, snap, todo, writing, torn, msgs,
                     joined, contested, heard>>
      /\ \/ /\ None \in {names[k].u, names[k].c}
            /\ at' = [at EXCEPT ![k] = "ended"]
            /\ sock' = [sock EXCEPT ![k] = "closed"]
            /\ UNCHANGED job
         \/ /\ None \notin {names[k].u, names[k].c}
            /\ at' = [at EXCEPT ![k] = "remove"]
            /\ \E kind \in {"left", "silent"} :
                 job' = [job EXCEPT ![k] = [kind |-> kind, c |-> names[k].c]]
            /\ UNCHANGED sock
  BY DEF ReadError, Goto, Close, history
<1>3. names[k] \in [u : Users \union {None}, c : Challenges \union {None}]
  BY <1>1, LocalTypes
<1>4. at'[k] \in {"ended", "remove"} /\ Others(k)
  BY <1>1, <1>2, LocalTypes DEF Others
<1>5. job' \in [Goroutines -> {NoJob} \union [kind : Kinds, c : Challenges]]
  <2>1. CASE UNCHANGED job
    BY <1>1, <2>1, LocalTypes
  <2>2. ASSUME NEW kind \in {"left", "silent"}, None \notin {names[k].u, names[k].c},
               job' = [job EXCEPT ![k] = [kind |-> kind, c |-> names[k].c]]
        PROVE  job' \in [Goroutines -> {NoJob} \union [kind : Kinds, c : Challenges]]
    <3>1. [kind |-> kind, c |-> names[k].c] \in [kind : Kinds, c : Challenges]
      BY <1>3, <2>2 DEF Kinds
    <3>2. QED
      BY <1>1, <2>2, <3>1, LocalTypes
  <2>3. QED
    BY <1>2, <2>1, <2>2
<1>6. /\ at' \in [Goroutines -> {"off", "read"} \union Handling \union {"remove"} \union Over]
      /\ sock' \in [Conns -> {"new", "open", "gone", "closed"}]
  BY <1>1, <1>2, LocalTypes DEF Over
<1>7. TypeOK'
  BY <1>1, <1>2, <1>5, <1>6 DEF TypeOK
<1>8. Station(k)'
  BY <1>1, <1>2, <1>3, <1>4, LocalTypes, ConnectionsAssumption DEF Station, Leaving, NoJob
<1>9. writing'[k] = None /\ Writing(k)' /\ ToMembers(k)'
  BY <1>1, <1>2, <1>4 DEF LoopInv, Writing, ToMembers
<1>10. LoopInv'
  BY <1>1, <1>2, <1>4, <1>8, <1>9, LoopFrame
<1>11. NamesInv'
  BY <1>1, <1>2 DEF NamesInv, NamedBy
<1>12. ~Alive(k)' /\ (Removed(k)' => None \in {names'[k].u, names'[k].c})
  BY <1>1, <1>2, LocalTypes DEF Alive, Removed, Handling
<1>13. \A j \in Conns : Alive(j)' /\ sock'[j] = "closed" => sock[j] = "closed"
  BY <1>1, <1>2, <1>12, LocalTypes
<1>14. RegistryInv' /\ RemovedInv' /\ SoleConnectionKept' /\ ToldInv'
  BY <1>1, <1>2, <1>4, <1>12, <1>13, QuietStep
<1>15. QED
  BY <1>7, <1>10, <1>11, <1>14 DEF IInv

(***************************************************************************)
(* Broadcasts and writes.                                                  *)
(***************************************************************************)
\* The registry of a challenge has connections that joined it.
LEMMA RegisteredJoined ==
    ASSUME TypeOK, RegistryInv, NEW c \in Challenges
    PROVE  /\ Range(clients[c]) \in SUBSET Conns
           /\ \A k \in Range(clients[c]) : \E u \in Users : <<u, c>> \in joined[k]
<1>1. clients[c] \in PMap(Users, Conns)
  BY LocalTypes
<1>2. \A u \in DOMAIN clients[c] : u \in Users /\ clients[c][u] \in Conns
  BY <1>1, EntryType
<1>3. QED
  BY <1>2 DEF Range, RegistryInv

\* A broadcast copies the registry: its receivers are members.
LEMMA BroadcastEntityKeeps ==
    ASSUME IInv, NEW k \in Conns, BroadcastEntity(k)
    PROVE  IInv'
<1> DEFINE all == Range(clients[job[k].c])
<1>1. /\ k \in Goroutines /\ TypeOK /\ LoopInv /\ RegistryInv /\ NamesInv
      /\ SoleConnectionKept /\ None \notin Conns
  BY ConnectionsAssumption DEF IInv, Goroutines
<1>2. /\ at[k] = "snap" /\ at' = [at EXCEPT ![k] = "cast"]
      /\ snap' = [snap EXCEPT ![k] = all] /\ WriteNext(k, all)
      /\ UNCHANGED <<clients, sock, names, job, msgs, joined, contested, heard>>
  BY DEF BroadcastEntity, Broadcast, GetAllWSClients, Goto, history
<1>3. /\ job[k].kind \in {"join", "left"} /\ job[k].c \in Challenges
      /\ Station(k)
  BY <1>1, <1>2, LocalTypes DEF LoopInv, Station
<1>4. all \in SUBSET Conns /\ \A j \in all : \E u \in Users : <<u, job[k].c>> \in joined[j]
  BY <1>1, <1>3, RegisteredJoined
<1>5. /\ writing' \in [Goroutines -> Conns \union {None}]
      /\ todo' \in [Goroutines -> SUBSET Conns]
      /\ torn' \subseteq {h \in Goroutines : writing'[h] # None}
      /\ \A h \in Goroutines \ {k} : writing'[h] = writing[h] /\ todo'[h] = todo[h]
      /\ \/ all = {} /\ writing'[k] = None /\ todo'[k] = {}
         \/ writing'[k] \in all /\ todo'[k] = all \ {writing'[k]}
  BY <1>1, <1>2, <1>4, WriteNextDoes
<1>6. at' \in [Goroutines -> {"off", "read"} \union Handling \union {"remove"} \union Over]
  BY <1>1, <1>2, LocalTypes DEF Handling
<1>7. TypeOK'
  BY <1>1, <1>2, <1>4, <1>5, <1>6 DEF TypeOK
<1>8. at'[k] = "cast" /\ snap'[k] = all /\ Others(k)
  BY <1>1, <1>2, <1>5, LocalTypes DEF Others
<1>9. Station(k)'
  BY <1>2, <1>3, <1>8, ConnectionsAssumption DEF Station, Leaving, Goroutines
<1>10. Writing(k)' /\ ToMembers(k)'
  BY <1>1, <1>2, <1>4, <1>5, <1>8 DEF Writing, ToMembers
<1>11. LoopInv'
  BY <1>1, <1>2, <1>8, <1>9, <1>10, LoopFrame
<1>12. NamesInv'
  BY <1>1, <1>2 DEF NamesInv, NamedBy
<1>13. (Alive(k)' <=> Alive(k)) /\ (Removed(k)' <=> Removed(k))
  BY <1>2, <1>8 DEF Alive, Removed, Handling
<1>14. ASSUME NEW j \in Conns, NEW c \in Challenges, Pending(k, j, c),
              Alive(j), Member(j, c)
       PROVE  Pending(k, j, c)'
  <2>1. PICK u \in Users : <<u, c>> \in Sole(j)
    BY <1>14 DEF Member
  <2>2. j \in all
    BY <1>1, <1>14, <2>1, Registers DEF Range, Pending
  <2>3. QED
    BY <1>2, <1>5, <1>8, <1>14, <2>2 DEF Pending
<1>15. /\ at'[k] # "off"
       /\ \A j \in Conns : Alive(j)' /\ sock'[j] = "closed" => sock[j] = "closed"
  BY <1>2, <1>8
<1>16. RegistryInv' /\ RemovedInv' /\ SoleConnectionKept' /\ ToldInv'
  BY <1>1, <1>2, <1>8, <1>13, <1>14, <1>15, QuietStep
<1>17. QED
  BY <1>7, <1>11, <1>12, <1>16 DEF IInv

\* So does the announcement of a join.
LEMMA AnnounceKeeps ==
    ASSUME IInv, NEW g \in Casters, Announce(g)
    PROVE  IInv'
<1>1. /\ g \in Goroutines /\ g \notin Conns /\ TypeOK /\ LoopInv /\ RegistryInv /\ NamesInv
      /\ None \notin Conns
  BY ConnectionsAssumption DEF IInv, Goroutines
<1>2. PICK c \in Challenges :
        /\ at[g] = "off" /\ at' = [at EXCEPT ![g] = "cast"]
        /\ job' = [job EXCEPT ![g] = [kind |-> "event", c |-> c]]
        /\ snap' = [snap EXCEPT ![g] = Range(clients[c])] /\ WriteNext(g, Range(clients[c]))
        /\ UNCHANGED <<clients, sock, names, msgs, joined, contested, heard>>
  BY DEF Announce, Broadcast, GetAllWSClients, Goto, history
<1> DEFINE all == Range(clients[c])
<1>3. all \in SUBSET Conns /\ \A j \in all : \E u \in Users : <<u, c>> \in joined[j]
  BY <1>1, RegisteredJoined
<1>4. /\ writing' \in [Goroutines -> Conns \union {None}]
      /\ todo' \in [Goroutines -> SUBSET Conns]
      /\ torn' \subseteq {h \in Goroutines : writing'[h] # None}
      /\ \A h \in Goroutines \ {g} : writing'[h] = writing[h] /\ todo'[h] = todo[h]
      /\ \/ all = {} /\ writing'[g] = None /\ todo'[g] = {}
         \/ writing'[g] \in all /\ todo'[g] = all \ {writing'[g]}
  BY <1>1, <1>2, <1>3, WriteNextDoes
<1>5. at' \in [Goroutines -> {"off", "read"} \union Handling \union {"remove"} \union Over]
  BY <1>1, <1>2, LocalTypes DEF Handling
<1>6. job' \in [Goroutines -> {NoJob} \union [kind : Kinds, c : Challenges]]
  <2>1. [kind |-> "event", c |-> c] \in [kind : Kinds, c : Challenges]
    BY DEF Kinds
  <2>2. QED
    BY <1>1, <1>2, <2>1, LocalTypes
<1>7. TypeOK'
  BY <1>1, <1>2, <1>3, <1>4, <1>5, <1>6 DEF TypeOK
<1>8. /\ at'[g] = "cast" /\ snap'[g] = all /\ job'[g] = [kind |-> "event", c |-> c]
      /\ Others(g)
  BY <1>1, <1>2, <1>4, LocalTypes DEF Others
<1>9. Station(g)'
  BY <1>1, <1>8 DEF Station, Leaving, NoJob
<1>10. Writing(g)' /\ ToMembers(g)'
  BY <1>1, <1>2, <1>3, <1>4, <1>8 DEF Writing, ToMembers
<1>11. LoopInv'
  BY <1>1, <1>2, <1>8, <1>9, <1>10, LoopFrame
<1>12. NamesInv'
  BY <1>1, <1>2 DEF NamesInv, NamedBy
<1>13. RegistryInv' /\ RemovedInv' /\ SoleConnectionKept' /\ ToldInv'
  BY <1>1, <1>2, <1>8, QuietStep
<1>14. QED
  BY <1>7, <1>11, <1>12, <1>13 DEF IInv

\* A write that ends goes on to the next receiver.
LEMMA EndWriteKeeps ==
    ASSUME IInv, NEW g \in Goroutines, EndWrite(g)
    PROVE  IInv'
<1>1. TypeOK /\ LoopInv /\ NamesInv /\ None \notin Conns
  BY ConnectionsAssumption DEF IInv, Goroutines
<1>2. /\ writing[g] # None /\ heard \subseteq heard'
      /\ UNCHANGED <<clients, sock, names, job, snap, msgs, contested, joined>>
  BY DEF EndWrite
<1>3. /\ Station(g) /\ Writing(g) /\ ToMembers(g)
      /\ writing[g] \in Conns /\ todo[g] \in SUBSET Conns
      /\ at[g] \in {"cast", "refuse", "reply"}
  BY <1>1, <1>2, LocalTypes DEF LoopInv, Writing
<1>4. NamesInv'
  BY <1>1, <1>2 DEF NamesInv, NamedBy
<1>5. CASE at[g] = "cast"
  <2>1. /\ WriteNext(g, todo[g]) /\ UNCHANGED at
        /\ heard' = IF job[g].kind = "join" /\ writing[g] # g
                    THEN heard \union {<<{writing[g], g}, job[g].c>>} ELSE heard
    BY <1>5 DEF EndWrite
  <2>2. /\ writing' \in [Goroutines -> Conns \union {None}]
        /\ todo' \in [Goroutines -> SUBSET Conns]
        /\ torn' \subseteq {h \in Goroutines : writing'[h] # None}
        /\ \A h \in Goroutines \ {g} : writing'[h] = writing[h] /\ todo'[h] = todo[h]
        /\ \/ todo[g] = {} /\ writing'[g] = None /\ todo'[g] = {}
           \/ writing'[g] \in todo[g] /\ todo'[g] = todo[g] \ {writing'[g]}
    BY <1>1, <1>3, <2>1, WriteNextDoes
  <2>3. heard' \subseteq (SUBSET Conns) \X Challenges
    <3>1. CASE job[g].kind = "join" /\ writing[g] # g
      <4>1. g \in Conns /\ job[g].c \in Challenges
        BY <1>1, <1>3, <1>5, <3>1, LocalTypes DEF Station, NoJob
      <4>2. <<{writing[g], g}, job[g].c>> \in (SUBSET Conns) \X Challenges
        BY <1>3, <4>1
      <4>3. QED
        BY <1>1, <2>1, <3>1, <4>2 DEF TypeOK
    <3>2. CASE ~(job[g].kind = "join" /\ writing[g] # g)
      BY <1>1, <2>1, <3>2 DEF TypeOK
    <3>3. QED
      BY <3>1, <3>2
  <2>4. TypeOK'
    BY <1>1, <1>2, <2>1, <2>2, <2>3 DEF TypeOK
  <2>5. Others(g)
    BY <1>2, <2>1, <2>2 DEF Others
  <2>6. Station(g)'
    BY <1>2, <1>3, <2>1 DEF Station, Leaving
  <2>7. Writing(g)' /\ ToMembers(g)'
    BY <1>1, <1>2, <1>3, <1>5, <2>1, <2>2 DEF Writing, ToMembers
  <2>8. LoopInv'
    BY <1>1, <1>2, <2>5, <2>6, <2>7, LoopFrame
  <2>9. g \in Conns => (Alive(g)' <=> Alive(g)) /\ (Removed(g)' <=> Removed(g))
    BY <1>2, <2>1 DEF Alive, Removed
  <2>10. ASSUME NEW k \in Conns, NEW c \in Challenges, g \in Conns, Pending(g, k, c), k # g
         PROVE  Pending(g, k, c)' \/ <<{g, k}, c>> \in heard'
    <3>1. job[g].kind = "join" /\ job[g].c = c /\ k \in todo[g] \union {writing[g]}
      BY <1>5, <2>10 DEF Pending
    <3>2. CASE k = writing[g]
      <4>1. {writing[g], g} = {g, k}
        BY <3>2
      <4>2. QED
        BY <2>1, <2>10, <3>1, <3>2, <4>1
    <3>3. CASE k \in todo[g]
      BY <1>2, <1>5, <2>1, <2>2, <3>1, <3>3 DEF Pending
    <3>4. QED
      BY <3>1, <3>2, <3>3
  <2>11. \A k \in Conns : Alive(k)' /\ sock'[k] = "closed" => sock[k] = "closed"
    BY <1>2
  <2>12. RegistryInv' /\ RemovedInv' /\ SoleConnectionKept' /\ ToldInv'
    BY <1>2, <1>5, <2>1, <2>5, <2>9, <2>10, <2>11, QuietStep
  <2>13. QED
    BY <1>4, <2>4, <2>8, <2>12 DEF IInv
<1>6. CASE at[g] # "cast"
  <2>1. AfterOwn(g) /\ UNCHANGED heard /\ at[g] \in {"refuse", "reply"} /\ writing[g] = g
    BY <1>3, <1>6 DEF EndWrite, Writing
  <2>2. g \in Conns
    BY <1>3, <2>1
  <2>3. PICK targets \in SUBSET Conns, step \in {"read", "reply"} :
          /\ at' = [at EXCEPT ![g] = step] /\ WriteNext(g, targets)
          /\ targets = IF step = "read" THEN {} ELSE {g}
    BY <2>1, <2>2 DEF AfterOwn, Answer, Goto
  <2>4. /\ writing' \in [Goroutines -> Conns \union {None}]
        /\ todo' \in [Goroutines -> SUBSET Conns]
        /\ torn' \subseteq {h \in Goroutines : writing'[h] # None}
        /\ \A h \in Goroutines \ {g} : writing'[h] = writing[h] /\ todo'[h] = todo[h]
        /\ writing'[g] = IF step = "read" THEN None ELSE g
    BY <1>1, <2>3, WriteNextDoes
  <2>5. at' \in [Goroutines -> {"off", "read"} \union Handling \union {"remove"} \union Over]
    BY <1>1, <2>3, LocalTypes DEF Handling
  <2>6. TypeOK'
    BY <1>1, <1>2, <2>1, <2>4, <2>5 DEF TypeOK
  <2>7. at'[g] = step /\ Others(g)
    BY <1>1, <1>2, <2>3, <2>4, LocalTypes DEF Others
  <2>8. Station(g)' /\ Writing(g)' /\ ToMembers(g)'
    BY <2>2, <2>4, <2>7, ConnectionsAssumption DEF Station, Writing, ToMembers, Leaving
  <2>9. LoopInv'
    BY <1>1, <1>2, <2>7, <2>8, LoopFrame
  <2>10. /\ Alive(g) /\ ~Removed(g)' /\ at'[g] # "off"
         /\ \A k \in Conns, c \in Challenges : ~Pending(g, k, c)
    BY <2>1, <2>7 DEF Alive, Removed, Handling, Pending
  <2>11. \A k \in Conns : Alive(k)' /\ sock'[k] = "closed" => sock[k] = "closed"
    BY <1>2
  <2>12. RegistryInv' /\ RemovedInv' /\ SoleConnectionKept' /\ ToldInv'
    BY <1>2, <2>7, <2>10, <2>11, QuietStep
  <2>13. QED
    BY <1>4, <2>6, <2>9, <2>12 DEF IInv
<1>7. QED
  BY <1>5, <1>6

\* So does one of a gRPC request's broadcast.
LEMMA EndCastKeeps ==
    ASSUME IInv, NEW g \in Goroutines, EndCast(g)
    PROVE  IInv'
<1>1. TypeOK /\ LoopInv /\ NamesInv /\ None \notin Conns
  BY ConnectionsAssumption DEF IInv, Goroutines
<1>2. /\ at[g] = "cast" /\ writing[g] = None
      /\ UNCHANGED <<clients, names, msgs, joined, contested, heard>>
  BY DEF EndCast, history
<1>3. /\ Station(g) /\ ToMembers(g) /\ todo[g] = {}
      /\ snap[g] \in SUBSET Conns
  BY <1>1, <1>2, LocalTypes DEF LoopInv, Writing
<1>4. NamesInv'
  BY <1>1, <1>2 DEF NamesInv, NamedBy
<1>5. \A k \in Conns, c \in Challenges : ~Pending(g, k, c)
  BY <1>1, <1>2, <1>3 DEF Pending
\* What the four ways to go on have in common.
<1>6. ASSUME TypeOK', Others(g), Station(g)', Writing(g)', ToMembers(g)',
             g \in Conns =>
               /\ at'[g] # "off" /\ (Alive(g)' => Alive(g)) /\ (Removed(g)' => Removed(g))
               /\ Alive(g)' => UNCHANGED sock,
             \A k \in Conns \ {g} : sock'[k] = sock[k]
      PROVE  IInv'
  <2>1. LoopInv'
    BY <1>1, <1>2, <1>6, LoopFrame
  <2>2. \A k \in Conns : Alive(k)' /\ sock'[k] = "closed" => sock[k] = "closed"
    BY <1>6
  <2>3. RegistryInv' /\ RemovedInv' /\ SoleConnectionKept' /\ ToldInv'
    BY <1>2, <1>5, <1>6, <2>2, QuietStep
  <2>4. QED
    BY <1>4, <1>6, <2>1, <2>3 DEF IInv
<1>7. CASE job[g].kind = "join" /\ Finish(g, "reply") /\ WriteNext(g, {g}) /\ UNCHANGED sock
  <2>1. g \in Conns
    BY <1>2, <1>3, <1>7 DEF Station
  <2>2. /\ at' = [at EXCEPT ![g] = "reply"] /\ job' = [job EXCEPT ![g] = NoJob]
        /\ snap' = [snap EXCEPT ![g] = {}]
    BY <1>7 DEF Finish, Goto
  <2>3. /\ writing' \in [Goroutines -> Conns \union {None}]
        /\ todo' \in [Goroutines -> SUBSET Conns]
        /\ torn' \subseteq {h \in Goroutines : writing'[h] # None}
        /\ \A h \in Goroutines \ {g} : writing'[h] = writing[h] /\ todo'[h] = todo[h]
        /\ writing'[g] = g
    BY <1>1, <1>7, <2>1, WriteNextDoes
  <2>4. /\ at' \in [Goroutines -> {"off", "read"} \union Handling \union {"remove"} \union Over]
        /\ job' \in [Goroutines -> {NoJob} \union [kind : Kinds, c : Challenges]]
        /\ snap' \in [Goroutines -> SUBSET Conns]
    BY <1>1, <2>2, LocalTypes DEF Handling
  <2>5. TypeOK'
    BY <1>1, <1>2, <1>7, <2>3, <2>4 DEF TypeOK
  <2>6. at'[g] = "reply" /\ Others(g)
    BY <1>1, <1>2, <2>2, <2>3, LocalTypes DEF Others
  <2>7. Station(g)' /\ Writing(g)' /\ ToMembers(g)'
    BY <2>1, <2>3, <2>6, ConnectionsAssumption DEF Station, Writing, ToMembers, Leaving
  <2>8. Alive(g) /\ ~Removed(g)'
    BY <1>2, <1>7, <2>6 DEF Alive, Removed, Handling
  <2>9. QED
    BY <1>6, <1>7, <2>5, <2>6, <2>7, <2>8
<1>8. CASE job[g].kind = "left" /\ Finish(g, "ended") /\ Close(g) /\ UNCHANGED <<writing, torn>>
  <2>1. g \in Conns
    BY <1>2, <1>3, <1>8 DEF Station
  <2>2. /\ at' = [at EXCEPT ![g] = "ended"] /\ job' = [job EXCEPT ![g] = NoJob]
        /\ snap' = [snap EXCEPT ![g] = {}] /\ todo' = [todo EXCEPT ![g] = {}]
        /\ sock' = [sock EXCEPT ![g] = "closed"]
    BY <1>8 DEF Finish, Goto, Close
  <2>3. /\ at' \in [Goroutines -> {"off", "read"} \union Handling \union {"remove"} \union Over]
        /\ job' \in [Goroutines -> {NoJob} \union [kind : Kinds, c : Challenges]]
        /\ snap' \in [Goroutines -> SUBSET Conns]
        /\ todo' \in [Goroutines -> SUBSET Conns]
        /\ sock' \in [Conns -> {"new", "open", "gone", "closed"}]
    BY <1>1, <2>2, LocalTypes DEF Over
  <2>4. TypeOK'
    BY <1>1, <1>2, <1>8, <2>3 DEF TypeOK
  <2>5. /\ at'[g] = "ended" /\ writing'[g] = None /\ Others(g)
        /\ \A k \in Conns \ {g} : sock'[k] = sock[k]
    BY <1>1, <1>2, <1>8, <2>2, LocalTypes DEF Others
  <2>6. Station(g)' /\ Writing(g)' /\ ToMembers(g)'
    BY <2>1, <2>5, ConnectionsAssumption DEF Station, Writing, ToMembers, Leaving
  <2>7. ~Alive(g)' /\ Removed(g)
    BY <1>2, <1>8, <2>5 DEF Alive, Removed, Handling
  <2>8. QED
    BY <1>6, <2>4, <2>5, <2>6, <2>7
<1>9. CASE /\ job[g].kind = "event" /\ job' = [job EXCEPT ![g].kind = "board"]
           /\ WriteNext(g, snap[g]) /\ UNCHANGED <<at, snap, sock>>
  <2>1. g \notin Conns /\ job[g] \in [kind : Kinds, c : Challenges]
    BY <1>1, <1>2, <1>3, <1>9, LocalTypes DEF Station
  <2>2. /\ writing' \in [Goroutines -> Conns \union {None}]
        /\ todo' \in [Goroutines -> SUBSET Conns]
        /\ torn' \subseteq {h \in Goroutines : writing'[h] # None}
        /\ \A h \in Goroutines \ {g} : writing'[h] = writing[h] /\ todo'[h] = todo[h]
        /\ \/ snap[g] = {} /\ writing'[g] = None /\ todo'[g] = {}
           \/ writing'[g] \in snap[g] /\ todo'[g] = snap[g] \ {writing'[g]}
    BY <1>1, <1>3, <1>9, WriteNextDoes
  <2>3. [job[g] EXCEPT !.kind = "board"] \in [kind : Kinds, c : Challenges]
    BY <2>1 DEF Kinds
  <2>4. /\ job' \in [Goroutines -> {NoJob} \union [kind : Kinds, c : Challenges]]
        /\ job'[g] = [job[g] EXCEPT !.kind = "board"]
        /\ job'[g].kind = "board" /\ job'[g].c = job[g].c /\ job'[g] # NoJob
        /\ \A h \in Goroutines \ {g} : job'[h] = job[h]
    BY <1>1, <1>9, <2>1, <2>3, LocalTypes DEF NoJob
  <2>5. TypeOK'
    BY <1>1, <1>2, <1>9, <2>2, <2>4 DEF TypeOK
  <2>6. Others(g)
    BY <1>2, <1>9, <2>2, <2>4 DEF Others
  <2>7. Station(g)'
    BY <1>2, <1>3, <1>9, <2>1, <2>4 DEF Station, Leaving
  <2>8. Writing(g)' /\ ToMembers(g)'
    BY <1>1, <1>2, <1>3, <1>9, <2>2, <2>4 DEF Writing, ToMembers
  <2>9. QED
    BY <1>6, <1>9, <2>1, <2>5, <2>6, <2>7, <2>8
<1>10. CASE job[g].kind \in {"event", "board"} /\ Finish(g, "done") /\ UNCHANGED <<sock, writing, torn>>
  <2>1. g \notin Conns
    BY <1>2, <1>3, <1>10 DEF Station
  <2>2. /\ at' = [at EXCEPT ![g] = "done"] /\ job' = [job EXCEPT ![g] = NoJob]
        /\ snap' = [snap EXCEPT ![g] = {}] /\ todo' = [todo EXCEPT ![g] = {}]
    BY <1>10 DEF Finish, Goto
  <2>3. /\ at' \in [Goroutines -> {"off", "read"} \union Handling \union {"remove"} \union Over]
        /\ job' \in [Goroutines -> {NoJob} \union [kind : Kinds, c : Challenges]]
        /\ snap' \in [Goroutines -> SUBSET Conns]
        /\ todo' \in [Goroutines -> SUBSET Conns]
    BY <1>1, <2>2, LocalTypes DEF Over
  <2>4. TypeOK'
    BY <1>1, <1>2, <1>10, <2>3 DEF TypeOK
  <2>5. at'[g] = "done" /\ writing'[g] = None /\ Others(g)
    BY <1>1, <1>2, <1>10, <2>2, LocalTypes DEF Others
  <2>6. Station(g)' /\ Writing(g)' /\ ToMembers(g)'
    BY <2>1, <2>5 DEF Station, Writing, ToMembers, Leaving
  <2>7. QED
    BY <1>6, <1>10, <2>1, <2>4, <2>5, <2>6
<1>11. QED
  BY <1>7, <1>8, <1>9, <1>10 DEF EndCast

\* A loop that panics closes its connection and leaves the registry as it is.
LEMMA PanicLoopKeeps ==
    ASSUME IInv, NEW k \in Conns, PanicLoop(k)
    PROVE  IInv'
<1>1. k \in Goroutines /\ TypeOK /\ LoopInv /\ NamesInv
  BY DEF IInv, Goroutines
<1>2. /\ writing' = [writing EXCEPT ![k] = None] /\ torn' = torn \ {k}
      /\ sock' = [sock EXCEPT ![k] = "closed"] /\ at' = [at EXCEPT ![k] = "panicked"]
      /\ job' = [job EXCEPT ![k] = NoJob] /\ snap' = [snap EXCEPT ![k] = {}]
      /\ todo' = [todo EXCEPT ![k] = {}]
      /\ UNCHANGED <<clients, names, msgs, joined, contested, heard>>
  BY DEF PanicLoop, Finish, Goto, Close, history
<1>3. /\ at' \in [Goroutines -> {"off", "read"} \union Handling \union {"remove"} \union Over]
      /\ job' \in [Goroutines -> {NoJob} \union [kind : Kinds, c : Challenges]]
      /\ snap' \in [Goroutines -> SUBSET Conns]
      /\ todo' \in [Goroutines -> SUBSET Conns]
      /\ writing' \in [Goroutines -> Conns \union {None}]
      /\ sock' \in [Conns -> {"new", "open", "gone", "closed"}]
  BY <1>1, <1>2, LocalTypes DEF Over
<1>4. torn' \subseteq {h \in Goroutines : writing'[h] # None}
  BY <1>1, <1>2 DEF TypeOK
<1>5. TypeOK'
  BY <1>1, <1>2, <1>3, <1>4 DEF TypeOK
<1>6. /\ at'[k] = "panicked" /\ writing'[k] = None /\ Others(k)
      /\ \A j \in Conns \ {k} : sock'[j] = sock[j]
  BY <1>1, <1>2, LocalTypes DEF Others
<1>7. Station(k)' /\ Writing(k)' /\ ToMembers(k)'
  BY <1>6, ConnectionsAssumption DEF Station, Writing, ToMembers, Leaving
<1>8. LoopInv'
  BY <1>1, <1>2, <1>6, <1>7, LoopFrame
<1>9. NamesInv'
  BY <1>1, <1>2 DEF NamesInv, NamedBy
<1>10. ~Alive(k)' /\ ~Removed(k)'
  BY <1>6 DEF Alive, Removed, Handling
<1>11. \A j \in Conns : Alive(j)' /\ sock'[j] = "closed" => sock[j] = "closed"
  BY <1>6, <1>10
<1>12. RegistryInv' /\ RemovedInv' /\ SoleConnectionKept' /\ ToldInv'
  BY <1>1, <1>2, <1>6, <1>10, <1>11, QuietStep
<1>13. QED
  BY <1>5, <1>8, <1>9, <1>12 DEF IInv

(***************************************************************************)
(* Steps that change the registry.                                         *)
(***************************************************************************)
LEMMA JoinKeeps ==
    ASSUME IInv, NEW k \in Conns, Join(k)
    PROVE  IInv'
<1>1. /\ k \in Goroutines /\ TypeOK /\ LoopInv /\ RegistryInv /\ NamesInv
      /\ RemovedInv /\ SoleConnectionKept /\ ToldInv
  BY DEF IInv, Goroutines
<1>2. PICK c \in Challenges, o \in Users, u \in Named :
        /\ Receive(k, u, c, {<<o, c>>})
        /\ clients' = [clients EXCEPT ![c] = Put(@, o, k)]
        /\ job' = [job EXCEPT ![k] = [kind |-> "join", c |-> c]]
  BY DEF Join, Register
<1> DEFINE p == <<o, c>>
<1>3. /\ at' = [at EXCEPT ![k] = "snap"]
      /\ UNCHANGED <<sock, snap, todo, writing, torn, heard>>
  BY DEF Join, Goto
<1>4. u \in Users \union {None} /\ {p} \in SUBSET (Users \X Challenges)
  BY ConnectionsAssumption
<1>5. /\ at[k] = "read" /\ msgs' \in 0..MaxMessages
      /\ names' \in [Conns -> [u : Users \union {None}, c : Challenges \union {None}]]
      /\ contested' \in [Conns -> SUBSET (Users \X Challenges)]
      /\ \A j \in Conns \ {k} :
           /\ names'[j] = names[j]
           /\ contested[j] \subseteq contested'[j]
           /\ p \in joined[j] => p \in contested'[j]
      /\ contested[k] \subseteq contested'[k] \union {p}
      /\ NamesInv'
  BY <1>1, <1>2, <1>4, ReceiveDoes
<1>6. sock[k] = "open"
  BY <1>2 DEF Receive
<1>7. clients[c] \in PMap(Users, Conns)
  BY <1>1, LocalTypes
<1>8. Put(clients[c], o, k) \in PMap(Users, Conns)
  BY <1>1, <1>7, PutType
<1>9. clients' \in [Challenges -> PMap(Users, Conns)]
  BY <1>1, <1>2, <1>8, LocalTypes
<1>10. /\ o \in DOMAIN clients'[c] /\ clients'[c][o] = k
       /\ \A d \in Challenges : \A v :
            d # c \/ v # o =>
              /\ v \in DOMAIN clients'[d] <=> v \in DOMAIN clients[d]
              /\ clients'[d][v] = clients[d][v] \/ v \notin DOMAIN clients[d]
  BY <1>1, <1>2, LocalTypes DEF Put
<1>11. /\ at' \in [Goroutines -> {"off", "read"} \union Handling \union {"remove"} \union Over]
       /\ joined' \in [Conns -> SUBSET (Users \X Challenges)]
  <2>1. joined' \in [Conns -> SUBSET (Users \X Challenges)]
    BY <1>1, <1>2, <1>4, ReceiveDoes
  <2>2. QED
    BY <1>1, <1>3, <2>1, LocalTypes DEF Handling
<1>12. job' \in [Goroutines -> {NoJob} \union [kind : Kinds, c : Challenges]]
  <2>1. [kind |-> "join", c |-> c] \in [kind : Kinds, c : Challenges]
    BY DEF Kinds
  <2>2. QED
    BY <1>1, <1>2, <2>1, LocalTypes
<1>13. TypeOK'
  BY <1>1, <1>3, <1>5, <1>9, <1>11, <1>12 DEF TypeOK
<1>14. /\ at'[k] = "snap" /\ job'[k] = [kind |-> "join", c |-> c] /\ writing'[k] = None
       /\ Others(k)
  BY <1>1, <1>2, <1>3, <1>5, LocalTypes DEF Others, LoopInv, Writing
<1>15. /\ \A j \in Conns \ {k} : joined'[j] = joined[j]
       /\ joined'[k] = joined[k] \union {p}
       /\ \A j \in Conns \ {k} : Sole(j)' \subseteq Sole(j) \ {p}
       /\ Sole(k)' \subseteq Sole(k) \union {p}
  <2>1. /\ \A j \in Conns \ {k} : joined'[j] = joined[j]
        /\ joined'[k] = joined[k] \union {p}
    BY <1>1, <1>2, <1>4, ReceiveDoes
  <2>2. \A j \in Conns \ {k} : Sole(j)' \subseteq Sole(j) \ {p}
    BY <1>5, <2>1 DEF Sole
  <2>3. Sole(k)' \subseteq Sole(k) \union {p}
    BY <1>5, <2>1 DEF Sole
  <2>4. QED
    BY <2>1, <2>2, <2>3
<1>16. Station(k)' /\ Writing(k)' /\ ToMembers(k)'
  BY <1>14, ConnectionsAssumption DEF Station, Writing, ToMembers, Leaving, NoJob
<1>17. LoopInv'
  BY <1>1, <1>14, <1>15, <1>16, LoopFrame
<1>18. \A j \in Conns \ {k} :
         /\ at'[j] = at[j] /\ job'[j] = job[j] /\ names'[j] = names[j]
         /\ (Alive(j)' <=> Alive(j)) /\ (Removed(j)' <=> Removed(j))
  <2>1. \A j \in Conns \ {k} : at'[j] = at[j] /\ job'[j] = job[j] /\ names'[j] = names[j]
    BY <1>14 DEF Others, Goroutines
  <2>2. QED
    BY <2>1 DEF Alive, Removed
<1>19. Alive(k) /\ Alive(k)' /\ ~Removed(k)'
  BY <1>5, <1>14 DEF Alive, Removed, Handling
<1>20. RegistryInv'
  <2>1. ASSUME NEW d \in Challenges, NEW v \in DOMAIN clients'[d]
        PROVE  <<v, d>> \in joined'[clients'[d][v]]
    <3>1. CASE d = c /\ v = o
      BY <1>3, <1>10, <1>15, <3>1
    <3>2. CASE d # c \/ v # o
      <4>1. v \in DOMAIN clients[d] /\ clients'[d][v] = clients[d][v]
        BY <1>10, <2>1, <3>2
      <4>2. clients[d][v] \in Conns
        BY <1>1, <4>1, LocalTypes, EntryType
      <4>3. QED
        BY <1>1, <1>3, <1>15, <4>1, <4>2 DEF RegistryInv
    <3>3. QED
      BY <3>1, <3>2
  <2>2. \A j \in Conns : at'[j] = "off" => joined'[j] = {}
    BY <1>1, <1>14, <1>15, <1>18 DEF RegistryInv
  <2>3. QED
    BY <2>1, <2>2 DEF RegistryInv
<1>21. RemovedInv'
  <2>1. ASSUME NEW j \in Conns, NEW d \in Challenges, NEW v \in Users,
               Removed(j)', names'[j] = [u |-> v, c |-> d], v \in DOMAIN clients'[d]
        PROVE  clients'[d][v] # j
    <3>1. j # k /\ Removed(j) /\ names[j] = [u |-> v, c |-> d]
      BY <1>18, <1>19, <2>1
    <3>2. CASE d = c /\ v = o
      BY <1>10, <3>1, <3>2
    <3>3. CASE d # c \/ v # o
      BY <1>1, <1>10, <2>1, <3>1, <3>3 DEF RemovedInv
    <3>4. QED
      BY <3>2, <3>3
  <2>2. QED
    BY <2>1 DEF RemovedInv
<1>22. SoleConnectionKept'
  <2>1. ASSUME NEW j \in Conns, Alive(j)', NEW v \in Users, NEW d \in Challenges, <<v, d>> \in Sole(j)'
        PROVE  v \in DOMAIN clients'[d] /\ clients'[d][v] = j
    <3>1. CASE <<v, d>> = p
      <4>1. j = k /\ d = c /\ v = o
        BY <1>15, <2>1, <3>1
      <4>2. QED
        BY <1>10, <4>1
    <3>2. CASE <<v, d>> # p
      <4>1. Alive(j) /\ <<v, d>> \in Sole(j)
        BY <1>15, <1>18, <1>19, <2>1, <3>2
      <4>2. v \in DOMAIN clients[d] /\ clients[d][v] = j
        BY <1>1, <4>1, Registers
      <4>3. d # c \/ v # o
        BY <3>2
      <4>4. QED
        BY <1>10, <4>2, <4>3
    <3>3. QED
      BY <3>1, <3>2
  <2>2. ASSUME NEW j \in Conns, Alive(j)', joined'[j] # {}, Sole(j)' = joined'[j]
        PROVE  sock'[j] # "closed"
    <3>1. CASE j = k
      BY <1>3, <1>6, <3>1
    <3>2. CASE j # k
      <4>1. Alive(j) /\ joined[j] # {} /\ Sole(j) = joined[j]
        BY <1>15, <1>18, <2>2, <3>2 DEF Sole
      <4>2. QED
        BY <1>1, <1>3, <4>1 DEF SoleConnectionKept
    <3>3. QED
      BY <3>1, <3>2
  <2>3. QED
    BY <2>1, <2>2 DEF SoleConnectionKept
<1>23. ToldInv'
  <2>1. ASSUME NEW i \in Conns, NEW j \in Conns, NEW d \in Challenges, i # j,
               Alive(i)', Alive(j)', Member(i, d)', Member(j, d)'
        PROVE  <<{i, j}, d>> \in heard' \/ Pending(i, j, d)' \/ Pending(j, i, d)'
    <3>1. Alive(i) /\ Alive(j)
      BY <1>18, <1>19, <2>1
    <3>2. \A x : \A h \in Conns : h = k /\ d = c => Pending(h, x, d)'
      BY <1>14 DEF Pending
    <3>3. CASE d = c /\ k \in {i, j}
      BY <3>2, <3>3
    <3>4. CASE d # c \/ k \notin {i, j}
      <4>1. Member(i, d) /\ Member(j, d)
        <5>1. ASSUME NEW h \in {i, j}, NEW v \in Users, <<v, d>> \in Sole(h)'
              PROVE  <<v, d>> \in Sole(h)
          <6>1. CASE h = k
            <7>1. <<v, d>> # p
              BY <3>4, <5>1, <6>1
            <7>2. QED
              BY <1>15, <5>1, <6>1, <7>1
          <6>2. CASE h # k
            BY <1>15, <2>1, <5>1, <6>2
          <6>3. QED
            BY <6>1, <6>2
        <5>2. QED
          BY <2>1, <5>1 DEF Member
      <4>2. <<{i, j}, d>> \in heard \/ Pending(i, j, d) \/ Pending(j, i, d)
        BY <1>1, <2>1, <3>1, <4>1 DEF ToldInv
      <4>3. \A x : \A h \in Conns : Pending(h, x, d) => Pending(h, x, d)'
        <5>1. \A x : ~Pending(k, x, d)
          BY <1>5 DEF Pending
        <5>2. \A x : \A h \in Conns \ {k} : Pending(h, x, d) => Pending(h, x, d)'
          BY <1>3, <1>18 DEF Pending
        <5>3. QED
          BY <5>1, <5>2
      <4>4. QED
        BY <1>3, <4>2, <4>3
    <3>5. QED
      BY <3>3, <3>4
  <2>2. QED
    BY <2>1 DEF ToldInv
<1>24. QED
  BY <1>5, <1>13, <1>17, <1>20, <1>21, <1>22, <1>23 DEF IInv

\* A cleanup takes out the entry of the names it last read.
LEMMA RemoveKeeps ==
    ASSUME IInv, NEW k \in Conns, RemoveWSClient(k)
    PROVE  IInv'
<1> DEFINE c == names[k].c
           u == names[k].u
           closed == Registered(c, u) \union (IF job[k].kind = "left" THEN {} ELSE {k})
<1>1. /\ k \in Goroutines /\ TypeOK /\ LoopInv /\ RegistryInv /\ NamesInv
      /\ RemovedInv /\ SoleConnectionKept /\ ToldInv
  BY DEF IInv, Goroutines
<1>2. /\ at[k] = "remove"
      /\ clients' = [clients EXCEPT ![c] = Drop(@, u)]
      /\ sock' = [j \in Conns |-> IF j \in closed THEN "closed" ELSE sock[j]]
      /\ UNCHANGED <<names, writing, torn, msgs, joined, contested, heard>>
  BY DEF RemoveWSClient, Unregister, history
<1>3. \/ /\ job[k].kind = "left" /\ at' = [at EXCEPT ![k] = "snap"]
         /\ UNCHANGED <<job, snap, todo>>
      \/ /\ at' = [at EXCEPT ![k] = "ended"] /\ job' = [job EXCEPT ![k] = NoJob]
         /\ snap' = [snap EXCEPT ![k] = {}] /\ todo' = [todo EXCEPT ![k] = {}]
  BY DEF RemoveWSClient, Finish, Goto
<1>4. c \in Challenges /\ u \in Users /\ Station(k) /\ writing[k] = None
  <2>1. Station(k) /\ Writing(k)
    BY <1>1 DEF LoopInv
  <2>2. names[k] \in [u : Users \union {None}, c : Challenges \union {None}]
    BY <1>1, LocalTypes
  <2>3. QED
    BY <1>2, <2>1, <2>2 DEF Station, Leaving, Writing
<1>5. Drop(clients[c], u) \in PMap(Users, Conns)
  BY <1>1, <1>4, LocalTypes, DropType
<1>6. clients' \in [Challenges -> PMap(Users, Conns)]
  BY <1>1, <1>2, <1>5, LocalTypes
<1>7. \A d \in Challenges : \A v :
        /\ v \in DOMAIN clients'[d] <=> v \in DOMAIN clients[d] /\ ~(d = c /\ v = u)
        /\ v \in DOMAIN clients'[d] => clients'[d][v] = clients[d][v]
  BY <1>1, <1>2, <1>4, LocalTypes DEF Drop, Restrict
<1>8. /\ at' \in [Goroutines -> {"off", "read"} \union Handling \union {"remove"} \union Over]
      /\ job' \in [Goroutines -> {NoJob} \union [kind : Kinds, c : Challenges]]
      /\ snap' \in [Goroutines -> SUBSET Conns]
      /\ todo' \in [Goroutines -> SUBSET Conns]
      /\ sock' \in [Conns -> {"new", "open", "gone", "closed"}]
  BY <1>1, <1>2, <1>3, LocalTypes DEF Handling, Over
<1>9. TypeOK'
  BY <1>1, <1>2, <1>6, <1>8 DEF TypeOK
<1>10. /\ \/ at'[k] = "snap" /\ job'[k] = job[k] /\ job[k].kind = "left"
          \/ at'[k] = "ended"
       /\ writing'[k] = None /\ Others(k)
  BY <1>1, <1>2, <1>3, <1>4, LocalTypes DEF Others
<1>11. Station(k)' /\ Writing(k)' /\ ToMembers(k)'
  BY <1>2, <1>4, <1>10, ConnectionsAssumption DEF Station, Writing, ToMembers, Leaving, Goroutines
<1>12. LoopInv'
  BY <1>1, <1>2, <1>10, <1>11, LoopFrame
<1>13. NamesInv'
  BY <1>1, <1>2 DEF NamesInv, NamedBy
<1>14. \A j \in Conns \ {k} :
         /\ at'[j] = at[j] /\ job'[j] = job[j] /\ names'[j] = names[j]
         /\ snap'[j] = snap[j] /\ todo'[j] = todo[j]
         /\ (Alive(j)' <=> Alive(j)) /\ (Removed(j)' <=> Removed(j))
  <2>1. \A j \in Conns \ {k} :
          /\ at'[j] = at[j] /\ job'[j] = job[j] /\ names'[j] = names[j]
          /\ snap'[j] = snap[j] /\ todo'[j] = todo[j]
    BY <1>10 DEF Others, Goroutines
  <2>2. QED
    BY <2>1 DEF Alive, Removed
<1>15. ~Alive(k)'
  BY <1>10 DEF Alive, Handling
<1>16. RegistryInv'
  <2>1. ASSUME NEW d \in Challenges, NEW v \in DOMAIN clients'[d]
        PROVE  <<v, d>> \in joined'[clients'[d][v]]
    <3>1. v \in DOMAIN clients[d] /\ clients'[d][v] = clients[d][v]
      BY <1>7, <2>1
    <3>2. <<v, d>> \in joined[clients[d][v]]
      BY <1>1, <3>1 DEF RegistryInv
    <3>3. QED
      BY <1>2, <3>1, <3>2
  <2>2. \A j \in Conns : at'[j] = "off" => joined'[j] = {}
    BY <1>1, <1>2, <1>10, <1>14 DEF RegistryInv
  <2>3. QED
    BY <2>1, <2>2 DEF RegistryInv
<1>17. RemovedInv'
  <2>1. ASSUME NEW j \in Conns, NEW d \in Challenges, NEW v \in Users,
               Removed(j)', names'[j] = [u |-> v, c |-> d], v \in DOMAIN clients'[d]
        PROVE  clients'[d][v] # j
    <3>1. CASE j = k
      BY <1>2, <1>7, <2>1, <3>1
    <3>2. CASE j # k
      BY <1>1, <1>7, <1>14, <2>1, <3>2 DEF RemovedInv
    <3>3. QED
      BY <3>1, <3>2
  <2>2. QED
    BY <2>1 DEF RemovedInv
<1>18. /\ \A j \in Conns \ {k} : <<u, c>> \notin Sole(j)
       /\ \A j \in Conns : Sole(j)' = Sole(j)
       /\ \A j \in Conns, d \in Challenges : Member(j, d)' <=> Member(j, d)
  <2>1. \A j \in Conns \ {k} : <<u, c>> \notin Sole(j)
    BY <1>1 DEF NamesInv, NamedBy, Sole
  <2>2. \A j \in Conns : Sole(j)' = Sole(j)
    BY <1>2 DEF Sole
  <2>3. QED
    BY <2>1, <2>2 DEF Member
<1>19. SoleConnectionKept'
  <2>1. ASSUME NEW j \in Conns, Alive(j)', NEW v \in Users, NEW d \in Challenges, <<v, d>> \in Sole(j)'
        PROVE  v \in DOMAIN clients'[d] /\ clients'[d][v] = j
    <3>1. j # k /\ Alive(j) /\ <<v, d>> \in Sole(j)
      BY <1>14, <1>15, <1>18, <2>1
    <3>2. v \in DOMAIN clients[d] /\ clients[d][v] = j
      BY <1>1, <3>1, Registers
    <3>3. ~(d = c /\ v = u)
      BY <1>18, <3>1
    <3>4. QED
      BY <1>7, <3>2, <3>3
  <2>2. ASSUME NEW j \in Conns, Alive(j)', joined'[j] # {}, Sole(j)' = joined'[j]
        PROVE  sock'[j] # "closed"
    <3>1. j # k /\ Alive(j) /\ Sole(j) = joined[j]
      BY <1>2, <1>14, <1>15, <1>18, <2>2
    <3>2. sock[j] # "closed"
      BY <1>1, <1>2, <2>2, <3>1 DEF SoleConnectionKept
    <3>3. j \notin Registered(c, u)
      <4>1. SUFFICES ASSUME u \in DOMAIN clients[c], j = clients[c][u] PROVE FALSE
        BY DEF Registered
      <4>2. <<u, c>> \in joined[j]
        BY <1>1, <1>4, <4>1 DEF RegistryInv
      <4>3. QED
        BY <1>18, <3>1, <4>2
    <3>4. QED
      BY <1>2, <3>1, <3>2, <3>3
  <2>3. QED
    BY <2>1, <2>2 DEF SoleConnectionKept
<1>20. ToldInv'
  <2>1. ASSUME NEW i \in Conns, NEW j \in Conns, NEW d \in Challenges, i # j,
               Alive(i)', Alive(j)', Member(i, d)', Member(j, d)'
        PROVE  <<{i, j}, d>> \in heard' \/ Pending(i, j, d)' \/ Pending(j, i, d)'
    <3>1. i # k /\ j # k /\ Alive(i) /\ Alive(j) /\ Member(i, d) /\ Member(j, d)
      BY <1>14, <1>15, <1>18, <2>1
    <3>2. <<{i, j}, d>> \in heard \/ Pending(i, j, d) \/ Pending(j, i, d)
      BY <1>1, <2>1, <3>1 DEF ToldInv
    <3>3. \A x : \A h \in Conns \ {k} : Pending(h, x, d) => Pending(h, x, d)'
      BY <1>2, <1>14 DEF Pending
    <3>4. QED
      BY <1>2, <3>1, <3>2, <3>3
  <2>2. QED
    BY <2>1 DEF ToldInv
<1>21. QED
  BY <1>9, <1>12, <1>13, <1>16, <1>17, <1>19, <1>20 DEF IInv

\* A gRPC request that panics takes the process with it: nothing is left.
LEMMA PanicCasterKeeps ==
    ASSUME IInv, NEW g \in Casters, PanicCaster(g)
    PROVE  IInv'
<1>1. TypeOK
  BY DEF IInv
<1>2. /\ clients' = [c \in Challenges |-> EmptyMap]
      /\ sock' = [k \in Conns |-> "closed"]
      /\ writing' = [h \in Goroutines |-> None]
      /\ torn' = {}
      /\ at' = [h \in Goroutines |-> "dead"]
      /\ names' = [k \in Conns |-> Nobody]
      /\ job' = [h \in Goroutines |-> NoJob]
      /\ snap' = [h \in Goroutines |-> {}]
      /\ todo' = [h \in Goroutines |-> {}]
      /\ contested' = [k \in Conns |-> {}]
      /\ joined' = [k \in Conns |-> {}]
      /\ heard' = {}
      /\ UNCHANGED msgs
  BY DEF PanicCaster
<1>3. DOMAIN EmptyMap = {} /\ EmptyMap \in PMap(Users, Conns)
  BY EmptyMapType DEF EmptyMap
<1>4. TypeOK'
  BY <1>1, <1>2, <1>3, LocalTypes DEF TypeOK, Nobody, Over
<1>5. LoopInv'
  BY <1>2, ConnectionsAssumption DEF LoopInv, Station, Writing, ToMembers, Leaving, Goroutines
<1>6. NamesInv'
  BY <1>2 DEF NamesInv, Nobody
<1>7. \A k \in Conns : ~Alive(k)' /\ ~Removed(k)'
  BY <1>2 DEF Alive, Removed, Handling, Goroutines
<1>8. RegistryInv' /\ RemovedInv' /\ SoleConnectionKept' /\ ToldInv'
  BY <1>2, <1>3, <1>7 DEF RegistryInv, RemovedInv, SoleConnectionKept, ToldInv
<1>9. QED
  BY <1>4, <1>5, <1>6, <1>8 DEF IInv

\* Every step of the system keeps the invariant.
LEMMA NextKeepsIInv == IInv /\ [Next]_vars => IInv'
<1> SUFFICES ASSUME IInv, [Next]_vars PROVE IInv'
  OBVIOUS
<1>1. ASSUME NEW k \in Conns, LoopStep(k) \/ Leave(k) PROVE IInv'
  <2>1. k \in Goroutines
    BY DEF Goroutines
  <2>2. QED
    BY <1>1, <2>1, UpgradeKeeps, MessagesKeep, JoinKeeps, ReadErrorKeeps, RemoveKeeps,
       BroadcastEntityKeeps, EndWriteKeeps, EndCastKeeps, PanicLoopKeeps, LeaveKeeps
    DEF LoopStep
<1>2. ASSUME NEW g \in Casters, CasterStep(g) PROVE IInv'
  <2>1. g \in Goroutines
    BY DEF Goroutines
  <2>2. QED
    BY <1>2, <2>1, AnnounceKeeps, EndWriteKeeps, EndCastKeeps, PanicCasterKeeps DEF CasterStep
<1>3. ASSUME UNCHANGED vars PROVE IInv'
  <2>1. /\ TypeOK' /\ LoopInv' /\ RegistryInv' /\ NamesInv'
    BY <1>3 DEF IInv, vars, locals, history, TypeOK, LoopInv, RegistryInv, NamesInv, NamedBy,
                Station, Writing, ToMembers, Leaving
  <2>2. /\ \A j, k \in Conns, c \in Challenges : Pending(j, k, c)' <=> Pending(j, k, c)
        /\ \A k \in Conns : (Alive(k)' <=> Alive(k)) /\ (Removed(k)' <=> Removed(k))
        /\ \A k \in Conns : Sole(k)' = Sole(k)
        /\ \A k \in Conns, c \in Challenges : Member(k, c)' <=> Member(k, c)
    BY <1>3 DEF vars, locals, history, Pending, Alive, Removed, Sole, Member
  <2>3. RemovedInv' /\ SoleConnectionKept'
    BY <1>3, <2>2 DEF IInv, vars, history, RemovedInv, SoleConnectionKept
  <2>4. ToldInv'
    BY <1>3, <2>2 DEF IInv, vars, history, ToldInv
  <2>5. QED
    BY <2>1, <2>3, <2>4 DEF IInv
<1>4. QED
  BY <1>1, <1>2, <1>3 DEF Next, AllOver

\* So it is one.
LEMMA Invariance == Spec => []IInv
<1>1. QED
  BY InitIInv, NextKeepsIInv, PTL DEF Spec

(***************************************************************************)
(* The theorems.                                                           *)
(***************************************************************************)
\* The registry maps users to connections, and every goroutine is where the
\* read loop or a broadcast may be.
THEOREM TypeCorrectness == Spec => []TypeOK
<1>1. IInv => TypeOK
  BY DEF IInv
<1>2. QED
  BY <1>1, Invariance, PTL

\* cleanupConnection leaves no entry of an ended connection behind under the
\* names last read on it.
THEOREM NoDeadEntries == Spec => []NoDeadEntry
<1>1. IInv => NoDeadEntry
  <2> SUFFICES ASSUME IInv, NEW c \in Challenges, NEW u \in DOMAIN clients[c],
                      at[clients[c][u]] = "ended", names[clients[c][u]] = [u |-> u, c |-> c]
               PROVE  FALSE
    BY DEF NoDeadEntry
  <2>1. u \in Users /\ clients[c][u] \in Conns
    BY LocalTypes, EntryType DEF IInv
  <2>2. QED
    BY <2>1 DEF IInv, RemovedInv, Removed
<1>2. QED
  BY <1>1, Invariance, PTL

\* Joins and cleanups of others leave a connection registered and open unless
\* they concern a user it joined as, and the challenge.
THEOREM SoleConnections == Spec => []SoleConnectionKept
<1>1. IInv => SoleConnectionKept
  BY DEF IInv
<1>2. QED
  BY <1>1, Invariance, PTL

\* What is announced for a challenge is written to nobody who never joined it.
THEOREM MembersOnly == Spec => []OnlyMembersWritten
<1>1. IInv => OnlyMembersWritten
  <2> SUFFICES ASSUME IInv, NEW g \in Goroutines, writing[g] \notin {None, g}
               PROVE  \E u \in Users : <<u, job[g].c>> \in joined[writing[g]]
    BY DEF OnlyMembersWritten
  <2>1. Writing(g) /\ ToMembers(g) /\ writing[g] \in Conns
    BY LocalTypes DEF IInv, LoopInv
  <2>2. QED
    BY <2>1 DEF Writing, ToMembers
<1>2. QED
  BY <1>1, Invariance, PTL

\* Of two who joined a challenge one is told of the other, however their joins
\* and broadcasts interleave.
THEOREM JoinersAreTold == Spec => []SomebodyIsTold
<1>1. IInv => SomebodyIsTold
  <2> SUFFICES ASSUME IInv, NEW j \in Conns, NEW k \in Conns, NEW c \in Challenges,
                      j # k, Announced(j, c), Announced(k, c)
               PROVE  <<{j, k}, c>> \in heard
    BY DEF SomebodyIsTold
  <2>1. ~Pending(j, k, c) /\ ~Pending(k, j, c)
    BY DEF Announced, Pending
  <2>2. QED
    BY <2>1 DEF IInv, ToldInv, Announced
<1>2. QED
  BY <1>1, Invariance, PTL
====
