---- MODULE FanOutProofs ----
(***************************************************************************)
(* Theorems about FanOut, for any number of challenges, workers and writes *)
(* of others: what the safety properties state, and that CanCreate with    *)
(* its goroutines implements the scan KeyScan.                             *)
(***************************************************************************)
EXTENDS FanOut, FiniteSetTheorems, TLAPS

(***************************************************************************)
(* The inductive invariant.                                                *)
(***************************************************************************)
Looking == {"collect", "set", "read", "submit", "wait"}

\* Which request stands where, and what it then has in hand.
StageInv ==
    /\ kind = "create" => pc \notin {"read", "submit", "wait", "listed", "error"}
    /\ kind # "create" => pc \notin {"collect", "set", "stored", "refused", "failed"} /\ ~cancelled
    /\ kind = "owned" => pc \notin {"submit", "wait"}
    /\ pc \in {"keys", "collect"} => ~cancelled
    /\ pc = "keys" => keys = {} /\ found = {} /\ steady = {}
    /\ pc = "exited" => found = {}
    /\ pc \notin {"collect", "submit", "wait", "refused", "listed"} =>
         \A c \in Challenges : work[c] \in {"none", "ended"}
    /\ \A c \in Challenges :
         /\ work[c] \in {"get", "send", "append"} => c \in keys
         /\ work[c] = "send" => kind = "create"
         /\ work[c] = "append" => kind = "open"

\* Goroutines of CanCreate that have yet to send.
Working == {c \in Challenges : work[c] \in {"get", "send"}}

\* There is a refusal in the channel.
Refusal == \E n \in DOMAIN chan : chan[n] = FALSE

\* CanCreate waits for as many results as there are goroutines yet to send and
\* results in the channel; a conflict that was sent and not received is there.
CollectInv ==
    kind = "create" =>
      /\ Cardinality(Working) + Len(chan) <= Cardinality(keys)
      /\ \A c \in found : work[c] \in {"send", "ended"}
      /\ Refusal => found # {}
      /\ pc = "collect" =>
           /\ left = Cardinality(Working) + Len(chan)
           /\ \A c \in keys : work[c] # "none"
           /\ \A c \in found : work[c] = "ended" => Refusal
      /\ pc \in {"set", "stored", "failed"} => found = {}
      /\ pc = "refused" /\ ~gone /\ ~lost => found # {}

\* Challenges whose task was submitted, or lost by a released pool, and has
\* not called wg.Done.
Owing == {c \in found \ todo : work[c] # "ended"}

WaitInv ==
    kind # "create" =>
      /\ \A c \in Challenges : work[c] # "none" => c \in found \ todo
      /\ listed \intersect Private # {} => kind = "owned"
      /\ pc \in {"submit", "wait", "listed"} /\ kind = "open" => todo \subseteq found /\ wg = Cardinality(Owing)
      /\ pc \notin {"submit", "wait", "listed"} \/ kind = "owned" => wg = 0
      /\ pc \in {"keys", "read"} => \A c \in Challenges : work[c] = "none"
      /\ pc \in {"wait", "listed"} => todo = {}

\* What mattered at some time, or all the time, and who knows.
HistoryInv ==
    /\ \A c \in keys : Matters(c, db[c]) => c \in ever
    /\ \A c \in steady : Matters(c, db[c])
    /\ \A c \in found : (kind = "open" /\ c \in Private) \/ c \in ever
    /\ pc \in Looking => steady \subseteq keys
    /\ pc \in {"collect", "set"} /\ ~gone /\ ~lost =>
         \A c \in steady : work[c] = "get" \/ c \in found
    /\ pc = "read" /\ ~gone /\ ~lost => steady \subseteq todo \union found
    /\ pc \in {"submit", "wait"} /\ ~gone /\ ~lost =>
         \A c \in steady : c \in found /\ (work[c] = "ended" => c \in listed)
    /\ ConflictFound /\ SteadyIsListed

IInv == TypeOK /\ StageInv /\ CollectInv /\ WaitInv /\ HistoryInv

(***************************************************************************)
(* Sets of challenges and their cardinalities.                             *)
(***************************************************************************)
LEMMA Counting ==
    ASSUME NEW S \in SUBSET Challenges
    PROVE  /\ IsFiniteSet(S) /\ Cardinality(S) \in Nat
           /\ S = {} <=> Cardinality(S) = 0
           /\ \A T \in SUBSET S : Cardinality(T) <= Cardinality(S)
           /\ \A c \in Challenges : c \notin S => Cardinality(S \union {c}) = Cardinality(S) + 1
           /\ \A c \in S : Cardinality(S \ {c}) = Cardinality(S) - 1
<1>1. IsFiniteSet(S)
  BY FanOutAssumption, FS_Subset
<1>2. Cardinality(S) \in Nat
  BY <1>1, FS_CardinalityType
<1>3. S = {} <=> Cardinality(S) = 0
  BY <1>1, FS_EmptySet
<1>4. \A T \in SUBSET S : Cardinality(T) <= Cardinality(S)
  BY <1>1, FS_Subset
<1>5. \A c \in Challenges : c \notin S => Cardinality(S \union {c}) = Cardinality(S) + 1
  BY <1>1, FS_AddElement
<1>6. \A c \in S : Cardinality(S \ {c}) = Cardinality(S) - 1
  BY <1>1, FS_RemoveElement
<1>7. QED
  BY <1>1, <1>2, <1>3, <1>4, <1>5, <1>6

\* The types of what a step finds.
LEMMA Types ==
    ASSUME TypeOK
    PROVE  /\ db \in [Challenges -> Docs \union {NoDoc}]
           /\ kind \in {"create", "open", "owned"}
           /\ {gone, cancelled, released, lost} \subseteq BOOLEAN
           /\ keys \subseteq Challenges /\ todo \subseteq keys
           /\ listed \subseteq found /\ found \subseteq keys
           /\ work \in [Challenges -> {"none", "get", "send", "append", "ended"}]
           /\ chan \in Seq(BOOLEAN)
           /\ steady \subseteq ever /\ ever \subseteq Challenges
           /\ left \in Nat /\ wg \in Nat /\ Len(chan) \in Nat
BY FanOutAssumption DEF TypeOK

\* A document that a create reads and takes for a conflict is one that matters.
LEMMA OccupiesMatters ==
    ASSUME NEW c \in Challenges, NEW d \in Docs \union {NoDoc}, kind = "create"
    PROVE  Occupies(c, d) <=> Matters(c, d)
BY FanOutAssumption DEF Occupies, Matters

\* A challenge that mattered and was read, and for which nothing was lost, was
\* read as it is.
LEMMA ReadAsItIs ==
    ASSUME TypeOK, ~cancelled, NEW c \in Challenges, NEW d, Loses(c, d), ~gone, ~lost'
    PROVE  d = db[c] /\ ~lost
BY DEF Loses, Done, TypeOK

\* At the start no goroutine runs.
LEMMA InitIInv == Init => IInv
<1> SUFFICES ASSUME Init PROVE IInv
  OBVIOUS
<1>1. Cardinality({}) = 0
  BY FS_EmptySet
<1>2. TypeOK
  <2>1. chan \in Seq(BOOLEAN) /\ Len(chan) = 0
    BY DEF Init
  <2>2. db \in [Challenges -> Docs \union {NoDoc}] /\ writes \in 0..MaxWrites /\ kind \in Kinds
    BY FanOutAssumption DEF Init
  <2>3. left \in 0..Cardinality(keys) /\ wg \in 0..Cardinality(keys) /\ Len(chan) <= Cardinality(keys)
    BY <1>1, <2>1 DEF Init
  <2>4. /\ {gone, cancelled, released, lost} \subseteq BOOLEAN
        /\ work \in [Challenges -> {"none", "get", "send", "append", "ended"}]
    BY DEF Init
  <2>5. QED
    BY <2>1, <2>2, <2>3, <2>4 DEF Init, TypeOK
<1>3. Working = {}
  BY DEF Init, Working
<1>4. StageInv /\ CollectInv
  BY <1>1, <1>3 DEF Init, StageInv, CollectInv, Refusal
<1>5. WaitInv /\ HistoryInv
  BY DEF Init, WaitInv, HistoryInv, Looking, ConflictFound, SteadyIsListed
<1>6. QED
  BY <1>2, <1>4, <1>5 DEF IInv

(***************************************************************************)
(* One lemma per action.                                                   *)
(***************************************************************************)
\* The first alternative of Keys, by the request.
LEMMA KeysKeeps == IInv /\ Keys => IInv'
<1> SUFFICES ASSUME IInv, Keys PROVE IInv'
  OBVIOUS
<1>1. TypeOK /\ StageInv /\ CollectInv /\ WaitInv /\ HistoryInv
  BY DEF IInv
<1>2. /\ pc = "keys" /\ keys = {} /\ found = {} /\ steady = {} /\ todo = {} /\ listed = {}
      /\ ~cancelled /\ \A c \in Challenges : work[c] \in {"none", "ended"}
      /\ UNCHANGED <<db, writes, kind, gone, chan, cancelled, wg, listed, found, released>>
  BY <1>1, Types DEF Keys, StageInv
<1>3. Working = {} /\ Cardinality({}) = 0
  BY <1>2, FS_EmptySet DEF Working
<1>4. kind = "create" => Len(chan) = 0 /\ ~Refusal
  BY <1>1, <1>2, <1>3, Types DEF CollectInv
<1>5. kind # "create" => wg = 0 /\ \A c \in Challenges : work[c] = "none"
  BY <1>1, <1>2 DEF WaitInv
<1>6. CASE /\ keys' = {c \in Challenges : db[c] # NoDoc}
           /\ steady' = {c \in Challenges : Matters(c, db[c])}
           /\ ever' = steady' /\ UNCHANGED lost
           /\ \/ /\ kind = "create" /\ keys' # {}
                 /\ work' = [c \in Challenges |-> IF c \in keys' THEN "get" ELSE "none"]
                 /\ left' = Cardinality(keys')
                 /\ pc' = "collect"
                 /\ UNCHANGED todo
              \/ /\ kind = "create" /\ keys' = {}
                 /\ pc' = "set"
                 /\ UNCHANGED <<work, left, todo>>
              \/ /\ kind # "create"
                 /\ todo' = keys'
                 /\ pc' = "read"
                 /\ UNCHANGED <<work, left>>
  <2>1. keys' \in SUBSET Challenges /\ steady' \subseteq keys'
    BY <1>6 DEF Matters
  <2>2. Cardinality(keys') \in Nat /\ Cardinality(keys') >= 0
    BY <2>1, Counting
  <2>3. Len(chan) <= Cardinality(keys') /\ wg <= Cardinality(keys') /\ left' \in 0..Cardinality(keys')
    BY <1>1, <1>2, <1>3, <1>6, <2>2, Types DEF TypeOK
  <2>4. TypeOK'
    BY <1>1, <1>2, <1>6, <2>1, <2>3 DEF TypeOK
  <2>5. StageInv'
    BY <1>1, <1>2, <1>6 DEF StageInv
  <2>6. CollectInv'
    <3>1. SUFFICES ASSUME kind = "create" PROVE CollectInv'
      BY <1>2 DEF CollectInv
    <3>2. Working' = IF keys' = {} THEN {} ELSE keys'
      BY <1>2, <1>3, <1>6, <2>1, <3>1 DEF Working
    <3>3. ~Refusal' /\ Len(chan') = 0
      BY <1>2, <1>4, <3>1 DEF Refusal
    <3>4. QED
      BY <1>2, <1>3, <1>6, <2>2, <3>1, <3>2, <3>3, Types DEF CollectInv
  <2>7. WaitInv'
    BY <1>1, <1>2, <1>5, <1>6 DEF WaitInv
  <2>8. \A c \in Challenges : Matters(c, db[c])' <=> Matters(c, db[c])
    BY <1>2 DEF Matters
  <2>9. HistoryInv'
    BY <1>2, <1>6, <2>1, <2>8 DEF HistoryInv, Looking, ConflictFound, SteadyIsListed
  <2>10. QED
    BY <2>4, <2>5, <2>6, <2>7, <2>9 DEF IInv
<1>7. CASE /\ pc' = IF kind = "create" THEN "refused" ELSE "error"
           /\ lost' = (lost \/ ~Done)
           /\ UNCHANGED <<keys, steady, ever, todo, work, left>>
  <2>1. lost' \in BOOLEAN /\ (~gone => lost')
    BY <1>1, <1>2, <1>7, Types DEF Done
  <2>2. TypeOK'
    BY <1>1, <1>2, <1>7, <2>1 DEF TypeOK, Answered
  <2>3. StageInv'
    BY <1>1, <1>2, <1>7 DEF StageInv
  <2>4. CollectInv'
    BY <1>1, <1>2, <1>7, <2>1 DEF CollectInv, Working, Refusal
  <2>5. WaitInv'
    BY <1>1, <1>2, <1>7 DEF WaitInv
  <2>6. HistoryInv'
    BY <1>1, <1>2, <1>7 DEF HistoryInv, Looking, ConflictFound, SteadyIsListed, Matters
  <2>7. QED
    BY <2>2, <2>3, <2>4, <2>5, <2>6 DEF IInv
<1>8. QED
  BY <1>6, <1>7 DEF Keys, Expected

\* A goroutine of CanCreate reads one key.
LEMMA ReadKeeps ==
    ASSUME IInv, NEW c \in Challenges, Read(c)
    PROVE  IInv'
<1>1. TypeOK /\ StageInv /\ CollectInv /\ WaitInv /\ HistoryInv
  BY DEF IInv
<1>2. PICK d \in {db[c], NoDoc} :
        /\ found' = IF Occupies(c, d) THEN found \union {c} ELSE found
        /\ Loses(c, d)
  BY DEF Read, Answers
<1>3. /\ kind = "create" /\ work[c] = "get" /\ c \in keys
      /\ work' = [work EXCEPT ![c] = "send"]
      /\ UNCHANGED <<db, writes, kind, pc, gone, keys, left, chan, cancelled, todo, wg, listed,
                     released, steady, ever>>
  BY <1>1, <1>2 DEF Read, Become, creating, listing, StageInv, Loses
<1>4. pc \in {"collect", "refused"}
  BY <1>1, <1>3 DEF StageInv
<1>5. lost' \in BOOLEAN /\ (lost => lost') /\ found \subseteq found' /\ found' \subseteq found \union {c}
  BY <1>1, <1>2, Types DEF Loses
<1>6. \A e \in Challenges : work'[e] = IF e = c THEN "send" ELSE work[e]
  BY <1>1, <1>3, Types
<1>7. TypeOK'
  BY <1>1, <1>3, <1>5 DEF TypeOK
<1>8. StageInv'
  BY <1>1, <1>3, <1>4, <1>6 DEF StageInv
<1>9. CollectInv'
  <2>1. Working' = Working
    BY <1>3, <1>6 DEF Working
  <2>2. Refusal' <=> Refusal
    BY <1>3 DEF Refusal
  <2>3. keys \subseteq Challenges /\ found \subseteq keys
    BY <1>1, Types
  <2>4. QED
    BY <1>1, <1>3, <1>4, <1>5, <1>6, <2>1, <2>2, <2>3 DEF CollectInv
<1>10. WaitInv'
  BY <1>3 DEF WaitInv
<1>11. HistoryInv'
  <2>1. \A e, f : Matters(e, f)' <=> Matters(e, f)
    BY <1>3 DEF Matters
  <2>2. db[c] \in Docs \union {NoDoc}
    BY <1>1, Types
  <2>3. Occupies(c, d) => Matters(c, db[c])
    BY <1>2, <1>3, <2>2, OccupiesMatters DEF Occupies
  <2>4. \A e \in found' : e \in ever'
    BY <1>1, <1>2, <1>3, <2>3 DEF HistoryInv
  <2>5. ASSUME pc = "collect", ~gone, ~lost'
        PROVE  ~lost /\ \A e \in steady : work'[e] = "get" \/ e \in found'
    <3>1. ~cancelled
      BY <1>1, <2>5 DEF StageInv
    <3>2. d = db[c] /\ ~lost
      BY <1>1, <1>2, <2>5, <3>1, ReadAsItIs
    <3>3. c \in steady => c \in found'
      BY <1>1, <1>2, <1>3, <2>2, <3>2, OccupiesMatters DEF HistoryInv
    <3>4. steady \subseteq Challenges
      BY <1>1, Types
    <3>5. QED
      BY <1>1, <1>5, <1>6, <2>5, <3>2, <3>3, <3>4 DEF HistoryInv
  <2>6. QED
    BY <1>1, <1>3, <1>4, <2>1, <2>4, <2>5 DEF HistoryInv, Looking, ConflictFound, SteadyIsListed
<1>12. QED
  BY <1>7, <1>8, <1>9, <1>10, <1>11 DEF IInv

\* It sends what it found: the channel has room.
LEMMA SendKeeps ==
    ASSUME IInv, NEW c \in Challenges, Send(c)
    PROVE  IInv'
<1>1. TypeOK /\ StageInv /\ CollectInv /\ WaitInv /\ HistoryInv
  BY DEF IInv
<1>2. /\ work[c] = "send" /\ Len(chan) < Cardinality(keys)
      /\ chan' = Append(chan, c \notin found)
      /\ work' = [work EXCEPT ![c] = "ended"]
      /\ UNCHANGED <<db, writes, kind, pc, gone, keys, left, cancelled, todo, wg, listed,
                     found, released, steady, ever, lost>>
  BY DEF Send, Become, Capacity, listing, history
<1>3. kind = "create" /\ c \in keys
  BY <1>1, <1>2 DEF StageInv
<1>4. pc \in {"collect", "refused"}
  BY <1>1, <1>2, <1>3 DEF StageInv
<1>5. \A e \in Challenges : work'[e] = IF e = c THEN "ended" ELSE work[e]
  BY <1>1, <1>2, Types
<1>6. /\ chan' \in Seq(BOOLEAN) /\ Len(chan') = Len(chan) + 1
      /\ \A n \in DOMAIN chan : n \in DOMAIN chan' /\ chan'[n] = chan[n]
      /\ Len(chan') \in DOMAIN chan' /\ chan'[Len(chan')] = (c \notin found)
      /\ \A n \in DOMAIN chan' : n \in DOMAIN chan \/ n = Len(chan')
  <2> DEFINE ok == c \notin found
  <2>1. ok \in BOOLEAN /\ chan \in Seq(BOOLEAN) /\ chan' = Append(chan, ok)
    BY <1>1, <1>2, Types
  <2> HIDE DEF ok
  <2>2. /\ chan' \in Seq(BOOLEAN) /\ Len(chan') = Len(chan) + 1
        /\ \A n \in DOMAIN chan : n \in DOMAIN chan' /\ chan'[n] = chan[n]
        /\ Len(chan') \in DOMAIN chan' /\ chan'[Len(chan')] = ok
        /\ \A n \in DOMAIN chan' : n \in DOMAIN chan \/ n = Len(chan')
    BY <2>1
  <2>3. QED
    BY <2>2 DEF ok
<1>7. (c \in found => Refusal') /\ (Refusal => Refusal') /\ (Refusal' => Refusal \/ c \in found)
  BY <1>6 DEF Refusal
<1>8. Working' = Working \ {c} /\ c \in Working /\ Cardinality(Working \ {c}) = Cardinality(Working) - 1
  <2>1. Working' = Working \ {c} /\ c \in Working /\ Working \in SUBSET Challenges
    BY <1>2, <1>5 DEF Working
  <2>2. QED
    BY <2>1, Counting
<1>9. Cardinality(keys) \in Nat /\ Cardinality(Working) \in Nat
  BY <1>1, Types, Counting DEF Working
<1>10. TypeOK'
  BY <1>1, <1>2, <1>6, <1>9, Types DEF TypeOK
<1>11. StageInv'
  BY <1>1, <1>2, <1>3, <1>4, <1>5 DEF StageInv
<1>12. CollectInv'
  <2>1. Cardinality(Working') + Len(chan') = Cardinality(Working) + Len(chan)
    BY <1>1, <1>6, <1>8, <1>9, Types
  <2>2. keys \subseteq Challenges /\ found \subseteq keys
    BY <1>1, Types
  <2>3. QED
    BY <1>1, <1>2, <1>3, <1>4, <1>5, <1>7, <2>1, <2>2 DEF CollectInv
<1>13. WaitInv'
  BY <1>2, <1>3 DEF WaitInv
<1>14. HistoryInv'
  <2>1. \A e, f : Matters(e, f)' <=> Matters(e, f)
    BY <1>2 DEF Matters
  <2>2. steady \subseteq Challenges
    BY <1>1, Types
  <2>3. QED
    BY <1>1, <1>2, <1>4, <1>5, <2>1, <2>2 DEF HistoryInv, Looking, ConflictFound, SteadyIsListed
<1>15. QED
  BY <1>10, <1>11, <1>12, <1>13, <1>14 DEF IInv

\* The collecting loop receives a result, or stops at a conflict.
LEMMA CollectKeeps == IInv /\ Collect => IInv'
<1> SUFFICES ASSUME IInv, Collect PROVE IInv'
  OBVIOUS
<1>1. TypeOK /\ StageInv /\ CollectInv /\ WaitInv /\ HistoryInv
  BY DEF IInv
<1>2. /\ pc = "collect" /\ kind = "create"
      /\ UNCHANGED <<db, writes, kind, gone, keys, todo, wg, listed, work, found, released,
                     steady, ever, lost>>
  BY <1>1 DEF Collect, StageInv, listing, history, TypeOK
<1>3. Working' = Working /\ Cardinality(Working) \in Nat /\ Cardinality(keys) \in Nat
  BY <1>1, <1>2, Types, Counting DEF Working
<1>4. WaitInv'
  BY <1>2 DEF WaitInv
<1>5. \A e, f : Matters(e, f)' <=> Matters(e, f)
  BY <1>2 DEF Matters
<1>6. CASE left = 0 /\ pc' = "set" /\ cancelled' = TRUE /\ UNCHANGED <<chan, left>>
  <2>1. Working = {} /\ Len(chan) = 0
    <3>1. Cardinality(Working) + Len(chan) = 0 /\ Len(chan) \in Nat
      BY <1>1, <1>2, <1>6, Types DEF CollectInv
    <3>2. Cardinality(Working) = 0 /\ Len(chan) = 0
      BY <1>3, <3>1
    <3>3. Working \in SUBSET Challenges
      BY DEF Working
    <3>4. QED
      BY <3>2, <3>3, Counting
  <2>2. ~Refusal /\ DOMAIN chan = {}
    BY <1>1, <2>1, Types DEF Refusal
  <2>3. found = {}
    <3>1. SUFFICES ASSUME NEW c \in found PROVE FALSE
      OBVIOUS
    <3>2. c \in Challenges /\ work[c] \in {"send", "ended"}
      BY <1>1, <1>2, Types DEF CollectInv
    <3>3. QED
      BY <1>1, <1>2, <2>1, <2>2, <3>2 DEF CollectInv, Working
  <2>4. TypeOK'
    BY <1>1, <1>2, <1>6 DEF TypeOK
  <2>5. StageInv'
    BY <1>1, <1>2, <1>6, <2>1, Types DEF StageInv, Working
  <2>6. CollectInv'
    BY <1>1, <1>2, <1>3, <1>6, <2>2, <2>3 DEF CollectInv, Refusal
  <2>7. HistoryInv'
    BY <1>1, <1>2, <1>5, <1>6 DEF HistoryInv, Looking, ConflictFound, SteadyIsListed
  <2>8. QED
    BY <1>4, <2>4, <2>5, <2>6, <2>7 DEF IInv
<1>7. CASE /\ left > 0 /\ chan # <<>> /\ chan' = Tail(chan)
           /\ \/ ~Head(chan) /\ pc' = "refused" /\ cancelled' = TRUE /\ UNCHANGED left
              \/ Head(chan) /\ left' = left - 1 /\ UNCHANGED <<pc, cancelled>>
  <2> DEFINE size == Cardinality(Working)
             all == Cardinality(keys)
  <2>1. /\ chan' \in Seq(BOOLEAN) /\ Len(chan') = Len(chan) - 1
        /\ \A n \in DOMAIN chan' : n + 1 \in DOMAIN chan /\ chan'[n] = chan[n + 1]
        /\ \A n \in DOMAIN chan : n # 1 => n - 1 \in DOMAIN chan' /\ chan'[n - 1] = chan[n]
        /\ 1 \in DOMAIN chan /\ Head(chan) = chan[1] /\ Head(chan) \in BOOLEAN
    <3>1. chan \in Seq(BOOLEAN) /\ chan # <<>> /\ chan' = Tail(chan)
      BY <1>1, <1>7, Types
    <3>2. QED
      BY <3>1
  <2>2. Refusal' => Refusal
    BY <2>1 DEF Refusal
  <2>8. /\ left \in Nat /\ left <= all /\ Len(chan) \in Nat /\ Len(chan) <= all
        /\ size \in Nat /\ all \in Nat /\ left = size + Len(chan) /\ size + Len(chan) <= all
    BY <1>1, <1>2, <1>3, Types DEF CollectInv, TypeOK
  <2>7. /\ Len(chan') <= all /\ size + Len(chan') <= all
        /\ left \in 0..all /\ left - 1 \in 0..all /\ left - 1 = size + Len(chan')
    <3>1. left > 0
      BY <1>7
    <3>2. Len(chan') = Len(chan) - 1
      BY <2>1
    <3>3. Len(chan') \in Nat
      BY <2>1
    <3>4. QED
      BY <2>8, <3>1, <3>2, <3>3
  <2>3. CASE ~Head(chan) /\ pc' = "refused" /\ cancelled' = TRUE /\ UNCHANGED left
    <3>1. Refusal
      BY <2>1, <2>3 DEF Refusal
    <3>2. TypeOK'
      BY <1>1, <1>2, <2>1, <2>3, <2>7 DEF TypeOK, Answered
    <3>3. StageInv'
      BY <1>1, <1>2, <2>3 DEF StageInv
    <3>4. CollectInv'
      BY <1>1, <1>2, <1>3, <2>2, <2>3, <2>7, <3>1 DEF CollectInv
    <3>5. HistoryInv'
      BY <1>1, <1>2, <1>5, <2>3 DEF HistoryInv, Looking, ConflictFound, SteadyIsListed
    <3>6. QED
      BY <1>4, <3>2, <3>3, <3>4, <3>5 DEF IInv
  <2>4. CASE Head(chan) /\ left' = left - 1 /\ UNCHANGED <<pc, cancelled>>
    <3>1. Refusal => Refusal'
      <4>1. chan[1] = TRUE
        BY <2>1, <2>4
      <4>2. \A n \in DOMAIN chan : chan[n] = FALSE => n # 1
        BY <4>1
      <4>3. QED
        BY <2>1, <4>2 DEF Refusal
    <3>2. TypeOK'
      BY <1>1, <1>2, <2>1, <2>4, <2>7 DEF TypeOK
    <3>3. StageInv'
      BY <1>1, <1>2, <2>4 DEF StageInv
    <3>4. CollectInv'
      BY <1>1, <1>2, <1>3, <2>2, <2>4, <2>7, <3>1 DEF CollectInv
    <3>5. HistoryInv'
      BY <1>1, <1>2, <1>5, <2>4 DEF HistoryInv, Looking, ConflictFound, SteadyIsListed
    <3>6. QED
      BY <1>4, <3>2, <3>3, <3>4, <3>5 DEF IInv
  <2>5. QED
    BY <1>7, <2>3, <2>4
<1>8. CASE left > 0 /\ gone /\ pc' = "refused" /\ cancelled' = TRUE /\ UNCHANGED <<chan, left>>
  <2>1. TypeOK'
    BY <1>1, <1>2, <1>8 DEF TypeOK, Answered
  <2>2. StageInv'
    BY <1>1, <1>2, <1>8 DEF StageInv
  <2>3. CollectInv'
    BY <1>1, <1>2, <1>3, <1>8 DEF CollectInv, Refusal
  <2>4. HistoryInv'
    BY <1>1, <1>2, <1>5, <1>8 DEF HistoryInv, Looking, ConflictFound, SteadyIsListed
  <2>5. QED
    BY <1>4, <2>1, <2>2, <2>3, <2>4 DEF IInv
<1>9. QED
  BY <1>6, <1>7, <1>8 DEF Collect

\* A create stores its document when nothing is left to receive.
LEMMA StoreKeeps == IInv /\ StoreNew => IInv'
<1> SUFFICES ASSUME IInv, StoreNew PROVE IInv'
  OBVIOUS
<1>1. TypeOK /\ StageInv /\ CollectInv /\ WaitInv /\ HistoryInv
  BY DEF IInv
<1>2. /\ pc = "set" /\ kind = "create" /\ pc' \in {"stored", "failed"}
      /\ lost' \in BOOLEAN /\ (pc' = "stored" => ~gone /\ lost' = lost)
      /\ UNCHANGED <<db, writes, kind, gone, keys, left, chan, cancelled, todo, wg, listed, work,
                     found, released, steady, ever>>
  BY <1>1, Types DEF StoreNew, StageInv, creating, listing
<1>3. found = {} /\ \A c \in Challenges : work[c] # "get"
  BY <1>1, <1>2 DEF CollectInv, StageInv
<1>4. TypeOK'
  BY <1>1, <1>2 DEF TypeOK, Answered
<1>5. StageInv'
  BY <1>1, <1>2 DEF StageInv
<1>6. CollectInv' /\ WaitInv'
  BY <1>1, <1>2 DEF CollectInv, Working, Refusal, WaitInv
<1>7. ConflictFound'
  <2>1. steady \subseteq Challenges
    BY <1>1, Types
  <2>2. QED
    BY <1>1, <1>2, <1>3, <2>1 DEF ConflictFound, HistoryInv
<1>8. HistoryInv'
  BY <1>1, <1>2, <1>7 DEF HistoryInv, Looking, SteadyIsListed, Matters
<1>9. QED
  BY <1>4, <1>5, <1>6, <1>8 DEF IInv

\* A listing reads the challenges one after the other.
LEMMA ReadNextKeeps ==
    ASSUME IInv, NEW c \in Challenges, ReadNext(c)
    PROVE  IInv'
<1>1. TypeOK /\ StageInv /\ CollectInv /\ WaitInv /\ HistoryInv
  BY DEF IInv
<1>2. PICK d \in {db[c], NoDoc} :
        /\ found' = IF Picks(c, d) THEN found \union {c} ELSE found
        /\ Loses(c, d)
  BY DEF ReadNext, Answers
<1>3. /\ pc = "read" /\ kind \in {"open", "owned"} /\ ~cancelled
      /\ c \in todo /\ todo' = todo \ {c}
      /\ UNCHANGED <<db, writes, kind, pc, gone, keys, left, chan, cancelled, wg, listed, work,
                     released, steady, ever>>
  BY <1>1, <1>2, Types DEF ReadNext, creating, StageInv, Loses
<1>4. lost' \in BOOLEAN /\ (lost => lost') /\ found \subseteq found' /\ found' \subseteq found \union {c}
  BY <1>1, <1>2, Types DEF Loses
<1>5. TypeOK'
  BY <1>1, <1>3, <1>4 DEF TypeOK
<1>6. StageInv' /\ CollectInv'
  BY <1>1, <1>3 DEF StageInv, CollectInv
<1>7. WaitInv'
  BY <1>1, <1>3 DEF WaitInv
<1>8. \A e, f : Matters(e, f)' <=> Matters(e, f)
  BY <1>3 DEF Matters
<1>9. \A e \in found' : (kind = "open" /\ e \in Private) \/ e \in ever
  <2>1. Picks(c, d) => d = db[c] /\ ((kind = "open" /\ c \in Private) \/ Matters(c, d))
    BY <1>2, <1>3 DEF Picks, Matters
  <2>2. QED
    BY <1>1, <1>2, <1>3, <2>1, Types DEF HistoryInv
<1>10. ~gone /\ ~lost' => steady \subseteq todo' \union found'
  <2>1. SUFFICES ASSUME ~gone, ~lost' PROVE steady \subseteq todo' \union found'
    OBVIOUS
  <2>2. d = db[c] /\ ~lost
    BY <1>1, <1>2, <1>3, <2>1, ReadAsItIs
  <2>3. Matters(c, db[c]) => c \in found'
    BY <1>2, <1>3, <2>2 DEF Matters, Picks
  <2>4. QED
    BY <1>1, <1>3, <1>4, <2>1, <2>2, <2>3 DEF HistoryInv
<1>11. HistoryInv'
  BY <1>1, <1>3, <1>8, <1>9, <1>10 DEF HistoryInv, Looking, ConflictFound, SteadyIsListed
<1>12. QED
  BY <1>5, <1>6, <1>7, <1>11 DEF IInv

\* It has read them all.
LEMMA ReadAllKeeps == IInv /\ ReadAll => IInv'
<1> SUFFICES ASSUME IInv, ReadAll PROVE IInv'
  OBVIOUS
<1>1. TypeOK /\ StageInv /\ CollectInv /\ WaitInv /\ HistoryInv
  BY DEF IInv
<1>2. /\ pc = "read" /\ todo = {} /\ kind \in {"open", "owned"} /\ ~cancelled
      /\ \/ kind = "owned" /\ pc' = "listed" /\ listed' = found /\ UNCHANGED todo
         \/ kind = "open" /\ pc' = "submit" /\ todo' = found /\ UNCHANGED listed
      /\ UNCHANGED <<db, writes, kind, gone, keys, left, chan, cancelled, wg, work, found, released,
                     steady, ever, lost>>
  BY <1>1 DEF ReadAll, creating, history, StageInv
<1>3. wg = 0 /\ \A c \in Challenges : work[c] = "none"
  BY <1>1, <1>2 DEF WaitInv
<1>4. TypeOK'
  BY <1>1, <1>2 DEF TypeOK, Answered
<1>5. StageInv' /\ CollectInv'
  BY <1>1, <1>2 DEF StageInv, CollectInv
<1>6. WaitInv'
  <2>1. kind = "open" => Owing' = {} /\ Cardinality(Owing') = 0
    BY <1>2, FS_EmptySet DEF Owing
  <2>2. QED
    BY <1>1, <1>2, <1>3, <2>1 DEF WaitInv
<1>7. HistoryInv'
  <2>1. \A e, f : Matters(e, f)' <=> Matters(e, f)
    BY <1>2 DEF Matters
  <2>2. steady \subseteq Challenges
    BY <1>1, Types
  <2>3. QED
    BY <1>1, <1>2, <1>3, <2>1, <2>2 DEF HistoryInv, Looking, ConflictFound, SteadyIsListed
<1>8. QED
  BY <1>4, <1>5, <1>6, <1>7 DEF IInv

\* A task is counted before it is submitted.
LEMMA SubmitKeeps ==
    ASSUME IInv, NEW c \in Challenges, Submit(c)
    PROVE  IInv'
<1>1. TypeOK /\ StageInv /\ CollectInv /\ WaitInv /\ HistoryInv
  BY DEF IInv
<1>2. /\ pc = "submit" /\ c \in todo /\ todo' = todo \ {c} /\ wg' = wg + 1
      /\ work' = [work EXCEPT ![c] = "get"] \/ UNCHANGED work
      /\ UNCHANGED <<db, writes, kind, pc, gone, keys, left, chan, cancelled, listed, found,
                     released, steady, ever, lost>>
  BY DEF Submit, Become, creating, history
<1>3. kind = "open" /\ c \in found /\ c \in keys
  BY <1>1, <1>2, Types DEF StageInv, WaitInv
<1>4. \A e \in Challenges : work'[e] = work[e] \/ (e = c /\ work'[e] = "get")
  BY <1>1, <1>2, Types
<1>5. work[c] = "none"
  BY <1>1, <1>2, <1>3 DEF WaitInv
<1>6. Owing' = Owing \union {c} /\ c \notin Owing /\ Owing \in SUBSET Challenges /\ Owing' \subseteq keys
  BY <1>1, <1>2, <1>3, <1>4, <1>5, Types DEF Owing
<1>7. wg' = Cardinality(Owing') /\ wg' \in 0..Cardinality(keys)
  <2>1. wg = Cardinality(Owing)
    BY <1>1, <1>2, <1>3 DEF WaitInv
  <2>2. Cardinality(Owing') = Cardinality(Owing) + 1
    BY <1>6, Counting
  <2>3. Cardinality(Owing') <= Cardinality(keys) /\ Cardinality(Owing') \in Nat /\ Cardinality(keys) \in Nat
    <3>1. keys \in SUBSET Challenges /\ Owing' \in SUBSET keys
      BY <1>1, <1>6, Types
    <3>2. QED
      BY <3>1, Counting
  <2>4. QED
    BY <1>2, <2>1, <2>2, <2>3
<1>8. TypeOK'
  BY <1>1, <1>2, <1>7 DEF TypeOK
<1>9. StageInv' /\ CollectInv'
  BY <1>1, <1>2, <1>3, <1>4 DEF StageInv, CollectInv
<1>10. WaitInv'
  BY <1>1, <1>2, <1>3, <1>4, <1>7 DEF WaitInv
<1>11. HistoryInv'
  <2>1. \A e, f : Matters(e, f)' <=> Matters(e, f)
    BY <1>2 DEF Matters
  <2>2. steady \subseteq Challenges
    BY <1>1, Types
  <2>3. QED
    BY <1>1, <1>2, <1>3, <1>4, <2>1, <2>2 DEF HistoryInv, Looking, ConflictFound, SteadyIsListed
<1>12. QED
  BY <1>8, <1>9, <1>10, <1>11 DEF IInv

\* The listing goes on when no task is counted.
LEMMA WaitKeeps == IInv /\ Wait => IInv'
<1> SUFFICES ASSUME IInv, Wait PROVE IInv'
  OBVIOUS
<1>1. TypeOK /\ StageInv /\ CollectInv /\ WaitInv /\ HistoryInv
  BY DEF IInv
<1>2. /\ \/ pc = "submit" /\ todo = {} /\ pc' = "wait"
         \/ pc = "wait" /\ wg = 0 /\ pc' = "listed"
      /\ UNCHANGED <<db, writes, kind, gone, keys, left, chan, cancelled, todo, wg, listed, work,
                     found, released, steady, ever, lost>>
  BY DEF Wait, creating, listing, history
<1>3. kind = "open" /\ wg = Cardinality(Owing) /\ todo = {}
  BY <1>1, <1>2, Types DEF StageInv, WaitInv
<1>4. TypeOK'
  BY <1>1, <1>2 DEF TypeOK, Answered
<1>5. StageInv' /\ CollectInv'
  BY <1>1, <1>2, <1>3 DEF StageInv, CollectInv
<1>6. WaitInv'
  BY <1>1, <1>2, <1>3 DEF WaitInv, Owing
<1>7. pc' = "listed" => \A c \in found : work[c] = "ended"
  <2>1. SUFFICES ASSUME wg = 0 PROVE \A c \in found : work[c] = "ended"
    BY <1>2
  <2>2. Owing \in SUBSET Challenges
    BY <1>1, Types DEF Owing
  <2>3. Owing = {}
    BY <1>3, <2>1, <2>2, Counting
  <2>4. QED
    BY <1>3, <2>3 DEF Owing
<1>8. HistoryInv'
  BY <1>1, <1>2, <1>3, <1>7 DEF HistoryInv, Looking, ConflictFound, SteadyIsListed, Matters
<1>9. QED
  BY <1>4, <1>5, <1>6, <1>8 DEF IInv

\* The task of c ends: its wg.Done.
LEMMA TaskEnds ==
    ASSUME TypeOK, WaitInv, kind = "open", pc \in {"submit", "wait", "listed"},
           NEW c \in Challenges, work[c] \in {"get", "append"},
           work' = [work EXCEPT ![c] = "ended"], wg' = wg - 1,
           UNCHANGED <<found, todo, keys>>
    PROVE  wg' = Cardinality(Owing') /\ wg' \in 0..Cardinality(keys)
<1>1. /\ Owing' = Owing \ {c} /\ c \in Owing /\ Owing \in SUBSET Challenges
      /\ keys \in SUBSET Challenges /\ Owing' \in SUBSET keys
  BY Types DEF Owing, WaitInv
<1>2. wg = Cardinality(Owing)
  BY DEF WaitInv
<1>3. Cardinality(Owing') = Cardinality(Owing) - 1
  BY <1>1, Counting
<1>4. Cardinality(Owing') <= Cardinality(keys) /\ Cardinality(Owing') \in Nat /\ Cardinality(keys) \in Nat
  BY <1>1, Counting
<1>5. QED
  BY <1>2, <1>3, <1>4

\* A task reads its challenge a second time.
LEMMA FetchKeeps ==
    ASSUME IInv, NEW c \in Challenges, Fetch(c)
    PROVE  IInv'
<1>1. TypeOK /\ StageInv /\ CollectInv /\ WaitInv /\ HistoryInv
  BY DEF IInv
<1>2. PICK d \in {db[c], NoDoc} :
        /\ work' = [work EXCEPT ![c] = IF d = NoDoc THEN "ended" ELSE "append"]
        /\ wg' = IF d = NoDoc THEN wg - 1 ELSE wg
        /\ Loses(c, d)
  BY DEF Fetch, Answers, Become
<1>3. /\ kind = "open" /\ work[c] = "get" /\ ~cancelled
      /\ c \in found /\ c \notin todo /\ c \in keys
      /\ UNCHANGED <<db, writes, kind, pc, gone, keys, left, chan, cancelled, todo, listed, found,
                     released, steady, ever>>
  BY <1>1, <1>2, Types DEF Fetch, creating, StageInv, WaitInv, Loses
<1>4. pc \in {"submit", "wait", "listed"}
  BY <1>1, <1>3 DEF StageInv
<1>5. lost' \in BOOLEAN /\ (lost => lost')
  BY <1>1, <1>2, Types DEF Loses
<1>6. \A e \in Challenges :
        work'[e] = IF e = c THEN (IF d = NoDoc THEN "ended" ELSE "append") ELSE work[e]
  BY <1>1, <1>2, Types
<1>7. wg' = Cardinality(Owing') /\ wg' \in 0..Cardinality(keys)
  <2>1. CASE d = NoDoc
    BY <1>1, <1>2, <1>3, <1>4, <2>1, TaskEnds
  <2>2. CASE d # NoDoc
    <3>1. Owing' = Owing
      BY <1>1, <1>3, <1>6, <2>2, Types DEF Owing
    <3>2. QED
      BY <1>1, <1>2, <1>3, <1>4, <2>2, <3>1 DEF WaitInv, TypeOK
  <2>3. QED
    BY <2>1, <2>2
<1>8. TypeOK'
  BY <1>1, <1>2, <1>3, <1>5, <1>7 DEF TypeOK
<1>9. StageInv' /\ CollectInv'
  BY <1>1, <1>3, <1>4, <1>6 DEF StageInv, CollectInv
<1>10. WaitInv'
  BY <1>1, <1>3, <1>4, <1>6, <1>7 DEF WaitInv
<1>11. HistoryInv'
  <2>1. \A e, f : Matters(e, f)' <=> Matters(e, f)
    BY <1>3 DEF Matters
  <2>2. steady \subseteq Challenges
    BY <1>1, Types
  <2>3. ASSUME pc \in {"submit", "wait"}, ~gone, ~lost'
        PROVE  \A e \in steady : e \in found /\ (work'[e] = "ended" => e \in listed)
    <3>1. d = db[c] /\ ~lost
      BY <1>1, <1>2, <1>3, <2>3, ReadAsItIs
    <3>2. c \in steady => work'[c] = "append"
      BY <1>1, <1>6, <3>1 DEF HistoryInv, Matters
    <3>3. QED
      BY <1>1, <1>6, <2>2, <2>3, <3>1, <3>2 DEF HistoryInv
  <2>4. QED
    BY <1>1, <1>3, <1>4, <1>5, <2>1, <2>3 DEF HistoryInv, Looking, ConflictFound, SteadyIsListed
<1>12. QED
  BY <1>8, <1>9, <1>10, <1>11 DEF IInv

\* It appends it, and is done.
LEMMA AppendKeeps ==
    ASSUME IInv, NEW c \in Challenges, AppendTask(c)
    PROVE  IInv'
<1>1. TypeOK /\ StageInv /\ CollectInv /\ WaitInv /\ HistoryInv
  BY DEF IInv
<1>2. /\ work[c] = "append" /\ work' = [work EXCEPT ![c] = "ended"] /\ wg' = wg - 1
      /\ listed' = IF c \in Private THEN listed ELSE listed \union {c}
      /\ UNCHANGED <<db, writes, kind, pc, gone, keys, left, chan, cancelled, todo, found,
                     released, steady, ever, lost>>
  BY DEF AppendTask, AppendTo, Become, creating, history
<1>3. kind = "open" /\ c \in found /\ c \notin todo /\ c \in keys
  BY <1>1, <1>2, Types DEF StageInv, WaitInv
<1>4. pc \in {"submit", "wait", "listed"}
  BY <1>1, <1>2, <1>3 DEF StageInv
<1>5. \A e \in Challenges : work'[e] = IF e = c THEN "ended" ELSE work[e]
  BY <1>1, <1>2, Types
<1>6. wg' = Cardinality(Owing') /\ wg' \in 0..Cardinality(keys)
  BY <1>1, <1>2, <1>3, <1>4, TaskEnds
<1>7. TypeOK'
  BY <1>1, <1>2, <1>3, <1>6 DEF TypeOK
<1>8. StageInv' /\ CollectInv'
  BY <1>1, <1>2, <1>3, <1>4, <1>5 DEF StageInv, CollectInv
<1>9. WaitInv'
  BY <1>1, <1>2, <1>3, <1>4, <1>5, <1>6 DEF WaitInv
<1>10. HistoryInv'
  <2>1. \A e, f : Matters(e, f)' <=> Matters(e, f)
    BY <1>2 DEF Matters
  <2>2. steady \subseteq Challenges
    BY <1>1, Types
  <2>3. c \in steady => c \in listed'
    BY <1>1, <1>2, <1>3 DEF HistoryInv, Matters
  <2>4. QED
    BY <1>1, <1>2, <1>3, <1>4, <1>5, <2>1, <2>2, <2>3
    DEF HistoryInv, Looking, ConflictFound, SteadyIsListed
<1>11. QED
  BY <1>7, <1>8, <1>9, <1>10 DEF IInv

\* Others change a challenge.
LEMMA OtherWriteKeeps ==
    ASSUME IInv, NEW c \in Challenges, NEW d \in Docs \union {NoDoc}, OtherWrite(c, d)
    PROVE  IInv'
<1>1. TypeOK /\ StageInv /\ CollectInv /\ WaitInv /\ HistoryInv
  BY DEF IInv
<1>2. /\ pc \notin Answered \union {"exited"} /\ writes < MaxWrites /\ writes' = writes + 1
      /\ db' = [db EXCEPT ![c] = d]
      /\ steady' = IF Matters(c, d) THEN steady ELSE steady \ {c}
      /\ ever' = IF Matters(c, d) /\ pc # "keys" THEN ever \union {c} ELSE ever
      /\ UNCHANGED <<kind, pc, gone, keys, left, chan, cancelled, todo, wg, listed, work, found,
                     released, lost>>
  BY DEF OtherWrite, Ongoing, creating, listing
<1>3. writes' \in 0..MaxWrites /\ db' \in [Challenges -> Docs \union {NoDoc}]
  BY <1>1, <1>2, FanOutAssumption DEF TypeOK
<1>4. TypeOK'
  BY <1>1, <1>2, <1>3 DEF TypeOK
<1>5. StageInv'
  BY <1>1, <1>2 DEF StageInv
<1>6. CollectInv' /\ WaitInv'
  BY <1>1, <1>2 DEF CollectInv, WaitInv, Working, Refusal, Owing
<1>7. HistoryInv'
  <2>1. \A e, f : Matters(e, f)' <=> Matters(e, f)
    BY <1>2 DEF Matters
  <2>2. \A e \in Challenges : db'[e] = IF e = c THEN d ELSE db[e]
    BY <1>1, <1>2, Types
  <2>3. steady' \subseteq steady /\ ever \subseteq ever' /\ steady \subseteq Challenges /\ keys \subseteq Challenges
    BY <1>1, <1>2, Types
  <2>4. \A e \in keys : Matters(e, db'[e]) => e \in ever'
    BY <1>1, <1>2, <2>2, <2>3 DEF HistoryInv, StageInv
  <2>5. \A e \in steady' : Matters(e, db'[e])
    BY <1>1, <1>2, <2>2, <2>3 DEF HistoryInv
  <2>6. QED
    BY <1>1, <1>2, <2>1, <2>3, <2>4, <2>5
    DEF HistoryInv, Looking, ConflictFound, SteadyIsListed, Answered
<1>8. QED
  BY <1>4, <1>5, <1>6, <1>7 DEF IInv

\* The caller goes, or the pool is released.
LEMMA EnvironmentKeeps == IInv /\ (CallerGoes \/ Release) => IInv'
<1> SUFFICES ASSUME IInv, CallerGoes \/ Release PROVE IInv'
  OBVIOUS
<1>1. TypeOK /\ StageInv /\ CollectInv /\ WaitInv /\ HistoryInv
  BY DEF IInv
<1>2. /\ {gone', released'} \subseteq BOOLEAN /\ (gone => gone')
      /\ UNCHANGED <<db, writes, kind, pc, keys, left, chan, cancelled, todo, wg, listed, work,
                     found, steady, ever, lost>>
  <2>1. CASE CallerGoes
    BY <1>1, <2>1, Types DEF CallerGoes, creating, listing, history
  <2>2. CASE Release
    BY <1>1, <2>2, Types DEF Release, creating, listing, history
  <2>3. QED
    BY <2>1, <2>2
<1>3. TypeOK'
  BY <1>1, <1>2 DEF TypeOK
<1>4. StageInv' /\ CollectInv' /\ WaitInv'
  BY <1>1, <1>2 DEF StageInv, CollectInv, WaitInv, Working, Refusal, Owing
<1>5. HistoryInv'
  BY <1>1, <1>2 DEF HistoryInv, Looking, ConflictFound, SteadyIsListed, Matters
<1>6. QED
  BY <1>3, <1>4, <1>5 DEF IInv

\* The process ends under its goroutines.
LEMMA ExitKeeps == IInv /\ Exit => IInv'
<1> SUFFICES ASSUME IInv, Exit PROVE IInv'
  OBVIOUS
<1>1. TypeOK /\ StageInv /\ CollectInv /\ WaitInv /\ HistoryInv
  BY DEF IInv
<1>2. /\ pc' = "exited"
      /\ keys' = {} /\ todo' = {} /\ found' = {} /\ listed' = {}
      /\ work' = [c \in Challenges |-> "none"]
      /\ chan' = <<>> /\ left' = 0 /\ wg' = 0
      /\ UNCHANGED <<db, writes, kind, gone, cancelled, released, steady, ever, lost>>
  BY DEF Exit, history
<1>3. Cardinality({}) = 0 /\ chan' \in Seq(BOOLEAN) /\ Len(chan') = 0 /\ Working' = {}
  BY <1>2, FS_EmptySet DEF Working
<1>4. TypeOK'
  <2>1. left' \in 0..Cardinality(keys') /\ wg' \in 0..Cardinality(keys') /\ Len(chan') <= Cardinality(keys')
    BY <1>2, <1>3
  <2>2. work' \in [Challenges -> {"none", "get", "send", "append", "ended"}]
    BY <1>2
  <2>3. QED
    BY <1>1, <1>2, <1>3, <2>1, <2>2 DEF TypeOK
<1>5. StageInv'
  BY <1>1, <1>2 DEF StageInv
<1>6. CollectInv' /\ WaitInv'
  BY <1>1, <1>2, <1>3 DEF CollectInv, WaitInv, Refusal
<1>7. HistoryInv'
  BY <1>1, <1>2 DEF HistoryInv, Looking, ConflictFound, SteadyIsListed, Matters
<1>8. QED
  BY <1>4, <1>5, <1>6, <1>7 DEF IInv

\* Every step of the system keeps the invariant.
LEMMA NextKeepsIInv == IInv /\ [Next]_vars => IInv'
<1> SUFFICES ASSUME IInv, [Next]_vars PROVE IInv'
  OBVIOUS
<1>1. CASE Handler
  BY <1>1, KeysKeeps, CollectKeeps, StoreKeeps, ReadAllKeeps, WaitKeeps, ReadNextKeeps, SubmitKeeps
  DEF Handler
<1>2. ASSUME NEW c \in Challenges, Goroutine(c) PROVE IInv'
  BY <1>2, ReadKeeps, SendKeeps, FetchKeeps, AppendKeeps DEF Goroutine
<1>3. ASSUME NEW c \in Challenges, NEW d \in Docs \union {NoDoc}, OtherWrite(c, d) PROVE IInv'
  BY <1>3, OtherWriteKeeps
<1>4. CASE CallerGoes \/ Release \/ Exit
  BY <1>4, EnvironmentKeeps, ExitKeeps
<1>5. ASSUME UNCHANGED vars PROVE IInv'
  <2>1. UNCHANGED <<db, writes, kind, pc, gone, keys, left, chan, cancelled, todo, wg, listed, work,
                    found, released, steady, ever, lost>>
    BY <1>5 DEF vars, creating, listing, history
  <2>2. TypeOK'
    BY <2>1 DEF IInv, TypeOK
  <2>3. StageInv' /\ CollectInv' /\ WaitInv'
    BY <2>1 DEF IInv, StageInv, CollectInv, WaitInv, Working, Refusal, Owing
  <2>4. HistoryInv'
    BY <2>1 DEF IInv, HistoryInv, ConflictFound, SteadyIsListed, Matters, Looking
  <2>5. QED
    BY <2>2, <2>3, <2>4 DEF IInv
<1>6. QED
  BY <1>1, <1>2, <1>3, <1>4, <1>5 DEF Next, AllDone

\* So it is one.
LEMMA Invariance == Spec => []IInv
<1>1. QED
  BY InitIInv, NextKeepsIInv, PTL DEF Spec

(***************************************************************************)
(* The theorems.                                                           *)
(***************************************************************************)
\* The counters stay within the number of keys: no result is waited for that is
\* not to come, no task calls wg.Done too often.
THEOREM TypeCorrectness == Spec => []TypeOK
<1>1. IInv => TypeOK
  BY DEF IInv
<1>2. QED
  BY <1>1, Invariance, PTL

\* No goroutine of CanCreate ever waits for room in resultChan, also when nobody
\* receives any more.
RoomToSend == \A c \in Challenges : work[c] = "send" => Len(chan) < Capacity

\* resultChan has a place for every goroutine: none of CanCreate's leaks.
THEOREM SendersNeverWait == Spec => []RoomToSend
<1>1. IInv => RoomToSend
  <2> SUFFICES ASSUME IInv, NEW c \in Challenges, work[c] = "send" PROVE Len(chan) < Cardinality(keys)
    BY DEF RoomToSend, Capacity
  <2>1. kind = "create" /\ c \in Working /\ Working \in SUBSET Challenges
    BY DEF IInv, StageInv, Working
  <2>2. Cardinality(Working) \in Nat /\ Cardinality(Working) # 0
    BY <2>1, Counting
  <2>3. Cardinality(Working) + Len(chan) <= Cardinality(keys) /\ Len(chan) \in Nat
    BY <2>1, Types DEF IInv, CollectInv
  <2>4. Cardinality(keys) \in Nat
    BY Types, Counting DEF IInv
  <2>5. QED
    BY <2>2, <2>3, <2>4
<1>2. QED
  BY <1>1, Invariance, PTL

\* CanCreate refuses a caller who waits, of a Redis that answers, only for a
\* challenge that mattered.
THEOREM RefusesForCause == Spec => []RefusedForCause
<1>1. IInv => RefusedForCause
  <2> SUFFICES ASSUME IInv, pc = "refused", ~gone, ~lost PROVE ever # {}
    BY DEF RefusedForCause
  <2>1. kind = "create"
    BY DEF IInv, StageInv
  <2>2. found # {}
    BY <2>1 DEF IInv, CollectInv
  <2>3. QED
    BY <2>1, <2>2 DEF IInv, HistoryInv
<1>2. QED
  BY <1>1, Invariance, PTL

\* No create stores its document past a challenge that was in the way all the
\* time, for a caller and a Redis that answer.
THEOREM ConflictsAreFound == Spec => []ConflictFound
<1>1. IInv => ConflictFound
  BY DEF IInv, HistoryInv
<1>2. QED
  BY <1>1, Invariance, PTL

\* A listing has nothing that did not belong into it at some time.
THEOREM ListingsMattered == Spec => []ListedMattered
<1>1. IInv => ListedMattered
  <2> SUFFICES ASSUME IInv, NEW c \in listed PROVE c \in ever
    BY DEF ListedMattered
  <2>1. c \in found /\ kind \in {"create", "open", "owned"}
    BY Types DEF IInv
  <2>2. kind = "open" => c \notin Private
    BY DEF IInv, WaitInv
  <2>3. QED
    BY <2>1, <2>2 DEF IInv, HistoryInv
<1>2. QED
  BY <1>1, Invariance, PTL

\* The tasks of the pool lose nothing that belonged into a listing all the time.
THEOREM SteadyAreListed == Spec => []SteadyIsListed
<1>1. IInv => SteadyIsListed
  BY DEF IInv, HistoryInv
<1>2. QED
  BY <1>1, Invariance, PTL

(***************************************************************************)
(* CanCreate implements KeyScan.                                           *)
(***************************************************************************)
\* The verdict and what is unread, by the stage of the request.
Verdicts ==
    /\ kind # "create" \/ pc = "keys" => Verdict = "new"
    /\ kind = "create" /\ pc # "keys" =>
         /\ pc \in {"collect", "set", "refused", "stored", "failed", "exited"}
         /\ pc = "refused" \/ found # {} => Verdict = "no"
         /\ pc \in {"collect", "set"} /\ found = {} => Verdict = "scan"
         /\ pc = "stored" => found = {} /\ Verdict = "yes"
         /\ pc = "failed" => found = {} /\ Verdict = "failed"
         /\ pc = "exited" => found = {} /\ Verdict = "over"
    /\ Verdict # "scan" \/ pc = "set" => Unread = {}

\* What the counts say of a verdict is what the properties say of it.
LEMMA VerdictIs == IInv => Verdicts
<1> SUFFICES ASSUME IInv PROVE Verdicts
  OBVIOUS
<1>1. TypeOK /\ StageInv /\ CollectInv
  BY DEF IInv
<1>2. kind # "create" \/ pc = "keys" => Verdict = "new"
  <2>1. CASE kind # "create"
    <3>1. pc \notin {"collect", "set", "stored", "failed"}
      BY <1>1, <2>1 DEF StageInv
    <3>2. QED
      BY <2>1, <3>1 DEF Verdict
  <2>2. CASE pc = "keys"
    <3>1. found = {}
      BY <1>1, <2>2 DEF StageInv
    <3>2. QED
      BY <2>2, <3>1 DEF Verdict
  <2>3. QED
    BY <2>1, <2>2
<1>3. ASSUME kind = "create", pc # "keys"
      PROVE  /\ pc \in {"collect", "set", "refused", "stored", "failed", "exited"}
             /\ pc = "refused" \/ found # {} => Verdict = "no"
             /\ pc \in {"collect", "set"} /\ found = {} => Verdict = "scan"
             /\ pc = "stored" => found = {} /\ Verdict = "yes"
             /\ pc = "failed" => found = {} /\ Verdict = "failed"
             /\ pc = "exited" => found = {} /\ Verdict = "over"
  <2>1. pc \in {"collect", "set", "refused", "stored", "failed", "exited"}
    BY <1>1, <1>3 DEF TypeOK, StageInv, Answered
  <2>2. pc \in {"stored", "failed", "exited"} => found = {}
    <3>1. pc \in {"stored", "failed"} => found = {}
      BY <1>1, <1>3 DEF CollectInv
    <3>2. pc = "exited" => found = {}
      BY <1>1 DEF StageInv
    <3>3. QED
      BY <3>1, <3>2
  <2>3. CASE pc = "refused" \/ found # {}
    <3>1. pc \notin {"stored", "failed", "exited"}
      BY <2>2, <2>3
    <3>2. Verdict = "no"
      BY <1>3, <2>3, <3>1 DEF Verdict
    <3>3. QED
      BY <2>1, <2>2, <2>3, <3>2
  <2>4. CASE pc \in {"collect", "set"} /\ found = {}
    <3>1. Verdict = "scan"
      BY <1>3, <2>4 DEF Verdict
    <3>2. QED
      BY <2>1, <2>4, <3>1
  <2>5. CASE pc = "stored"
    <3>1. Verdict = "yes"
      BY <1>3, <2>2, <2>5 DEF Verdict
    <3>2. QED
      BY <2>2, <2>5, <3>1
  <2>6. CASE pc = "failed"
    <3>1. Verdict = "failed"
      BY <1>3, <2>2, <2>6 DEF Verdict
    <3>2. QED
      BY <2>2, <2>6, <3>1
  <2>7. CASE pc = "exited"
    <3>1. Verdict = "over"
      BY <1>3, <2>2, <2>7 DEF Verdict
    <3>2. QED
      BY <2>2, <2>7, <3>1
  <2>8. QED
    BY <2>1, <2>3, <2>4, <2>5, <2>6, <2>7
<1>4. Verdict # "scan" \/ pc = "set" => Unread = {}
  BY <1>1 DEF Unread, StageInv
<1>5. QED
  BY <1>2, <1>3, <1>4 DEF Verdicts

\* A step of CanCreate is one of KeyScan; of everything else KeyScan sees the
\* documents change.
LEMMA StepImplements ==
    ASSUME IInv, Verdicts, Verdicts', Next
    PROVE  Scan!Next
<1>1. TypeOK /\ StageInv /\ CollectInv
  BY DEF IInv
<1>2. UNCHANGED kind
  BY DEF Next, Handler, Goroutine, Keys, Collect, StoreNew, ReadAll, Wait, ReadNext, Submit, Read,
         Send, Fetch, AppendTask, OtherWrite, CallerGoes, Release, Exit, AllDone, vars
<1>3. lost \in BOOLEAN /\ gone \in BOOLEAN /\ cancelled \in BOOLEAN
  BY <1>1, Types
\* The caller does not come back, nor is a failure forgotten.
<1>4. (gone => gone') /\ (lost => lost')
  <2>1. \A c, d : Loses(c, d) => (lost => lost')
    BY <1>3 DEF Loses
  <2>2. CASE Handler
    <3>1. UNCHANGED gone
      BY <2>2 DEF Handler, Keys, Collect, StoreNew, ReadAll, Wait, ReadNext, Submit
    <3>2. CASE Keys \/ Collect \/ StoreNew \/ ReadAll \/ Wait
      BY <1>3, <3>1, <3>2 DEF Keys, Collect, StoreNew, ReadAll, Wait, history
    <3>3. ASSUME NEW c \in Challenges, ReadNext(c) \/ Submit(c) PROVE lost => lost'
      BY <2>1, <3>3 DEF ReadNext, Submit, history
    <3>4. QED
      BY <2>2, <3>1, <3>2, <3>3 DEF Handler
  <2>3. ASSUME NEW c \in Challenges, Goroutine(c) PROVE UNCHANGED gone /\ (lost => lost')
    BY <2>1, <2>3 DEF Goroutine, Read, Send, Fetch, AppendTask, history
  <2>4. CASE \E c \in Challenges, d \in Docs \union {NoDoc} : OtherWrite(c, d)
    BY <2>4 DEF OtherWrite
  <2>5. CASE CallerGoes \/ Release \/ Exit \/ AllDone
    BY <2>5 DEF CallerGoes, Release, Exit, AllDone, history, vars
  <2>6. QED
    BY <2>2, <2>3, <2>4, <2>5 DEF Next
\* Steps that KeyScan does not see.
<1>5. ASSUME UNCHANGED <<Verdict, Unread>>, UNCHANGED lost \/ Verdict # "scan" PROVE Scan!Next
  BY <1>5, <1>4 DEF Scan!Next, Scan!Others
<1>6. ASSUME UNCHANGED <<pc, found, lost>>, \A c \in Challenges : work'[c] = "get" <=> work[c] = "get"
      PROVE  Scan!Next
  <2>1. UNCHANGED Verdict
    BY <1>2, <1>6 DEF Verdict
  <2>2. UNCHANGED Unread
    BY <1>6, <2>1 DEF Unread
  <2>3. QED
    BY <1>5, <1>6, <2>1, <2>2
<1>7. CASE kind # "create"
  <2>1. UNCHANGED <<Verdict, Unread>> /\ Verdict # "scan"
    BY <1>2, <1>7 DEF Verdicts
  <2>2. QED
    BY <1>5, <2>1
<1>8. SUFFICES ASSUME kind = "create" PROVE Scan!Next
  BY <1>7
<1>9. CASE Keys
  <2>1. /\ pc = "keys" /\ Verdict = "new" /\ Unread = {} /\ found' = {}
        /\ ~cancelled /\ UNCHANGED <<db, gone>>
    BY <1>1, <1>9 DEF Keys, StageInv, Verdicts
  <2>2. CASE pc' = "refused"
    <3>1. Verdict' = "no" /\ Unread' = {}
      BY <1>2, <1>8, <2>2 DEF Verdicts
    <3>2. lost' = (lost \/ ~gone)
      BY <1>8, <1>9, <2>1, <2>2 DEF Keys, Done
    <3>3. Scan!Refuse
      BY <2>1, <3>1, <3>2 DEF Scan!Refuse, Scan!Fails, Scan!Environment
    <3>4. QED
      BY <3>3 DEF Scan!Next
  <2>3. CASE pc' # "refused"
    <3>1. /\ keys' = {c \in Challenges : db[c] # NoDoc}
          /\ UNCHANGED lost
          /\ \/ /\ keys' # {} /\ pc' = "collect"
                /\ work' = [c \in Challenges |-> IF c \in keys' THEN "get" ELSE "none"]
             \/ keys' = {} /\ pc' = "set"
      BY <1>8, <1>9, <2>3 DEF Keys
    <3>2. Verdict' = "scan"
      BY <1>2, <1>8, <2>1, <3>1 DEF Verdicts
    <3>3. Unread' = {c \in Challenges : db[c] # NoDoc}
      <4>1. CASE pc' = "collect"
        BY <3>1, <3>2, <4>1 DEF Unread
      <4>2. CASE pc' = "set"
        BY <3>1, <4>2 DEF Verdicts
      <4>3. QED
        BY <3>1, <4>1, <4>2
    <3>4. Scan!List
      BY <2>1, <3>1, <3>2, <3>3 DEF Scan!List, Scan!Environment
    <3>5. QED
      BY <3>4 DEF Scan!Next
  <2>4. QED
    BY <2>2, <2>3
<1>10. ASSUME NEW c \in Challenges, Read(c) PROVE Scan!Next
  <2>1. PICK d \in {db[c], NoDoc} :
          /\ found' = IF Occupies(c, d) THEN found \union {c} ELSE found
          /\ Loses(c, d)
    BY <1>10 DEF Read, Answers
  <2>2. /\ work[c] = "get" /\ work' = [work EXCEPT ![c] = "send"]
        /\ UNCHANGED <<db, pc, gone>>
    BY <1>10 DEF Read, Become
  <2>3. pc \in {"collect", "refused"} /\ found \subseteq found'
    BY <1>1, <1>8, <2>1, <2>2 DEF StageInv
  <2>4. CASE pc = "refused" \/ found # {}
    <3>1. Verdict = "no" /\ Verdict' = "no" /\ Unread = {} /\ Unread' = {}
      BY <1>2, <1>8, <2>2, <2>3, <2>4 DEF Verdicts
    <3>2. QED
      BY <1>5, <3>1
  <2>5. CASE pc = "collect" /\ found = {}
    <3>1. Verdict = "scan" /\ Unread = {e \in Challenges : work[e] = "get"} /\ c \in Unread
      BY <1>8, <2>2, <2>5 DEF Verdicts, Unread
    <3>2. lost' = (lost \/ (d # db[c] /\ ~gone))
      BY <1>1, <2>1, <2>5 DEF Loses, Done, StageInv
    <3>3. CASE Occupies(c, d)
      <4>1. Verdict' = "no" /\ Unread' = {}
        BY <1>2, <1>8, <2>1, <2>2, <2>5, <3>3 DEF Verdicts
      <4>2. d = db[c] /\ UNCHANGED lost
        BY <1>3, <2>1, <3>2, <3>3 DEF Occupies
      <4>3. Scan!InTheWay(c, db[c])
        <5>1. db[c] \in Docs \union {NoDoc}
          BY <1>1, Types
        <5>2. QED
          BY <3>3, <4>2, <5>1, FanOutAssumption DEF Occupies, Scan!InTheWay
      <4>4. Scan!Check(c)
        BY <2>2, <3>1, <4>1, <4>2, <4>3 DEF Scan!Check, Scan!Environment
      <4>5. QED
        BY <4>4 DEF Scan!Next
    <3>4. CASE ~Occupies(c, d)
      <4>1. Verdict' = "scan"
        BY <1>2, <1>8, <2>1, <2>2, <2>5, <3>4 DEF Verdicts
      <4>2. Unread' = Unread \ {c}
        <5>1. \A e \in Challenges : work'[e] = IF e = c THEN "send" ELSE work[e]
          BY <1>1, <2>2, Types
        <5>2. QED
          BY <3>1, <4>1, <5>1 DEF Unread
      <4>3. CASE d = db[c]
        <5>1. db[c] \in Docs \union {NoDoc} /\ UNCHANGED lost
          BY <1>1, <1>3, <3>2, <4>3, Types
        <5>2. ~Scan!InTheWay(c, db[c])
          BY <3>4, <4>3, <5>1, FanOutAssumption DEF Occupies, Scan!InTheWay
        <5>3. Scan!Check(c)
          BY <2>2, <3>1, <4>1, <4>2, <5>1, <5>2 DEF Scan!Check, Scan!Environment
        <5>4. QED
          BY <5>3 DEF Scan!Next
      <4>4. CASE d # db[c]
        <5>1. Scan!Fails
          BY <3>2, <4>4 DEF Scan!Fails
        <5>2. Scan!Check(c)
          BY <2>2, <3>1, <4>1, <4>2, <5>1 DEF Scan!Check, Scan!Environment
        <5>3. QED
          BY <5>2 DEF Scan!Next
      <4>5. QED
        BY <4>3, <4>4
    <3>5. QED
      BY <3>3, <3>4
  <2>6. QED
    BY <2>3, <2>4, <2>5
<1>11. ASSUME NEW c \in Challenges, Send(c) PROVE Scan!Next
  <2>1. \A e \in Challenges : work'[e] = "get" <=> work[e] = "get"
    BY <1>1, <1>11, Types DEF Send, Become
  <2>2. UNCHANGED <<pc, found, lost>>
    BY <1>11 DEF Send, history
  <2>3. QED
    BY <1>6, <2>1, <2>2
<1>12. CASE Collect
  <2>1. /\ pc = "collect" /\ UNCHANGED <<db, gone, lost, work, found>>
        /\ pc' \in {"collect", "set", "refused"}
    BY <1>12 DEF Collect, history
  <2>2. CASE pc' = "refused"
    <3>1. Verdict' = "no" /\ Unread' = {} /\ Verdict \in {"scan", "no"}
      BY <1>2, <1>8, <2>1, <2>2 DEF Verdicts
    <3>2. CASE Verdict = "scan"
      \* No refusal is in the channel: it was the end of the context.
      <4>1. found = {} /\ ~Refusal
        BY <1>1, <1>8, <2>1, <3>2 DEF Verdicts, CollectInv
      <4>2. chan # <<>> => Head(chan)
        <5>1. SUFFICES ASSUME chan # <<>> PROVE Head(chan)
          OBVIOUS
        <5>2. chan \in Seq(BOOLEAN) /\ 1 \in DOMAIN chan /\ Head(chan) = chan[1] /\ chan[1] \in BOOLEAN
          BY <1>1, <5>1, Types
        <5>3. QED
          BY <4>1, <5>2 DEF Refusal
      <4>3. gone
        BY <1>12, <2>1, <2>2, <4>2 DEF Collect
      <4>4. Scan!Refuse
        BY <2>1, <3>1, <3>2, <4>3 DEF Scan!Refuse, Scan!Environment
      <4>5. QED
        BY <4>4 DEF Scan!Next
    <3>3. CASE Verdict = "no"
      <4>1. UNCHANGED <<Verdict, Unread>>
        BY <3>1, <3>3 DEF Verdicts
      <4>2. QED
        BY <1>5, <2>1, <4>1
    <3>4. QED
      BY <3>1, <3>2, <3>3
  <2>3. CASE pc' # "refused"
    <3>1. UNCHANGED Verdict
      BY <1>2, <1>8, <2>1, <2>3 DEF Verdicts
    <3>2. UNCHANGED Unread
      BY <2>1, <3>1 DEF Unread
    <3>3. QED
      BY <1>5, <2>1, <3>1, <3>2
  <2>4. QED
    BY <2>2, <2>3
<1>13. CASE StoreNew
  <2>1. /\ pc = "set" /\ UNCHANGED <<db, gone, found>>
        /\ \/ pc' = "stored" /\ ~gone /\ UNCHANGED lost
           \/ pc' = "failed" /\ lost' = (lost \/ ~gone)
    BY <1>13, <1>3 DEF StoreNew
  <2>2. found = {} /\ found' = {}
    BY <1>1, <1>8, <2>1 DEF CollectInv
  <2>3. Verdict = "scan" /\ Unread = {} /\ Unread' = {}
    BY <1>2, <1>8, <2>1, <2>2 DEF Verdicts
  <2>4. Verdict' = IF pc' = "stored" THEN "yes" ELSE "failed"
    BY <1>2, <1>8, <2>1, <2>2 DEF Verdicts
  <2>5. Scan!Accept
    BY <2>1, <2>3, <2>4 DEF Scan!Accept, Scan!Fails, Scan!Environment
  <2>6. QED
    BY <2>5 DEF Scan!Next
<1>14. CASE Exit
  <2>1. pc \notin Answered \union {"exited"} /\ pc' = "exited" /\ UNCHANGED <<db, gone, lost>>
    BY <1>14 DEF Exit, Ongoing, history
  <2>2. Verdict' = "over" /\ Unread' = {} /\ Verdict \in {"new", "scan", "no"}
    BY <1>2, <1>8, <2>1 DEF Verdicts, Answered
  <2>3. Scan!End
    BY <2>1, <2>2 DEF Scan!End, Scan!Environment
  <2>4. QED
    BY <2>3 DEF Scan!Next
<1>15. CASE \/ \E c \in Challenges, d \in Docs \union {NoDoc} : OtherWrite(c, d)
            \/ CallerGoes \/ Release \/ AllDone
  <2>1. UNCHANGED <<pc, found, lost, work>>
    BY <1>15 DEF OtherWrite, CallerGoes, Release, AllDone, vars, creating, history
  <2>2. QED
    BY <1>6, <2>1
\* The listings' steps are not of a create.
<1>16. /\ ~ReadAll /\ ~Wait
       /\ \A c \in Challenges : ~ReadNext(c) /\ ~Submit(c) /\ ~Fetch(c) /\ ~AppendTask(c)
  BY <1>1, <1>8 DEF ReadAll, Wait, ReadNext, Submit, Fetch, AppendTask, StageInv
<1>17. QED
  BY <1>9, <1>10, <1>11, <1>12, <1>13, <1>14, <1>15, <1>16 DEF Next, Handler, Goroutine

\* CanCreate, with its goroutines, their channel and the cancelled context,
\* looks like a scan of the keys one after the other.
THEOREM FanOutImplementsScan == Spec => ScansKeys
<1>1. Init => Scan!Init
  <2> SUFFICES ASSUME Init PROVE Scan!Init
    OBVIOUS
  <2>1. Verdict = "new" /\ Unread = {}
    BY InitIInv, VerdictIs DEF Verdicts, Init
  <2>2. QED
    BY <2>1 DEF Scan!Init, Init
<1>2. IInv /\ Verdicts /\ Verdicts' /\ [Next]_vars => [Scan!Next]_(Scan!vars)
  <2> SUFFICES ASSUME IInv, Verdicts, Verdicts', [Next]_vars PROVE Scan!Next \/ UNCHANGED Scan!vars
    OBVIOUS
  <2>1. CASE Next
    BY <2>1, StepImplements
  <2>2. CASE UNCHANGED vars
    <3>1. UNCHANGED <<db, gone, lost, kind, pc, found, work>>
      BY <2>2 DEF vars, history
    <3>2. UNCHANGED Verdict
      BY <3>1 DEF Verdict
    <3>3. UNCHANGED Unread
      BY <3>1, <3>2 DEF Unread
    <3>4. QED
      BY <3>1, <3>2, <3>3 DEF Scan!vars
  <2>3. QED
    BY <2>1, <2>2
<1>3. QED
  BY Invariance, VerdictIs, <1>1, <1>2, PTL DEF Spec, ScansKeys, Scan!Spec
====
