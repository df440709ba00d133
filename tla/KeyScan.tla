---- MODULE KeyScan ----
(***************************************************************************)
(* What CanCreate promises, as ChallengeLifecycle takes it: the challenges *)
(* that exist when KEYS is called are looked at one after the other, in    *)
(* any order, each as it is at that time.  The first that occupies the     *)
(* user refuses the create.  A challenge is passed over only when its GET  *)
(* fails, which is on record unless the caller has gone, and without a     *)
(* conflict the create is refused only when the caller has gone or KEYS    *)
(* fails.  The document is stored when all were looked at and the caller   *)
(* still waits.                                                            *)
(***************************************************************************)
CONSTANTS
    Challenges,
    Mine,            \* challenges the user is the creator of
    NoDoc

VARIABLES
    db,              \* challenge -> its document in Redis, or NoDoc
    gone,            \* has the caller gone?
    lost,            \* has a call of Redis failed while the caller waited?
    todo,            \* challenges not looked at yet
    verdict          \* "new", "scan", "no", "yes", "failed" or "over"

vars == <<db, gone, lost, todo, verdict>>

\* The challenge c, read as d, stops the user from creating another one.
InTheWay(c, d) == d # NoDoc /\ d.status = "open" /\ (c \in Mine \/ d.member)

Init ==
    /\ gone = FALSE
    /\ lost = FALSE
    /\ todo = {}
    /\ verdict = "new"

Environment == <<db, gone>>

\* A call of Redis fails.
Fails == lost' = (lost \/ ~gone)

List ==
    /\ verdict = "new"
    /\ todo' = {c \in Challenges : db[c] # NoDoc}
    /\ verdict' = "scan"
    /\ UNCHANGED <<lost, Environment>>

Check(c) ==
    /\ verdict = "scan"
    /\ c \in todo
    /\ \/ InTheWay(c, db[c]) /\ verdict' = "no" /\ todo' = {} /\ UNCHANGED lost
       \/ ~InTheWay(c, db[c]) /\ todo' = todo \ {c} /\ UNCHANGED <<verdict, lost>>
       \/ Fails /\ todo' = todo \ {c} /\ UNCHANGED verdict  \* passed over
    /\ UNCHANGED Environment

\* Without a conflict: KEYS fails, or the caller goes during the scan.
Refuse ==
    /\ \/ verdict = "new" /\ Fails
       \/ verdict = "scan" /\ gone /\ UNCHANGED lost
    /\ verdict' = "no"
    /\ todo' = {}
    /\ UNCHANGED Environment

\* All were looked at: the document is stored, or its SET fails.
Accept ==
    /\ verdict = "scan"
    /\ todo = {}
    /\ \/ ~gone /\ verdict' = "yes" /\ UNCHANGED lost
       \/ Fails /\ verdict' = "failed"
    /\ UNCHANGED <<todo, Environment>>

\* The process ends under the request.
End ==
    /\ verdict \in {"new", "scan", "no"}
    /\ verdict' = "over"
    /\ todo' = {}
    /\ UNCHANGED <<lost, Environment>>

\* Other requests change the challenges meanwhile, the caller may go, and
\* calls fail whose results nobody waits for.
Others ==
    /\ gone => gone'
    /\ lost => lost'
    /\ lost # lost' => verdict # "scan"
    /\ UNCHANGED <<todo, verdict>>

Next == List \/ Refuse \/ Accept \/ End \/ Others \/ \E c \in Challenges : Check(c)

Spec == Init /\ [][Next]_vars
====
