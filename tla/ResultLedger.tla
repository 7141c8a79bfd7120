----------------------------- MODULE ResultLedger -----------------------------
(***************************************************************************)
(* What the Action protocol promises about Results, without files, locks,  *)
(* snapshots or messages: a register for every (Action, Context) that was  *)
(* offered.  It is written once, and from then on amended only by a        *)
(* session that has seen exactly the Result it replaces.                   *)
(***************************************************************************)
CONSTANTS Session, Key, Result, None

VARIABLES
    answers,  \* [Key -> Result or None]
    offered,  \* the keys offered so far
    seen      \* [Session -> the answer it means to amend, or None]

vars == <<answers, offered, seen>>

Init ==
    /\ answers = [k \in Key |-> None]
    /\ offered = {}
    /\ seen = [s \in Session |-> None]

Offer(k) ==
    /\ offered' = offered \cup {k}
    /\ UNCHANGED <<answers, seen>>

Record(k, r) ==
    /\ k \in offered
    /\ answers[k] = None
    /\ answers' = [answers EXCEPT ![k] = r]
    /\ UNCHANGED <<offered, seen>>

Look(s, k) ==
    /\ answers[k] # None
    /\ seen' = [seen EXCEPT ![s] = [key |-> k, result |-> answers[k]]]
    /\ UNCHANGED <<answers, offered>>

Amend(s, r) ==
    /\ seen[s] # None
    /\ answers[seen[s].key] = seen[s].result
    /\ answers' = [answers EXCEPT ![seen[s].key] = r]
    /\ seen' = [seen EXCEPT ![s] = None]
    /\ UNCHANGED offered

Forget(s) ==
    /\ seen[s] # None
    /\ seen' = [seen EXCEPT ![s] = None]
    /\ UNCHANGED <<answers, offered>>

Next ==
    \/ \E k \in Key : Offer(k)
    \/ \E k \in Key, r \in Result : Record(k, r)
    \/ \E s \in Session, k \in Key : Look(s, k)
    \/ \E s \in Session, r \in Result : Amend(s, r)
    \/ \E s \in Session : Forget(s)

Spec == Init /\ [][Next]_vars
==============================================================================
