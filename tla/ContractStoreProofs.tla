------------------------- MODULE ContractStoreProofs -------------------------
(***************************************************************************)
(* Proofs about ContractStore, for any number of sessions, clauses, texts  *)
(* and calls: StoreInvariant is inductive, and with it no session's write  *)
(* overwrites what its client was not shown.                               *)
(***************************************************************************)
EXTENDS ContractStore, TLAPS

------------------------------------------------------------------------------
(***************************************************************************)
(* What the operators yield.                                               *)
(***************************************************************************)
LEMMA EditedContract ==
    ASSUME NEW f \in Contract, NEW x \in Clause, NEW t \in Text \cup {None}
    PROVE  [f EXCEPT !.clauses[x] = t] \in Contract
BY DEF Contract, Clauses

LEMMA PatchedContract ==
    ASSUME contract \in Contract, NEW c \in Call
    PROVE  /\ Patched(c) \in Contract
           /\ Patched(c).meta = contract.meta
           /\ \A x \in Clause : Patched(c).clauses[x] =
                 IF x \in Present(contract) /\ (Untouched(c, x) \/
                                                (x \notin c.named /\ x \notin Present(c.proposed)))
                 THEN contract.clauses[x] ELSE c.proposed.clauses[x]
<1> DEFINE new == [x \in Clause |->
              IF x \in Present(contract) /\ (Untouched(c, x) \/
                                             (x \notin c.named /\ x \notin Present(c.proposed)))
              THEN contract.clauses[x] ELSE c.proposed.clauses[x]]
<1>1. c.proposed \in Contract
  BY DEF Call
<1>2. contract.clauses \in Clauses /\ c.proposed.clauses \in Clauses
  BY <1>1 DEF Contract
<1>3. new \in Clauses
  BY <1>2 DEF Clauses
<1>4. Patched(c) = [contract EXCEPT !.clauses = new]
  BY DEF Patched
<1> HIDE DEF new
<1>5. Patched(c) \in Contract /\ Patched(c).meta = contract.meta /\ Patched(c).clauses = new
  BY <1>3, <1>4 DEF Contract
<1>6. QED BY <1>5 DEF new

LEMMA RefusalIsReal ==
    ASSUME NEW c \in Call, contract \in File, Orderly(c), ~Accepted(c),
           c.kind = "whole" => c.expected \in {c.seen, None},
           c.kind = "clauses" => /\ c.seen # None
                                 /\ c.proposed.meta = c.seen.meta
                                 /\ c.named \subseteq Present(c.seen)
    PROVE  IF c.kind = "whole" THEN contract # c.seen
           ELSE \/ contract = None \/ contract.meta # c.seen.meta
                \/ \E x \in c.named \cup Present(c.proposed) :
                      TextOf(contract, x) # TextOf(c.seen, x)
<1>1. CASE c.kind = "whole"
  BY <1>1 DEF Accepted, WholeAccepted, Orderly
<1>2. CASE c.kind # "whole"
  <2> SUFFICES ASSUME contract # None, contract.meta = c.seen.meta,
                      \A x \in c.named \cup Present(c.proposed) :
                         TextOf(contract, x) = TextOf(c.seen, x)
               PROVE  FALSE
    BY <1>2
  <2>0. /\ c.kind = "clauses" /\ c.seen # None /\ c.named \subseteq Clause
        /\ c.proposed \in Contract /\ c.proposed # None
    BY <1>2, StoreAssumption DEF Call
  <2>1. \A x \in c.named \cup Present(c.proposed) : contract.clauses[x] = c.seen.clauses[x]
    BY <2>0 DEF TextOf
  <2>2. c.named \subseteq Present(contract)
    BY <2>0, <2>1 DEF Present
  <2>3. ASSUME NEW x \in Present(contract), x \in Present(c.proposed) PROVE x \in c.named
    BY <1>2, <2>0, <2>1, <2>3 DEF Orderly, Present
  <2>4. ASSUME NEW x \in c.named PROVE ClauseIsCurrent(c, x)
    BY <2>1 DEF ClauseIsCurrent
  <2>5. c.named # {} /\ c.proposed.meta = contract.meta
    BY <1>2, <2>0 DEF Orderly
  <2>6. PatchAccepted(c)
    BY <2>2, <2>3, <2>4, <2>5 DEF PatchAccepted
  <2>7. QED BY <1>2, <2>6 DEF Accepted
<1>3. QED BY <1>1, <1>2

LEMMA WriteIsInformed ==
    ASSUME NEW c \in Call, contract \in File, Accepted(c), Bound(c), c.kind = "clauses", c.seen # None
    PROVE  \A x \in Clause : TextOf(Patched(c), x) # TextOf(contract, x) =>
              TextOf(c.seen, x) = TextOf(contract, x)
<1> SUFFICES ASSUME NEW x \in Clause, TextOf(Patched(c), x) # TextOf(contract, x)
             PROVE  TextOf(c.seen, x) = TextOf(contract, x)
  OBVIOUS
<1>1. PatchAccepted(c)
  BY DEF Accepted
<1>2. contract \in Contract /\ contract # None
  BY <1>1 DEF PatchAccepted, File
<1>3. Patched(c) # None
  BY <1>2, PatchedContract, StoreAssumption
<1>4. Patched(c).clauses[x] # contract.clauses[x]
  BY <1>2, <1>3 DEF TextOf
<1>5. c.proposed \in Contract /\ c.proposed # None
  BY StoreAssumption DEF Call
<1>6. CASE x \in Present(contract)
  <2>1. ~Untouched(c, x) /\ (x \in c.named \/ x \in Present(c.proposed))
    BY <1>2, <1>4, <1>6, PatchedContract
  <2>2. x \in c.named
    BY <1>1, <1>6, <2>1 DEF PatchAccepted
  <2>3. ClauseIsCurrent(c, x)
    BY <1>1, <1>6, <2>1, <2>2 DEF PatchAccepted
  <2>4. QED BY <1>2, <2>3 DEF ClauseIsCurrent, TextOf
<1>7. CASE x \notin Present(contract)
  <2>1. contract.clauses[x] = None /\ x \notin c.named
    BY <1>1, <1>2, <1>7 DEF Present, PatchAccepted
  <2>2. x \in Present(c.proposed)
    BY <1>2, <1>4, <1>5, <1>7, <2>1, PatchedContract DEF Present
  <2>3. x \notin Present(c.seen)
    BY <2>1, <2>2 DEF Bound, Orderly
  <2>4. QED BY <1>2, <2>1, <2>3 DEF Present, TextOf
<1>8. QED BY <1>6, <1>7

------------------------------------------------------------------------------
(***************************************************************************)
(* The steps.                                                              *)
(***************************************************************************)
\* A call as the two tools build it.
Sound(c) ==
    /\ c \in Call
    /\ c.kind = "whole" => c.expected \in {c.seen, None}
    /\ c.kind = "clauses" => /\ c.seen # None
                            /\ c.proposed.meta = c.seen.meta
                            /\ c.named \subseteq Present(c.seen)

LEMMA AskWholeIsAsk ==
    ASSUME TypeOK, NEW s \in Session, AskWhole(s)
    PROVE  \E c : Ask(s, c) /\ Sound(c) /\ c.seen = contract
<1>1. PICK p \in Rewrites, e \in {contract, None} :
         Ask(s, [kind |-> "whole", proposed |-> p, named |-> {},
                 expected |-> e, seen |-> contract])
  BY DEF AskWhole
<1>2. p \in Contract
  BY DEF Rewrites
<1> DEFINE c == [kind |-> "whole", proposed |-> p, named |-> {},
                 expected |-> e, seen |-> contract]
<1>3. Sound(c) /\ c.seen = contract
  BY <1>2 DEF TypeOK, File, Call, Sound
<1>4. QED BY <1>1, <1>3

LEMMA AskClausesIsAsk ==
    ASSUME TypeOK, NEW s \in Session, AskClauses(s)
    PROVE  \E c : Ask(s, c) /\ Sound(c) /\ c.seen = contract
<1>1. PICK p \in Clauses, N \in SUBSET Present(contract) :
         Ask(s, [kind |-> "clauses", proposed |-> [meta |-> contract.meta, clauses |-> p],
                 named |-> N, expected |-> None, seen |-> contract])
  BY DEF AskClauses
<1>2. contract \in Contract /\ contract # None
  BY DEF AskClauses, TypeOK, File
<1>3. [meta |-> contract.meta, clauses |-> p] \in Contract
  BY <1>2 DEF Contract
<1>4. N \subseteq Clause
  BY DEF Present
<1> DEFINE c == [kind |-> "clauses", proposed |-> [meta |-> contract.meta, clauses |-> p],
                 named |-> N, expected |-> None, seen |-> contract]
<1>5. Sound(c) /\ c.seen = contract
  BY <1>2, <1>3, <1>4 DEF File, Call, Sound
<1>6. QED BY <1>1, <1>5

LEMMA InitInvariant == ASSUME Init PROVE StoreInvariant
<1>1. [meta |-> First.meta, clauses |-> [c \in Clause |-> First.text]] \in Contract
  BY StoreAssumption DEF Contract, Clauses
<1>2. TypeOK
  <2>1. contract \in File /\ shared \in BOOLEAN /\ lock \in Session \cup {None}
    BY <1>1 DEF Init, File
  <2>2. /\ call \in [Session -> Call \cup {None}] /\ merged \in [Session -> File]
        /\ refused \in [Session -> [call : Call, met : File] \cup {None}]
    BY DEF Init, File
  <2>3. turns \in 0..MaxTurns /\ crashes \in 0..MaxCrashes
    BY StoreAssumption DEF Init
  <2>4. pc \in [Session -> {"idle", "waiting", "locked", "merged"}]
    BY DEF Init
  <2>5. slipped \in [Session -> BOOLEAN]
    BY DEF Init
  <2>6. \A s \in Session : pc[s] = "idle" /\ lock # s /\ merged[s] = None
    BY StoreAssumption DEF Init
  <2>7. QED BY <2>1, <2>2, <2>3, <2>4, <2>5, <2>6 DEF TypeOK
<1>3. QED
  BY <1>2 DEF Init, StoreInvariant, OnlyRealConflictsAreRefused, CallsAreShown, MergedIsFresh

LEMMA AskPreserves ==
    ASSUME StoreInvariant, NEW s \in Session, NEW c, Ask(s, c), Sound(c), c.seen = contract
    PROVE  StoreInvariant'
<1> USE DEF StoreInvariant, Ask
<1>1. TypeOK'
  <2>1. /\ pc' \in [Session -> {"idle", "waiting", "locked", "merged"}]
        /\ call' \in [Session -> Call \cup {None}]
        /\ refused' \in [Session -> [call : Call, met : File] \cup {None}]
    BY DEF TypeOK, Sound
  <2>2. turns' \in 0..MaxTurns
    BY StoreAssumption DEF Turn, TypeOK
  <2>3. ASSUME NEW u \in Session
        PROVE  /\ pc'[u] \in {"locked", "merged"} <=> lock' = u
               /\ pc'[u] = "merged" <=> merged'[u] # None
    BY DEF TypeOK
  <2>4. QED BY <2>1, <2>2, <2>3 DEF TypeOK
<1>2. OnlyRealConflictsAreRefused'
  BY DEF OnlyRealConflictsAreRefused, TypeOK
<1>3. CallsAreShown'
  BY DEF CallsAreShown, Sound, TypeOK, Present
<1>4. MergedIsFresh'
  <2> SUFFICES ASSUME NEW u \in Session, pc'[u] = "merged", ~slipped'[u]
               PROVE  /\ Accepted(call[u])
                      /\ merged[u] = IF call[u].kind = "whole" THEN call[u].proposed
                                     ELSE Patched(call[u])
                      /\ call'[u] = call[u]
    BY DEF MergedIsFresh, Accepted, WholeAccepted, PatchAccepted, Patched, Present,
           Untouched, ClauseIsCurrent
  <2>1. u # s
    BY DEF TypeOK
  <2>2. QED BY <2>1 DEF MergedIsFresh, TypeOK
<1>5. QED BY <1>1, <1>2, <1>3, <1>4

\* What a session that ends its call leaves behind.
LEMMA EndsPreserves ==
    ASSUME StoreInvariant, NEW s \in Session, Ends(s),
           lock' = IF lock = s THEN None ELSE lock,
           contract' \in File, contract # None => contract' # None,
           contract' = contract \/ lock = s,
           shared' = shared, turns' \in 0..MaxTurns, crashes' \in 0..MaxCrashes,
           refused' \in [Session -> [call : Call, met : File] \cup {None}]
    PROVE  TypeOK' /\ CallsAreShown' /\ MergedIsFresh'
<1> USE DEF StoreInvariant
<1>1. TypeOK'
  <2>1. /\ call' \in [Session -> Call \cup {None}] /\ merged' \in [Session -> File]
        /\ pc' \in [Session -> {"idle", "waiting", "locked", "merged"}]
    BY DEF TypeOK, Ends, File
  <2>2. slipped' \in [Session -> BOOLEAN] /\ lock' \in Session \cup {None}
    BY DEF TypeOK, Ends
  <2>3. ASSUME NEW u \in Session
        PROVE  /\ pc'[u] \in {"locked", "merged"} <=> lock' = u
               /\ pc'[u] = "merged" <=> merged'[u] # None
    BY StoreAssumption DEF TypeOK, Ends
  <2>4. QED BY <2>1, <2>2, <2>3 DEF TypeOK
<1>2. ASSUME NEW u \in Session, pc'[u] # "idle"
      PROVE  u # s /\ call'[u] = call[u] /\ pc'[u] = pc[u] /\ merged'[u] = merged[u]
             /\ slipped'[u] = slipped[u]
  BY <1>2 DEF TypeOK, Ends
<1>3. CallsAreShown'
  BY <1>2 DEF CallsAreShown, Present
<1>4. MergedIsFresh'
  <2> SUFFICES ASSUME NEW u \in Session, pc'[u] = "merged", ~slipped'[u]
               PROVE  /\ Accepted(call[u])'
                      /\ merged'[u] = (IF call[u].kind = "whole" THEN call[u].proposed
                                       ELSE Patched(call[u]))'
    BY DEF MergedIsFresh
  <2>1. u # s /\ call'[u] = call[u] /\ pc[u] = "merged" /\ merged'[u] = merged[u] /\ ~slipped[u]
    BY <1>2
  <2>2. contract' = contract
    BY <2>1 DEF TypeOK
  <2>3. /\ Accepted(call[u])
        /\ merged[u] = IF call[u].kind = "whole" THEN call[u].proposed ELSE Patched(call[u])
    BY <2>1 DEF MergedIsFresh
  <2>4. QED
    BY <2>1, <2>2, <2>3 DEF Accepted, WholeAccepted, PatchAccepted, Patched, Present,
       Untouched, ClauseIsCurrent
<1>5. QED BY <1>1, <1>3, <1>4

LEMMA AcquirePreserves ==
    ASSUME StoreInvariant, NEW s \in Session, Acquire(s)
    PROVE  StoreInvariant'
<1> USE DEF StoreInvariant, Acquire
<1>1. TypeOK'
  <2>1. pc' \in [Session -> {"idle", "waiting", "locked", "merged"}]
    BY DEF TypeOK
  <2>2. ASSUME NEW u \in Session
        PROVE  /\ pc'[u] \in {"locked", "merged"} <=> lock' = u
               /\ pc'[u] = "merged" <=> merged'[u] # None
    BY StoreAssumption DEF TypeOK
  <2>3. QED BY <2>1, <2>2 DEF TypeOK, bounds
<1>2. OnlyRealConflictsAreRefused'
  BY DEF OnlyRealConflictsAreRefused
<1>3. CallsAreShown'
  BY DEF CallsAreShown, Present, TypeOK
<1>4. MergedIsFresh'
  <2> SUFFICES ASSUME NEW u \in Session, pc'[u] = "merged", ~slipped[u]
               PROVE  /\ Accepted(call[u])
                      /\ merged[u] = IF call[u].kind = "whole" THEN call[u].proposed
                                     ELSE Patched(call[u])
    BY DEF MergedIsFresh, Accepted, WholeAccepted, PatchAccepted, Patched, Present,
           Untouched, ClauseIsCurrent
  <2>1. pc[u] = "merged"
    BY DEF TypeOK
  <2>2. QED BY <2>1 DEF MergedIsFresh
<1>5. QED BY <1>1, <1>2, <1>3, <1>4

LEMMA MergePreserves ==
    ASSUME StoreInvariant, NEW s \in Session, Merge(s)
    PROVE  StoreInvariant'
<1> USE DEF StoreInvariant
<1> DEFINE new == IF call[s].kind = "whole" THEN call[s].proposed ELSE Patched(call[s])
<1>1. call[s] \in Call /\ Accepted(call[s]) /\ contract \in File
  BY DEF Merge, CallsAreShown, TypeOK
<1>2. new \in Contract
  <2>1. call[s].proposed \in Contract
    BY <1>1 DEF Call
  <2>2. ASSUME call[s].kind # "whole" PROVE contract \in Contract
    BY <1>1, <2>2 DEF Accepted, PatchAccepted, File
  <2>3. QED BY <1>1, <2>1, <2>2, PatchedContract
<1>3. /\ merged' = [merged EXCEPT ![s] = new]
      /\ pc' = [pc EXCEPT ![s] = "merged"]
      /\ pc[s] = "locked"
      /\ UNCHANGED <<contract, shared, lock, call, refused, slipped, bounds>>
  BY DEF Merge
<1> HIDE DEF new
<1>4. TypeOK'
  <2>1. /\ pc' \in [Session -> {"idle", "waiting", "locked", "merged"}]
        /\ merged' \in [Session -> File]
    BY <1>2, <1>3 DEF TypeOK, File
  <2>2. ASSUME NEW u \in Session
        PROVE  /\ pc'[u] \in {"locked", "merged"} <=> lock' = u
               /\ pc'[u] = "merged" <=> merged'[u] # None
    BY <1>2, <1>3, StoreAssumption DEF TypeOK
  <2>3. QED BY <1>3, <2>1, <2>2 DEF TypeOK, bounds
<1>5. OnlyRealConflictsAreRefused'
  BY <1>3 DEF OnlyRealConflictsAreRefused
<1>6. CallsAreShown'
  BY <1>3 DEF CallsAreShown, Present, TypeOK
<1>7. MergedIsFresh'
  <2> SUFFICES ASSUME NEW u \in Session, pc'[u] = "merged", ~slipped[u]
               PROVE  /\ Accepted(call[u])
                      /\ merged'[u] = IF call[u].kind = "whole" THEN call[u].proposed
                                      ELSE Patched(call[u])
    BY <1>3 DEF MergedIsFresh, Accepted, WholeAccepted, PatchAccepted, Patched, Present,
           Untouched, ClauseIsCurrent
  <2>1. CASE u = s
    BY <1>1, <1>3, <2>1 DEF new, TypeOK
  <2>2. CASE u # s
    <3>1. pc[u] = "merged" /\ merged'[u] = merged[u]
      BY <1>3, <2>2 DEF TypeOK
    <3>2. QED BY <3>1 DEF MergedIsFresh
  <2>3. QED BY <2>1, <2>2
<1>8. QED BY <1>4, <1>5, <1>6, <1>7

LEMMA RefusePreserves ==
    ASSUME StoreInvariant, NEW s \in Session, Refuse(s)
    PROVE  StoreInvariant'
<1> USE DEF StoreInvariant
<1>1. /\ Sound(call[s]) /\ contract \in File /\ lock = s /\ ~Accepted(call[s])
  BY DEF Refuse, CallsAreShown, TypeOK, Sound
<1>2. /\ refused' = [refused EXCEPT ![s] = [call |-> call[s], met |-> contract]]
      /\ lock' = None /\ Ends(s) /\ UNCHANGED <<contract, shared, bounds>>
  BY DEF Refuse
<1>3. refused' \in [Session -> [call : Call, met : File] \cup {None}]
  BY <1>1, <1>2 DEF TypeOK, Sound
<1>4. TypeOK' /\ CallsAreShown' /\ MergedIsFresh'
  BY <1>1, <1>2, <1>3, EndsPreserves DEF TypeOK, bounds
<1>5. OnlyRealConflictsAreRefused'
  <2> SUFFICES ASSUME NEW u \in Session, refused'[u] # None, Orderly(refused'[u].call)
               PROVE  LET c == refused'[u].call
                          met == refused'[u].met
                      IN  IF c.kind = "whole" THEN met # c.seen
                          ELSE \/ met = None \/ met.meta # c.seen.meta
                               \/ \E x \in c.named \cup Present(c.proposed) :
                                     TextOf(met, x) # TextOf(c.seen, x)
    BY DEF OnlyRealConflictsAreRefused, Orderly, TextOf, Present
  <2>1. CASE u = s
    <3>1. refused'[u].call = call[s] /\ refused'[u].met = contract
      BY <1>2, <2>1 DEF TypeOK
    <3>2. QED BY <1>1, <3>1, RefusalIsReal DEF Sound
  <2>2. CASE u # s
    <3>1. refused'[u] = refused[u]
      BY <1>2, <2>2 DEF TypeOK
    <3>2. QED BY <3>1 DEF OnlyRealConflictsAreRefused
  <2>3. QED BY <2>1, <2>2
<1>6. QED BY <1>4, <1>5

LEMMA WritePreserves ==
    ASSUME StoreInvariant, NEW s \in Session, Write(s)
    PROVE  StoreInvariant'
<1> USE DEF StoreInvariant
<1>1. lock = s /\ merged[s] \in Contract /\ merged[s] # None
  BY DEF Write, TypeOK, File
<1>2. contract' \in File /\ contract' # None
  BY <1>1 DEF Write, File
<1>3. TypeOK' /\ CallsAreShown' /\ MergedIsFresh'
  BY <1>1, <1>2, EndsPreserves DEF Write, TypeOK, bounds
<1>4. OnlyRealConflictsAreRefused'
  BY DEF Write, OnlyRealConflictsAreRefused
<1>5. QED BY <1>3, <1>4

LEMMA CrashPreserves ==
    ASSUME StoreInvariant, NEW s \in Session, Crash(s)
    PROVE  StoreInvariant'
<1> USE DEF StoreInvariant
<1>1. crashes' \in 0..MaxCrashes /\ turns' \in 0..MaxTurns
  BY StoreAssumption DEF Crash, TypeOK
<1>2. TypeOK' /\ CallsAreShown' /\ MergedIsFresh'
  BY <1>1, EndsPreserves DEF Crash, TypeOK
<1>3. OnlyRealConflictsAreRefused'
  BY DEF Crash, OnlyRealConflictsAreRefused
<1>4. QED BY <1>2, <1>3

LEMMA EditPreserves ==
    ASSUME StoreInvariant, NEW x \in Clause, NEW t \in Text \cup {None}, Edit(x, t)
    PROVE  StoreInvariant'
<1> USE DEF StoreInvariant
<1>1. contract' \in Contract /\ contract' # None
  BY EditedContract, StoreAssumption DEF Edit, TypeOK, File
<1>2. TypeOK'
  <2>1. turns' \in 0..MaxTurns
    BY StoreAssumption DEF Edit, Turn, TypeOK
  <2>2. slipped' \in [Session -> BOOLEAN]
    BY DEF Edit, TypeOK
  <2>3. QED BY <1>1, <2>1, <2>2 DEF Edit, TypeOK, File
<1>3. OnlyRealConflictsAreRefused'
  BY DEF Edit, OnlyRealConflictsAreRefused
<1>4. CallsAreShown'
  BY <1>1 DEF Edit, CallsAreShown, Present
<1>5. MergedIsFresh'
  BY DEF Edit, MergedIsFresh
<1>6. QED BY <1>2, <1>3, <1>4, <1>5

------------------------------------------------------------------------------
(***************************************************************************)
(* Theorems.                                                               *)
(***************************************************************************)
\* At every point of every call the lock holder is the one that writes, only
\* real conflicts were refused and what is about to be written was merged with
\* what is there (filesystem_project.rs:418, application.rs:647).
THEOREM StoreIsSafe == Spec => []StoreInvariant
<1>1. Init => StoreInvariant
  BY InitInvariant
<1>2. StoreInvariant /\ [Next]_vars => StoreInvariant'
  <2> SUFFICES ASSUME StoreInvariant, [Next]_vars PROVE StoreInvariant'
    OBVIOUS
  <2>0. TypeOK
    BY DEF StoreInvariant
  <2>1. ASSUME NEW s \in Session, AskWhole(s) PROVE StoreInvariant'
    BY <2>0, <2>1, AskWholeIsAsk, AskPreserves
  <2>2. ASSUME NEW s \in Session, AskClauses(s) PROVE StoreInvariant'
    BY <2>0, <2>2, AskClausesIsAsk, AskPreserves
  <2>3. ASSUME NEW s \in Session, Serve(s) PROVE StoreInvariant'
    BY <2>3, AcquirePreserves, MergePreserves, RefusePreserves, WritePreserves DEF Serve
  <2>4. ASSUME NEW s \in Session, Crash(s) PROVE StoreInvariant'
    BY <2>4, CrashPreserves
  <2>5. ASSUME NEW x \in Clause, NEW t \in Text \cup {None}, Edit(x, t) PROVE StoreInvariant'
    BY <2>5, EditPreserves
  <2>6. CASE UNCHANGED vars
    BY <2>6 DEF vars, bounds, StoreInvariant, TypeOK, OnlyRealConflictsAreRefused, CallsAreShown,
       MergedIsFresh, Accepted, WholeAccepted, PatchAccepted, Patched, Present, Untouched,
       ClauseIsCurrent
  <2>7. QED BY <2>1, <2>2, <2>3, <2>4, <2>5, <2>6 DEF Next
<1>3. QED BY <1>1, <1>2, PTL DEF Spec

\* No update is lost: what a session's write changes or removes, its client had
\* been shown as it is in the file then (application.rs:611).
THEOREM UpdatesAreNotLost == Spec => NoBlindOverwrite
<1> DEFINE Checked(s) == Write(s) /\ Bound(call[s]) /\ ~slipped[s]
           Informed(s) ==
              /\ \A x \in Clause : TextOf(contract', x) # TextOf(contract, x) =>
                    TextOf(call[s].seen, x) = TextOf(contract, x)
              /\ contract # None /\ contract'.meta # contract.meta => call[s].seen = contract
<1>1. ASSUME StoreInvariant, [Next]_vars
      PROVE  [\A s \in Session : Checked(s) => Informed(s)]_vars
  <2> SUFFICES ASSUME NEW s \in Session, Checked(s) PROVE Informed(s)
    OBVIOUS
  <2> DEFINE c == call[s]
  <2>1. /\ Sound(c) /\ Accepted(c) /\ contract \in File /\ (c.seen # None => contract # None)
        /\ contract' = IF c.kind = "whole" THEN c.proposed ELSE Patched(c)
    BY <1>1 DEF StoreInvariant, TypeOK, CallsAreShown, MergedIsFresh, Write, Sound
  <2>2. CASE c.kind = "whole"
    <3>1. CASE contract = c.seen
      BY <3>1
    <3>2. CASE contract # c.seen
      <4>1. contract = None
        BY <2>1, <2>2, <3>2 DEF Sound, Accepted, WholeAccepted, Bound
      <4>2. c.seen = None
        BY <2>1, <4>1
      <4>3. QED BY <4>1, <4>2
    <3>3. QED BY <3>1, <3>2
  <2>3. CASE c.kind = "clauses"
    <3>1. contract \in Contract
      BY <2>1, <2>3 DEF Accepted, PatchAccepted, File
    <3>2. contract' = Patched(c) /\ contract'.meta = contract.meta
      BY <2>1, <2>3, <3>1, PatchedContract DEF Sound
    <3>3. c.seen # None /\ c \in Call
      BY <2>1, <2>3 DEF Sound
    <3>4. \A x \in Clause : TextOf(Patched(c), x) # TextOf(contract, x) =>
             TextOf(c.seen, x) = TextOf(contract, x)
      BY <2>1, <2>3, <3>3, WriteIsInformed
    <3>5. QED BY <3>2, <3>4 DEF TextOf
  <2>4. QED BY <2>1, <2>2, <2>3 DEF Sound, Call
<1>2. QED BY <1>1, StoreIsSafe, PTL DEF Spec, NoBlindOverwrite
==============================================================================
