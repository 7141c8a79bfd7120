---------------------------- MODULE ContractStore ----------------------------
(***************************************************************************)
(* Concurrent updates of one Contract file.  A client is shown the         *)
(* Contract with the digests of its clauses, and later asks its session to *)
(* replace the whole Record or to patch clauses of it.  The session locks  *)
(* contract-updates.lock, reads the file again, compares the digests the   *)
(* client names, merges, and replaces the file.  People edit the file with *)
(* their own tools, which know no lock.                                    *)
(*                                                                         *)
(* A digest stands for what it is the digest of, so a clause that is       *)
(* changed and changed back has its old digest again.                      *)
(***************************************************************************)
EXTENDS Naturals, FiniteSets

CONSTANTS
    Session,    \* server processes, each with one call at a time
    Clause,     \* clause ids
    Text,       \* what a clause may say
    Meta,       \* everything of the Contract but its clauses
    First,      \* what a Contract says that is there from the start
    MaxTurns,   \* bound: calls and edits
    MaxCrashes, \* bound: crashes of sessions
    None        \* no such clause, no Contract, no session, no digest

Clauses == [Clause -> Text \cup {None}]
Contract == [meta : Meta, clauses : Clauses]
File == Contract \cup {None}

\* A call: proposed is the whole Contract or a patch (None: not in the patch);
\* named are the clauses whose digest the client sends, expected the digest of
\* the whole Contract; seen is where its digests come from.
Call == [kind : {"whole", "clauses"}, proposed : Contract, named : SUBSET Clause,
         expected : File, seen : File]

ASSUME StoreAssumption ==
    /\ None \notin Text \cup Meta \cup Session \cup Contract
    /\ First \in [meta : Meta, text : Text]
    /\ MaxTurns \in Nat /\ MaxCrashes \in Nat

VARIABLES
    contract,  \* the file
    shared,    \* the Contract belongs to no single Change
    lock,      \* who holds contract-updates.lock
    call,      \* [Session -> the call it serves, None: none]
    pc,        \* [Session -> how far it is]
    merged,    \* [Session -> what it is about to write]
    refused,   \* [Session -> the call it refused last, and the file it met]
    slipped,   \* [Session -> somebody edited the file after it was read]
    turns,
    crashes

bounds == <<turns, crashes>>
vars == <<contract, shared, lock, call, pc, merged, refused, slipped, bounds>>

NoClauses == [c \in Clause |-> None]
Present(f) == IF f = None THEN {} ELSE {c \in Clause : f.clauses[c] # None}
TextOf(f, c) == IF f = None THEN None ELSE f.clauses[c]

Init ==
    /\ contract \in {None, [meta |-> First.meta, clauses |-> [c \in Clause |-> First.text]]}
    /\ shared \in BOOLEAN
    /\ lock = None
    /\ call = [s \in Session |-> None] /\ pc = [s \in Session |-> "idle"]
    /\ merged = [s \in Session |-> None] /\ refused = [s \in Session |-> None]
    /\ slipped = [s \in Session |-> FALSE]
    /\ turns = 0 /\ crashes = 0

Turn == turns < MaxTurns /\ turns' = turns + 1

(***************************************************************************)
(* What the clients ask for.                                               *)
(***************************************************************************)
Ask(s, c) ==
    /\ pc[s] = "idle" /\ Turn
    /\ call' = [call EXCEPT ![s] = c]
    /\ pc' = [pc EXCEPT ![s] = "waiting"]
    /\ refused' = [refused EXCEPT ![s] = None]
    /\ UNCHANGED <<contract, shared, lock, merged, slipped, crashes>>

\* A new Contract, or one with other metadata or another clause.
Rewrites ==
    {p \in Contract :
        /\ p # contract
        /\ IF contract = None THEN p.clauses \in {[c \in Clause |-> t] : t \in Text}
           ELSE \/ p.clauses = contract.clauses
                \/ \E x \in Clause, t \in Text \cup {None} : p = [contract EXCEPT !.clauses[x] = t]}

\* adf_apply_contract with expected_digest, or without any digest.
AskWhole(s) ==
    \E p \in Rewrites, e \in {contract, None} :
        Ask(s, [kind |-> "whole", proposed |-> p, named |-> {},
                expected |-> e, seen |-> contract])

\* adf_apply_contract with expected_clause_digests.  What the client does not
\* change it leaves out, or sends as it was shown.
AskClauses(s) ==
    /\ contract # None
    /\ \E p \in Clauses, N \in SUBSET Present(contract) :
          /\ N # {}
          /\ Ask(s, [kind |-> "clauses", proposed |-> [meta |-> contract.meta, clauses |-> p],
                     named |-> N, expected |-> None, seen |-> contract])

(***************************************************************************)
(* The session.                                                            *)
(***************************************************************************)
Acquire(s) ==
    /\ pc[s] = "waiting" /\ lock = None
    /\ lock' = s
    /\ pc' = [pc EXCEPT ![s] = "locked"]
    /\ UNCHANGED <<contract, shared, call, merged, refused, slipped, bounds>>

\* A whole update of a Contract that is there needs its digest; one that
\* belongs to a Change may do without.
WholeAccepted(c) ==
    IF c.expected # None THEN contract = c.expected ELSE contract = None \/ ~shared

\* The whole Contract must be as the client was shown it.
PatchAcceptedWhole(c) == contract # None /\ c.named # {} /\ contract = c.seen

\* A clause is as the client was shown it.
ClauseIsCurrent(c, x) == contract.clauses[x] = c.seen.clauses[x]

\* The client sent the clause back as it was shown.
Untouched(c, x) == x \in c.named /\ c.proposed.clauses[x] = c.seen.clauses[x]

\* merge_contract_clause_update: the metadata is the file's, every clause with
\* a digest is still there, and every clause of the patch that is there has
\* a digest, the current one unless the client leaves the clause alone.
PatchAccepted(c) ==
    /\ contract # None /\ c.named # {}
    /\ c.proposed.meta = contract.meta
    /\ c.named \subseteq Present(contract)
    /\ \A x \in Present(contract) :
          /\ x \in Present(c.proposed) => x \in c.named
          /\ x \in c.named => Untouched(c, x) \/ ClauseIsCurrent(c, x)

\* What the patch leaves alone goes back to what the client was shown.
PatchedFromSeen(c) ==
    [contract EXCEPT !.clauses =
        [x \in Clause |->
            IF x \in Present(c.proposed) THEN c.proposed.clauses[x]
            ELSE IF x \in c.named THEN None ELSE c.seen.clauses[x]]]

\* A clause outside the patch stays, one that was left alone stays as the file
\* has it, one with a digest and no text goes, the others are the client's.
Patched(c) ==
    [contract EXCEPT !.clauses =
        [x \in Clause |->
            IF x \in Present(contract) /\ (Untouched(c, x) \/
                                           (x \notin c.named /\ x \notin Present(c.proposed)))
            THEN contract.clauses[x]
            ELSE c.proposed.clauses[x]]]

Accepted(c) == IF c.kind = "whole" THEN WholeAccepted(c) ELSE PatchAccepted(c)

Merge(s) ==
    /\ pc[s] = "locked" /\ Accepted(call[s])
    /\ merged' = [merged EXCEPT ![s] =
          IF call[s].kind = "whole" THEN call[s].proposed ELSE Patched(call[s])]
    /\ pc' = [pc EXCEPT ![s] = "merged"]
    /\ UNCHANGED <<contract, shared, lock, call, refused, slipped, bounds>>

Ends(s) ==
    /\ pc' = [pc EXCEPT ![s] = "idle"]
    /\ call' = [call EXCEPT ![s] = None]
    /\ merged' = [merged EXCEPT ![s] = None]
    /\ slipped' = [slipped EXCEPT ![s] = FALSE]

\* The session tries again instead of answering.
RefuseRetries(s) ==
    /\ pc[s] = "locked" /\ ~Accepted(call[s])
    /\ lock' = None
    /\ pc' = [pc EXCEPT ![s] = "waiting"]
    /\ UNCHANGED <<contract, shared, call, merged, refused, slipped, bounds>>

Refuse(s) ==
    /\ pc[s] = "locked" /\ ~Accepted(call[s])
    /\ refused' = [refused EXCEPT ![s] = [call |-> call[s], met |-> contract]]
    /\ lock' = None
    /\ Ends(s)
    /\ UNCHANGED <<contract, shared, bounds>>

\* write_atomic: a temporary file is renamed over the Contract.
Write(s) ==
    /\ pc[s] = "merged"
    /\ contract' = merged[s]
    /\ lock' = None
    /\ Ends(s)
    /\ UNCHANGED <<shared, refused, bounds>>

\* The system frees the lock of a process that ends; its call is lost.
Crash(s) ==
    /\ pc[s] # "idle" /\ crashes < MaxCrashes
    /\ crashes' = crashes + 1
    /\ lock' = IF lock = s THEN None ELSE lock
    /\ Ends(s)
    /\ UNCHANGED <<contract, shared, refused, turns>>

\* A person saves a clause, with no lock.
Edit(x, t) ==
    /\ Turn
    /\ contract # None /\ contract.clauses[x] # t
    /\ contract' = [contract EXCEPT !.clauses[x] = t]
    /\ slipped' = [s \in Session |-> slipped[s] \/ pc[s] = "merged"]
    /\ UNCHANGED <<shared, lock, call, pc, merged, refused, crashes>>

Serve(s) == Acquire(s) \/ Merge(s) \/ Refuse(s) \/ Write(s)

Next ==
    \/ \E s \in Session : AskWhole(s) \/ AskClauses(s) \/ Serve(s) \/ Crash(s)
    \/ \E x \in Clause, t \in Text \cup {None} : Edit(x, t)

Spec == Init /\ [][Next]_vars

\* A session goes on with its call.  No fairness of the lock is assumed: there
\* are only so many calls that can overtake one that waits.
FairSpec == Spec /\ \A s \in Session : WF_vars(Serve(s))

(***************************************************************************)
(* Properties.                                                             *)
(***************************************************************************)
TypeOK ==
    /\ contract \in File /\ shared \in BOOLEAN /\ lock \in Session \cup {None}
    /\ call \in [Session -> Call \cup {None}]
    /\ pc \in [Session -> {"idle", "waiting", "locked", "merged"}]
    /\ merged \in [Session -> File]
    /\ refused \in [Session -> [call : Call, met : File] \cup {None}]
    /\ slipped \in [Session -> BOOLEAN]
    /\ turns \in 0..MaxTurns /\ crashes \in 0..MaxCrashes
    /\ \A s \in Session : /\ pc[s] \in {"locked", "merged"} <=> lock = s
                          /\ pc[s] = "merged" <=> merged[s] # None

\* The client did what the protocol asks: it sent the digests of all the
\* clauses it was shown and sends or drops, and of one at least.
Orderly(c) ==
    IF c.kind = "whole" THEN c.expected = c.seen
    ELSE c.named # {} /\ Present(c.proposed) \cap Present(c.seen) \subseteq c.named

\* ... and its digests bind it.  A whole update without one does so when the
\* Contract is shared, since it is then refused unless there is no Contract.
Bound(c) == IF c.kind = "whole" THEN shared \/ c.expected # None ELSE Orderly(c)

\* No update is lost: whatever a session's write changes or removes, its client
\* had been shown as it is in the file then; the metadata only by a client
\* that was shown the Contract as it is.  Excepted are whole updates of
\* a Change's own Contract without a digest, and an edit saved between
\* a session's read and its rename, which no lock can see
\* (application.rs:611, filesystem_project.rs:418).
NoBlindOverwrite ==
    [][\A s \in Session :
          Write(s) /\ Bound(call[s]) /\ ~slipped[s] =>
              /\ \A x \in Clause : TextOf(contract', x) # TextOf(contract, x) =>
                    TextOf(call[s].seen, x) = TextOf(contract, x)
              /\ contract # None /\ contract'.meta # contract.meta => call[s].seen = contract]_vars

\* Updates of different clauses do not get in each other's way: an orderly call
\* is refused only when something it names is no longer what its client was
\* shown (application.rs:647).
OnlyRealConflictsAreRefused ==
    \A s \in Session : refused[s] # None /\ Orderly(refused[s].call) =>
        LET c == refused[s].call
            met == refused[s].met
        IN  IF c.kind = "whole" THEN met # c.seen
            ELSE \/ met = None \/ met.meta # c.seen.meta
                 \/ \E x \in c.named \cup Present(c.proposed) : TextOf(met, x) # TextOf(c.seen, x)

\* Every call is answered, although sessions wait for the lock without a
\* timeout and may die with it (filesystem_project.rs:523).
EveryUpdateEnds == \A s \in Session : pc[s] # "idle" ~> pc[s] = "idle"

(***************************************************************************)
(* The inductive invariant.                                                *)
(***************************************************************************)
\* What a call says of the Contract its client was shown; a Contract that is
\* there does not go away, so a client that was shown one still finds one.
CallsAreShown ==
    \A s \in Session : pc[s] # "idle" =>
        /\ call[s] \in Call
        /\ call[s].kind = "whole" => call[s].expected \in {call[s].seen, None}
        /\ call[s].kind = "clauses" => /\ call[s].seen # None
                                      /\ call[s].proposed.meta = call[s].seen.meta
                                      /\ call[s].named \subseteq Present(call[s].seen)
        /\ call[s].seen # None => contract # None

\* Between its read and its rename a session holds the merge of its call with
\* the file, which the call's digests still fit, unless an edit slipped in.
MergedIsFresh ==
    \A s \in Session : pc[s] = "merged" /\ ~slipped[s] =>
        /\ Accepted(call[s])
        /\ merged[s] = IF call[s].kind = "whole" THEN call[s].proposed ELSE Patched(call[s])

\* At every point of every call: the lock holder is the one that writes, only
\* real conflicts were refused, and what is about to be written was merged
\* with what is there (filesystem_project.rs:418).
StoreInvariant ==
    TypeOK /\ OnlyRealConflictsAreRefused /\ CallsAreShown /\ MergedIsFresh
==============================================================================
