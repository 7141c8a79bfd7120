---------------------------- MODULE ActionSession ----------------------------
(***************************************************************************)
(* The Action protocol of the Agentic Development Framework.               *)
(*                                                                         *)
(* Every MCP server process (a session) holds one                          *)
(* ProjectApplicationService: a private map of issued Actions, used by one *)
(* tool call at a time.  All sessions of a working directory share the     *)
(* files of the project: the repository, the Contract, Decision and        *)
(* Evidence Records, and one Result file per (Action, Context).  Every     *)
(* call reloads the project, works on that snapshot, and then writes, so   *)
(* another session or a person can change the files between the two.       *)
(*                                                                         *)
(* A digest stands for the bytes of an artifact: equal digests, equal      *)
(* bytes.  The Change's work is a fixed list of Actions, of which the      *)
(* Kernel selects one the agents still owe; ChangeWorkflow has its rules.  *)
(***************************************************************************)
EXTENDS Integers, Sequences

CONSTANTS
    Session,     \* MCP server processes on one working directory
    NumActions,  \* length of the Change's work list
    Code,        \* repository artifact refs
    Revision,    \* the one of them that stands for the checked-out commit
    Contract,    \* Contract Record refs
    Decision,    \* Decision Record refs
    Evidence,    \* Evidence Record refs
    Shared,      \* the Contracts without a change_id
    Digest,      \* contents of artifacts
    Versions,    \* [ref -> the contents it can have]
    Payload,     \* Result payloads an agent may submit
    Completing,  \* the payloads that satisfy their Requirements
    Basis,       \* [Payload -> refs an impact assessment cites with it]
    Framework,   \* Framework lock and Rule index identities
    Reads,       \* [Action -> refs its Context is compiled from]
    Writes,      \* [Action -> Records its tools may write]
    Implements,  \* the implement-change Actions
    Assessments, \* the assess-change-impact Actions
    Lasting,     \* the Actions a Result may answer after its inputs changed
    HumanAnswer, \* [Decision -> Human Actions whose answer it may resolve]
    Authority,   \* [Contract -> Decisions its clauses cite]
    Rank,        \* [ref -> its place in string order]
    MaxOutputs,  \* longest output_refs list an agent sends
    Editable,    \* refs people change outside the tools
    None         \* no digest, key, Result, entry or lock holder

Action == 1..NumActions
Record == Contract \cup Decision \cup Evidence
Ref == Code \cup Record
ContractIndex == "contracts.index"
DecisionIndex == "decisions.index"
Index == {ContractIndex, DecisionIndex}

(***************************************************************************)
(* Snapshots and Contexts.                                                 *)
(***************************************************************************)
Content == {c \in [Ref -> Digest \cup {None}] : \A r \in Ref : c[r] \in Versions[r] \cup {None}}

\* The digest of an index covers every Record it lists.
IndexOf(c, records) == [r \in {x \in records : c[x] # None} |-> c[r]]

\* artifact_digests of a snapshot.
DigestAt(c, ref) ==
    IF ref = ContractIndex THEN IndexOf(c, Contract)
    ELSE IF ref = DecisionIndex THEN IndexOf(c, Decision)
    ELSE c[ref]

\* source_digests: a source without a digest is left out of the Context.
Sources(a, c) ==
    [r \in {x \in Reads[a] : DigestAt(c, x) # None} |-> DigestAt(c, r)]

KeyFor(a, c) == [action |-> a, sources |-> Sources(a, c)]
Key == {KeyFor(a, c) : a \in Action, c \in Content}

DigestValue == Digest \cup UNION {[D -> Digest] : D \in SUBSET Record}
Manifest == UNION {[D -> DigestValue] : D \in SUBSET (Ref \cup Index)}
Result == [payload : Payload, outs : SUBSET Ref, fresh : Manifest]
Entry == [framework : Framework, outputs : SUBSET Record]

ASSUME ConstantAssumption ==
    /\ NumActions \in Nat \ {0}
    /\ Shared \subseteq Contract
    /\ Completing \subseteq Payload
    /\ Reads \in [Action -> SUBSET (Ref \cup Index)]
    /\ Writes \in [Action -> SUBSET Record]
    /\ Authority \in [Contract -> SUBSET Decision]
    /\ HumanAnswer \in [Decision -> SUBSET Action]
    /\ Implements \subseteq Action
    /\ Assessments \subseteq Action /\ Lasting \subseteq Action
    /\ Revision \in Code
    /\ Versions \in [Ref -> SUBSET Digest]
    /\ Basis \in [Payload -> SUBSET (Ref \cup Index)]
    /\ Rank \in [Ref -> Nat]
    /\ MaxOutputs \in Nat
    /\ Editable \subseteq Ref
    /\ Framework # {} /\ Digest # {}
    /\ Ref \cap Index = {}
    /\ Contract \cap Decision = {} /\ (Contract \cup Decision) \cap Evidence = {}
    /\ None \notin Digest \cup Session \cup Payload \cup Ref
    /\ None \notin Key /\ None \notin Result /\ None \notin Entry
    /\ None \notin [key : Key, result : Result]

VARIABLES
    content,     \* [Ref -> digest on disk, or None]
    framework,   \* the active Framework identity
    results,     \* [Key -> stored Result or None]: one file per key
    issued,      \* [Session -> [Key -> IssuedActionEntry or None]]
    op,          \* [Session -> tool call in progress]
    reply,       \* [Session -> code of the last answer, "pending" in a call]
    correction,  \* holder of result-corrections.lock
    offered,     \* history: keys the control plane ever issued
    written      \* history: <<ref, digest>> the tools wrote

vars == <<content, framework, results, issued, op, reply, correction,
          offered, written>>

Outputs(refs) == {refs[i] : i \in DOMAIN refs}
OutputList == UNION {[1..n -> Ref] : n \in 0..MaxOutputs}

IndexChangeIsOutput(ref, outs) ==
    \/ ref = ContractIndex /\ outs \cap Contract # {}
    \/ ref = DecisionIndex /\ outs \cap Decision # {}

(***************************************************************************)
(* The Kernel as this protocol needs it: the first Action of the work list *)
(* that no completing Result answers.  A fresh one does.  One whose inputs *)
(* changed may: a confirmed candidate review stays binding, a fresh build  *)
(* keeps the before-build Results it was based on, and an outcome is bound *)
(* to the sources of its own Requirement only.  Lasting names the Actions  *)
(* this can happen to, and the Kernel may then do either.                  *)
(***************************************************************************)
Fresh(result, c) ==
    \A ref \in DOMAIN result.fresh : DigestAt(c, ref) = result.fresh[ref]

Completed(k, stored) == stored[k] # None /\ stored[k].payload \in Completing

Satisfied(a, c, stored) ==
    \E k \in Key : k.action = a /\ Completed(k, stored) /\ Fresh(stored[k], c)

MayStand(a, c, stored) ==
    \/ Satisfied(a, c, stored)
    \/ a \in Lasting /\ \E k \in Key : k.action = a /\ Completed(k, stored)

\* What evaluation may select: the Context of an open Action, or nothing.
Selections(c, stored) ==
    {KeyFor(a, c) : a \in {b \in Action : /\ ~Satisfied(b, c, stored)
                                         /\ \A d \in 1..(b - 1) : MayStand(d, c, stored)}}
    \cup (IF \A a \in Action : MayStand(a, c, stored) THEN {None} ELSE {})

(***************************************************************************)
(* Result preparation (submission.rs).                                     *)
(***************************************************************************)
ContextIsStale(k, c, outs) ==
    \E r \in DOMAIN k.sources :
        /\ DigestAt(c, r) # k.sources[r]
        /\ r \notin outs
        /\ ~IndexChangeIsOutput(r, outs)

\* An impact assessment is not bound to the commit its Context showed, but to
\* the inputs its basis_refs and governing_refs cite.
Unbound(k) == IF k.action \in Assessments THEN {Revision} ELSE {}
Cited(k, p) == IF k.action \in Assessments THEN Basis[p] \ {Revision} ELSE {}

\* A manifest that binds only what the Action wrote.
FreshnessRefsOfOutputsOnly(k, c, outs, p) ==
    [r \in outs |-> DigestAt(c, r)]

\* freshness_refs: the issued digests; outputs, their index and the inputs an
\* assessment cites as they are now.
FreshnessRefs(k, c, outs, p) ==
    LET current == outs \cup {r \in Index : IndexChangeIsOutput(r, outs)} \cup Cited(k, p)
    IN [r \in (DOMAIN k.sources \ Unbound(k)) \cup current |->
           IF r \in current THEN DigestAt(c, r) ELSE k.sources[r]]

\* Stored output_refs are sorted, so the set says all.  A Result's ID is a
\* digest of its body: two Results have one ID exactly when these are equal.
PrepareResult(o, c) ==
    [payload |-> o.payload,
     outs    |-> Outputs(o.outs),
     fresh   |-> FreshnessRefs(o.key, c, Outputs(o.outs), o.payload)]

\* A replay test that ignores what was submitted.
SubmittedMatchesAny(result, o) == TRUE

\* The comparison of a stored Result with what a caller submits again: the
\* caller's list is compared with the sorted one as it is.
SubmittedMatches(result, o) ==
    /\ result.payload = o.payload
    /\ result.outs = Outputs(o.outs)
    /\ \A i, j \in DOMAIN o.outs : i < j => Rank[o.outs[i]] < Rank[o.outs[j]]

\* validate_output_refs: a Record must have been written by this session or
\* be held by the Change; a repository ref needs implement-change.
OutputRefsValid(o, entry, c) ==
    /\ \A i, j \in DOMAIN o.outs : o.outs[i] = o.outs[j] => i = j
    /\ \A r \in Outputs(o.outs) :
          IF r \in Record THEN r \in entry.outputs \/ c[r] # None
          ELSE o.key.action \in Implements

------------------------------------------------------------------------------
NewEntry(f) == [framework |-> f, outputs |-> {}]
Idle == [pc |-> "idle", kind |-> None, key |-> None, payload |-> None,
         outs |-> <<>>, ref |-> None, digest |-> None, expected |-> None,
         prepared |-> None, existing |-> None]

Init ==
    /\ content \in Content
    /\ \A r \in Code : content[r] # None
    /\ \A r \in Evidence : content[r] = None
    /\ framework \in Framework
    /\ results = [k \in Key |-> None]
    /\ issued = [s \in Session |-> [k \in Key |-> None]]
    /\ op = [s \in Session |-> Idle]
    /\ reply = [s \in Session |-> "pending"]
    /\ correction = None
    /\ offered = {}
    /\ written = {}

\* The call of session s ends with an answer to its client.
Answer(s, code) ==
    /\ op' = [op EXCEPT ![s] = Idle]
    /\ reply' = [reply EXCEPT ![s] = code]

GoTo(s, pc) ==
    /\ op' = [op EXCEPT ![s].pc = pc]
    /\ reply' = [reply EXCEPT ![s] = "pending"]

(***************************************************************************)
(* adf_next: evaluate, compile the Context and register it.  A repeated    *)
(* issue overwrites the entry and forgets its registered outputs.          *)
(***************************************************************************)
AdfNext(s) ==
    /\ op[s].pc = "idle"
    /\ \E k \in Selections(content, results) \ {None} :
          /\ issued' = [issued EXCEPT ![s][k] = NewEntry(framework)]
          /\ offered' = offered \cup {k}
    /\ reply' = [reply EXCEPT ![s] = "issued"]
    /\ UNCHANGED <<content, framework, results, op, correction, written>>

(***************************************************************************)
(* adf_submit.                                                             *)
(***************************************************************************)
SubmitStart(s, k, p, outs) ==
    /\ op[s].pc = "idle"
    /\ op' = [op EXCEPT ![s] =
                 [Idle EXCEPT !.pc = IF issued[s][k] # None THEN "load" ELSE "replay",
                              !.kind = "submit", !.key = k,
                              !.payload = p, !.outs = outs]]
    /\ reply' = [reply EXCEPT ![s] = "pending"]
    /\ UNCHANGED <<content, framework, results, issued, correction, offered, written>>

\* replay_submission: a stored Result for an Action this session does not hold.
Replay(s) ==
    LET stored == results[op[s].key]
    IN /\ op[s].pc = "replay"
       /\ \/ stored = None /\ GoTo(s, "resume")
          \/ /\ stored # None /\ SubmittedMatches(stored, op[s])
             /\ Answer(s, "already_completed")
          \/ /\ stored # None /\ ~SubmittedMatches(stored, op[s])
             /\ Answer(s, "WRITE_CONFLICT")
       /\ UNCHANGED <<content, framework, results, issued, correction, offered, written>>

\* A resume that only asks whether the Change has work left.
ResumableIfOpen(k, current) == current # None

\* Does evaluation issue this very Action and Context again?
Resumable(k, current) == current = k

\* resume: rebuild the entry of an Action the process no longer remembers.
Resume(s) ==
    /\ op[s].pc = "resume"
    /\ \E current \in Selections(content, results) :
          \/ /\ ~Resumable(op[s].key, current)
             /\ Answer(s, "ACTION_NOT_CURRENT")
             /\ UNCHANGED <<issued, offered>>
          \/ /\ Resumable(op[s].key, current)
             /\ issued' = [issued EXCEPT ![s][op[s].key] = NewEntry(framework)]
             /\ offered' = offered \cup {current}
             /\ GoTo(s, "load")
    /\ UNCHANGED <<content, framework, results, correction, written>>

\* Why submit refuses on the loaded snapshot, or "accepted".
SubmitVerdict(o, entry) ==
    IF ~OutputRefsValid(o, entry, content) THEN "OUTPUT_REF_INVALID"
    ELSE IF entry.framework # framework THEN "RELEASE_MISMATCH"
    ELSE IF ContextIsStale(o.key, content, Outputs(o.outs)) THEN "CONTEXT_STALE"
    ELSE IF \E r \in Outputs(o.outs) \cup Cited(o.key, o.payload) :
               DigestAt(content, r) = None THEN "INVALID_ARGUMENT"
    ELSE "accepted"

\* Load the snapshot, recognise a double submission, validate, prepare.
SubmitLoad(s) ==
    LET o == op[s]
        stored == results[o.key]
        verdict == SubmitVerdict(o, issued[s][o.key])
    IN /\ o.pc = "load" /\ o.kind = "submit"
       /\ \/ /\ stored # None /\ SubmittedMatches(stored, o)
             /\ issued' = [issued EXCEPT ![s][o.key] = None]
             /\ Answer(s, "already_completed")
          \/ /\ ~(stored # None /\ SubmittedMatches(stored, o))
             /\ verdict # "accepted"
             /\ Answer(s, verdict)
             /\ UNCHANGED issued
          \/ /\ ~(stored # None /\ SubmittedMatches(stored, o))
             /\ verdict = "accepted"
             /\ op' = [op EXCEPT ![s].pc = IF stored = None THEN "append" ELSE "replace",
                                 ![s].prepared = PrepareResult(o, content),
                                 ![s].existing = stored]
             /\ reply' = [reply EXCEPT ![s] = "pending"]
             /\ UNCHANGED issued
       /\ UNCHANGED <<content, framework, results, correction, offered, written>>

\* append_result: exclusive creation of the file, then the entry is consumed.
AppendResult(s) ==
    LET k == op[s].key
    IN /\ op[s].pc = "append"
       /\ \/ /\ results[k] # None
             /\ Answer(s, "WRITE_CONFLICT")
             /\ UNCHANGED <<results, issued>>
          \/ /\ results[k] = None
             /\ results' = [results EXCEPT ![k] = op[s].prepared]
             /\ issued' = [issued EXCEPT ![s][k] = None]
             /\ Answer(s, "stored")
       /\ UNCHANGED <<content, framework, correction, offered, written>>

\* A correction that trusts the snapshot it loaded.
StillTheLoadedResultUnchecked(o) == TRUE

\* Is the Result on disk the one the caller's snapshot held?
StillTheLoadedResult(o) == results[o.key] = o.existing

\* replace_result, first half: wait for result-corrections.lock, compare IDs.
\* "Result changed before correction" has no code of its own.
Compare(s) ==
    /\ op[s].pc = "replace"
    /\ correction = None
    /\ \/ /\ ~StillTheLoadedResult(op[s])
          /\ Answer(s, "INVALID_ARGUMENT")
          /\ UNCHANGED correction
       \/ /\ StillTheLoadedResult(op[s])
          /\ correction' = s
          /\ GoTo(s, "locked")
    /\ UNCHANGED <<content, framework, results, issued, offered, written>>

\* A correction whose lock outlives the call.
AfterOverwriteLeaked == correction

\* Dropping the lock file releases result-corrections.lock.
AfterOverwrite == None

\* replace_result, second half: publish the new file, drop the lock.
Overwrite(s) ==
    /\ op[s].pc = "locked"
    /\ results' = [results EXCEPT ![op[s].key] = op[s].prepared]
    /\ issued' = [issued EXCEPT ![s][op[s].key] = None]
    /\ correction' = AfterOverwrite
    /\ Answer(s, "stored")
    /\ UNCHANGED <<content, framework, offered, written>>

(***************************************************************************)
(* adf_add_evidence, adf_apply_decision and adf_apply_contract.            *)
(***************************************************************************)
KindOf(r) == IF r \in Contract THEN "contract"
             ELSE IF r \in Decision THEN "decision" ELSE "evidence"

WriteCall(pc, k, r, d, e) ==
    [Idle EXCEPT !.pc = pc, !.kind = KindOf(r), !.key = k, !.ref = r,
                 !.digest = d, !.expected = e]

WriteStart(s, k, r, d, e) ==
    /\ op[s].pc = "idle"
    /\ d \in Versions[r]
    /\ r \in Evidence => e = None
    /\ op' = [op EXCEPT ![s] =
                 WriteCall(IF issued[s][k] # None THEN "load" ELSE "resume", k, r, d, e)]
    /\ reply' = [reply EXCEPT ![s] = "pending"]
    /\ UNCHANGED <<content, framework, results, issued, correction, offered, written>>

\* A snapshot test that asks no Human.
SnapshotAllowsAnyDecision(o) ==
    o.kind = "contract" => \A d \in Authority[o.ref] : content[d] # None

\* What the loaded snapshot must hold before the Record may be written: the
\* Human answer a Decision resolves, the Decisions a Contract cites.
SnapshotAllows(o) ==
    /\ o.kind = "decision" =>
          \E k \in Key : k.action \in HumanAnswer[o.ref] /\ results[k] # None
    /\ o.kind = "contract" =>
          \A d \in Authority[o.ref] : content[d] # None

WriteVerdict(o, entry) ==
    IF o.ref \notin Writes[o.key.action] THEN "ACTION_NOT_ALLOWED"
    ELSE IF entry.framework # framework THEN "RELEASE_MISMATCH"
    ELSE IF ~SnapshotAllows(o) THEN "ACTION_NOT_ALLOWED"
    ELSE "allowed"

\* The checks of a write tool on the issued entry and the loaded snapshot.
WriteLoad(s) ==
    LET verdict == WriteVerdict(op[s], issued[s][op[s].key])
    IN /\ op[s].pc = "load" /\ op[s].kind # "submit"
       /\ \/ verdict # "allowed" /\ Answer(s, verdict)
          \/ verdict = "allowed" /\ GoTo(s, "write")
       /\ UNCHANGED <<content, framework, results, issued, correction, offered, written>>

\* validate_contract_update, validate_decision_update and the exclusive
\* creation of Evidence: may ref be written over what is on disk now?
UpdateVerdict(o) ==
    LET current == content[o.ref]
    IN CASE current = None /\ o.expected = None -> "stored"
         [] current = None /\ o.expected # None -> "CONTEXT_STALE"
         [] current # None /\ o.kind = "evidence" -> "WRITE_CONFLICT"
         [] current # None /\ o.kind # "evidence" /\ o.expected # None ->
               IF o.expected = current THEN "stored" ELSE "CONTEXT_STALE"
         [] current # None /\ o.kind # "evidence" /\ o.expected = None ->
               IF o.kind = "contract" /\ o.ref \notin Shared
               THEN "stored" ELSE "INVALID_ARGUMENT"

\* The compare and the replacement run under contract-updates.lock; then
\* register_output remembers the ref for submit.
RecordWrite(s) ==
    LET o == op[s]
    IN /\ o.pc = "write"
       /\ Answer(s, UpdateVerdict(o))
       /\ \/ /\ UpdateVerdict(o) = "stored"
             /\ content' = [content EXCEPT ![o.ref] = o.digest]
             /\ issued' = [issued EXCEPT ![s][o.key].outputs = @ \cup {o.ref}]
             /\ written' = written \cup {<<o.ref, o.digest>>}
          \/ /\ UpdateVerdict(o) # "stored"
             /\ UNCHANGED <<content, issued, written>>
       /\ UNCHANGED <<framework, results, correction, offered>>

------------------------------------------------------------------------------
\* adf_abandon_action forgets the entry.
Abandon(s, k) ==
    /\ op[s].pc = "idle" /\ issued[s][k] # None
    /\ issued' = [issued EXCEPT ![s][k] = None]
    /\ reply' = [reply EXCEPT ![s] = "abandoned"]
    /\ UNCHANGED <<content, framework, results, op, correction, offered, written>>

\* The process ends at any point of a call; a restart holds nothing.  The
\* operating system releases its file lock.
Crash(s) ==
    /\ op[s] # Idle \/ \E k \in Key : issued[s][k] # None
    /\ op' = [op EXCEPT ![s] = Idle]
    /\ reply' = [reply EXCEPT ![s] = "lost"]
    /\ issued' = [issued EXCEPT ![s] = [k \in Key |-> None]]
    /\ correction' = IF correction = s THEN None ELSE correction
    /\ UNCHANGED <<content, framework, results, offered, written>>

\* A person edits a file, switches a branch or deletes a Record.
Edit(r, d) ==
    /\ d # content[r] /\ d \in Versions[r] \cup {None}
    /\ r \in Code => d # None
    /\ content' = [content EXCEPT ![r] = d]
    /\ UNCHANGED <<framework, results, issued, op, reply, correction, offered, written>>

\* release switch or rollback takes the shared storage guard only.
SwitchFramework(f) ==
    /\ f # framework
    /\ framework' = f
    /\ UNCHANGED <<content, results, issued, op, reply, correction, offered, written>>

CallStep(s) ==
    \/ Replay(s) \/ Resume(s) \/ SubmitLoad(s) \/ AppendResult(s)
    \/ Compare(s) \/ Overwrite(s) \/ WriteLoad(s) \/ RecordWrite(s)

Next ==
    \/ \E s \in Session :
          \/ AdfNext(s)
          \/ \E k \in Key, p \in Payload, outs \in OutputList : SubmitStart(s, k, p, outs)
          \/ \E k \in Key, r \in Record, d \in Digest, e \in Digest \cup {None} :
                WriteStart(s, k, r, d, e)
          \/ CallStep(s)
          \/ \E k \in Key : Abandon(s, k)
          \/ Crash(s)
    \/ \E r \in Editable, d \in Digest \cup {None} : Edit(r, d)
    \/ \E f \in Framework : SwitchFramework(f)

Spec == Init /\ [][Next]_vars

(***************************************************************************)
(* A call runs to its answer unless the process ends.  Waiters of a file   *)
(* lock are woken in turn, so waiting for result-corrections.lock is fair  *)
(* even when other sessions take it in between.                            *)
(***************************************************************************)
FairSpec == /\ Spec
            /\ \A s \in Session : WF_vars(CallStep(s)) /\ SF_vars(Compare(s))

------------------------------------------------------------------------------
(***************************************************************************)
(* Properties.                                                             *)
(***************************************************************************)
Op == [pc : {"idle", "replay", "resume", "load", "append", "replace", "locked", "write"},
       kind : {"submit", "contract", "decision", "evidence", None},
       key : Key \cup {None}, payload : Payload \cup {None}, outs : Seq(Ref),
       ref : Record \cup {None}, digest : Digest \cup {None},
       expected : Digest \cup {None},
       prepared : Result \cup {None}, existing : Result \cup {None}]
ReplyCode == {"issued", "already_completed", "stored", "abandoned", "lost",
          "WRITE_CONFLICT", "ACTION_NOT_CURRENT", "ACTION_NOT_ALLOWED",
          "OUTPUT_REF_INVALID", "RELEASE_MISMATCH", "CONTEXT_STALE",
          "INVALID_ARGUMENT", "pending"}

\* Every variable has its type; in particular a stored Result binds each of
\* its freshness refs to a digest that existed.
TypeOK ==
    /\ content \in Content
    /\ framework \in Framework
    /\ results \in [Key -> Result \cup {None}]
    /\ issued \in [Session -> [Key -> Entry \cup {None}]]
    /\ op \in [Session -> Op]
    /\ reply \in [Session -> ReplyCode]
    /\ correction \in Session \cup {None}
    /\ offered \subseteq Key
    /\ written \subseteq Record \X Digest

\* "An agent cannot skip a step by forgetting one, or invent one the state does
\* not call for": a Result is stored only for an Action and Context that
\* evaluation issued, whatever key a client names and whatever crashed.
OnlyIssuedWorkIsStored == \A k \in Key : results[k] # None => k \in offered

\* The inputs a stored Result may have rebound to what its session saw last.
Rebound(result) ==
    result.outs \cup {r \in Index : IndexChangeIsOutput(r, result.outs)}

\* A Result that counts as fresh was issued on what is there now: apart from
\* the declared outputs, and the commit under an impact assessment, everything
\* its Context listed still has the digest the Context listed, however many
\* edits, corrections and restarts fell between issue, submit and evaluation.
FreshOnShownInputs ==
    \A k \in Key : results[k] # None /\ Fresh(results[k], content) =>
        /\ k \in offered
        /\ \A r \in DOMAIN k.sources \ (Rebound(results[k]) \cup Unbound(k)) :
              DigestAt(content, r) = k.sources[r]

\* A correction is never lost: a stored Result is replaced only by a session
\* whose snapshot held exactly that Result, while it holds the correction lock.
NoLostCorrection ==
    [][\A k \in Key : results[k] # None /\ results'[k] # results[k] =>
          \E s \in Session : /\ correction = s
                             /\ op[s].key = k
                             /\ op[s].existing = results[k]]_vars

\* An acknowledged submission is on disk: whoever is told "stored" or
\* "already completed" submitted the payload the file holds at that moment.
AcknowledgedIsStored ==
    [][\A s \in Session :
          /\ op[s].kind = "submit"
          /\ op[s] # op'[s]
          /\ reply'[s] \in {"stored", "already_completed"}
          => /\ results'[op[s].key] # None
             /\ results'[op[s].key].payload = op[s].payload
             /\ results'[op[s].key].outs = Outputs(op[s].outs)]_vars

\* No agent can record a Decision on its own: a Decision the tools wrote has a
\* stored Human answer to an Action evaluation issued, whatever was resumed,
\* corrected or replayed in between.
HumanBehindEveryDecision ==
    \A w \in written : w[1] \in Decision =>
        \E k \in offered : k.action \in HumanAnswer[w[1]] /\ results[k] # None

\* Evidence is append-only: two sessions that loaded before either wrote cannot
\* overwrite one another's Evidence.
EvidenceIsAppendOnly ==
    [][\A r \in Evidence \ Editable :
          content[r] # None => content'[r] = content[r]]_vars

\* The Result a session's correction is based on.
Seen == [s \in Session |->
            IF op[s].pc \in {"replace", "locked"}
            THEN [key |-> op[s].key, result |-> op[s].existing] ELSE None]

Ledger == INSTANCE ResultLedger WITH answers <- results, seen <- Seen

\* Loading, comparing under the lock and renaming amount to one atomic
\* compare-and-set of a register that only issued work may fill.
ImplementsLedger == Ledger!Spec

\* Every tool call is answered or ends with its process: no session waits for
\* result-corrections.lock for ever.
EveryCallEnds ==
    \A s \in Session : op[s].pc # "idle" ~> op[s].pc = "idle"

------------------------------------------------------------------------------
(***************************************************************************)
(* The inductive invariant: what a call in progress may rely on between    *)
(* its steps, whatever the other sessions and people do meanwhile.         *)
(***************************************************************************)
\* Outside the outputs, and but for the commit under an impact assessment, a
\* Result is bound to what the Context listed.
BoundToContext(k, result) ==
    \A r \in DOMAIN k.sources \ (Rebound(result) \cup Unbound(k)) :
        r \in DOMAIN result.fresh /\ result.fresh[r] = k.sources[r]

\* The arguments of a call are those its tool takes.
CallArguments(o) ==
    o.pc # "idle" =>
        /\ o.key \in Key
        /\ o.pc = "write" => o.kind # "submit"
        /\ o.kind = "submit" => o.payload \in Payload
        /\ o.kind # "submit" =>
              o.ref \in Record /\ o.digest \in Versions[o.ref] /\ o.kind = KindOf(o.ref)

\* Past resume the call works on an entry its session holds.
CallHoldsEntry(s) ==
    op[s].pc \in {"load", "append", "replace", "locked", "write"} =>
        issued[s][op[s].key] # None

\* What a submit carries from its load to its write.
CallHoldsResult(o) ==
    /\ o.pc = "replay" => o.kind = "submit"
    /\ o.pc \in {"append", "replace", "locked"} =>
          /\ o.kind = "submit"
          /\ o.prepared \in Result
          /\ o.prepared.payload = o.payload
          /\ o.prepared.outs = Outputs(o.outs)
          /\ BoundToContext(o.key, o.prepared)
    /\ o.pc \in {"replace", "locked"} => o.existing # None

\* The correction lock protects the Result its holder compared.
LockProtects(s) ==
    /\ op[s].pc = "locked" <=> correction = s
    /\ op[s].pc = "locked" => results[op[s].key] = op[s].existing

HumanAnswered(r) == \E k \in offered : k.action \in HumanAnswer[r] /\ results[k] # None

\* A Decision about to be written is backed by a stored Human answer.
DecisionIsBacked(o) ==
    o.pc = "write" /\ o.ref \in Decision => HumanAnswered(o.ref)

\* Between any two steps of any calls: held entries and stored Results are for
\* issued Contexts, stored Results are bound to them, Decisions have a Human
\* behind them, and each call has what its next step needs.
ProtocolInvariant ==
    /\ \A s \in Session, k \in Key : issued[s][k] # None => k \in offered
    /\ \A k \in Key : results[k] # None => k \in offered /\ BoundToContext(k, results[k])
    /\ \A w \in written : w[1] \in Decision => HumanAnswered(w[1])
    /\ \A s \in Session :
          /\ CallArguments(op[s]) /\ CallHoldsEntry(s) /\ CallHoldsResult(op[s])
          /\ LockProtects(s) /\ DecisionIsBacked(op[s])
==============================================================================
