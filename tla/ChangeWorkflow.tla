---------------------------- MODULE ChangeWorkflow ----------------------------
(***************************************************************************)
(* One Change from its registration to ready-to-merge.  The kernel         *)
(* evaluates the project and issues the Action it asks for; the processes  *)
(* hold what was issued until it is answered.  Agents and people answer    *)
(* with Results, Evidence, Decisions and Contract clauses, and everything  *)
(* they read may be edited meanwhile.                                      *)
(*                                                                         *)
(* A Result is a record of what it says and of the digests it rests on; it *)
(* is content-addressed and never changes, so a reference to a Result or   *)
(* to Evidence is always fresh and is left out of the digests.  Contents   *)
(* come from a small set, so an edit can be reverted and a stale Result    *)
(* become fresh again.                                                     *)
(***************************************************************************)
EXTENDS Naturals, FiniteSets

CONSTANTS
    Code,          \* repository artifacts of the reviewed observation
    Clause,        \* clauses the Contract can hold
    Subject,       \* what bindings, artifacts and clauses apply to
    Signal,        \* signals, each with one candidate of the detectors
    Question,      \* ids of decision requests
    Requirement,   \* Requirements of the compiled Rule index
    Rule,          \* [Requirement -> its definition and its activation rule]
    AppliesTo,     \* [Code \cup Clause -> subjects]
    BindsTo,       \* [Signal -> its subject]
    SeenIn,        \* [Signal -> the artifacts its candidate is found in]
    Mode,          \* [Clause -> effective evidence mode]
    Scoped,        \* some clause of the Contract has an applies_to of its own
    Explicit,      \* verification_scope of the Change
    Intended,      \* the sets of signals its intended effects may be about
    Content,       \* contents of documents
    First,         \* what a new clause says
    MaxBuilds,     \* bound: builds that change the code
    MaxHeld,       \* bound: issued Actions that processes hold at a time
    Kept,          \* bound: kinds of Actions held after another one is issued
    MaxTrouble,    \* bound: edits no Action asked for, and answers other than
                   \* a complete, positive one
    None           \* no content, no question, no key

Doc == {"change"} \cup Code \cup Clause
Ref == Doc \cup {"repository", "contract", "decisions"}
Phase == {"pre-build", "post-build"}

\* compile_rule_index: a Requirement with the one Rule that activates it: dependencies
\* are acyclic, Evidence-backed ones are the Builder's, subjects come from
\* the binding of the Rule's signal.
Definition == [when : Signal \cup {None}, only : Phase \cup {None},
               phase : {"before-build", "before-merge"},
               role : {"Analyst", "Builder", "Challenger"}, backed : BOOLEAN,
               needs : SUBSET Requirement, reads : SUBSET {"change", "code", "affected", "contract"}]

Acyclic ==
    ~ \E S \in (SUBSET Requirement) \ {{}} : \A r \in S : Rule[r].needs \cap S # {}

ASSUME WorkflowAssumption ==
    /\ Rule \in [Requirement -> Definition] /\ Acyclic
    /\ \A r \in Requirement : Rule[r].backed => Rule[r].role = "Builder"
    /\ AppliesTo \in [Code \cup Clause -> SUBSET Subject]
    /\ BindsTo \in [Signal -> Subject] /\ SeenIn \in [Signal -> SUBSET Code]
    /\ Mode \in [Clause -> {"direct", "inherited", "review"}]
    /\ Code \cap Clause = {}
    /\ {"change", "repository", "contract", "decisions"} \cap (Code \cup Clause) = {}
    /\ Scoped \in BOOLEAN /\ Explicit \subseteq Clause /\ Intended \subseteq SUBSET Signal
    /\ None \notin Content /\ First \in Content /\ MaxBuilds \in Nat /\ MaxTrouble \in Nat
    /\ MaxHeld \in Nat \ {0}

VARIABLES
    content,      \* [Doc -> what the document says; None: there is no such clause]
    detected,     \* signals whose candidate the detectors find in the code now
    complete,     \* the detectors cover every artifact
    phase,        \* phase of the reviewed repository observation
    required,     \* the Change says impact_assessment: required
    affects,      \* the signals its intended effects are about
    decided,      \* questions with an accepted Decision that a clause cites
    assessments,  \* result.impact-assessment
    reviews,      \* result.risk-signal-review, one entry per candidate
    outcomes,     \* outcomes of analyses, challenges and evidence Results
    requests,     \* decision requests in stored Results
    answers,      \* result.human-answer
    builds,       \* result.build
    evidence,     \* Evidence Records
    held,         \* issued Actions with their Contexts that a process holds
    late,         \* history: an assessment or a challenge of a dismissal was
                  \* answered although evaluation had ceased to ask for it
    trouble

intent == <<required, affects>>
project == <<content, detected, complete, phase, decided>>
results == <<assessments, reviews, outcomes, requests, answers, builds, evidence>>
vars == <<project, intent, results, held, late, trouble>>

(***************************************************************************)
(* Digests and freshness.                                                  *)
(***************************************************************************)
\* The Contract, the Decision index and the repository content digest what
\* they hold; everything else is a document.
Digest(r) ==
    IF r = "contract" THEN [c \in Clause |-> content[c]]
    ELSE IF r = "decisions" THEN decided
    ELSE IF r = "repository" THEN <<[c \in Code |-> content[c]], detected, complete>>
    ELSE content[r]

\* The digests of the references that exist.
Capture(R) == [r \in {r \in R : r \in Clause => content[r] # None} |-> Digest(r)]

Fresh(refs) == \A r \in DOMAIN refs : refs[r] = Digest(r)

(***************************************************************************)
(* Requirement instances.                                                  *)
(***************************************************************************)
Key(kind, on, at) == [kind |-> kind, on |-> on, at |-> at]
RuleKey(r) == Key("rule", r, None)
GovernanceKey(s) == Key("governance", s, None)
RevalidationKey(c) == Key("revalidate", c, None)
\* A key without the digest of the candidate.
ApplicabilityKeyOfSignal(s) == Key("applicability", s, None)
\* The digest of a candidate's evidence is part of its review's key.
ApplicabilityKey(s) == Key("applicability", s, [c \in SeenIn[s] |-> content[c]])

Built ==
    [governance |-> [s \in Signal |->
        [phase |-> "before-build", role |-> "Analyst", backed |-> FALSE, needs |-> {},
         reads |-> {"change", "contract"}, subjects |-> {BindsTo[s]}]],
     applicability |-> [s \in Signal |->
        [phase |-> "before-build", role |-> "Challenger", backed |-> FALSE, needs |-> {},
         reads |-> {"change", "code"}, subjects |-> {}]],
     revalidate |-> [c \in Clause |->
        [phase |-> "before-merge", role |-> "Builder", backed |-> TRUE, needs |-> {},
         reads |-> {"change", "affected", "contract"}, subjects |-> AppliesTo[c]]]]

FromRule == [r \in Requirement |->
    [phase |-> Rule[r].phase, role |-> Rule[r].role, backed |-> Rule[r].backed,
     needs |-> {RuleKey(q) : q \in Rule[r].needs}, reads |-> Rule[r].reads,
     subjects |-> IF Rule[r].when = None THEN {} ELSE {BindsTo[Rule[r].when]}]]

Of(k) == IF k.kind = "rule" THEN FromRule[k.on] ELSE Built[k.kind][k.on]

\* The clauses an instance is about: the one it names, or those that are
\* there and apply to one of its subjects.
Matching(k) ==
    {c \in Clause : /\ content[c] # None
                    /\ IF k.kind = "revalidate" THEN c = k.on
                       ELSE AppliesTo[c] \cap Of(k).subjects # {}}

Demanded(k) == {c \in Matching(k) : Mode[c] # "review"}

\* What its Context shows: context selectors over the project.
InstanceRefs(k) ==
    LET reads == Of(k).reads IN
    (IF "change" \in reads THEN {"change"} ELSE {})
    \cup (IF "code" \in reads THEN Code ELSE {})
    \cup (IF "affected" \in reads
          THEN {c \in Code : AppliesTo[c] \cap Of(k).subjects # {}} ELSE {})
    \cup (IF "contract" \in reads /\ Matching(k) # {}
          THEN IF Scoped THEN Matching(k) ELSE {"contract"} ELSE {})

\* Evidence recorded on exactly these inputs, which are still current.
EvidenceMatches(e, inputs) ==
    /\ \A r \in DOMAIN inputs : r \in DOMAIN e.inputs /\ e.inputs[r] = inputs[r]
    /\ Fresh(e.inputs)

HasCurrentEvidence(k, o) ==
    LET E == {e \in o.basis : e.passed /\ e.key = k /\ EvidenceMatches(e, o.inputs)} IN
    E # {} /\ Demanded(k) \subseteq UNION {e.claims : e \in E}

\* Without a look at the Evidence.
SatisfiedOnWord(k) ==
    \E o \in outcomes : o.key = k /\ o.status = "satisfied" /\ Fresh(o.refs)

IsSatisfied(k) ==
    \E o \in outcomes :
        /\ o.key = k /\ o.status = "satisfied" /\ Fresh(o.refs)
        /\ Of(k).backed => HasCurrentEvidence(k, o)

\* A build that is still fresh vouches for what its Context listed.
BaselineSatisfies(k) ==
    phase = "post-build" /\ \E b \in builds : Fresh(b.refs) /\ k \in b.baseline

(***************************************************************************)
(* Impact assessments and signal candidates.                               *)
(***************************************************************************)
FreshAssessments == {a \in assessments : a.conclusive /\ Fresh(a.refs)}
AssessmentPending == required /\ FreshAssessments = {}
Impacts == UNION {a.impacts : a \in FreshAssessments}
Ungoverned == UNION {a.impacts \ a.governed : a \in FreshAssessments}

CurrentReview(s, v) == v.signal = s /\ \A c \in SeenIn[s] : v.inputs[c] = content[c]

\* The newest usable review wins, whatever was confirmed before.
DispositionByEvidence(s) ==
    IF \E v \in reviews : CurrentReview(s, v) /\ v.status = "not-applicable"
    THEN "not-applicable"
    ELSE IF \E v \in reviews : v.signal = s /\ v.status = "confirmed"
    THEN "confirmed" ELSE "none"

\* A confirmation binds across changes of the code and wins; a dismissal
\* counts while the code it looked at is unchanged.
Disposition(s) ==
    IF \E v \in reviews : v.signal = s /\ v.status = "confirmed" THEN "confirmed"
    ELSE IF \E v \in reviews : CurrentReview(s, v) /\ v.status = "not-applicable"
    THEN "not-applicable" ELSE "none"

Unreviewed == {s \in detected : Disposition(s) = "none"}
Dismissed == {s \in detected : Disposition(s) = "not-applicable"}

ChallengerVerdicts(s) ==
    {o.status : o \in {o \in outcomes : o.key = ApplicabilityKey(s) /\ Fresh(o.refs)}}

\* A Challenger who does not support the dismissal confirms the signal.
Confirmed ==
    Impacts
    \cup {s \in detected : Disposition(s) = "confirmed"}
    \cup {s \in Dismissed : ChallengerVerdicts(s) \notin {{}, {"satisfied"}}}

Selected(r, confirmed) ==
    /\ Rule[r].when # None => Rule[r].when \in confirmed
    /\ Rule[r].only # None => Rule[r].only = phase
    /\ Rule[r].backed =>
          (Matching(RuleKey(r)) = {} \/ Demanded(RuleKey(r)) # {})

(***************************************************************************)
(* Contract health: the report the evaluation reads.                       *)
(***************************************************************************)
Verifications(c) ==
    {v \in evidence \X outcomes : c \in v[1].claims /\ v[1] \in v[2].basis}

\* The manifest of the outcome is current and names the Contract itself.
Current(o) == Fresh(o.refs) /\ "contract" \in DOMAIN o.refs

ClauseHealth(c) ==
    IF Mode[c] = "review" THEN "review"
    ELSE IF \E v \in Verifications(c) :
              /\ Current(v[2]) /\ v[1].passed
              /\ v[2].status = "satisfied" /\ v[1].key = v[2].key
    THEN "verified"
    ELSE IF \E v \in Verifications(c) : Current(v[2]) /\ ~v[1].passed THEN "failed"
    ELSE IF \E v \in Verifications(c) : ~Current(v[2]) THEN "stale"
    ELSE "unverified"

\* Clauses that selected work touches and that lost their verification.
Unhealthy(subjects) ==
    {c \in Clause : /\ content[c] # None /\ ClauseHealth(c) \in {"stale", "failed"}
                    /\ AppliesTo[c] \cap subjects # {}}

(***************************************************************************)
(* The evaluation.                                                         *)
(***************************************************************************)
Ruled ==
    (UNION {{RuleKey(r) : r \in {r \in Requirement : Selected(r, confirmed)}} :
                confirmed \in {Confirmed}})
    \cup {GovernanceKey(s) : s \in Ungoverned}
    \cup {ApplicabilityKey(s) : s \in Dismissed}

\* With the revalidations that the subjects of selected work call for.
WithRevalidations(K) ==
    K \cup {RevalidationKey(c) : c \in Unhealthy(UNION {Of(k).subjects : k \in K})}
      \cup {RevalidationKey(c) : c \in Explicit}

Instances == UNION {WithRevalidations(K) : K \in {Ruled}}

Resolved(k) ==
    IF k.kind = "applicability"
    THEN ChallengerVerdicts(k.on) # {} \/ BaselineSatisfies(k)
    ELSE IsSatisfied(k) \/ (Of(k).phase = "before-build" /\ BaselineSatisfies(k))

\* One role, and so one Result schema, at a time.
Batch(K) ==
    LET first == IF \E k \in K : Of(k).role = "Analyst" THEN "Analyst"
                 ELSE IF \E k \in K : Of(k).role = "Builder" THEN "Builder"
                 ELSE "Challenger"
    IN  {k \in K : Of(k).role = first}

\* A question stays open although its Decision is recorded.
RequestsEvenDecided == {q \in Question : \E r \in requests : r.question = q /\ Fresh(r.refs)}

\* A question in a fresh Result that no recorded Decision answers.
PendingRequests == {q \in Question \ decided : \E r \in requests : r.question = q /\ Fresh(r.refs)}
FirstRequest == CHOOSE q \in PendingRequests : TRUE
Answered(q) == \E a \in answers : a.question = q /\ Fresh(a.refs)

\* verification_scope names an unknown or a review-only clause.
ExplicitInvalid == \E c \in Explicit : content[c] = None \/ Mode[c] = "review"

Step(state, action, keys) == [state |-> state, action |-> action, keys |-> keys]

Unsatisfied == {k \in Instances : ~Resolved(k)}

\* The gates in their order.
Gate(open) ==
    LET of(kind) == {k \in open : k.kind = kind}
        before(p) == {k \in open : Of(k).phase = p}
        startable(p) == {k \in before(p) : Of(k).needs \cap open = {}}
    IN
    IF AssessmentPending THEN Step("needs-impact-assessment", "assess", {})
    ELSE IF ~complete THEN Step("blocked-detection", "none", {})
    ELSE IF ExplicitInvalid THEN Step("invalid", "none", {})
    ELSE IF Unreviewed # {} THEN Step("needs-analysis", "review", {})
    ELSE IF PendingRequests # {} /\ ~Answered(FirstRequest)
    THEN Step("needs-human-decision", "answer", {})
    ELSE IF PendingRequests # {}
    THEN Step("needs-decision-recording", "record-decision",
              {k \in before("before-build") : Of(k).role = "Analyst"})
    ELSE IF of("governance") # {} THEN Step("needs-analysis", "govern", of("governance"))
    ELSE IF of("applicability") # {}
    THEN Step("needs-pre-build-challenge", "work", of("applicability"))
    ELSE IF startable("before-build") # {}
    THEN Step("needs-analysis", "work", Batch(startable("before-build")))
    ELSE IF before("before-build") # {} THEN Step("invalid", "none", {})
    ELSE IF phase = "pre-build" THEN Step("ready-to-build", "implement", {})
    ELSE IF startable("before-merge") # {}
    THEN Step("needs-post-build-work", "work", Batch(startable("before-merge")))
    ELSE IF before("before-merge") # {} THEN Step("invalid", "none", {})
    ELSE Step("ready-to-merge", "none", {})

\* Unsatisfied is computed once for all the gates.
Evaluate == CHOOSE e \in {Gate(open) : open \in {Unsatisfied}} : TRUE

(***************************************************************************)
(* Actions and their Contexts.                                             *)
(***************************************************************************)
\* The whole of what implement-change reads: everything, or what the fresh
\* assessment is about.
ImplementationRefs ==
    LET subjects == {BindsTo[s] : s \in Impacts}
        about(x) == AppliesTo[x] \cap subjects # {}
    IN  IF FreshAssessments = {}
        THEN {"contract", "decisions"} \cup Code
        ELSE {c \in Code : about(c)}
             \cup (IF \E c \in Clause : content[c] # None /\ about(c)
                   THEN {"contract"} ELSE {})

ActionRefs(action) ==
    {"change"}
    \cup (IF action = "assess" THEN {"repository", "contract", "decisions"} ELSE {})
    \cup (IF action = "implement" THEN ImplementationRefs ELSE {})
    \cup (IF action = "review" THEN Code ELSE {})

SourceRefs(e) ==
    IF e.keys = {} THEN ActionRefs(e.action) ELSE UNION {InstanceRefs(k) : k \in e.keys}

\* Results the implementer is shown: all of them, unless there is a fresh
\* assessment, which then stands for them.
BaselineShown ==
    IF FreshAssessments = {}
    THEN {o.key : o \in {o \in outcomes : o.status = "satisfied"}} ELSE {}

JobFor(e) ==
    [action |-> e.action, keys |-> e.keys, refs |-> Capture(SourceRefs(e)),
     inst |-> [k \in e.keys |-> Capture(InstanceRefs(k))],
     signals |-> IF e.action = "review" THEN Unreviewed ELSE {},
     previous |-> IF e.action = "assess" THEN assessments ELSE {},
     question |-> IF e.action \in {"answer", "record-decision"} THEN FirstRequest ELSE None,
     baseline |-> IF e.action = "implement" THEN BaselineShown ELSE {},
     outputs |-> {}]

Init ==
    /\ content = [d \in Doc |-> IF d \in Clause \ Explicit THEN None ELSE First]
    /\ detected = {} /\ complete = TRUE /\ phase = "pre-build"
    /\ required \in BOOLEAN /\ affects \in (IF required THEN Intended ELSE {{}})
    /\ decided = {} /\ assessments = {} /\ reviews = {} /\ outcomes = {}
    /\ requests = {} /\ answers = {} /\ builds = {} /\ evidence = {}
    /\ held = {} /\ late = FALSE /\ trouble = 0

\* An issued Action that some process holds, apart from what was registered.
Asking(j) == [j EXCEPT !.outputs = {}]

\* What stays held of J when one more is issued: all of it, but for the bound.
Remaining(J) ==
    UNION {IF Cardinality(K) < MaxHeld THEN {K} ELSE {K \ {j} : j \in K} :
              K \in {{j \in J : j.action \in Kept}}}

\* adf_next: the current Action with its Context joins those a process holds.
\* Issued again, it starts without registered outputs; which of the others are
\* abandoned or end with their process is open.
Issue ==
    \E e \in {Evaluate} : \E now \in {JobFor(e)} :
        /\ e.action # "none" /\ now \notin held
        /\ \E J \in Remaining({j \in held : Asking(j) # now}) : held' = J \cup {now}
        /\ UNCHANGED <<project, intent, results, late, trouble>>

\* prepare_result: no input changed but the ones the Result lists as outputs,
\* and a change of an output is a change of the index it is in.  Whether the
\* Action is still asked for does not matter.
Submittable(j, actions) ==
    /\ j.action \in actions
    /\ \A r \in DOMAIN j.refs : j.refs[r] = Digest(r) \/ r \in j.outputs

\* Evaluation does not ask for it any more: there is a fresh assessment, or the
\* dismissal it challenges is resolved.
Superseded(j) == \/ j.action = "assess" /\ ~AssessmentPending
                 \/ \E k \in j.keys : k.kind = "applicability" /\ Resolved(k)

\* A submitted Action is held no longer.
Consume(j) ==
    /\ held' = held \ {j}
    /\ late' = (late \/ Superseded(j))

\* An Action that has written something remembers it.
Register(j, ref) ==
    /\ held' = (held \ {j}) \cup {[j EXCEPT !.outputs = @ \cup {ref}]}
    /\ UNCHANGED late

\* The inputs as issued, the outputs as they are.
Rebound(refs, outputs) ==
    [r \in DOMAIN refs \cup outputs |-> IF r \in outputs THEN Digest(r) ELSE refs[r]]

Troubled(yes) ==
    /\ yes => trouble < MaxTrouble
    /\ trouble' = IF yes THEN trouble + 1 ELSE trouble

\* An impact is governed by refs to clauses the Context offers.
Governable(s) == \E c \in Clause : content[c] # None /\ BindsTo[s] \in AppliesTo[c]

SubmitAssessment(j, I, conclusive) ==
    /\ Submittable(j, {"assess"})
    /\ Troubled(~conclusive \/ I # affects)
    /\ assessments' = assessments \cup
          {[impacts |-> I, governed |-> {s \in I : Governable(s)},
            conclusive |-> conclusive, refs |-> j.refs]}
    /\ Consume(j)
    /\ UNCHANGED <<project, intent, reviews, outcomes, requests, answers, builds,
                   evidence>>

\* Candidates that were offered, each once, confirmed or dismissed.
SubmitReview(j, S, status) ==
    /\ Submittable(j, {"review"})
    /\ S \subseteq j.signals /\ S # {}
    /\ Troubled(S # j.signals)
    /\ reviews' = reviews \cup
          {[signal |-> s, status |-> status, inputs |-> j.refs] : s \in S}
    /\ Consume(j)
    /\ UNCHANGED <<project, intent, assessments, outcomes, requests, answers, builds,
                   evidence>>

SubmitAnswer(j) ==
    /\ Submittable(j, {"answer"})
    /\ answers' = answers \cup {[question |-> j.question, refs |-> j.refs]}
    /\ Consume(j)
    /\ UNCHANGED <<project, intent, assessments, reviews, outcomes, requests, builds,
                   evidence, trouble>>

Outcome(k, status, refs, inputs, basis) ==
    [key |-> k, status |-> status, refs |-> refs, inputs |-> inputs, basis |-> basis]

\* The outputs that count for an instance: inputs of its own, or the Contract
\* when it reads Contracts and one matches it.
Relevant(j, k) ==
    {r \in j.outputs :
        \/ r \in DOMAIN j.inst[k]
        \/ r = "contract" /\ "contract" \in Of(k).reads /\ Matching(k) # {}}

\* An absent clause is added, a document gets other contents.
Rewrites(d) ==
    {[content EXCEPT ![d] = v] : v \in
        IF content[d] = None THEN {First} ELSE Content \ {content[d]}}

\* adf_apply_decision and adf_apply_contract: the Analyst writes a clause and,
\* for an answered question, the Decision the clause cites.  The Contract is
\* an output of the Action; its clauses cannot be listed as such.
WriteClause(j, c) ==
    /\ j.action \in {"record-decision", "govern"}
    /\ "contract" \notin j.outputs
    /\ content' \in Rewrites(c)
    /\ decided' = IF j.action = "govern" THEN decided ELSE decided \cup {j.question}
    /\ Register(j, "contract")
    /\ UNCHANGED <<detected, complete, phase, intent, results, trouble>>

Attested(j) == \A k \in j.keys : ~Of(k).backed

\* An analysis or a challenge; an Analyst may ask instead of concluding.
SubmitWork(j, K, q) ==
    /\ Submittable(j, {"work", "govern", "record-decision"}) /\ Attested(j)
    /\ K \subseteq j.keys
    /\ j.action # "work" => j.outputs # {}
    /\ Troubled(K # j.keys)
    /\ q # None => /\ K # j.keys /\ q \notin decided
                   /\ \A k \in j.keys : Of(k).role = "Analyst"
    /\ outcomes' = outcomes \cup
          {Outcome(k, IF k \in K THEN "satisfied" ELSE "unsatisfied",
                   Rebound(j.inst[k], Relevant(j, k)), j.inst[k], {}) : k \in j.keys}
    /\ requests' = requests \cup
          (IF q = None THEN {} ELSE {[question |-> q, refs |-> Rebound(j.refs, j.outputs)]})
    /\ Consume(j)
    /\ UNCHANGED <<project, intent, assessments, reviews, answers, builds, evidence>>

\* adf_add_evidence, for an instance of the Action.
AddEvidence(j, k, passed, claims) ==
    /\ j.action = "work" /\ k \in j.keys /\ Of(k).backed
    /\ claims \in {{}, Demanded(k)}
    /\ Troubled(~passed \/ claims # Demanded(k))
    /\ LET e == [key |-> k, inputs |-> j.inst[k], passed |-> passed, claims |-> claims]
       IN  e \notin evidence /\ evidence' = evidence \cup {e}
    /\ UNCHANGED <<project, intent, assessments, reviews, outcomes, requests, answers,
                   builds, held, late>>

\* The Evidence an outcome rests on: some of it must fit the inputs.
Basis(j, k) == {e \in evidence : e.key = k /\ EvidenceMatches(e, j.inst[k])}

Covered(j, k) ==
    LET E == {e \in Basis(j, k) : e.passed} IN
    E # {} /\ Demanded(k) \subseteq UNION {e.claims : e \in E}

SubmitEvidence(j) ==
    /\ Submittable(j, {"work"}) /\ ~Attested(j)
    /\ \A k \in j.keys : Basis(j, k) # {}
    /\ Troubled(\E k \in j.keys : ~Covered(j, k))
    /\ outcomes' = outcomes \cup
          {Outcome(k, IF \E e \in Basis(j, k) : e.passed THEN "satisfied" ELSE "unsatisfied",
                   j.inst[k], j.inst[k], Basis(j, k)) : k \in j.keys}
    /\ Consume(j)
    /\ UNCHANGED <<project, intent, assessments, reviews, requests, answers, builds,
                   evidence>>

\* The detectors see the code as it is: a candidate of a changed artifact
\* may appear or go.
Redetect(c) ==
    \E D \in SUBSET {s \in Signal : c \in SeenIn[s]} :
        detected' = {s \in detected : c \notin SeenIn[s]} \cup D

\* The Builder changes an artifact ...
Implement(j, c) ==
    /\ j.action = "implement" /\ c \notin j.outputs
    /\ Cardinality(builds) < MaxBuilds
    /\ content' \in Rewrites(c)
    /\ Redetect(c)
    /\ Register(j, c)
    /\ UNCHANGED <<complete, phase, decided, intent, results, trouble>>

\* ... and submits it as an output of implement-change.
SubmitBuild(j) ==
    /\ Submittable(j, {"implement"})
    /\ builds' = builds \cup
          {[refs |-> Rebound(j.refs, j.outputs), baseline |-> j.baseline]}
    /\ Consume(j)
    /\ UNCHANGED <<project, intent, assessments, reviews, outcomes, requests, answers,
                   evidence, trouble>>

(***************************************************************************)
(* People and tools around the Action.                                     *)
(***************************************************************************)
Edit(d) ==
    /\ Troubled(TRUE)
    /\ content' \in Rewrites(d)
    /\ IF d \in Code THEN Redetect(d) ELSE UNCHANGED detected
    /\ UNCHANGED <<complete, phase, decided, intent, results, held, late>>

LoseCoverage ==
    /\ complete /\ Troubled(TRUE)
    /\ complete' = FALSE
    /\ UNCHANGED <<content, detected, phase, decided, intent, results, held, late>>

RestoreCoverage ==
    /\ ~complete
    /\ complete' = TRUE
    /\ UNCHANGED <<content, detected, phase, decided, intent, results, held, late, trouble>>

\* The reviewed observation says post-build: too early, or after a build.
Observe(early) ==
    /\ phase = "pre-build"
    /\ early = (builds = {})
    /\ Troubled(early)
    /\ phase' = "post-build"
    /\ UNCHANGED <<content, detected, complete, decided, intent, results, held, late>>

Submit == \E j \in held :
    \/ \E I \in SUBSET Signal, b \in BOOLEAN : SubmitAssessment(j, I, b)
    \/ \E S \in SUBSET Signal, st \in {"confirmed", "not-applicable"} : SubmitReview(j, S, st)
    \/ SubmitAnswer(j)
    \/ \E c \in Clause : WriteClause(j, c)
    \/ \E K \in SUBSET j.keys, q \in Question \cup {None} : SubmitWork(j, K, q)
    \/ \E k \in j.keys, p \in BOOLEAN, C \in SUBSET Clause : AddEvidence(j, k, p, C)
    \/ SubmitEvidence(j)
    \/ \E c \in Code : Implement(j, c)
    \/ SubmitBuild(j)

Next ==
    \/ Issue \/ Submit
    \/ \E d \in Doc : Edit(d)
    \/ LoseCoverage \/ RestoreCoverage
    \/ \E early \in BOOLEAN : Observe(early)

Spec == Init /\ [][Next]_vars

\* Agents answer in the end, completely and positively; people record the
\* build and repair the detectors' coverage.
Answers == \E j \in held :
    \/ SubmitAssessment(j, affects, TRUE)
    \/ \E st \in {"confirmed", "not-applicable"} : SubmitReview(j, j.signals, st)
    \/ SubmitAnswer(j) \/ SubmitWork(j, j.keys, None)
    \/ \E c \in Clause : WriteClause(j, c)
    \/ \E k \in j.keys : AddEvidence(j, k, TRUE, Demanded(k))
    \/ SubmitEvidence(j) \/ SubmitBuild(j)

FairSpec == Spec /\ WF_vars(Issue) /\ WF_vars(Answers)
                 /\ WF_vars(RestoreCoverage \/ Observe(FALSE))

(***************************************************************************)
(* Properties.                                                             *)
(***************************************************************************)
TypeOK ==
    /\ content \in [Doc -> Content \cup {None}]
    /\ detected \subseteq Signal /\ complete \in BOOLEAN /\ phase \in Phase
    /\ required \in BOOLEAN /\ affects \subseteq Signal /\ decided \subseteq Question
    /\ \A a \in assessments : /\ a.governed \subseteq a.impacts /\ a.impacts \subseteq Signal
                              /\ DOMAIN a.refs \subseteq Ref
    /\ \A v \in reviews : v.signal \in Signal /\ SeenIn[v.signal] \subseteq DOMAIN v.inputs
    /\ \A o \in outcomes : /\ o.basis \subseteq evidence
                           /\ DOMAIN o.inputs \subseteq DOMAIN o.refs
    /\ \A j \in held :
          /\ DOMAIN j = {"action", "keys", "refs", "inst", "signals", "previous",
                         "question", "baseline", "outputs"}
          /\ j.keys = DOMAIN j.inst /\ j.signals \subseteq Signal
    /\ late \in BOOLEAN /\ trouble \in 0 .. MaxTrouble

Ready == phase = "post-build" /\ complete /\ Evaluate.state = "ready-to-merge"

\* Results are kept in the order of their content hash and the evaluation
\* takes the first it finds, so what it says is accidental unless there is one
\* answer to find: at most one conclusive assessment and one verdict on a
\* dismissal are fresh at a time, although edits are reverted and stale
\* Results come back.  The one way around it is a process that answers an
\* Action it was issued before and that nobody asks for any more, which
\* submit does not ask about (kernel.rs:523, 759; project_application.rs:307).
EvaluationIsDetermined ==
    ~late => /\ Cardinality(FreshAssessments) <= 1
             /\ \A s \in Signal : Cardinality(ChallengerVerdicts(s)) <= 1

\* A Change that is ready to merge with a detected signal whose Rules were not
\* applied has an Analyst's dismissal and a Challenger's consent, both given on
\* the very code in which the signal is found now: neither a build nor an edit
\* carries the consent over to other code (kernel.rs:207, 719, 1203).
DismissalIsIndependent ==
    Ready => \A s \in detected \ Confirmed :
        \E v \in reviews, o \in outcomes :
            /\ v.signal = s /\ v.status = "not-applicable"
            /\ o.key.kind = "applicability" /\ o.key.on = s /\ o.status = "satisfied"
            /\ \A c \in SeenIn[s] : v.inputs[c] = content[c] /\ o.inputs[c] = content[c]

\* Once an Analyst confirmed a signal, no later dismissal, edit or revert lets
\* the Change merge without the work its Rules demand, done on current inputs
\* or vouched for by the build (kernel.rs:670).
ConfirmedIsBinding ==
    Ready => \A r \in Requirement :
        /\ Rule[r].when \in detected
        /\ \E v \in reviews : v.signal = Rule[r].when /\ v.status = "confirmed"
        /\ Rule[r].only \in {None, phase}
        /\ Matching(RuleKey(r)) = {} \/ Demanded(RuleKey(r)) # {}
        => \/ \E o \in outcomes : /\ o.key = RuleKey(r) /\ o.status = "satisfied"
                                  /\ Fresh(o.inputs) \/ Fresh(o.refs)
           \/ Rule[r].phase = "before-build" /\ BaselineSatisfies(RuleKey(r))

\* Two reports agree: where the evaluation says ready-to-merge, every clause
\* whose verification selected work demands has passing Evidence, recorded for
\* that work on the code and clauses as they are, and the health report calls
\* it verified (kernel.rs:982, contract_health.rs:280).
ReadyIsVerified ==
    Ready => \A k \in Instances : \A c \in Demanded(k) :
        Of(k).backed =>
            /\ ClauseHealth(c) = "verified"
            /\ \E e \in evidence : /\ e.passed /\ e.key = k /\ c \in e.claims
                                   /\ Fresh(e.inputs)

\* When people stop editing and agents answer what they are asked, the Change
\* becomes ready to merge and stays so: no Requirement is issued for ever
\* because the answer to it, or to another one, makes it stale again
\* (kernel.rs:136).
EventuallyReady == <>[]Ready

------------------------------------------------------------------------------
(***************************************************************************)
(* The inductive invariant: what Results and issued Actions rest on.       *)
(***************************************************************************)
\* A conclusive assessment is the only one on its inputs, unless one was late.
AssessedOn == {"change", "repository", "contract", "decisions"}
AssessmentsDiffer ==
    /\ \A a \in assessments : a.refs = [r \in AssessedOn |-> a.refs[r]]
    /\ \A a, b \in assessments :
          ~late /\ a.conclusive /\ b.conclusive /\ a.refs = b.refs => a = b

\* A dismissal is challenged on the code its key names, a revalidation reads
\* the Contract.
InputsFit(k, inputs) ==
    /\ k.kind = "applicability" =>
          /\ k.on \in Signal
          /\ inputs = [r \in {"change"} \cup Code |-> inputs[r]]
          /\ k = Key("applicability", k.on, [c \in SeenIn[k.on] |-> inputs[c]])
    /\ k.kind = "revalidate" /\ ~Scoped => "contract" \in DOMAIN inputs

\* Challengers of one dismissal on the same inputs do not contradict each
\* other, unless one was late.
OutcomesAgree ==
    /\ \A o \in outcomes :
          /\ InputsFit(o.key, o.inputs)
          /\ o.key.kind = "applicability" => o.refs = o.inputs
    /\ \A o, p \in outcomes :
          ~late /\ o.key = p.key /\ o.key.kind = "applicability" /\ o.refs = p.refs
              => o.status = p.status

\* A build vouches for satisfied outcomes only.
SatisfiedKeys == {o.key : o \in {o \in outcomes : o.status = "satisfied"}}
BaselinesHold == \A b \in builds : b.baseline \subseteq SatisfiedKeys

\* What an issued Action keeps, however long a process holds it: the inputs of
\* its instances as its Context captured them, and what it may have written.
HeldFits(j) ==
    /\ j.action = "assess" => j.refs = [r \in AssessedOn |-> j.refs[r]]
    /\ j.action = "review" => Code \subseteq DOMAIN j.refs
    /\ j.action \in {"assess", "work"} => j.outputs = {}
    /\ j.action \in {"govern", "record-decision"} => j.outputs \subseteq {"contract"}
    /\ j.action = "record-decision" => j.question \in Question
    /\ j.baseline \subseteq SatisfiedKeys
    /\ \A k \in j.keys :
          /\ InputsFit(k, j.inst[k])
          /\ k.kind = "applicability" => j.action = "work"
          /\ \A r \in DOMAIN j.inst[k] : r \in DOMAIN j.refs /\ j.inst[k][r] = j.refs[r]
HeldFit == \A j \in held : HeldFits(j)

\* At every point of a Change: the evaluation has one answer to find, and what
\* an Analyst confirmed binds it (kernel.rs:136).
WorkflowInvariant ==
    /\ TypeOK /\ EvaluationIsDetermined /\ ConfirmedIsBinding
    /\ AssessmentsDiffer /\ OutcomesAgree /\ BaselinesHold /\ HeldFit
=============================================================================
