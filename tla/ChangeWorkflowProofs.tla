------------------------ MODULE ChangeWorkflowProofs ------------------------
(***************************************************************************)
(* Proofs about ChangeWorkflow, for any Rules, code, clauses, signals and  *)
(* number of edits: the evaluation has one answer to find, a confirmed     *)
(* signal binds, a dismissed one was challenged on the code as it is, and  *)
(* a Change that is ready to merge is verified.                            *)
(***************************************************************************)
EXTENDS ChangeWorkflow, FiniteSetTheorems, TLAPS

\* The inductive part of WorkflowInvariant.
IInv == TypeOK /\ AssessmentsDiffer /\ OutcomesAgree /\ BaselinesHold /\ HeldFit

------------------------------------------------------------------------------
(***************************************************************************)
(* Documents, digests and what an Action captures of them.                 *)
(***************************************************************************)
LEMMA Names ==
    /\ \A c \in Code : c \notin Clause /\ c # "change" /\ c # "repository" /\ c # "contract"
                       /\ c # "decisions"
    /\ \A r \in AssessedOn : r \notin Clause
    /\ "change" \notin Clause /\ "contract" \notin Clause /\ "contract" \notin Code
BY WorkflowAssumption DEF AssessedOn

LEMMA CodeDigest ==
    ASSUME NEW c \in Code
    PROVE  Digest(c) = content[c]
BY Names DEF Digest

LEMMA CaptureFacts ==
    ASSUME NEW R
    PROVE  /\ DOMAIN Capture(R) = {r \in R : r \in Clause => content[r] # None}
           /\ \A r \in DOMAIN Capture(R) : Capture(R)[r] = Digest(r)
           /\ Fresh(Capture(R))
BY DEF Capture, Fresh

LEMMA CaptureMore ==
    ASSUME NEW R, NEW S, R \subseteq S, NEW r \in DOMAIN Capture(R)
    PROVE  r \in DOMAIN Capture(S) /\ Capture(S)[r] = Capture(R)[r]
BY DEF Capture

LEMMA CaptureAll ==
    ASSUME NEW R, \A r \in R : r \notin Clause
    PROVE  /\ DOMAIN Capture(R) = R
           /\ Capture(R) = [r \in R |-> Capture(R)[r]]
BY DEF Capture

------------------------------------------------------------------------------
(***************************************************************************)
(* Requirement instances.                                                  *)
(***************************************************************************)
LEMMA BuiltFacts ==
    /\ \A k : k.kind = "applicability" /\ k.on \in Signal =>
          /\ Of(k).reads = {"change", "code"} /\ Of(k).subjects = {} /\ ~Of(k).backed
          /\ Of(k).phase = "before-build" /\ Of(k).role = "Challenger"
    /\ \A k : k.kind = "governance" /\ k.on \in Signal =>
          ~Of(k).backed /\ Of(k).phase = "before-build"
    /\ \A k : k.kind = "revalidate" /\ k.on \in Clause =>
          /\ Of(k).reads = {"change", "affected", "contract"} /\ Of(k).backed
          /\ Of(k).phase = "before-merge"
BY DEF Of, Built

LEMMA RuleFacts ==
    ASSUME NEW r \in Requirement
    PROVE  /\ RuleKey(r).kind = "rule"
           /\ Of(RuleKey(r)).phase = Rule[r].phase /\ Of(RuleKey(r)).backed = Rule[r].backed
           /\ Rule[r].phase \in {"before-build", "before-merge"}
<1>1. Rule[r] \in Definition
  BY WorkflowAssumption
<1>2. Rule[r].phase \in {"before-build", "before-merge"}
  BY <1>1 DEF Definition
<1>3. RuleKey(r).kind = "rule" /\ RuleKey(r).on = r
  BY DEF RuleKey, Key
<1>4. Of(RuleKey(r)) = FromRule[r]
  BY <1>3 DEF Of
<1>5. QED BY <1>2, <1>3, <1>4 DEF FromRule

LEMMA RuledFacts ==
    \A k : k \in Ruled <=>
        \/ \E r \in Requirement : Selected(r, Confirmed) /\ k = RuleKey(r)
        \/ \E s \in Ungoverned : k = GovernanceKey(s)
        \/ \E s \in Dismissed : k = ApplicabilityKey(s)
<1> DEFINE ruled(C) == {RuleKey(r) : r \in {r \in Requirement : Selected(r, C)}}
<1>1. Ruled = (UNION {ruled(C) : C \in {Confirmed}})
              \cup {GovernanceKey(s) : s \in Ungoverned}
              \cup {ApplicabilityKey(s) : s \in Dismissed}
  BY DEF Ruled
<1>2. UNION {ruled(C) : C \in {Confirmed}} = ruled(Confirmed)
  <2> HIDE DEF ruled
  <2>1. QED OBVIOUS
<1>3. \A k : k \in ruled(Confirmed) <=>
              \E r \in Requirement : Selected(r, Confirmed) /\ k = RuleKey(r)
  OBVIOUS
<1> HIDE DEF ruled
<1>4. QED BY <1>1, <1>2, <1>3

LEMMA RuledAreInstances == Ruled \subseteq Instances
<1>1. Instances = WithRevalidations(Ruled)
  BY DEF Instances
<1>2. QED BY <1>1 DEF WithRevalidations

\* Every instance comes from a Rule, an ungoverned impact, a dismissed signal
\* or a clause that is to be verified again.
LEMMA InstanceKinds ==
    ASSUME TypeOK, NEW k \in Instances
    PROVE  \/ \E r \in Requirement : k = RuleKey(r)
           \/ \E s \in Ungoverned : k = GovernanceKey(s)
           \/ \E s \in Dismissed : k = ApplicabilityKey(s)
           \/ \E c \in Clause : /\ k = RevalidationKey(c)
                                /\ c \in Explicit \/ content[c] # None
<1>1. Instances = WithRevalidations(Ruled)
  BY DEF Instances
<1>2. CASE k \in Ruled
  BY <1>2, RuledFacts
<1>3. CASE k \notin Ruled
  <2>1. \/ \E c \in Unhealthy(UNION {Of(q).subjects : q \in Ruled}) : k = RevalidationKey(c)
        \/ \E c \in Explicit : k = RevalidationKey(c)
    BY <1>1, <1>3 DEF WithRevalidations
  <2>2. \A S : \A c \in Unhealthy(S) : c \in Clause /\ content[c] # None
    BY DEF Unhealthy
  <2>3. QED BY <2>1, <2>2, WorkflowAssumption
<1>4. QED BY <1>2, <1>3

\* An assessment is about signals.
LEMMA UngovernedAreSignals ==
    ASSUME TypeOK
    PROVE  Ungoverned \subseteq Signal /\ Impacts \subseteq Signal
BY DEF Ungoverned, Impacts, FreshAssessments, TypeOK

LEMMA EvaluateIsGate == Evaluate = Gate(Unsatisfied)
BY DEF Evaluate

\* What the gates let through.
LEMMA GateFacts ==
    ASSUME NEW open
    PROVE  /\ Gate(open).keys \subseteq open
           /\ Gate(open).keys # {} => ~ExplicitInvalid
           /\ Gate(open).action = "work"
                 \/ \A k \in Gate(open).keys : k.kind = "governance" \/ Of(k).role = "Analyst"
           /\ Gate(open).action = "assess" => Gate(open).keys = {}
           /\ Gate(open).action = "review" => Gate(open).keys = {}
           /\ Gate(open).action = "record-decision" => PendingRequests # {}
           /\ Gate(open).state = "ready-to-merge" =>
                 /\ Unreviewed = {}
                 /\ \A k \in open : Of(k).phase \notin {"before-build", "before-merge"}
<1> HIDE DEF AssessmentPending, ExplicitInvalid, Unreviewed, PendingRequests, FirstRequest
<1>1. \A K : Batch(K) \subseteq K
  BY DEF Batch
<1>2. QED BY <1>1 DEF Gate, Step

\* What an evaluation issues, and when it says ready-to-merge.
LEMMA EvaluateFacts ==
    ASSUME TypeOK
    PROVE  /\ Evaluate.keys \subseteq Unsatisfied
           /\ \A k \in Evaluate.keys : k \in Instances /\ ~Resolved(k)
           /\ Evaluate.keys # {} => ~ExplicitInvalid
           /\ Evaluate.action = "work"
                 \/ \A k \in Evaluate.keys : k.kind = "governance" \/ Of(k).role = "Analyst"
           /\ Evaluate.action = "assess" => Evaluate.keys = {}
           /\ Evaluate.action = "review" => Evaluate.keys = {}
           /\ Evaluate.action = "record-decision" => FirstRequest \in Question
<1>1. Evaluate = Gate(Unsatisfied)
  BY EvaluateIsGate
<1>2. Evaluate.keys \subseteq Unsatisfied
  BY <1>1, GateFacts
<1>3. \A k \in Unsatisfied : k \in Instances /\ ~Resolved(k)
  BY DEF Unsatisfied
<1>4. PendingRequests # {} => FirstRequest \in Question
  BY DEF FirstRequest, PendingRequests
<1>5. QED BY <1>1, <1>2, <1>3, <1>4, GateFacts

LEMMA ReadyFacts ==
    ASSUME TypeOK, Ready
    PROVE  /\ \A k \in Instances : Resolved(k)
           /\ Unreviewed = {} /\ phase = "post-build"
<1>1. Evaluate.state = "ready-to-merge" /\ Evaluate = Gate(Unsatisfied) /\ phase = "post-build"
  BY EvaluateIsGate DEF Ready
<1>2. /\ Unreviewed = {}
      /\ \A k \in Unsatisfied : Of(k).phase \notin {"before-build", "before-merge"}
  BY <1>1, GateFacts
<1>3. \A k \in Instances : Of(k).phase \in {"before-build", "before-merge"}
  <2> SUFFICES ASSUME NEW k \in Instances
               PROVE  Of(k).phase \in {"before-build", "before-merge"}
    OBVIOUS
  <2>1. CASE \E r \in Requirement : k = RuleKey(r)
    BY <2>1, RuleFacts
  <2>2. CASE \E s \in Ungoverned : k = GovernanceKey(s)
    <3>1. PICK s \in Ungoverned : k = GovernanceKey(s)
      BY <2>2
    <3>2. s \in Signal
      BY UngovernedAreSignals
    <3>3. k.kind = "governance" /\ k.on = s
      BY <3>1 DEF GovernanceKey, Key
    <3>4. QED BY <3>2, <3>3, BuiltFacts
  <2>3. CASE \E s \in Dismissed : k = ApplicabilityKey(s)
    <3>1. PICK s \in Dismissed : k = ApplicabilityKey(s)
      BY <2>3
    <3>2. s \in Signal
      BY DEF Dismissed, TypeOK
    <3>3. k.kind = "applicability" /\ k.on = s
      BY <3>1 DEF ApplicabilityKey, Key
    <3>4. QED BY <3>2, <3>3, BuiltFacts
  <2>4. CASE \E c \in Clause : k = RevalidationKey(c)
    <3>1. PICK c \in Clause : k = RevalidationKey(c)
      BY <2>4
    <3>2. k.kind = "revalidate" /\ k.on = c
      BY <3>1 DEF RevalidationKey, Key
    <3>3. QED BY <3>2, BuiltFacts
  <2>5. QED BY <2>1, <2>2, <2>3, <2>4, InstanceKinds
<1>4. QED BY <1>1, <1>2, <1>3 DEF Unsatisfied

------------------------------------------------------------------------------
(***************************************************************************)
(* The beginning, and the types of a step.                                 *)
(***************************************************************************)
LEMMA InitIInv == ASSUME Init PROVE IInv
<1>1. TypeOK
  <2>1. content \in [Doc -> Content \cup {None}]
    BY WorkflowAssumption DEF Init
  <2>2. affects \subseteq Signal
    BY WorkflowAssumption DEF Init
  <2>3. trouble \in 0 .. MaxTrouble
    BY WorkflowAssumption DEF Init
  <2>4. QED BY <2>1, <2>2, <2>3 DEF Init, TypeOK, Phase
<1>2. AssessmentsDiffer /\ OutcomesAgree /\ BaselinesHold
  BY DEF Init, AssessmentsDiffer, OutcomesAgree, BaselinesHold
<1>3. HeldFit
  BY DEF Init, HeldFit
<1>4. QED BY <1>1, <1>2, <1>3 DEF IInv

LEMMA TroubledType ==
    ASSUME TypeOK, NEW yes, Troubled(yes)
    PROVE  trouble' \in 0 .. MaxTrouble
BY WorkflowAssumption DEF TypeOK, Troubled

LEMMA RewritesType ==
    ASSUME TypeOK, NEW d \in Doc, content' \in Rewrites(d)
    PROVE  content' \in [Doc -> Content \cup {None}]
<1>1. PICK v \in Content : content' = [content EXCEPT ![d] = v]
  BY WorkflowAssumption DEF Rewrites
<1>2. QED BY <1>1 DEF TypeOK

LEMMA RedetectType ==
    ASSUME TypeOK, NEW c, Redetect(c)
    PROVE  detected' \subseteq Signal
BY DEF TypeOK, Redetect

\* An issued Action keeps what it rests on.
LEMMA HeldLonger ==
    ASSUME NEW j, HeldFits(j), SatisfiedKeys \subseteq SatisfiedKeys'
    PROVE  HeldFits(j)'
BY DEF HeldFits, InputsFit

\* What it registers is no input of the instances of an analysis.
LEMMA Registered ==
    ASSUME TypeOK, HeldFit, NEW j \in held, NEW ref, NEW h,
           h = [j EXCEPT !.outputs = @ \cup {ref}],
           \/ j.action = "implement"
           \/ j.action \in {"govern", "record-decision"} /\ ref = "contract"
    PROVE  /\ HeldFits(h)
           /\ DOMAIN h = {"action", "keys", "refs", "inst", "signals", "previous",
                          "question", "baseline", "outputs"}
           /\ h.keys = DOMAIN h.inst /\ h.signals \subseteq Signal
<1>1. /\ DOMAIN j = {"action", "keys", "refs", "inst", "signals", "previous",
                     "question", "baseline", "outputs"}
      /\ j.keys = DOMAIN j.inst /\ j.signals \subseteq Signal
  BY DEF TypeOK
<1>2. /\ DOMAIN h = DOMAIN j /\ h.action = j.action /\ h.keys = j.keys /\ h.refs = j.refs
      /\ h.inst = j.inst /\ h.signals = j.signals /\ h.baseline = j.baseline
      /\ h.question = j.question /\ h.outputs = j.outputs \cup {ref}
  BY <1>1
<1>3. HeldFits(j)
  BY DEF HeldFit
<1>4. HeldFits(h)
  BY <1>2, <1>3 DEF HeldFits
<1>5. QED BY <1>1, <1>2, <1>4

\* What was stored stays as it was.
LEMMA StoredFacts ==
    ASSUME IInv, late => late'
    PROVE  /\ \A a \in assessments : /\ a.governed \subseteq a.impacts /\ a.impacts \subseteq Signal
                                     /\ DOMAIN a.refs \subseteq Ref
           /\ \A v \in reviews : v.signal \in Signal /\ SeenIn[v.signal] \subseteq DOMAIN v.inputs
           /\ \A o \in outcomes : o.basis \subseteq evidence /\ DOMAIN o.inputs \subseteq DOMAIN o.refs
           /\ assessments' = assessments => AssessmentsDiffer'
           /\ outcomes' = outcomes => OutcomesAgree' /\ (builds' = builds => BaselinesHold')
<1>1. ASSUME assessments' = assessments PROVE AssessmentsDiffer'
  BY <1>1 DEF IInv, AssessmentsDiffer
<1>2. ASSUME outcomes' = outcomes PROVE OutcomesAgree'
  BY <1>2 DEF IInv, OutcomesAgree, InputsFit
<1>3. ASSUME outcomes' = outcomes, builds' = builds PROVE BaselinesHold'
  BY <1>3 DEF IInv, BaselinesHold, SatisfiedKeys
<1>4. QED BY <1>1, <1>2, <1>3 DEF IInv, TypeOK

\* Changes of the project leave the Results and what an Action shows alone.
LEMMA ProjectStep ==
    ASSUME IInv, content' \in [Doc -> Content \cup {None}], detected' \subseteq Signal,
           complete' \in BOOLEAN, phase' \in Phase, decided' \subseteq Question,
           trouble' \in 0 .. MaxTrouble, UNCHANGED <<intent, results, late>>,
           \/ held' = held
           \/ \E j \in held : \E ref :
                 /\ Register(j, ref)
                 /\ \/ j.action = "implement"
                    \/ j.action \in {"govern", "record-decision"} /\ ref = "contract"
    PROVE  IInv'
<1>1. UNCHANGED <<required, affects, assessments, reviews, outcomes, requests, answers, builds,
                  evidence, late>>
  BY DEF intent, results
<1>2. TypeOK /\ HeldFit /\ SatisfiedKeys' = SatisfiedKeys
  BY <1>1 DEF IInv, SatisfiedKeys
<1>3. \A h \in held' :
         /\ HeldFits(h)
         /\ DOMAIN h = {"action", "keys", "refs", "inst", "signals", "previous",
                        "question", "baseline", "outputs"}
         /\ h.keys = DOMAIN h.inst /\ h.signals \subseteq Signal
  <2>1. \A h \in held :
           /\ HeldFits(h)
           /\ DOMAIN h = {"action", "keys", "refs", "inst", "signals", "previous",
                          "question", "baseline", "outputs"}
           /\ h.keys = DOMAIN h.inst /\ h.signals \subseteq Signal
    BY <1>2 DEF TypeOK, HeldFit
  <2>2. CASE held' = held
    BY <2>1, <2>2
  <2>3. CASE held' # held
    <3>0. PICK j \in held :
             \E ref : /\ Register(j, ref)
                      /\ \/ j.action = "implement"
                         \/ j.action \in {"govern", "record-decision"} /\ ref = "contract"
      BY <2>3
    <3>1. PICK ref : /\ Register(j, ref)
                     /\ \/ j.action = "implement"
                        \/ j.action \in {"govern", "record-decision"} /\ ref = "contract"
      BY <3>0
    <3>2. PICK n : n = [j EXCEPT !.outputs = @ \cup {ref}]
      OBVIOUS
    <3>3. held' = (held \ {j}) \cup {n}
      BY <3>1, <3>2 DEF Register
    <3>4. /\ HeldFits(n)
          /\ DOMAIN n = {"action", "keys", "refs", "inst", "signals", "previous",
                         "question", "baseline", "outputs"}
          /\ n.keys = DOMAIN n.inst /\ n.signals \subseteq Signal
      BY <1>2, <3>1, <3>2, Registered
    <3>5. QED BY <2>1, <3>3, <3>4
  <2>4. QED BY <2>2, <2>3
<1>4. TypeOK'
  BY <1>1, <1>3 DEF IInv, TypeOK
<1>5. AssessmentsDiffer' /\ OutcomesAgree' /\ BaselinesHold'
  BY <1>1, StoredFacts
<1>6. HeldFit'
  BY <1>2, <1>3, HeldLonger DEF HeldFit
<1>7. QED BY <1>4, <1>5, <1>6 DEF IInv

LEMMA PeoplePreserve ==
    ASSUME IInv
    PROVE  /\ \A d \in Doc : Edit(d) => IInv'
           /\ LoseCoverage => IInv'
           /\ RestoreCoverage => IInv'
           /\ \A early \in BOOLEAN : Observe(early) => IInv'
           /\ \A j \in held : \A c \in Clause : WriteClause(j, c) => IInv'
           /\ \A j \in held : \A c \in Code : Implement(j, c) => IInv'
<1>0. TypeOK /\ Clause \subseteq Doc /\ Code \subseteq Doc
  BY DEF IInv, Doc
<1>t. /\ content \in [Doc -> Content \cup {None}] /\ detected \subseteq Signal
      /\ complete \in BOOLEAN /\ phase \in Phase /\ decided \subseteq Question
      /\ trouble \in 0 .. MaxTrouble
  BY <1>0 DEF TypeOK
<1>1. ASSUME NEW d \in Doc, Edit(d) PROVE IInv'
  <2>1. content' \in [Doc -> Content \cup {None}] /\ trouble' \in 0 .. MaxTrouble
    BY <1>0, <1>1, RewritesType, TroubledType DEF Edit
  <2>2. detected' \subseteq Signal
    BY <1>0, <1>1, <1>t, RedetectType DEF Edit
  <2>3. QED BY <1>1, <1>t, <2>1, <2>2, ProjectStep DEF Edit
<1>2. ASSUME LoseCoverage PROVE IInv'
  <2>1. trouble' \in 0 .. MaxTrouble
    BY <1>0, <1>2, TroubledType DEF LoseCoverage
  <2>2. QED BY <1>2, <1>t, <2>1, ProjectStep DEF LoseCoverage
<1>3. ASSUME RestoreCoverage PROVE IInv'
  BY <1>3, <1>t, ProjectStep DEF RestoreCoverage
<1>4. ASSUME NEW early \in BOOLEAN, Observe(early) PROVE IInv'
  <2>1. trouble' \in 0 .. MaxTrouble
    BY <1>0, <1>4, TroubledType DEF Observe
  <2>2. QED BY <1>4, <1>t, <2>1, ProjectStep DEF Observe, Phase
<1>5. ASSUME NEW j \in held, NEW c \in Clause, WriteClause(j, c) PROVE IInv'
  <2>1. content' \in [Doc -> Content \cup {None}]
    BY <1>0, <1>5, RewritesType DEF WriteClause
  <2>2. decided' \subseteq Question
    BY <1>5, <1>t DEF WriteClause, IInv, HeldFit, HeldFits
  <2>3. Register(j, "contract") /\ j.action \in {"govern", "record-decision"} /\ late' = late
    BY <1>5 DEF WriteClause, Register
  <2>4. QED BY <1>5, <1>t, <2>1, <2>2, <2>3, ProjectStep DEF WriteClause
<1>6. ASSUME NEW j \in held, NEW c \in Code, Implement(j, c) PROVE IInv'
  <2>1. content' \in [Doc -> Content \cup {None}] /\ detected' \subseteq Signal
    BY <1>0, <1>6, RewritesType, RedetectType DEF Implement
  <2>2. Register(j, c) /\ j.action = "implement" /\ late' = late
    BY <1>6 DEF Implement, Register
  <2>3. QED BY <1>6, <1>t, <2>1, <2>2, ProjectStep DEF Implement
<1>7. QED BY <1>1, <1>2, <1>3, <1>4, <1>5, <1>6

------------------------------------------------------------------------------
(***************************************************************************)
(* Submissions.                                                            *)
(***************************************************************************)
\* A Result ends the Action it answers; the others stay as they were issued.
LEMMA AnsweredStep ==
    ASSUME IInv, UNCHANGED <<project, intent, evidence>>, NEW j, Consume(j),
           trouble' \in 0 .. MaxTrouble, outcomes \subseteq outcomes',
           \A a \in assessments' : /\ a.governed \subseteq a.impacts /\ a.impacts \subseteq Signal
                                   /\ DOMAIN a.refs \subseteq Ref,
           \A v \in reviews' : v.signal \in Signal /\ SeenIn[v.signal] \subseteq DOMAIN v.inputs,
           \A o \in outcomes' : o.basis \subseteq evidence /\ DOMAIN o.inputs \subseteq DOMAIN o.refs,
           AssessmentsDiffer', OutcomesAgree', BaselinesHold'
    PROVE  IInv'
<1>1. /\ UNCHANGED <<content, detected, complete, phase, decided, required, affects, evidence>>
      /\ held' \subseteq held /\ late' \in BOOLEAN
  BY DEF project, intent, Consume, IInv, TypeOK
<1>2. TypeOK'
  BY <1>1 DEF IInv, TypeOK
<1>3. HeldFit'
  <2>1. SatisfiedKeys \subseteq SatisfiedKeys'
    BY DEF SatisfiedKeys
  <2>2. QED BY <1>1, <2>1, HeldLonger DEF HeldFit, IInv
<1>4. QED BY <1>2, <1>3 DEF IInv

\* What answering an Action leaves of the others.
LEMMA Consumed ==
    ASSUME NEW j, Consume(j)
    PROVE  (late => late') /\ (~late' => ~late /\ ~Superseded(j))
BY DEF Consume

LEMMA SubmitAssessmentPreserves ==
    ASSUME IInv, NEW j \in held, NEW I \in SUBSET Signal, NEW conclusive \in BOOLEAN,
           SubmitAssessment(j, I, conclusive)
    PROVE  IInv'
<1>1. PICK new : new = [impacts |-> I, governed |-> {s \in I : Governable(s)},
                        conclusive |-> conclusive, refs |-> j.refs]
  OBVIOUS
<1>2. /\ assessments' = assessments \cup {new} /\ Consume(j) /\ j.action = "assess"
      /\ \A r \in DOMAIN j.refs : j.refs[r] = Digest(r) \/ r \in j.outputs
      /\ UNCHANGED <<project, intent, reviews, outcomes, requests, answers, builds, evidence>>
  BY <1>1 DEF SubmitAssessment, Submittable
<1>3. trouble' \in 0 .. MaxTrouble
  BY TroubledType DEF SubmitAssessment, IInv
<1>4. /\ new.governed \subseteq new.impacts /\ new.impacts \subseteq Signal
      /\ new.refs = j.refs
  BY <1>1
<1>5. j.refs = [r \in AssessedOn |-> j.refs[r]] /\ j.outputs = {}
  BY <1>2 DEF IInv, HeldFit, HeldFits
<1>6. DOMAIN new.refs \subseteq Ref
  <2>1. DOMAIN j.refs = AssessedOn
    BY <1>5
  <2>2. QED BY <1>4, <2>1 DEF AssessedOn, Ref, Doc
<1>7. AssessmentsDiffer'
  <2>1. \A a \in assessments' : a.refs = [r \in AssessedOn |-> a.refs[r]]
    BY <1>2, <1>4, <1>5 DEF IInv, AssessmentsDiffer
  <2>2. ASSUME ~late', NEW a \in assessments, a.conclusive PROVE a.refs # j.refs
    <3>1. FreshAssessments = {}
      BY <1>2, <2>2, Consumed DEF Superseded, AssessmentPending
    <3>2. Fresh(j.refs)
      BY <1>2, <1>5 DEF Fresh
    <3>3. QED BY <2>2, <3>1, <3>2 DEF FreshAssessments
  <2>3. \A a, b \in assessments' :
           ~late' /\ a.conclusive /\ b.conclusive /\ a.refs = b.refs => a = b
    BY <1>2, <1>4, <2>2, Consumed DEF IInv, AssessmentsDiffer
  <2>4. QED BY <2>1, <2>3 DEF AssessmentsDiffer
<1>8. \A a \in assessments' : /\ a.governed \subseteq a.impacts /\ a.impacts \subseteq Signal
                              /\ DOMAIN a.refs \subseteq Ref
  BY <1>2, <1>4, <1>6, StoredFacts, Consumed
<1>9. QED BY <1>2, <1>3, <1>7, <1>8, StoredFacts, Consumed, AnsweredStep

LEMMA SubmitReviewPreserves ==
    ASSUME IInv, NEW j \in held, NEW S \in SUBSET Signal, NEW status, SubmitReview(j, S, status)
    PROVE  IInv'
<1>1. /\ reviews' = reviews \cup {[signal |-> s, status |-> status, inputs |-> j.refs] : s \in S}
      /\ Consume(j) /\ j.action = "review"
      /\ UNCHANGED <<project, intent, assessments, outcomes, requests, answers, builds, evidence>>
  BY DEF SubmitReview, Submittable
<1>2. trouble' \in 0 .. MaxTrouble
  BY TroubledType DEF SubmitReview, IInv
<1>3. Code \subseteq DOMAIN j.refs
  BY <1>1 DEF IInv, HeldFit, HeldFits
<1>4. \A v \in reviews' : v.signal \in Signal /\ SeenIn[v.signal] \subseteq DOMAIN v.inputs
  BY <1>1, <1>3, StoredFacts, Consumed, WorkflowAssumption
<1>5. QED BY <1>1, <1>2, <1>4, StoredFacts, Consumed, AnsweredStep

LEMMA SubmitAnswerPreserves ==
    ASSUME IInv, NEW j \in held, SubmitAnswer(j)
    PROVE  IInv'
<1>1. trouble' \in 0 .. MaxTrouble
  BY DEF IInv, TypeOK, SubmitAnswer
<1>2. QED BY <1>1, StoredFacts, Consumed, AnsweredStep DEF SubmitAnswer

LEMMA SubmitBuildPreserves ==
    ASSUME IInv, NEW j \in held, SubmitBuild(j)
    PROVE  IInv'
<1>1. trouble' \in 0 .. MaxTrouble
  BY DEF IInv, TypeOK, SubmitBuild
<1>2. PICK new : new = [refs |-> Rebound(j.refs, j.outputs), baseline |-> j.baseline]
  OBVIOUS
<1>b. builds' = builds \cup {new} /\ new.baseline = j.baseline
  BY <1>2 DEF SubmitBuild
<1>3. j.baseline \subseteq SatisfiedKeys /\ outcomes' = outcomes
  BY DEF IInv, HeldFit, HeldFits, SubmitBuild
<1>4. BaselinesHold'
  BY <1>b, <1>3 DEF IInv, BaselinesHold, SatisfiedKeys
<1>5. QED BY <1>1, <1>4, StoredFacts, Consumed, AnsweredStep DEF SubmitBuild

\* Unless its challenge is late, nobody has answered a dismissal on the inputs
\* of the Action: it is about the code as it is, and no verdict on that is fresh.
LEMMA Unanswered ==
    ASSUME IInv, NEW j \in held, ~Superseded(j),
           \A r \in DOMAIN j.refs : j.refs[r] = Digest(r) \/ r \in j.outputs,
           NEW k \in j.keys, k.kind = "applicability",
           NEW o \in outcomes, o.key = k
    PROVE  o.refs # j.inst[k]
<1>1. PICK i : i = j.inst[k]
  OBVIOUS
<1>2. /\ InputsFit(k, i) /\ j.outputs = {}
      /\ \A r \in DOMAIN i : r \in DOMAIN j.refs /\ i[r] = j.refs[r]
  <2>1. HeldFits(j)
    BY DEF IInv, HeldFit
  <2>2. j.action = "work"
    BY <2>1 DEF HeldFits
  <2>3. j.outputs = {}
    BY <2>1, <2>2 DEF HeldFits
  <2>4. QED BY <1>1, <2>1, <2>3 DEF HeldFits
<1>3. /\ k.on \in Signal
      /\ i = [r \in {"change"} \cup Code |-> i[r]]
      /\ k = Key("applicability", k.on, [c \in SeenIn[k.on] |-> i[c]])
  BY <1>2 DEF InputsFit
<1>4. \A r \in DOMAIN i : i[r] = Digest(r)
  BY <1>2
<1>5. \A c \in SeenIn[k.on] : i[c] = content[c]
  BY <1>3, <1>4, CodeDigest, WorkflowAssumption
<1>6. [c \in SeenIn[k.on] |-> i[c]] = [c \in SeenIn[k.on] |-> content[c]]
  BY <1>5
<1>7. k = ApplicabilityKey(k.on)
  BY <1>3, <1>6 DEF ApplicabilityKey
<1>8. ChallengerVerdicts(k.on) = {}
  BY DEF Superseded, Resolved
<1>9. ~Fresh(o.refs)
  BY <1>7, <1>8 DEF ChallengerVerdicts
<1>10. QED BY <1>1, <1>4, <1>9 DEF Fresh

\* New outcomes of the instances of an Action, one for each.
LEMMA NewOutcomes ==
    ASSUME IInv, NEW j \in held, Consume(j),
           \A r \in DOMAIN j.refs : j.refs[r] = Digest(r) \/ r \in j.outputs,
           NEW N, outcomes' = outcomes \cup N, builds' = builds,
           \A o \in N :
              /\ o.key \in j.keys /\ o.inputs = j.inst[o.key]
              /\ o.key.kind = "applicability" => o.refs = j.inst[o.key],
           \A o, p \in N : o.key = p.key => o.status = p.status
    PROVE  OutcomesAgree' /\ BaselinesHold'
<1>1. \A o \in outcomes' : /\ InputsFit(o.key, o.inputs)
                           /\ o.key.kind = "applicability" => o.refs = o.inputs
  <2>1. \A k \in j.keys : InputsFit(k, j.inst[k])
    BY DEF IInv, HeldFit, HeldFits
  <2>2. QED BY <2>1 DEF IInv, OutcomesAgree
<1>2. ASSUME NEW o \in outcomes', NEW p \in outcomes', ~late', o.key = p.key,
             o.key.kind = "applicability", o.refs = p.refs
      PROVE  o.status = p.status
  <2>0. ~late /\ ~Superseded(j)
    BY <1>2, Consumed
  <2>1. CASE o \in N /\ p \in N
    BY <1>2, <2>1
  <2>2. CASE o \in N /\ p \in outcomes
    BY <1>2, <2>0, <2>2, Unanswered
  <2>3. CASE o \in outcomes /\ p \in N
    BY <1>2, <2>0, <2>3, Unanswered
  <2>4. CASE o \in outcomes /\ p \in outcomes
    BY <1>2, <2>0, <2>4 DEF IInv, OutcomesAgree
  <2>5. QED BY <2>1, <2>2, <2>3, <2>4
<1>3. OutcomesAgree'
  BY <1>1, <1>2 DEF OutcomesAgree, InputsFit
<1>4. BaselinesHold'
  BY DEF IInv, BaselinesHold, SatisfiedKeys
<1>5. QED BY <1>3, <1>4

\* The outputs of an Action do not count for the challenge of a dismissal.
LEMMA ReboundFacts ==
    ASSUME IInv, NEW j \in held, NEW k \in j.keys
    PROVE  /\ DOMAIN j.inst[k] \subseteq DOMAIN Rebound(j.inst[k], Relevant(j, k))
           /\ k.kind = "applicability" => Rebound(j.inst[k], Relevant(j, k)) = j.inst[k]
<1>1. DOMAIN j.inst[k] \subseteq DOMAIN Rebound(j.inst[k], Relevant(j, k))
  BY DEF Rebound
<1>2. ASSUME k.kind = "applicability" PROVE Rebound(j.inst[k], Relevant(j, k)) = j.inst[k]
  <2>1. PICK i : i = j.inst[k]
    OBVIOUS
  <2>2. InputsFit(k, i) /\ j.outputs = {}
    BY <1>2, <2>1 DEF IInv, HeldFit, HeldFits
  <2>3. Relevant(j, k) = {} /\ i = [r \in {"change"} \cup Code |-> i[r]]
    BY <1>2, <2>2 DEF Relevant, InputsFit
  <2>4. Rebound(i, {}) = [r \in DOMAIN i |-> i[r]]
    BY DEF Rebound
  <2>5. QED BY <2>1, <2>3, <2>4
<1>3. QED BY <1>1, <1>2

LEMMA SubmitWorkPreserves ==
    ASSUME IInv, NEW j \in held, NEW K \in SUBSET j.keys, NEW q, SubmitWork(j, K, q)
    PROVE  IInv'
<1> DEFINE new(k) == Outcome(k, IF k \in K THEN "satisfied" ELSE "unsatisfied",
                             Rebound(j.inst[k], Relevant(j, k)), j.inst[k], {})
<1>1. /\ outcomes' = outcomes \cup {new(k) : k \in j.keys} /\ Consume(j)
      /\ \A r \in DOMAIN j.refs : j.refs[r] = Digest(r) \/ r \in j.outputs
      /\ UNCHANGED <<project, intent, assessments, reviews, answers, builds, evidence>>
  BY DEF SubmitWork, Submittable
<1>2. trouble' \in 0 .. MaxTrouble
  BY TroubledType DEF SubmitWork, IInv
<1>3. ASSUME NEW k \in j.keys
      PROVE  /\ new(k).key = k /\ new(k).inputs = j.inst[k] /\ new(k).basis = {}
             /\ new(k).refs = Rebound(j.inst[k], Relevant(j, k))
             /\ new(k).status = IF k \in K THEN "satisfied" ELSE "unsatisfied"
  BY DEF Outcome
<1> HIDE DEF new
<1>4. PICK N : N = {new(k) : k \in j.keys}
  OBVIOUS
<1>5. \A o \in N : /\ o.key \in j.keys /\ o.inputs = j.inst[o.key] /\ o.basis = {}
                   /\ o.refs = Rebound(j.inst[o.key], Relevant(j, o.key))
                   /\ o.status = IF o.key \in K THEN "satisfied" ELSE "unsatisfied"
  BY <1>3, <1>4
<1>6. \A o \in N : /\ o.key.kind = "applicability" => o.refs = j.inst[o.key]
                   /\ DOMAIN o.inputs \subseteq DOMAIN o.refs
  BY <1>5, ReboundFacts
<1>7. \A o \in outcomes' : o.basis \subseteq evidence /\ DOMAIN o.inputs \subseteq DOMAIN o.refs
  BY <1>1, <1>4, <1>5, <1>6, StoredFacts, Consumed
<1>8. \A o, p \in N : o.key = p.key => o.status = p.status
  BY <1>5
<1>9. outcomes' = outcomes \cup N /\ builds' = builds
  BY <1>1, <1>4
<1>10. OutcomesAgree' /\ BaselinesHold'
  <2>1. \A o \in N : /\ o.key \in j.keys /\ o.inputs = j.inst[o.key]
                     /\ o.key.kind = "applicability" => o.refs = j.inst[o.key]
    BY <1>5, <1>6
  <2>2. QED BY <1>1, <1>8, <1>9, <2>1, NewOutcomes
<1>11. QED BY <1>1, <1>2, <1>7, <1>9, <1>10, StoredFacts, Consumed, AnsweredStep

LEMMA SubmitEvidencePreserves ==
    ASSUME IInv, NEW j \in held, SubmitEvidence(j)
    PROVE  IInv'
<1> DEFINE new(k) ==
        Outcome(k, IF \E e \in Basis(j, k) : e.passed THEN "satisfied" ELSE "unsatisfied",
                j.inst[k], j.inst[k], Basis(j, k))
<1>1. /\ outcomes' = outcomes \cup {new(k) : k \in j.keys} /\ Consume(j)
      /\ \A r \in DOMAIN j.refs : j.refs[r] = Digest(r) \/ r \in j.outputs
      /\ UNCHANGED <<project, intent, assessments, reviews, requests, answers, builds, evidence>>
  BY DEF SubmitEvidence, Submittable
<1>2. trouble' \in 0 .. MaxTrouble
  BY TroubledType DEF SubmitEvidence, IInv
<1>3. ASSUME NEW k \in j.keys
      PROVE  /\ new(k).key = k /\ new(k).inputs = j.inst[k] /\ new(k).basis \subseteq evidence
             /\ new(k).refs = j.inst[k]
             /\ new(k).status = IF \E e \in Basis(j, k) : e.passed THEN "satisfied"
                                ELSE "unsatisfied"
  BY DEF Outcome, Basis
<1> HIDE DEF new
<1>4. PICK N : N = {new(k) : k \in j.keys}
  OBVIOUS
<1>5. \A o \in N : /\ o.key \in j.keys /\ o.inputs = j.inst[o.key]
                   /\ o.basis \subseteq evidence /\ o.refs = j.inst[o.key]
                   /\ o.status = IF \E e \in Basis(j, o.key) : e.passed THEN "satisfied"
                                 ELSE "unsatisfied"
  BY <1>3, <1>4
<1>6. \A o \in outcomes' : o.basis \subseteq evidence /\ DOMAIN o.inputs \subseteq DOMAIN o.refs
  BY <1>1, <1>4, <1>5, StoredFacts, Consumed
<1>7. \A o, p \in N : o.key = p.key => o.status = p.status
  BY <1>5
<1>8. outcomes' = outcomes \cup N /\ builds' = builds
  BY <1>1, <1>4
<1>9. OutcomesAgree' /\ BaselinesHold'
  <2>1. \A o \in N : /\ o.key \in j.keys /\ o.inputs = j.inst[o.key]
                     /\ o.key.kind = "applicability" => o.refs = j.inst[o.key]
    BY <1>5
  <2>2. QED BY <1>1, <1>7, <1>8, <2>1, NewOutcomes
<1>10. QED BY <1>1, <1>2, <1>6, <1>8, <1>9, StoredFacts, Consumed, AnsweredStep

LEMMA AddEvidencePreserves ==
    ASSUME IInv, NEW j, NEW k, NEW passed, NEW claims, AddEvidence(j, k, passed, claims)
    PROVE  IInv'
<1>1. /\ UNCHANGED <<content, detected, complete, phase, decided, required, affects, assessments,
                     reviews, outcomes, builds, held, late>>
      /\ evidence \subseteq evidence'
  BY DEF AddEvidence, project, intent
<1>2. trouble' \in 0 .. MaxTrouble
  BY TroubledType DEF AddEvidence, IInv
<1>3. TypeOK'
  BY <1>1, <1>2 DEF IInv, TypeOK
<1>4. HeldFit'
  <2>1. SatisfiedKeys' = SatisfiedKeys
    BY <1>1 DEF SatisfiedKeys
  <2>2. QED BY <1>1, <2>1, HeldLonger DEF HeldFit, IInv
<1>5. QED BY <1>1, <1>3, <1>4, StoredFacts DEF IInv

------------------------------------------------------------------------------
(***************************************************************************)
(* Issuing an Action.                                                      *)
(***************************************************************************)
\* An instance is shown what its key names.
LEMMA InstanceFits ==
    ASSUME IInv, NEW k \in Instances, ~ExplicitInvalid
    PROVE  InputsFit(k, Capture(InstanceRefs(k)))
<1>0. TypeOK
  BY DEF IInv
<1>1. ASSUME k.kind = "applicability"
      PROVE  /\ k.on \in Signal
             /\ Capture(InstanceRefs(k)) =
                   [r \in {"change"} \cup Code |-> Capture(InstanceRefs(k))[r]]
             /\ k = Key("applicability", k.on,
                        [c \in SeenIn[k.on] |-> Capture(InstanceRefs(k))[c]])
  <2>1. PICK s \in Dismissed : k = ApplicabilityKey(s)
    BY <1>0, <1>1, InstanceKinds DEF RuleKey, GovernanceKey, RevalidationKey, Key
  <2>2. /\ s \in Signal /\ k.on = s
        /\ k = Key("applicability", s, [c \in SeenIn[s] |-> content[c]])
    BY <1>0, <2>1 DEF Dismissed, TypeOK, ApplicabilityKey, Key
  <2>3. Of(k).reads = {"change", "code"}
    BY <1>1, <2>2, BuiltFacts
  <2>4. InstanceRefs(k) = {"change"} \cup Code
    BY <2>3 DEF InstanceRefs
  <2>5. \A r \in {"change"} \cup Code : r \notin Clause
    BY Names
  <2>6. PICK i : i = Capture(InstanceRefs(k))
    OBVIOUS
  <2>7. /\ DOMAIN i = {"change"} \cup Code /\ i = [r \in {"change"} \cup Code |-> i[r]]
        /\ \A r \in {"change"} \cup Code : i[r] = Digest(r)
        /\ Fresh(i)
    <3>1. PICK R : R = {"change"} \cup Code
      OBVIOUS
    <3>2. i = Capture(R) /\ \A r \in R : r \notin Clause
      BY <2>4, <2>5, <2>6, <3>1
    <3>3. DOMAIN i = R /\ i = [r \in R |-> i[r]]
      BY <3>2, CaptureAll
    <3>4. Fresh(i) /\ \A r \in DOMAIN i : i[r] = Digest(r)
      BY <3>2, CaptureFacts
    <3>5. QED BY <3>1, <3>3, <3>4
  <2>8. \A c \in SeenIn[s] : i[c] = content[c]
    BY <2>2, <2>7, CodeDigest, WorkflowAssumption
  <2>9. [c \in SeenIn[s] |-> i[c]] = [c \in SeenIn[s] |-> content[c]]
    BY <2>8
  <2>10. QED BY <2>2, <2>6, <2>7, <2>9
<1>2. ASSUME k.kind = "revalidate", ~Scoped
      PROVE  "contract" \in DOMAIN Capture(InstanceRefs(k))
  <2>1. PICK c \in Clause : k = RevalidationKey(c) /\ (c \in Explicit \/ content[c] # None)
    BY <1>0, <1>2, InstanceKinds DEF RuleKey, GovernanceKey, ApplicabilityKey, Key
  <2>2. content[c] # None
    BY <2>1 DEF ExplicitInvalid
  <2>3. k.on = c
    BY <2>1 DEF RevalidationKey, Key
  <2>4. "contract" \in Of(k).reads
    BY <1>2, <2>3, BuiltFacts
  <2>5. c \in Matching(k)
    BY <1>2, <2>2, <2>3 DEF Matching
  <2>6. "contract" \in InstanceRefs(k)
    BY <1>2, <2>4, <2>5 DEF InstanceRefs
  <2>7. QED BY <2>6, CaptureFacts, Names
<1>3. QED BY <1>1, <1>2 DEF InputsFit

\* What a new Action is about and rests on.
LEMMA IssuedFits ==
    ASSUME IInv, NEW j, j = JobFor(Evaluate)
    PROVE  /\ HeldFits(j)
           /\ DOMAIN j = {"action", "keys", "refs", "inst", "signals", "previous",
                          "question", "baseline", "outputs"}
           /\ j.keys = DOMAIN j.inst /\ j.signals \subseteq Signal
<1>0. TypeOK
  BY DEF IInv
<1>1. PICK e : e = Evaluate
  OBVIOUS
<1>2. /\ DOMAIN j = {"action", "keys", "refs", "inst", "signals", "previous",
                     "question", "baseline", "outputs"}
      /\ j.action = e.action /\ j.keys = e.keys /\ j.refs = Capture(SourceRefs(e))
      /\ DOMAIN j.inst = e.keys /\ \A k \in e.keys : j.inst[k] = Capture(InstanceRefs(k))
      /\ j.outputs = {}
  BY <1>1 DEF JobFor
<1>3. j.signals \subseteq Signal
  BY <1>0 DEF JobFor, Unreviewed, TypeOK
<1>4. j.baseline \subseteq SatisfiedKeys
  BY DEF JobFor, BaselineShown, SatisfiedKeys
<1>5. e.action = "record-decision" => j.question \in Question
  BY <1>0, <1>1, EvaluateFacts DEF JobFor
<1>6. \A k \in e.keys : InputsFit(k, j.inst[k])
  BY <1>0, <1>1, <1>2, EvaluateFacts, InstanceFits
<1>7. ASSUME e.action = "assess" PROVE j.refs = [r \in AssessedOn |-> j.refs[r]]
  <2>1. e.keys = {}
    BY <1>0, <1>1, <1>7, EvaluateFacts
  <2>2. SourceRefs(e) = AssessedOn
    BY <1>7, <2>1 DEF SourceRefs, ActionRefs, AssessedOn
  <2>3. \A r \in AssessedOn : r \notin Clause
    BY Names
  <2>4. QED BY <1>2, <2>2, <2>3, CaptureAll
<1>8. ASSUME e.action = "review" PROVE Code \subseteq DOMAIN j.refs
  <2>1. e.keys = {}
    BY <1>0, <1>1, <1>8, EvaluateFacts
  <2>2. Code \subseteq SourceRefs(e)
    BY <1>8, <2>1 DEF SourceRefs, ActionRefs
  <2>3. PICK R : R = SourceRefs(e)
    OBVIOUS
  <2>4. DOMAIN Capture(R) = {r \in R : r \in Clause => content[r] # None}
    BY CaptureFacts
  <2>5. \A c \in Code : c \in R /\ c \notin Clause
    BY <2>2, <2>3, Names
  <2>6. QED BY <1>2, <2>3, <2>4, <2>5
<1>9. ASSUME NEW k \in e.keys, k.kind = "applicability" PROVE e.action = "work"
  <2>1. k.on \in Signal
    BY <1>6, <1>9 DEF InputsFit
  <2>2. Of(k).role = "Challenger"
    BY <1>9, <2>1, BuiltFacts
  <2>3. QED BY <1>0, <1>1, <1>9, <2>2, EvaluateFacts
<1>10. ASSUME NEW k \in e.keys, NEW r \in DOMAIN j.inst[k]
       PROVE  r \in DOMAIN j.refs /\ j.inst[k][r] = j.refs[r]
  <2>1. InstanceRefs(k) \subseteq SourceRefs(e)
    <3>1. SourceRefs(e) = UNION {InstanceRefs(q) : q \in e.keys}
      BY <1>10 DEF SourceRefs
    <3>2. QED BY <3>1
  <2>2. PICK some, all : some = InstanceRefs(k) /\ all = SourceRefs(e)
    OBVIOUS
  <2>3. PICK i : i = j.inst[k]
    OBVIOUS
  <2>4. i = Capture(some) /\ j.refs = Capture(all) /\ some \subseteq all
    BY <1>2, <2>1, <2>2, <2>3
  <2>5. r \in DOMAIN Capture(some)
    BY <1>10, <2>3, <2>4
  <2>6. r \in DOMAIN Capture(all) /\ Capture(all)[r] = Capture(some)[r]
    BY <2>4, <2>5, CaptureMore
  <2>7. QED BY <2>3, <2>4, <2>6
<1>11. HeldFits(j)
  BY <1>2, <1>4, <1>5, <1>6, <1>7, <1>8, <1>9, <1>10 DEF HeldFits
<1>12. QED BY <1>2, <1>3, <1>11

LEMMA IssuePreserves ==
    ASSUME IInv, Issue
    PROVE  IInv'
<1>1. UNCHANGED <<content, detected, complete, phase, decided, required, affects, assessments,
                  reviews, outcomes, requests, answers, builds, evidence, late, trouble>>
  BY DEF Issue, project, intent, results
<1>2. PICK now : /\ now = JobFor(Evaluate)
                 /\ \E J \in Remaining({j \in held : Asking(j) # now}) : held' = J \cup {now}
  <2> HIDE DEF Evaluate, JobFor, Remaining, Asking
  <2>1. QED BY DEF Issue
<1>3. held' \subseteq held \cup {now}
  <2>1. \A S : \A J \in Remaining(S) : J \subseteq S
    BY DEF Remaining
  <2>2. QED BY <1>2, <2>1
<1>4. \A h \in held' :
         /\ HeldFits(h)
         /\ DOMAIN h = {"action", "keys", "refs", "inst", "signals", "previous",
                        "question", "baseline", "outputs"}
         /\ h.keys = DOMAIN h.inst /\ h.signals \subseteq Signal
  BY <1>2, <1>3, IssuedFits DEF IInv, TypeOK, HeldFit
<1>5. TypeOK'
  BY <1>1, <1>4 DEF IInv, TypeOK
<1>6. AssessmentsDiffer' /\ OutcomesAgree' /\ BaselinesHold'
  BY <1>1, StoredFacts
<1>7. HeldFit'
  <2>1. SatisfiedKeys' = SatisfiedKeys
    BY <1>1 DEF SatisfiedKeys
  <2>2. QED BY <1>4, <2>1, HeldLonger DEF HeldFit
<1>8. QED BY <1>5, <1>6, <1>7 DEF IInv

------------------------------------------------------------------------------
(***************************************************************************)
(* Every step.                                                             *)
(***************************************************************************)
LEMMA StutterPreserves ==
    ASSUME IInv, UNCHANGED vars
    PROVE  IInv'
<1>1. UNCHANGED <<project, intent, results, held, late, trouble>>
  BY DEF vars
<1>2. /\ content' \in [Doc -> Content \cup {None}] /\ detected' \subseteq Signal
      /\ complete' \in BOOLEAN /\ phase' \in Phase /\ decided' \subseteq Question
      /\ trouble' \in 0 .. MaxTrouble
  BY <1>1 DEF IInv, TypeOK, project
<1>3. QED BY <1>1, <1>2, ProjectStep

LEMMA StepPreserves ==
    ASSUME IInv, [Next]_vars
    PROVE  IInv'
<1>1. CASE Issue
  BY <1>1, IssuePreserves
<1>2. CASE Submit
  <2>1. PICK j \in held :
           \/ \E I \in SUBSET Signal, b \in BOOLEAN : SubmitAssessment(j, I, b)
           \/ \E S \in SUBSET Signal, st \in {"confirmed", "not-applicable"} :
                 SubmitReview(j, S, st)
           \/ SubmitAnswer(j)
           \/ \E c \in Clause : WriteClause(j, c)
           \/ \E K \in SUBSET j.keys, q \in Question \cup {None} : SubmitWork(j, K, q)
           \/ \E k \in j.keys, p \in BOOLEAN, C \in SUBSET Clause : AddEvidence(j, k, p, C)
           \/ SubmitEvidence(j)
           \/ \E c \in Code : Implement(j, c)
           \/ SubmitBuild(j)
    BY <1>2 DEF Submit
  <2>2. QED
    BY <2>1, SubmitAssessmentPreserves, SubmitReviewPreserves, SubmitAnswerPreserves,
       SubmitWorkPreserves, AddEvidencePreserves, SubmitEvidencePreserves,
       SubmitBuildPreserves, PeoplePreserve
<1>3. CASE (\E d \in Doc : Edit(d)) \/ LoseCoverage \/ RestoreCoverage
           \/ (\E early \in BOOLEAN : Observe(early))
  BY <1>3, PeoplePreserve
<1>4. QED BY <1>1, <1>2, <1>3, StutterPreserves DEF Next

LEMMA Inductive == Spec => []IInv
<1>1. Init => IInv
  BY InitIInv
<1>2. IInv /\ [Next]_vars => IInv'
  BY StepPreserves
<1>3. QED BY <1>1, <1>2, PTL DEF Spec

------------------------------------------------------------------------------
(***************************************************************************)
(* What the invariant says of one state.                                   *)
(***************************************************************************)
LEMMA AtMostOne ==
    ASSUME NEW S, \A x, y \in S : x = y
    PROVE  Cardinality(S) <= 1
<1>1. CASE S = {}
  BY <1>1, FS_EmptySet
<1>2. CASE S # {}
  <2>1. PICK x : S = {x}
    BY <1>2
  <2>2. QED BY <2>1, FS_Singleton
<1>3. QED BY <1>1, <1>2

LEMMA Determined == ASSUME IInv PROVE EvaluationIsDetermined
<1> SUFFICES ASSUME ~late
             PROVE  /\ Cardinality(FreshAssessments) <= 1
                    /\ \A s \in Signal : Cardinality(ChallengerVerdicts(s)) <= 1
  BY DEF EvaluationIsDetermined
<1>1. Cardinality(FreshAssessments) <= 1
  <2>1. ASSUME NEW a \in FreshAssessments, NEW b \in FreshAssessments PROVE a = b
    <3>1. /\ a \in assessments /\ b \in assessments /\ a.conclusive /\ b.conclusive
          /\ Fresh(a.refs) /\ Fresh(b.refs)
      BY DEF FreshAssessments
    <3>2. /\ a.refs = [r \in AssessedOn |-> a.refs[r]]
          /\ b.refs = [r \in AssessedOn |-> b.refs[r]]
      BY <3>1 DEF IInv, AssessmentsDiffer
    <3>3. \A r \in AssessedOn : a.refs[r] = Digest(r) /\ b.refs[r] = Digest(r)
      BY <3>1, <3>2 DEF Fresh
    <3>4. a.refs = b.refs
      BY <3>2, <3>3
    <3>5. QED BY <3>1, <3>4 DEF IInv, AssessmentsDiffer
  <2>2. QED BY <2>1, AtMostOne
<1>2. ASSUME NEW s \in Signal PROVE Cardinality(ChallengerVerdicts(s)) <= 1
  <2>1. ASSUME NEW o \in outcomes, NEW p \in outcomes, o.key = ApplicabilityKey(s),
               p.key = ApplicabilityKey(s), Fresh(o.refs), Fresh(p.refs)
        PROVE  o.status = p.status
    <3>1. o.key.kind = "applicability" /\ p.key.kind = "applicability"
      BY <2>1 DEF ApplicabilityKey, Key
    <3>2. /\ o.refs = [r \in {"change"} \cup Code |-> o.refs[r]]
          /\ p.refs = [r \in {"change"} \cup Code |-> p.refs[r]]
      BY <3>1 DEF IInv, OutcomesAgree, InputsFit
    <3>3. \A r \in {"change"} \cup Code : o.refs[r] = Digest(r) /\ p.refs[r] = Digest(r)
      BY <2>1, <3>2 DEF Fresh
    <3>4. o.refs = p.refs
      BY <3>2, <3>3
    <3>5. QED BY <2>1, <3>1, <3>4 DEF IInv, OutcomesAgree
  <2>2. \A x, y \in ChallengerVerdicts(s) : x = y
    BY <2>1 DEF ChallengerVerdicts
  <2>3. QED BY <2>2, AtMostOne
<1>3. QED BY <1>1, <1>2

\* The Rules of a confirmed signal are selected, and everything selected is
\* resolved when the Change is ready.
LEMMA Binding == ASSUME IInv PROVE ConfirmedIsBinding
<1> SUFFICES ASSUME Ready, NEW r \in Requirement, Rule[r].when \in detected,
                    \E v \in reviews : v.signal = Rule[r].when /\ v.status = "confirmed",
                    Rule[r].only \in {None, phase},
                    Matching(RuleKey(r)) = {} \/ Demanded(RuleKey(r)) # {}
             PROVE  \/ \E o \in outcomes : /\ o.key = RuleKey(r) /\ o.status = "satisfied"
                                           /\ Fresh(o.inputs) \/ Fresh(o.refs)
                    \/ Rule[r].phase = "before-build" /\ BaselineSatisfies(RuleKey(r))
  BY DEF ConfirmedIsBinding
<1>1. TypeOK
  BY DEF IInv
<1>2. Disposition(Rule[r].when) = "confirmed"
  BY DEF Disposition
<1>3. Rule[r].when \in Confirmed
  BY <1>2 DEF Confirmed
<1>4. Selected(r, Confirmed)
  BY <1>3 DEF Selected
<1>5. RuleKey(r) \in Ruled
  BY <1>4, RuledFacts
<1>6. RuleKey(r) \in Instances
  BY <1>5, RuledAreInstances
<1>7. Resolved(RuleKey(r))
  BY <1>1, <1>6, ReadyFacts
<1>8. IsSatisfied(RuleKey(r)) \/ (Rule[r].phase = "before-build" /\ BaselineSatisfies(RuleKey(r)))
  BY <1>7, RuleFacts DEF Resolved
<1>9. QED BY <1>8 DEF IsSatisfied

\* A dismissed signal has a review on the code as it is, and the outcome that
\* consents to the dismissal names that code in its key.
LEMMA Independent == ASSUME IInv PROVE DismissalIsIndependent
<1> SUFFICES ASSUME Ready, NEW s \in detected, s \notin Confirmed
             PROVE  \E v \in reviews, o \in outcomes :
                       /\ v.signal = s /\ v.status = "not-applicable"
                       /\ o.key.kind = "applicability" /\ o.key.on = s /\ o.status = "satisfied"
                       /\ \A c \in SeenIn[s] : v.inputs[c] = content[c] /\ o.inputs[c] = content[c]
  BY DEF DismissalIsIndependent
<1>1. TypeOK
  BY DEF IInv
<1>2. s \in Signal
  BY <1>1 DEF TypeOK
<1>3. Disposition(s) = "not-applicable"
  <2>1. Disposition(s) # "none"
    BY <1>1, ReadyFacts DEF Unreviewed
  <2>2. Disposition(s) # "confirmed"
    BY DEF Confirmed
  <2>3. QED BY <2>1, <2>2 DEF Disposition
<1>4. PICK v \in reviews : CurrentReview(s, v) /\ v.status = "not-applicable"
  BY <1>3 DEF Disposition
<1>5. s \in Dismissed
  BY <1>3 DEF Dismissed
<1>6. PICK k : k = ApplicabilityKey(s)
  OBVIOUS
<1>7. k.kind = "applicability" /\ k.on = s /\ k.at = [c \in SeenIn[s] |-> content[c]]
  BY <1>6 DEF ApplicabilityKey, Key
<1>8. k \in Ruled
  BY <1>5, <1>6, RuledFacts
<1>9. Resolved(k)
  BY <1>1, <1>8, RuledAreInstances, ReadyFacts
<1>10. \E o \in outcomes : o.key = k /\ o.status = "satisfied"
  <2>1. CASE ChallengerVerdicts(s) # {}
    <3>1. ChallengerVerdicts(s) = {"satisfied"}
      BY <1>5, <2>1 DEF Confirmed
    <3>2. QED BY <1>6, <3>1 DEF ChallengerVerdicts
  <2>2. CASE BaselineSatisfies(k)
    <3>1. PICK b \in builds : k \in b.baseline
      BY <2>2 DEF BaselineSatisfies
    <3>2. k \in SatisfiedKeys
      BY <3>1 DEF IInv, BaselinesHold
    <3>3. QED BY <3>2 DEF SatisfiedKeys
  <2>3. QED BY <1>7, <1>9, <2>1, <2>2 DEF Resolved
<1>11. PICK o \in outcomes : o.key = k /\ o.status = "satisfied"
  BY <1>10
<1>12. k.at = [c \in SeenIn[s] |-> o.inputs[c]]
  <2>1. InputsFit(o.key, o.inputs)
    BY DEF IInv, OutcomesAgree
  <2>2. k = Key("applicability", k.on, [c \in SeenIn[s] |-> o.inputs[c]])
    BY <1>7, <1>11, <2>1 DEF InputsFit
  <2>3. QED BY <2>2 DEF Key
<1>13. \A c \in SeenIn[s] : o.inputs[c] = content[c]
  <2> SUFFICES ASSUME NEW c \in SeenIn[s] PROVE o.inputs[c] = content[c]
    OBVIOUS
  <2>1. k.at[c] = content[c]
    BY <1>7
  <2>2. k.at[c] = o.inputs[c]
    BY <1>12
  <2>3. QED BY <2>1, <2>2
<1>14. v.signal = s /\ \A c \in SeenIn[s] : v.inputs[c] = content[c]
  BY <1>4 DEF CurrentReview
<1>15. QED BY <1>4, <1>7, <1>11, <1>13, <1>14

------------------------------------------------------------------------------
(***************************************************************************)
(* A Change that is ready to merge is verified.                            *)
(***************************************************************************)
\* Satisfied, Evidence-backed work has passing Evidence for each clause whose
\* verification it demands.
LEMMA SatisfiedHasEvidence ==
    ASSUME TypeOK, NEW k, Of(k).backed, IsSatisfied(k), NEW c \in Demanded(k)
    PROVE  \E o \in outcomes, e \in evidence :
              /\ o.key = k /\ o.status = "satisfied" /\ Fresh(o.refs)
              /\ e \in o.basis /\ e.passed /\ e.key = k /\ c \in e.claims /\ Fresh(e.inputs)
<1>1. PICK o \in outcomes : /\ o.key = k /\ o.status = "satisfied" /\ Fresh(o.refs)
                            /\ HasCurrentEvidence(k, o)
  BY DEF IsSatisfied
<1>2. PICK E : E = {e \in o.basis : e.passed /\ e.key = k /\ EvidenceMatches(e, o.inputs)}
  OBVIOUS
<1>3. Demanded(k) \subseteq UNION {e.claims : e \in E}
  BY <1>1, <1>2 DEF HasCurrentEvidence
<1>4. PICK e \in E : c \in e.claims
  BY <1>3
<1>5. e \in o.basis /\ e.passed /\ e.key = k /\ EvidenceMatches(e, o.inputs)
  BY <1>2
<1>6. e \in evidence
  BY <1>5 DEF TypeOK
<1>7. QED BY <1>1, <1>4, <1>5, <1>6 DEF EvidenceMatches

LEMMA RevalidationFacts ==
    ASSUME NEW c \in Clause
    PROVE  /\ RevalidationKey(c).kind = "revalidate" /\ RevalidationKey(c).on = c
           /\ Of(RevalidationKey(c)).backed /\ Of(RevalidationKey(c)).phase = "before-merge"
<1>1. RevalidationKey(c).kind = "revalidate" /\ RevalidationKey(c).on = c
  BY DEF RevalidationKey, Key
<1>2. QED BY <1>1, BuiltFacts

\* A clause whose revalidation is satisfied is verified: a revalidation reads
\* the Contract as a whole.
LEMMA RevalidatedIsVerified ==
    ASSUME IInv, ~Scoped, NEW c \in Clause, Mode[c] # "review", content[c] # None,
           IsSatisfied(RevalidationKey(c))
    PROVE  ClauseHealth(c) = "verified"
<1>1. PICK k : k = RevalidationKey(c)
  OBVIOUS
<1>2. k.kind = "revalidate" /\ k.on = c /\ Of(k).backed
  BY <1>1, RevalidationFacts
<1>3. c \in Demanded(k)
  BY <1>2 DEF Demanded, Matching
<1>4. TypeOK /\ IsSatisfied(k)
  BY <1>1 DEF IInv
<1>5. PICK o \in outcomes, e \in evidence :
              /\ o.key = k /\ o.status = "satisfied" /\ Fresh(o.refs)
              /\ e \in o.basis /\ e.passed /\ e.key = k /\ c \in e.claims /\ Fresh(e.inputs)
  BY <1>2, <1>3, <1>4, SatisfiedHasEvidence
<1>6. "contract" \in DOMAIN o.refs
  <2>1. InputsFit(k, o.inputs) /\ DOMAIN o.inputs \subseteq DOMAIN o.refs
    BY <1>4, <1>5 DEF IInv, OutcomesAgree, TypeOK
  <2>2. QED BY <1>2, <2>1 DEF InputsFit
<1>7. PICK v : v = <<e, o>>
  OBVIOUS
<1>8. v \in Verifications(c) /\ v[1] = e /\ v[2] = o
  BY <1>5, <1>7 DEF Verifications
<1>9. Current(v[2]) /\ v[1].passed /\ v[2].status = "satisfied" /\ v[1].key = v[2].key
  BY <1>5, <1>6, <1>8 DEF Current
<1>10. QED BY <1>8, <1>9 DEF ClauseHealth

\* A clause that selected work touches and that has passing Evidence is
\* verified, or it is to be revalidated.
LEMMA TouchedIsRevalidated ==
    ASSUME NEW k \in Ruled, k.kind # "revalidate", NEW c \in Demanded(k),
           NEW o \in outcomes, NEW e \in evidence, e \in o.basis, c \in e.claims, e.passed,
           o.status = "satisfied", e.key = o.key
    PROVE  ClauseHealth(c) = "verified" \/ RevalidationKey(c) \in Instances
<1>1. /\ c \in Clause /\ content[c] # None /\ Mode[c] # "review"
      /\ AppliesTo[c] \cap Of(k).subjects # {}
  BY DEF Demanded, Matching
<1>2. PICK v : v = <<e, o>>
  OBVIOUS
<1>3. v \in Verifications(c) /\ v[1] = e /\ v[2] = o
  BY <1>2 DEF Verifications
<1>4. ClauseHealth(c) \in {"verified", "failed", "stale"}
  BY <1>1, <1>3 DEF ClauseHealth
<1>5. PICK S : S = UNION {Of(q).subjects : q \in Ruled}
  OBVIOUS
<1>6. AppliesTo[c] \cap S # {}
  BY <1>1, <1>5
<1>7. CASE ClauseHealth(c) # "verified"
  <2>1. c \in Unhealthy(S)
    BY <1>1, <1>4, <1>6, <1>7 DEF Unhealthy
  <2>2. Instances = WithRevalidations(Ruled)
    BY DEF Instances
  <2>3. QED BY <1>5, <2>1, <2>2 DEF WithRevalidations
<1>8. QED BY <1>7

LEMMA Verified ==
    ASSUME ~Scoped, \A r \in Requirement : Rule[r].backed => Rule[r].phase = "before-merge",
           IInv
    PROVE  ReadyIsVerified
<1> SUFFICES ASSUME Ready, NEW k \in Instances, NEW c \in Demanded(k), Of(k).backed
             PROVE  /\ ClauseHealth(c) = "verified"
                    /\ \E e \in evidence : /\ e.passed /\ e.key = k /\ c \in e.claims
                                           /\ Fresh(e.inputs)
  BY DEF ReadyIsVerified
<1>0. TypeOK
  BY DEF IInv
<1>1. c \in Clause /\ content[c] # None /\ Mode[c] # "review"
  BY DEF Demanded, Matching
<1>2. \/ \E r \in Requirement : k = RuleKey(r)
      \/ \E q \in Clause : k = RevalidationKey(q)
  <2>1. CASE \E s \in Ungoverned : k = GovernanceKey(s)
    <3>1. PICK s \in Ungoverned : k = GovernanceKey(s)
      BY <2>1
    <3>2. k.kind = "governance" /\ k.on = s /\ s \in Signal
      BY <1>0, <3>1, UngovernedAreSignals DEF GovernanceKey, Key
    <3>3. QED BY <3>2, BuiltFacts
  <2>2. CASE \E s \in Dismissed : k = ApplicabilityKey(s)
    <3>1. PICK s \in Dismissed : k = ApplicabilityKey(s)
      BY <2>2
    <3>2. k.kind = "applicability" /\ k.on = s /\ s \in Signal
      BY <1>0, <3>1 DEF ApplicabilityKey, Key, Dismissed, TypeOK
    <3>3. QED BY <3>2, BuiltFacts
  <2>3. QED BY <1>0, <2>1, <2>2, InstanceKinds
<1>3. Of(k).phase = "before-merge" /\ k.kind \in {"rule", "revalidate"}
  BY <1>2, RuleFacts, RevalidationFacts
<1>4. \A q \in Instances : q.kind # "applicability" /\ Of(q).phase = "before-merge" =>
                              IsSatisfied(q)
  <2> SUFFICES ASSUME NEW q \in Instances, q.kind # "applicability", Of(q).phase = "before-merge"
               PROVE  IsSatisfied(q)
    OBVIOUS
  <2>1. Resolved(q)
    BY <1>0, ReadyFacts
  <2>2. QED BY <2>1 DEF Resolved
<1>5. IsSatisfied(k)
  BY <1>3, <1>4
<1>6. PICK o \in outcomes, e \in evidence :
              /\ o.key = k /\ o.status = "satisfied" /\ Fresh(o.refs)
              /\ e \in o.basis /\ e.passed /\ e.key = k /\ c \in e.claims /\ Fresh(e.inputs)
  BY <1>0, <1>5, SatisfiedHasEvidence
<1>7. RevalidationKey(c) \in Instances => ClauseHealth(c) = "verified"
  <2>1. HAVE RevalidationKey(c) \in Instances
  <2>2. IsSatisfied(RevalidationKey(c))
    BY <1>1, <1>4, <2>1, RevalidationFacts
  <2>3. QED BY <1>1, <2>2, RevalidatedIsVerified
<1>8. ClauseHealth(c) = "verified"
  <2>1. CASE \E q \in Clause : k = RevalidationKey(q)
    <3>1. PICK q \in Clause : k = RevalidationKey(q)
      BY <2>1
    <3>2. k.kind = "revalidate" /\ k.on = q
      BY <3>1, RevalidationFacts
    <3>3. c = q
      BY <3>2 DEF Demanded, Matching
    <3>4. QED BY <1>7, <3>1, <3>3
  <2>2. CASE \E r \in Requirement : k = RuleKey(r)
    <3>1. k.kind = "rule"
      BY <2>2, RuleFacts
    <3>2. k \in Ruled
      <4>1. \A q : RevalidationKey(q).kind = "revalidate"
        BY DEF RevalidationKey, Key
      <4>2. Instances = WithRevalidations(Ruled)
        BY DEF Instances
      <4>3. QED BY <3>1, <4>1, <4>2 DEF WithRevalidations
    <3>3. ClauseHealth(c) = "verified" \/ RevalidationKey(c) \in Instances
      BY <1>6, <3>1, <3>2, TouchedIsRevalidated
    <3>4. QED BY <1>7, <3>3
  <2>3. QED BY <1>2, <2>1, <2>2
<1>9. QED BY <1>6, <1>8

------------------------------------------------------------------------------
(***************************************************************************)
(* The theorems.                                                           *)
(***************************************************************************)
\* At every point of a Change, unless an Action was answered that nobody asks
\* for any more, the evaluation has one fresh assessment and one fresh verdict
\* to find, in whatever order the Results are stored.  In any case a
\* signal an Analyst confirmed keeps the Change from merging until the work
\* its Rules demand is done (kernel.rs:136, 523, 670, 759).
THEOREM WorkflowIsSafe == Spec => []WorkflowInvariant
<1>1. IInv => WorkflowInvariant
  BY Determined, Binding DEF IInv, WorkflowInvariant
<1>2. QED BY <1>1, Inductive, PTL

\* A Change that is ready to merge has, for every detected signal whose Rules
\* were not applied, an Analyst's dismissal and a Challenger's consent on the
\* code in which the signal is found now, whatever was built, edited or
\* reverted in between (kernel.rs:207, 719, 1203).
THEOREM DismissalsAreIndependent == Spec => []DismissalIsIndependent
<1>1. IInv => DismissalIsIndependent
  BY Independent
<1>2. QED BY <1>1, Inductive, PTL

\* The evaluation and the health report agree: unless clauses have scopes of
\* their own, and where every Evidence-backed Rule gates the merge, a Change
\* that is ready to merge has current passing Evidence for each clause its
\* work demands, and the report calls the clause verified (kernel.rs:982,
\* contract_health.rs:280).
THEOREM ReadyClausesAreVerified ==
    ASSUME ~Scoped, \A r \in Requirement : Rule[r].backed => Rule[r].phase = "before-merge"
    PROVE  Spec => []ReadyIsVerified
<1>1. IInv => ReadyIsVerified
  BY Verified
<1>2. QED BY <1>1, Inductive, PTL
=============================================================================
