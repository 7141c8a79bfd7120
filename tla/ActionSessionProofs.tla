------------------------- MODULE ActionSessionProofs -------------------------
(***************************************************************************)
(* Proofs about ActionSession, for any number of sessions, Actions, refs   *)
(* and digests.                                                            *)
(***************************************************************************)
EXTENDS ActionSession, TLAPS

(***************************************************************************)
(* Digests, Contexts and manifests.                                        *)
(***************************************************************************)
\* The digest a snapshot gives a ref or an index is a digest value.
LEMMA DigestAtType ==
    ASSUME NEW c \in Content, NEW r \in Ref \cup Index, DigestAt(c, r) # None
    PROVE  DigestAt(c, r) \in DigestValue
<1>1. ASSUME NEW records \in SUBSET Record
      PROVE  IndexOf(c, records) \in DigestValue
  <2>1. {x \in records : c[x] # None} \in SUBSET Record
    OBVIOUS
  <2>2. IndexOf(c, records) \in [{x \in records : c[x] # None} -> Digest]
    BY DEF IndexOf, Content, Ref, Record
  <2>3. QED BY <2>1, <2>2 DEF DigestValue
<1>2. CASE r = ContractIndex
  BY <1>1, <1>2 DEF DigestAt, Record
<1>3. CASE r # ContractIndex /\ r = DecisionIndex
  BY <1>1, <1>3 DEF DigestAt, Record
<1>4. CASE r # ContractIndex /\ r # DecisionIndex
  <2>1. r \in Ref BY <1>4 DEF Index
  <2>2. DigestAt(c, r) = c[r] BY <1>4 DEF DigestAt
  <2>3. QED BY <2>1, <2>2 DEF Content, DigestValue
<1>5. QED BY <1>2, <1>3, <1>4

\* A Context key names an Action and a manifest of its sources.
LEMMA KeyType ==
    ASSUME NEW k \in Key
    PROVE  k.action \in Action /\ k.sources \in Manifest
<1>1. PICK a \in Action, c \in Content : k = KeyFor(a, c)
  BY DEF Key
<1> DEFINE D == {x \in Reads[a] : DigestAt(c, x) # None}
<1>2. Reads[a] \subseteq Ref \cup Index
  BY ConstantAssumption
<1>3. \A r \in D : DigestAt(c, r) \in DigestValue
  BY <1>2, DigestAtType
<1>4. Sources(a, c) \in [D -> DigestValue]
  BY <1>3 DEF Sources
<1>5. D \in SUBSET (Ref \cup Index)
  BY <1>2
<1>6. Sources(a, c) \in Manifest
  BY <1>4, <1>5 DEF Manifest
<1>7. QED BY <1>1, <1>6 DEF KeyFor

\* What evaluation selects is a Context key, or nothing.
LEMMA SelectionsType ==
    ASSUME NEW c \in Content, NEW stored, NEW k \in Selections(c, stored)
    PROVE  k \in Key \cup {None}
<1>1. \A a \in Action : KeyFor(a, c) \in Key
  BY DEF Key
<1>2. k = None \/ \E a \in Action : k = KeyFor(a, c)
  BY DEF Selections
<1>3. QED BY <1>1, <1>2

\* The output set of a list of refs.
LEMMA OutputsType ==
    ASSUME NEW refs \in Seq(Ref)
    PROVE  Outputs(refs) \subseteq Ref
BY DEF Outputs

\* The lists an agent may send are sequences of refs.
LEMMA OutputListType == OutputList \subseteq Seq(Ref)
<1>1. ASSUME NEW refs \in OutputList PROVE refs \in Seq(Ref)
  <2>1. PICK n \in 0..MaxOutputs : refs \in [1..n -> Ref]
    BY DEF OutputList
  <2>2. n \in Nat
    BY ConstantAssumption
  <2>3. QED BY <2>1, <2>2
<1>2. QED BY <1>1

\* freshness_refs of existing outputs and cited inputs form a manifest, and
\* unless the Context is stale they are what it listed outside the outputs.
LEMMA PrepareResultType ==
    ASSUME NEW o, o.key \in Key, o.payload \in Payload, o.outs \in Seq(Ref),
           NEW c \in Content, ~ContextIsStale(o.key, c, Outputs(o.outs)),
           \A r \in Outputs(o.outs) \cup Cited(o.key, o.payload) : DigestAt(c, r) # None
    PROVE  /\ PrepareResult(o, c) \in Result
           /\ PrepareResult(o, c).payload = o.payload
           /\ PrepareResult(o, c).outs = Outputs(o.outs)
           /\ BoundToContext(o.key, PrepareResult(o, c))
<1> DEFINE outs == Outputs(o.outs)
           rebound == outs \cup {r \in Index : IndexChangeIsOutput(r, outs)}
           cited == Cited(o.key, o.payload)
           current == rebound \cup cited
           fresh == FreshnessRefs(o.key, c, outs, o.payload)
<1>1. outs \subseteq Ref
  BY OutputsType
<1>2. PICK D \in SUBSET (Ref \cup Index) : o.key.sources \in [D -> DigestValue]
  BY KeyType DEF Manifest
<1>3. cited \subseteq Ref \cup Index
  BY ConstantAssumption DEF Cited
<1>4. \A r \in current : DigestAt(c, r) \in DigestValue
  <2>1. \A r \in outs \cup cited : DigestAt(c, r) \in DigestValue
    BY <1>1, <1>3, DigestAtType
  <2>2. \A r \in Index : DigestAt(c, r) \in DigestValue
    <3>1. \A records \in SUBSET Record : IndexOf(c, records) \in DigestValue
      <4>1. SUFFICES ASSUME NEW records \in SUBSET Record
                     PROVE  IndexOf(c, records) \in DigestValue
        OBVIOUS
      <4>2. {x \in records : c[x] # None} \in SUBSET Record
        OBVIOUS
      <4>3. IndexOf(c, records) \in [{x \in records : c[x] # None} -> Digest]
        BY DEF IndexOf, Content, Ref
      <4>4. QED BY <4>2, <4>3 DEF DigestValue
    <3>2. QED BY <3>1 DEF DigestAt, Index, Record
  <2>3. QED BY <2>1, <2>2
<1> DEFINE bound == (D \ Unbound(o.key)) \cup current
<1> HIDE DEF cited
<1>5. fresh = [r \in bound |-> IF r \in current THEN DigestAt(c, r) ELSE o.key.sources[r]]
  BY <1>2 DEF FreshnessRefs, cited
<1>6. fresh \in [bound -> DigestValue]
  <2>1. \A r \in bound \ current : o.key.sources[r] \in DigestValue
    BY <1>2
  <2> HIDE DEF current, fresh
  <2>2. QED BY <1>4, <1>5, <2>1
<1>7. bound \in SUBSET (Ref \cup Index)
  BY <1>1, <1>2, <1>3
<1>8. fresh \in Manifest
  BY <1>6, <1>7 DEF Manifest
<1> HIDE DEF fresh
<1>9. PrepareResult(o, c) = [payload |-> o.payload, outs |-> outs, fresh |-> fresh]
  BY DEF PrepareResult, fresh
<1>10. PrepareResult(o, c) \in Result
  BY <1>1, <1>8, <1>9 DEF Result
<1>11. ASSUME NEW r \in D \ (rebound \cup Unbound(o.key))
       PROVE  r \in DOMAIN fresh /\ fresh[r] = o.key.sources[r]
  <2>1. DigestAt(c, r) = o.key.sources[r]
    <3>1. r \notin outs /\ ~IndexChangeIsOutput(r, outs)
      BY <1>11 DEF IndexChangeIsOutput, Index
    <3>2. QED BY <1>2, <1>11, <3>1 DEF ContextIsStale
  <2>2. r \in bound
    BY <1>11
  <2>3. DOMAIN fresh = bound /\ fresh[r] \in {DigestAt(c, r), o.key.sources[r]}
    BY <1>5, <2>2
  <2>4. QED BY <2>1, <2>2, <2>3
<1>12. BoundToContext(o.key, PrepareResult(o, c))
  BY <1>2, <1>9, <1>11 DEF BoundToContext, Rebound
<1>13. QED BY <1>9, <1>10, <1>12

(***************************************************************************)
(* The inductive invariant is preserved by every action.                   *)
(***************************************************************************)
IInv == TypeOK /\ ProtocolInvariant

\* The idle call, and an entry just issued, are well formed.
LEMMA IdleType == Idle \in Op /\ Idle.pc = "idle"
BY DEF Idle, Op

LEMMA NewEntryType ==
    ASSUME NEW f \in Framework
    PROVE  NewEntry(f) \in Entry /\ NewEntry(f) # None
<1>1. NewEntry(f) \in Entry
  BY DEF NewEntry, Entry
<1>2. QED BY <1>1, ConstantAssumption

\* A stored Human answer stays one.
LEMMA HumanAnsweredStays ==
    ASSUME NEW r, HumanAnswered(r), offered \subseteq offered',
           \A k \in Key : results[k] # None => results'[k] # None,
           offered \subseteq Key
    PROVE  HumanAnswered(r)'
BY DEF HumanAnswered

\* The part of the invariant about one session's call.
CallInv(s) ==
    /\ CallArguments(op[s]) /\ CallHoldsEntry(s) /\ CallHoldsResult(op[s])
    /\ LockProtects(s) /\ DecisionIsBacked(op[s])

\* Initially nothing is stored, held or under way.
LEMMA InitIInv == Init => IInv
<1> SUFFICES ASSUME Init PROVE IInv
  OBVIOUS
<1>1. TypeOK
  BY IdleType, ConstantAssumption DEF Init, TypeOK, Content, ReplyCode
<1>2. \A s \in Session : CallInv(s)
  BY IdleType, ConstantAssumption DEF Init, CallInv, Idle, CallArguments, CallHoldsEntry,
     CallHoldsResult, LockProtects, DecisionIsBacked
<1>3. QED BY <1>1, <1>2 DEF Init, IInv, ProtocolInvariant, CallInv

\* adf_next.
LEMMA AdfNextIInv ==
    ASSUME IInv, NEW s \in Session, AdfNext(s) PROVE IInv'
<1>0. PICK k \in Selections(content, results) \ {None} :
         /\ issued' = [issued EXCEPT ![s][k] = NewEntry(framework)]
         /\ offered' = offered \cup {k}
  BY DEF AdfNext
<1>1. k \in Key
  BY SelectionsType DEF IInv, TypeOK
<1>2. NewEntry(framework) \in Entry /\ NewEntry(framework) # None
  BY NewEntryType DEF IInv, TypeOK
<1>3. /\ issued' = [issued EXCEPT ![s][k] = NewEntry(framework)]
      /\ offered' = offered \cup {k}
      /\ reply' = [reply EXCEPT ![s] = "issued"]
      /\ UNCHANGED <<content, framework, results, op, correction, written>>
  BY <1>0 DEF AdfNext
<1>4. TypeOK'
  BY <1>1, <1>2, <1>3 DEF IInv, TypeOK, ReplyCode
<1>5. \A t \in Session, l \in Key :
         /\ issued'[t][l] # None => l \in offered'
         /\ issued[t][l] # None => issued'[t][l] # None
  BY <1>1, <1>2, <1>3 DEF IInv, TypeOK, ProtocolInvariant
<1>6. \A r : HumanAnswered(r) => HumanAnswered(r)'
  BY <1>3, HumanAnsweredStays DEF IInv, TypeOK
<1>7. \A t \in Session : CallInv(t)'
  BY <1>3, <1>5, <1>6 DEF IInv, ProtocolInvariant, CallInv, CallArguments, CallHoldsEntry,
     CallHoldsResult, LockProtects, DecisionIsBacked
<1>8. QED BY <1>3, <1>4, <1>5, <1>6, <1>7 DEF IInv, ProtocolInvariant, CallInv

\* A step of session s leaves the calls of the others as they were, so only its
\* own call and the shared parts need an argument.
LEMMA StepIInv ==
    ASSUME IInv, TypeOK', NEW s \in Session,
           \A t \in Session \ {s} : op'[t] = op[t] /\ issued'[t] = issued[t],
           \A t \in Session \ {s} : correction' = t <=> correction = t,
           \A t \in Session \ {s} : op[t].pc = "locked" =>
               results'[op[t].key] = results[op[t].key],
           offered \subseteq offered',
           \A k \in Key : results[k] # None => results'[k] # None,
           \A k \in Key : issued'[s][k] # None => k \in offered',
           \A k \in Key : results'[k] # None =>
               k \in offered' /\ BoundToContext(k, results'[k]),
           \A w \in written' : w[1] \in Decision => w \in written \/ HumanAnswered(w[1]),
           CallInv(s)'
    PROVE  IInv'
<1>1. \A r : HumanAnswered(r) => HumanAnswered(r)'
  BY HumanAnsweredStays DEF IInv, TypeOK
<1>2. \A t \in Session \ {s} : CallInv(t)'
  BY <1>1 DEF IInv, ProtocolInvariant, CallInv, CallArguments, CallHoldsEntry,
     CallHoldsResult, LockProtects, DecisionIsBacked
<1>3. \A t \in Session, k \in Key : issued'[t][k] # None => k \in offered'
  BY DEF IInv, ProtocolInvariant
<1>4. \A w \in written' : w[1] \in Decision => HumanAnswered(w[1])'
  BY <1>1 DEF IInv, ProtocolInvariant
<1>5. QED BY <1>1, <1>2, <1>3, <1>4 DEF IInv, ProtocolInvariant, CallInv

\* A step that only moves the call of session s.
LEMMA MoveIInv ==
    ASSUME IInv, NEW s \in Session, NEW o \in Op, NEW code \in ReplyCode,
           op' = [op EXCEPT ![s] = o], reply' = [reply EXCEPT ![s] = code],
           correction' \in Session \cup {None},
           \A t \in Session \ {s} : correction' = t <=> correction = t,
           UNCHANGED <<content, framework, results, issued, offered, written>>,
           CallInv(s)'
    PROVE  IInv'
<1>1. TypeOK'
  BY DEF IInv, TypeOK
<1>2. QED BY <1>1, StepIInv DEF IInv, ProtocolInvariant, TypeOK

\* A call that is not correcting a Result may end at any point.
LEMMA AnswerIInv ==
    ASSUME IInv, NEW s \in Session, NEW code \in ReplyCode, Answer(s, code),
           op[s].pc # "locked",
           UNCHANGED <<content, framework, results, issued, correction, offered, written>>
    PROVE  IInv'
<1>1. op'[s] = Idle /\ correction' # s
  BY DEF IInv, TypeOK, Answer, ProtocolInvariant, LockProtects
<1>2. CallInv(s)'
  BY <1>1, IdleType DEF CallInv, CallArguments, CallHoldsEntry,
     CallHoldsResult, LockProtects, DecisionIsBacked
<1>3. QED BY <1>2, IdleType, MoveIInv DEF Answer, IInv, TypeOK

\* The first step of adf_submit.
LEMMA SubmitStartIInv ==
    ASSUME IInv, NEW s \in Session, NEW k \in Key, NEW p \in Payload,
           NEW outs \in OutputList, SubmitStart(s, k, p, outs)
    PROVE  IInv'
<1> DEFINE o == [Idle EXCEPT !.pc = IF issued[s][k] # None THEN "load" ELSE "replay",
                             !.kind = "submit", !.key = k,
                             !.payload = p, !.outs = outs]
<1>1. /\ o \in Op /\ o.pc \in {"load", "replay"} /\ o.kind = "submit"
      /\ o.key = k /\ o.payload = p
      /\ o.pc = "load" => issued[s][k] # None
  BY OutputListType DEF Idle, Op
<1>2. op' = [op EXCEPT ![s] = o] /\ reply' = [reply EXCEPT ![s] = "pending"]
  BY DEF SubmitStart
<1> HIDE DEF o
<1>3. op'[s] = o
  BY <1>2 DEF IInv, TypeOK
<1>4. correction # s
  BY DEF IInv, ProtocolInvariant, LockProtects, SubmitStart
<1>5. CallInv(s)'
  BY <1>1, <1>3, <1>4 DEF SubmitStart, CallInv, CallArguments, CallHoldsEntry,
     CallHoldsResult, LockProtects, DecisionIsBacked
<1>6. QED BY <1>1, <1>2, <1>5, MoveIInv DEF SubmitStart, IInv, TypeOK, ReplyCode

\* The arguments of a write tool make a call.
LEMMA WriteCallType ==
    ASSUME NEW pc \in {"load", "resume"}, NEW k \in Key, NEW r \in Record,
           NEW d \in Digest, NEW e \in Digest \cup {None}
    PROVE  LET o == WriteCall(pc, k, r, d, e)
           IN  /\ o \in Op /\ o.pc = pc /\ o.kind = KindOf(r) /\ o.kind # "submit"
               /\ o.key = k /\ o.ref = r /\ o.digest = d
<1>1. PICK kind \in {"contract", "decision", "evidence"} : kind = KindOf(r)
  BY DEF KindOf
<1>2. [Idle EXCEPT !.pc = pc, !.kind = kind, !.key = k, !.ref = r,
                   !.digest = d, !.expected = e] \in Op
  BY IdleType DEF Op
<1>3. QED BY <1>1, <1>2, IdleType DEF WriteCall, Op

\* The first step of a write tool.
LEMMA WriteStartIInv ==
    ASSUME IInv, NEW s \in Session, NEW k \in Key, NEW r \in Record,
           NEW d \in Digest, NEW e \in Digest \cup {None}, WriteStart(s, k, r, d, e)
    PROVE  IInv'
<1> DEFINE pc == IF issued[s][k] # None THEN "load" ELSE "resume"
           o == WriteCall(pc, k, r, d, e)
<1>2. op' = [op EXCEPT ![s] = o] /\ reply' = [reply EXCEPT ![s] = "pending"]
  BY DEF WriteStart
<1>b. pc \in {"load", "resume"} /\ (pc = "load" => issued[s][k] # None)
  OBVIOUS
<1> HIDE DEF pc
<1>1. /\ o \in Op /\ o.pc = pc /\ o.kind = KindOf(r) /\ o.kind # "submit"
      /\ o.key = k /\ o.ref = r /\ o.digest = d
  BY <1>b, WriteCallType
<1> HIDE DEF o
<1>3. op'[s] = o
  BY <1>2 DEF IInv, TypeOK
<1>4. correction # s
  BY DEF IInv, ProtocolInvariant, LockProtects, WriteStart
<1>5. CallInv(s)'
  BY <1>b, <1>1, <1>3, <1>4 DEF WriteStart, CallInv, CallArguments, CallHoldsEntry,
     CallHoldsResult, LockProtects, DecisionIsBacked
<1>6. QED BY <1>1, <1>2, <1>5, MoveIInv DEF WriteStart, IInv, TypeOK, ReplyCode

\* A call that advances with its arguments unchanged.
LEMMA GoToType ==
    ASSUME IInv, NEW s \in Session,
           NEW pc \in {"resume", "load", "locked", "write"}, GoTo(s, pc)
    PROVE  LET o == [op[s] EXCEPT !.pc = pc]
           IN  /\ o \in Op /\ op' = [op EXCEPT ![s] = o] /\ op'[s] = o /\ o.pc = pc
               /\ o.kind = op[s].kind /\ o.key = op[s].key /\ o.payload = op[s].payload
               /\ o.outs = op[s].outs /\ o.ref = op[s].ref /\ o.digest = op[s].digest
               /\ o.prepared = op[s].prepared /\ o.existing = op[s].existing
<1>1. op[s] \in Op /\ op \in [Session -> Op]
  BY DEF IInv, TypeOK
<1>2. [op[s] EXCEPT !.pc = pc] \in Op
  BY <1>1 DEF Op
<1>3. op' = [op EXCEPT ![s] = [op[s] EXCEPT !.pc = pc]]
  BY <1>1 DEF GoTo
<1>4. QED BY <1>1, <1>2, <1>3 DEF Op

\* replay_submission.
LEMMA ReplayIInv ==
    ASSUME IInv, NEW s \in Session, Replay(s) PROVE IInv'
<1>1. CASE GoTo(s, "resume")
  <2> DEFINE o == [op[s] EXCEPT !.pc = "resume"]
  <2>1. /\ o \in Op /\ op' = [op EXCEPT ![s] = o] /\ op'[s] = o /\ o.pc = "resume"
        /\ o.kind = op[s].kind /\ o.key = op[s].key /\ o.payload = op[s].payload
        /\ o.ref = op[s].ref /\ o.digest = op[s].digest
    BY <1>1, GoToType
  <2> HIDE DEF o
  <2>2. CallInv(s)'
    BY <2>1 DEF IInv, ProtocolInvariant, Replay, CallInv, CallArguments, CallHoldsEntry,
       CallHoldsResult, LockProtects, DecisionIsBacked
  <2>3. QED BY <1>1, <2>1, <2>2, MoveIInv DEF Replay, GoTo, IInv, TypeOK, ReplyCode
<1>2. CASE Answer(s, "already_completed")
  BY <1>2, AnswerIInv DEF Replay, ReplyCode
<1>3. CASE Answer(s, "WRITE_CONFLICT")
  BY <1>3, AnswerIInv DEF Replay, ReplyCode
<1>4. QED BY <1>1, <1>2, <1>3 DEF Replay

\* resume.
LEMMA ResumeIInv ==
    ASSUME IInv, NEW s \in Session, Resume(s) PROVE IInv'
<1>0. PICK current \in Selections(content, results) :
         \/ /\ Answer(s, "ACTION_NOT_CURRENT")
            /\ UNCHANGED <<issued, offered>>
         \/ /\ Resumable(op[s].key, current)
            /\ issued' = [issued EXCEPT ![s][op[s].key] = NewEntry(framework)]
            /\ offered' = offered \cup {current}
            /\ GoTo(s, "load")
  BY DEF Resume
<1>1. CASE Answer(s, "ACTION_NOT_CURRENT") /\ UNCHANGED <<issued, offered>>
  BY <1>1, AnswerIInv DEF Resume, ReplyCode
<1>2. CASE /\ Resumable(op[s].key, current)
           /\ issued' = [issued EXCEPT ![s][op[s].key] = NewEntry(framework)]
           /\ offered' = offered \cup {current}
           /\ GoTo(s, "load")
  <2> DEFINE o == [op[s] EXCEPT !.pc = "load"]
             k == op[s].key
             e == NewEntry(framework)
  <2>1. /\ o \in Op /\ op' = [op EXCEPT ![s] = o] /\ op'[s] = o /\ o.pc = "load"
        /\ o.kind = op[s].kind /\ o.key = k /\ o.payload = op[s].payload
        /\ o.ref = op[s].ref /\ o.digest = op[s].digest
    BY <1>2, GoToType
  <2>2. k \in Key /\ k = current
    BY <1>2 DEF IInv, ProtocolInvariant, CallArguments, Resume, Resumable
  <2>3. e \in Entry /\ e # None
    BY NewEntryType DEF IInv, TypeOK
  <2> HIDE DEF o, k, e
  <2>4. /\ issued' = [issued EXCEPT ![s][k] = e]
        /\ offered' = offered \cup {k}
        /\ reply' = [reply EXCEPT ![s] = "pending"]
        /\ UNCHANGED <<content, framework, results, correction, written>>
        /\ op[s].pc = "resume"
    BY <1>2, <2>2 DEF Resume, GoTo, k, e
  <2>5. TypeOK'
    BY <2>1, <2>2, <2>3, <2>4 DEF IInv, TypeOK, ReplyCode
  <2>6. \A l \in Key : issued'[s][l] # None => l \in offered'
    BY <2>2, <2>3, <2>4 DEF IInv, TypeOK, ProtocolInvariant
  <2>7. issued'[s][k] # None
    BY <2>2, <2>3, <2>4 DEF IInv, TypeOK
  <2>8. CallInv(s)'
    BY <2>1, <2>2, <2>4, <2>7 DEF k, IInv, ProtocolInvariant, CallInv, CallArguments,
       CallHoldsEntry, CallHoldsResult, LockProtects, DecisionIsBacked
  <2>9. \A t \in Session \ {s} : op'[t] = op[t] /\ issued'[t] = issued[t]
    BY <2>1, <2>4 DEF IInv, TypeOK
  <2>10. QED BY <2>4, <2>5, <2>6, <2>8, <2>9, StepIInv DEF IInv, ProtocolInvariant
<1>3. QED BY <1>0, <1>1, <1>2

\* submit on the loaded snapshot.
LEMMA SubmitLoadIInv ==
    ASSUME IInv, NEW s \in Session, SubmitLoad(s) PROVE IInv'
<1> DEFINE k == op[s].key
           stored == results[k]
           verdict == SubmitVerdict(op[s], issued[s][k])
<1>0. /\ k \in Key /\ op[s].pc = "load" /\ op[s].kind = "submit"
      /\ op[s].payload \in Payload /\ op[s] \in Op /\ correction # s
      /\ issued[s][k] # None
  BY DEF IInv, TypeOK, ProtocolInvariant, CallArguments, CallHoldsEntry, LockProtects, SubmitLoad
<1>1. CASE issued' = [issued EXCEPT ![s][k] = None] /\ Answer(s, "already_completed")
  <2>1. /\ op' = [op EXCEPT ![s] = Idle] /\ reply' = [reply EXCEPT ![s] = "already_completed"]
        /\ UNCHANGED <<content, framework, results, correction, offered, written>>
    BY <1>1 DEF SubmitLoad, Answer
  <2>2. TypeOK'
    BY <1>0, <1>1, <2>1, IdleType DEF IInv, TypeOK, ReplyCode
  <2>3. op'[s] = Idle /\ \A t \in Session \ {s} : op'[t] = op[t] /\ issued'[t] = issued[t]
    BY <1>1, <2>1 DEF IInv, TypeOK
  <2>4. CallInv(s)'
    BY <1>0, <2>1, <2>3, IdleType DEF CallInv, CallArguments, CallHoldsEntry,
       CallHoldsResult, LockProtects, DecisionIsBacked
  <2>5. \A l \in Key : issued'[s][l] # None => l \in offered'
    BY <1>0, <1>1, <2>1 DEF IInv, TypeOK, ProtocolInvariant
  <2>6. QED BY <2>1, <2>2, <2>3, <2>4, <2>5, StepIInv DEF IInv, ProtocolInvariant
<1>2. CASE verdict # "accepted" /\ Answer(s, verdict) /\ UNCHANGED issued
  <2>1. verdict \in ReplyCode
    BY <1>2 DEF SubmitVerdict, ReplyCode
  <2>2. QED BY <1>0, <1>2, <2>1, AnswerIInv DEF SubmitLoad
<1>3. CASE /\ verdict = "accepted"
           /\ op' = [op EXCEPT ![s].pc = IF stored = None THEN "append" ELSE "replace",
                               ![s].prepared = PrepareResult(op[s], content),
                               ![s].existing = stored]
           /\ reply' = [reply EXCEPT ![s] = "pending"]
           /\ UNCHANGED issued
  <2> DEFINE p == PrepareResult(op[s], content)
  <2>1. /\ ~ContextIsStale(k, content, Outputs(op[s].outs))
        /\ \A r \in Outputs(op[s].outs) \cup Cited(k, op[s].payload) :
              DigestAt(content, r) # None
    BY <1>3 DEF SubmitVerdict
  <2>2. op[s].outs \in Seq(Ref) /\ content \in Content /\ stored \in Result \cup {None}
    BY <1>0 DEF IInv, TypeOK, Op
  <2>3. /\ p \in Result /\ p.payload = op[s].payload
        /\ p.outs = Outputs(op[s].outs) /\ BoundToContext(k, p)
    BY <1>0, <2>1, <2>2, PrepareResultType
  <2> HIDE DEF p
  <2>4. PICK pc \in {"append", "replace"} :
           /\ pc = "replace" => stored # None
           /\ op' = [op EXCEPT ![s].pc = pc, ![s].prepared = p, ![s].existing = stored]
    BY <1>3 DEF p
  <2>5. LET o == op'[s]
        IN  /\ o \in Op /\ o.pc = pc /\ o.prepared = p /\ o.existing = stored
            /\ o.key = k /\ o.kind = "submit" /\ o.payload = op[s].payload
            /\ o.outs = op[s].outs /\ op' = [op EXCEPT ![s] = o]
    BY <1>0, <2>2, <2>3, <2>4 DEF IInv, TypeOK, Op
  <2>6. CallInv(s)'
    BY <1>0, <1>3, <2>3, <2>4, <2>5 DEF SubmitLoad, CallInv, CallArguments, CallHoldsEntry,
       CallHoldsResult, LockProtects, DecisionIsBacked
  <2>7. TypeOK'
    BY <1>3, <2>5 DEF SubmitLoad, IInv, TypeOK, ReplyCode
  <2>8. \A t \in Session \ {s} : op'[t] = op[t]
    BY <2>5 DEF IInv, TypeOK
  <2>9. QED BY <1>3, <2>6, <2>7, <2>8, StepIInv DEF SubmitLoad, IInv, ProtocolInvariant
<1>4. QED BY <1>1, <1>2, <1>3 DEF SubmitLoad

\* A prepared Result is published and its entry consumed.
LEMMA PublishIInv ==
    ASSUME IInv, NEW s \in Session, op[s].pc \in {"append", "locked"},
           results' = [results EXCEPT ![op[s].key] = op[s].prepared],
           issued' = [issued EXCEPT ![s][op[s].key] = None],
           Answer(s, "stored"),
           op[s].pc = "append" => results[op[s].key] = None /\ correction' = correction,
           op[s].pc = "locked" => correction' = None,
           UNCHANGED <<content, framework, offered, written>>
    PROVE  IInv'
<1> DEFINE k == op[s].key
           p == op[s].prepared
<1>1. /\ k \in Key /\ p \in Result /\ BoundToContext(k, p) /\ k \in offered
  BY DEF IInv, ProtocolInvariant, CallArguments, CallHoldsResult, CallHoldsEntry
<1>2. p # None /\ None \notin Session
  BY <1>1, ConstantAssumption
<1> HIDE DEF k, p
<1>3. /\ results' = [results EXCEPT ![k] = p] /\ issued' = [issued EXCEPT ![s][k] = None]
      /\ op' = [op EXCEPT ![s] = Idle] /\ reply' = [reply EXCEPT ![s] = "stored"]
  BY DEF Answer, k, p
<1>4. TypeOK'
  <2>1. correction' \in Session \cup {None}
    BY DEF IInv, TypeOK
  <2>2. op' \in [Session -> Op] /\ reply' \in [Session -> ReplyCode]
    BY <1>3, IdleType DEF IInv, TypeOK, ReplyCode
  <2>3. results' \in [Key -> Result \cup {None}]
    BY <1>1, <1>3 DEF IInv, TypeOK
  <2>4. issued' \in [Session -> [Key -> Entry \cup {None}]]
    <3>1. issued \in [Session -> [Key -> Entry \cup {None}]]
      BY DEF IInv, TypeOK
    <3>2. [issued[s] EXCEPT ![k] = None] \in [Key -> Entry \cup {None}]
      BY <3>1
    <3>3. issued' = [issued EXCEPT ![s] = [issued[s] EXCEPT ![k] = None]]
      BY <1>3, <3>1
    <3>4. QED BY <3>1, <3>2, <3>3
  <2>5. QED BY <2>1, <2>2, <2>3, <2>4 DEF IInv, TypeOK
<1>5. op'[s] = Idle /\ \A t \in Session \ {s} : op'[t] = op[t] /\ issued'[t] = issued[t]
  BY <1>3 DEF IInv, TypeOK
<1>6. correction' # s /\ \A t \in Session \ {s} : correction' = t <=> correction = t
  BY <1>2 DEF IInv, ProtocolInvariant, LockProtects
<1>7. \A l \in Key : results'[l] = IF l = k THEN p ELSE results[l]
  BY <1>1, <1>3 DEF IInv, TypeOK
<1>8. \A t \in Session \ {s} : op[t].pc = "locked" =>
         results'[op[t].key] = results[op[t].key]
  <2> SUFFICES ASSUME NEW t \in Session \ {s}, op[t].pc = "locked"
               PROVE  results'[op[t].key] = results[op[t].key]
    OBVIOUS
  <2>1. /\ op[t].key \in Key /\ op[t].existing # None /\ correction = t
        /\ results[op[t].key] = op[t].existing
    BY DEF IInv, ProtocolInvariant, CallArguments, CallHoldsResult, LockProtects
  <2>2. op[s].pc = "append" /\ results[k] = None
    BY <2>1 DEF IInv, ProtocolInvariant, LockProtects, k
  <2>3. QED BY <2>1, <2>2, <1>7
<1>9. CallInv(s)'
  BY <1>5, <1>6, IdleType DEF CallInv, CallArguments, CallHoldsEntry,
     CallHoldsResult, LockProtects, DecisionIsBacked
<1>10. \A l \in Key : issued'[s][l] # None => l \in offered'
  BY <1>1, <1>3 DEF IInv, TypeOK, ProtocolInvariant
<1>11. \A l \in Key : results[l] # None => results'[l] # None
  BY <1>2, <1>7
<1>12. \A l \in Key : results'[l] # None => l \in offered' /\ BoundToContext(l, results'[l])
  BY <1>1, <1>7 DEF IInv, ProtocolInvariant
<1>13. QED
  BY <1>4, <1>5, <1>6, <1>8, <1>9, <1>10, <1>11, <1>12, StepIInv

\* append_result.
LEMMA AppendResultIInv ==
    ASSUME IInv, NEW s \in Session, AppendResult(s) PROVE IInv'
<1>1. CASE Answer(s, "WRITE_CONFLICT") /\ UNCHANGED <<results, issued>>
  BY <1>1, AnswerIInv DEF AppendResult, ReplyCode
<1>2. CASE /\ results[op[s].key] = None
           /\ results' = [results EXCEPT ![op[s].key] = op[s].prepared]
           /\ issued' = [issued EXCEPT ![s][op[s].key] = None]
           /\ Answer(s, "stored")
  BY <1>2, PublishIInv DEF AppendResult
<1>3. QED BY <1>1, <1>2 DEF AppendResult

\* replace_result: the lock is taken and the Result compared.
LEMMA CompareIInv ==
    ASSUME IInv, NEW s \in Session, Compare(s) PROVE IInv'
<1>1. CASE Answer(s, "INVALID_ARGUMENT") /\ UNCHANGED correction
  BY <1>1, AnswerIInv DEF Compare, ReplyCode
<1>2. CASE StillTheLoadedResult(op[s]) /\ correction' = s /\ GoTo(s, "locked")
  <2> DEFINE o == [op[s] EXCEPT !.pc = "locked"]
  <2>1. /\ o \in Op /\ op' = [op EXCEPT ![s] = o] /\ op'[s] = o /\ o.pc = "locked"
        /\ o.kind = op[s].kind /\ o.key = op[s].key /\ o.payload = op[s].payload
        /\ o.outs = op[s].outs /\ o.ref = op[s].ref /\ o.digest = op[s].digest
        /\ o.prepared = op[s].prepared /\ o.existing = op[s].existing
    BY <1>2, GoToType
  <2> HIDE DEF o
  <2>2. op[s].pc = "replace" /\ correction = None
        /\ reply' = [reply EXCEPT ![s] = "pending"]
        /\ UNCHANGED <<content, framework, results, issued, offered, written>>
    BY <1>2 DEF Compare, GoTo
  <2>3. CallInv(s)'
    BY <1>2, <2>1, <2>2 DEF StillTheLoadedResult, IInv, ProtocolInvariant, CallInv,
       CallArguments, CallHoldsEntry, CallHoldsResult, LockProtects, DecisionIsBacked
  <2>4. \A t \in Session \ {s} : correction' = t <=> correction = t
    BY <1>2, <2>2, ConstantAssumption
  <2>5. QED BY <1>2, <2>1, <2>2, <2>3, <2>4, MoveIInv DEF ReplyCode
<1>3. QED BY <1>1, <1>2 DEF Compare

\* replace_result: the new Result is published and the lock dropped.
LEMMA OverwriteIInv ==
    ASSUME IInv, NEW s \in Session, Overwrite(s) PROVE IInv'
BY PublishIInv DEF Overwrite, AfterOverwrite

\* The checks of a write tool.
LEMMA WriteLoadIInv ==
    ASSUME IInv, NEW s \in Session, WriteLoad(s) PROVE IInv'
<1> DEFINE verdict == WriteVerdict(op[s], issued[s][op[s].key])
<1>1. CASE verdict # "allowed" /\ Answer(s, verdict)
  <2>1. verdict \in ReplyCode
    BY <1>1 DEF WriteVerdict, ReplyCode
  <2>2. QED BY <1>1, <2>1, AnswerIInv DEF WriteLoad
<1>2. CASE verdict = "allowed" /\ GoTo(s, "write")
  <2> DEFINE o == [op[s] EXCEPT !.pc = "write"]
  <2>1. /\ o \in Op /\ op' = [op EXCEPT ![s] = o] /\ op'[s] = o /\ o.pc = "write"
        /\ o.kind = op[s].kind /\ o.key = op[s].key /\ o.payload = op[s].payload
        /\ o.ref = op[s].ref /\ o.digest = op[s].digest
    BY <1>2, GoToType
  <2> HIDE DEF o
  <2>2. /\ op[s].pc = "load" /\ op[s].kind # "submit" /\ reply' = [reply EXCEPT ![s] = "pending"]
        /\ UNCHANGED <<content, framework, results, issued, correction, offered, written>>
    BY <1>2 DEF WriteLoad, GoTo
  <2>3. SnapshotAllows(op[s])
    BY <1>2 DEF WriteVerdict
  <2>4. op[s].ref \in Record /\ op[s].kind = KindOf(op[s].ref)
    BY <2>2 DEF IInv, ProtocolInvariant, CallArguments
  <2>5. op[s].ref \in Decision => HumanAnswered(op[s].ref)
    <3> SUFFICES ASSUME op[s].ref \in Decision PROVE HumanAnswered(op[s].ref)
      OBVIOUS
    <3>1. op[s].kind = "decision"
      BY <2>4, ConstantAssumption DEF KindOf
    <3>2. PICK k \in Key : k.action \in HumanAnswer[op[s].ref] /\ results[k] # None
      BY <2>3, <3>1 DEF SnapshotAllows
    <3>3. k \in offered
      BY <3>2 DEF IInv, ProtocolInvariant
    <3>4. QED BY <3>2, <3>3 DEF HumanAnswered
  <2>6. CallInv(s)'
    BY <2>1, <2>2, <2>5 DEF HumanAnswered, IInv, ProtocolInvariant, CallInv,
       CallArguments, CallHoldsEntry, CallHoldsResult, LockProtects, DecisionIsBacked
  <2>7. QED BY <2>1, <2>2, <2>6, MoveIInv DEF IInv, TypeOK, ReplyCode
<1>3. QED BY <1>1, <1>2 DEF WriteLoad

\* The Record is written and registered as an output.
LEMMA RecordWriteIInv ==
    ASSUME IInv, NEW s \in Session, RecordWrite(s) PROVE IInv'
<1> DEFINE o == op[s]
           k == op[s].key
           r == op[s].ref
           d == op[s].digest
<1>0. /\ k \in Key /\ o.pc = "write" /\ correction # s /\ issued[s][k] # None
      /\ UpdateVerdict(o) \in ReplyCode
  <2>1. /\ k \in Key /\ o.pc = "write" /\ correction # s /\ issued[s][k] # None
    BY DEF RecordWrite, IInv, ProtocolInvariant, CallArguments, CallHoldsEntry, LockProtects
  <2>2. \/ content[r] = None /\ o.expected = None
        \/ content[r] = None /\ o.expected # None
        \/ content[r] # None /\ o.kind = "evidence"
        \/ content[r] # None /\ o.kind # "evidence" /\ o.expected # None
        \/ content[r] # None /\ o.kind # "evidence" /\ o.expected = None
    OBVIOUS
  <2>3. UpdateVerdict(o) \in ReplyCode
    BY <2>2 DEF UpdateVerdict, ReplyCode
  <2>4. QED BY <2>1, <2>3
<1>1. CASE UNCHANGED <<content, issued, written>>
  BY <1>0, <1>1, AnswerIInv DEF RecordWrite
<1>2. CASE /\ content' = [content EXCEPT ![r] = d]
           /\ issued' = [issued EXCEPT ![s][k].outputs = @ \cup {r}]
           /\ written' = written \cup {<<r, d>>}
  <2>1. /\ r \in Record /\ d \in Versions[r] /\ d \in Digest
        /\ r \in Decision => HumanAnswered(r)
    <3>1. r \in Record /\ d \in Versions[r] /\ (r \in Decision => HumanAnswered(r))
      BY <1>0 DEF IInv, ProtocolInvariant, CallArguments, DecisionIsBacked
    <3>2. QED BY <3>1, ConstantAssumption DEF Ref
  <2>2. /\ op' = [op EXCEPT ![s] = Idle] /\ reply' = [reply EXCEPT ![s] = UpdateVerdict(o)]
        /\ UNCHANGED <<framework, results, correction, offered>>
    BY DEF RecordWrite, Answer
  <2>3. PICK e \in Entry : issued[s][k] = e
    BY <1>0 DEF IInv, TypeOK
  <2>4. PICK f \in Entry : f = [e EXCEPT !.outputs = @ \cup {r}]
    BY <2>1 DEF Entry
  <2> HIDE DEF k, r, d
  <2>5. issued' = [issued EXCEPT ![s] = [issued[s] EXCEPT ![k] = f]]
    BY <1>2, <2>3, <2>4 DEF IInv, TypeOK
  <2>6. issued'[s] = [issued[s] EXCEPT ![k] = f] /\ issued'[s] \in [Key -> Entry \cup {None}]
    BY <1>0, <2>5 DEF IInv, TypeOK
  <2>7. TypeOK'
    <3>1. content' \in Content
      BY <1>2, <2>1 DEF IInv, TypeOK, Content, Ref
    <3>2. issued' \in [Session -> [Key -> Entry \cup {None}]]
      BY <2>5, <2>6 DEF IInv, TypeOK
    <3>3. op' \in [Session -> Op] /\ reply' \in [Session -> ReplyCode]
      BY <1>0, <2>2, IdleType DEF IInv, TypeOK
    <3>4. written' \subseteq Record \X Digest
      BY <1>2, <2>1 DEF IInv, TypeOK
    <3>5. QED BY <2>2, <3>1, <3>2, <3>3, <3>4 DEF IInv, TypeOK
  <2>8. op'[s] = Idle /\ \A t \in Session \ {s} : op'[t] = op[t] /\ issued'[t] = issued[t]
    BY <2>2, <2>5 DEF IInv, TypeOK
  <2>9. \A l \in Key : issued'[s][l] # None => l \in offered'
    BY <1>0, <2>2, <2>6 DEF IInv, TypeOK, ProtocolInvariant
  <2>10. CallInv(s)'
    BY <1>0, <2>2, <2>8, IdleType DEF CallInv, CallArguments, CallHoldsEntry,
       CallHoldsResult, LockProtects, DecisionIsBacked
  <2>11. \A w \in written' : w[1] \in Decision => w \in written \/ HumanAnswered(w[1])
    BY <1>2, <2>1
  <2>12. QED
    BY <2>2, <2>7, <2>8, <2>9, <2>10, <2>11, StepIInv DEF IInv, ProtocolInvariant
<1>3. QED BY <1>1, <1>2 DEF RecordWrite

\* adf_abandon_action.
LEMMA AbandonIInv ==
    ASSUME IInv, NEW s \in Session, NEW k \in Key, Abandon(s, k) PROVE IInv'
<1>1. /\ issued' = [issued EXCEPT ![s] = [issued[s] EXCEPT ![k] = None]]
      /\ op[s].pc = "idle"
      /\ reply' = [reply EXCEPT ![s] = "abandoned"]
      /\ UNCHANGED <<content, framework, results, op, correction, offered, written>>
  BY DEF Abandon, IInv, TypeOK
<1>2. issued'[s] = [issued[s] EXCEPT ![k] = None] /\ issued'[s] \in [Key -> Entry \cup {None}]
  BY <1>1 DEF IInv, TypeOK
<1>3. TypeOK'
  BY <1>1, <1>2 DEF IInv, TypeOK, ReplyCode
<1>4. CallInv(s)'
  BY <1>1 DEF IInv, ProtocolInvariant, CallInv, CallArguments, CallHoldsEntry,
     CallHoldsResult, LockProtects, DecisionIsBacked
<1>5. \A t \in Session \ {s} : op'[t] = op[t] /\ issued'[t] = issued[t]
  BY <1>1 DEF IInv, TypeOK
<1>6. \A l \in Key : issued'[s][l] # None => l \in offered'
  BY <1>1, <1>2 DEF IInv, TypeOK, ProtocolInvariant
<1>7. QED BY <1>1, <1>3, <1>4, <1>5, <1>6, StepIInv DEF IInv, ProtocolInvariant

\* The end of a process.
LEMMA CrashIInv ==
    ASSUME IInv, NEW s \in Session, Crash(s) PROVE IInv'
<1>1. /\ op' = [op EXCEPT ![s] = Idle]
      /\ issued' = [issued EXCEPT ![s] = [k \in Key |-> None]]
      /\ reply' = [reply EXCEPT ![s] = "lost"]
      /\ correction' = IF correction = s THEN None ELSE correction
      /\ UNCHANGED <<content, framework, results, offered, written>>
  BY DEF Crash
<1>2. TypeOK'
  BY <1>1, IdleType DEF IInv, TypeOK, ReplyCode
<1>3. /\ op'[s] = Idle
      /\ \A t \in Session \ {s} : op'[t] = op[t] /\ issued'[t] = issued[t]
      /\ \A k \in Key : issued'[s][k] = None
  BY <1>1 DEF IInv, TypeOK
<1>4. correction' # s /\ \A t \in Session \ {s} : correction' = t <=> correction = t
  BY <1>1, ConstantAssumption
<1>5. CallInv(s)'
  BY <1>3, <1>4, IdleType DEF CallInv, CallArguments, CallHoldsEntry,
     CallHoldsResult, LockProtects, DecisionIsBacked
<1>6. QED BY <1>1, <1>2, <1>3, <1>4, <1>5, StepIInv DEF IInv, ProtocolInvariant

\* What happens outside the sessions touches no call.
LEMMA OutsideIInv ==
    ASSUME IInv, content' \in Content, framework' \in Framework,
           UNCHANGED <<results, issued, op, reply, correction, offered, written>>
    PROVE  IInv'
<1>1. TypeOK'
  BY DEF IInv, TypeOK
<1>2. ProtocolInvariant'
  BY DEF IInv, ProtocolInvariant, HumanAnswered, CallArguments, CallHoldsEntry,
     CallHoldsResult, LockProtects, DecisionIsBacked
<1>3. QED BY <1>1, <1>2 DEF IInv

\* Every step preserves the invariant.
LEMMA NextIInv == IInv /\ [Next]_vars => IInv'
<1> SUFFICES ASSUME IInv, [Next]_vars PROVE IInv'
  OBVIOUS
<1>1. ASSUME NEW s \in Session, CallStep(s) PROVE IInv'
  BY <1>1, ReplayIInv, ResumeIInv, SubmitLoadIInv, AppendResultIInv, CompareIInv,
     OverwriteIInv, WriteLoadIInv, RecordWriteIInv DEF CallStep
<1>2. ASSUME NEW r \in Editable, NEW d \in Digest \cup {None}, Edit(r, d) PROVE IInv'
  <2>1. content' \in Content
    BY <1>2 DEF Edit, IInv, TypeOK, Content
  <2>2. QED BY <1>2, <2>1, OutsideIInv DEF Edit, IInv, TypeOK
<1>3. ASSUME NEW f \in Framework, SwitchFramework(f) PROVE IInv'
  BY <1>3, OutsideIInv DEF SwitchFramework, IInv, TypeOK
<1>4. CASE UNCHANGED vars
  BY <1>4, OutsideIInv DEF vars, IInv, TypeOK
<1>5. QED
  BY <1>1, <1>2, <1>3, <1>4, AdfNextIInv, SubmitStartIInv, WriteStartIInv, AbandonIInv,
     CrashIInv DEF Next

------------------------------------------------------------------------------
(***************************************************************************)
(* Theorems.                                                               *)
(***************************************************************************)
\* The inductive invariant holds in every behaviour of the Action protocol.
THEOREM IInvHolds == Spec => []IInv
<1>1. Init => IInv
  BY InitIInv
<1>2. IInv /\ [Next]_vars => IInv'
  BY NextIInv
<1>3. QED BY <1>1, <1>2, PTL DEF Spec

\* Type correctness: stored Results bind existing digests, whatever fails.
THEOREM TypeCorrect == Spec => []TypeOK
<1>1. IInv => TypeOK
  BY DEF IInv
<1>2. QED BY <1>1, IInvHolds, PTL

\* Between any two steps of any calls each call has what its next step needs.
THEOREM ProtocolInvariantHolds == Spec => []ProtocolInvariant
<1>1. IInv => ProtocolInvariant
  BY DEF IInv
<1>2. QED BY <1>1, IInvHolds, PTL

\* A Result is stored only for an Action and Context that evaluation issued.
THEOREM StoredWasIssued == Spec => []OnlyIssuedWorkIsStored
<1>1. IInv => OnlyIssuedWorkIsStored
  BY DEF IInv, ProtocolInvariant, OnlyIssuedWorkIsStored
<1>2. QED BY <1>1, IInvHolds, PTL

\* A Result that counts as fresh was issued on what is there now.
THEOREM FreshMeansShown == Spec => []FreshOnShownInputs
<1>1. ASSUME IInv PROVE FreshOnShownInputs
  <2> SUFFICES ASSUME NEW k \in Key, results[k] # None, Fresh(results[k], content)
               PROVE  /\ k \in offered
                      /\ \A r \in DOMAIN k.sources \ (Rebound(results[k]) \cup Unbound(k)) :
                            DigestAt(content, r) = k.sources[r]
    BY DEF FreshOnShownInputs
  <2>1. k \in offered /\ BoundToContext(k, results[k])
    BY <1>1 DEF IInv, ProtocolInvariant
  <2>2. QED BY <2>1 DEF BoundToContext, Fresh
<1>2. QED BY <1>1, IInvHolds, PTL

\* A Decision the tools wrote has a stored Human answer behind it.
THEOREM DecisionsHaveAHuman == Spec => []HumanBehindEveryDecision
<1>1. IInv => HumanBehindEveryDecision
  BY DEF IInv, ProtocolInvariant, HumanBehindEveryDecision, HumanAnswered
<1>2. QED BY <1>1, IInvHolds, PTL

LEMMA CallStepWrites ==
    ASSUME NEW s \in Session, CallStep(s)
    PROVE  /\ results' # results => AppendResult(s) \/ Overwrite(s)
           /\ content' # content => RecordWrite(s)
<1>1. CASE Replay(s)
  BY <1>1 DEF Replay
<1>2. CASE Resume(s)
  BY <1>2 DEF Resume
<1>3. CASE SubmitLoad(s)
  BY <1>3 DEF SubmitLoad
<1>4. CASE AppendResult(s)
  BY <1>4 DEF AppendResult
<1>5. CASE Compare(s)
  BY <1>5 DEF Compare
<1>6. CASE Overwrite(s)
  BY <1>6 DEF Overwrite
<1>7. CASE WriteLoad(s)
  BY <1>7 DEF WriteLoad
<1>8. CASE RecordWrite(s)
  BY <1>8 DEF RecordWrite
<1>9. QED BY <1>1, <1>2, <1>3, <1>4, <1>5, <1>6, <1>7, <1>8 DEF CallStep

LEMMA WhoWritesResults ==
    ASSUME [Next]_vars, results' # results
    PROVE  \E s \in Session : (AppendResult(s) /\ results' # results) \/ Overwrite(s)
<1>1. ASSUME NEW s \in Session, CallStep(s)
      PROVE  (AppendResult(s) /\ results' # results) \/ Overwrite(s)
  BY <1>1, CallStepWrites
<1>2. ASSUME NEW s \in Session, AdfNext(s) PROVE FALSE
  BY <1>2 DEF AdfNext
<1>3. ASSUME NEW s \in Session, NEW k \in Key,
             \/ \E p \in Payload, outs \in OutputList : SubmitStart(s, k, p, outs)
             \/ \E r \in Record, d \in Digest, e \in Digest \cup {None} : WriteStart(s, k, r, d, e)
             \/ Abandon(s, k)
      PROVE  FALSE
  BY <1>3 DEF SubmitStart, WriteStart, Abandon
<1>4. ASSUME NEW s \in Session, Crash(s) PROVE FALSE
  BY <1>4 DEF Crash
<1>5. ASSUME NEW r, NEW d, Edit(r, d) PROVE FALSE
  BY <1>5 DEF Edit
<1>6. ASSUME NEW f, SwitchFramework(f) PROVE FALSE
  BY <1>6 DEF SwitchFramework
<1>7. CASE UNCHANGED vars
  BY <1>7 DEF vars
<1>8. QED BY <1>1, <1>2, <1>3, <1>4, <1>5, <1>6, <1>7 DEF Next

LEMMA WhoWritesContent ==
    ASSUME [Next]_vars, content' # content
    PROVE  \/ \E s \in Session : RecordWrite(s)
           \/ \E x \in Editable, d \in Digest \cup {None} : Edit(x, d)
<1>1. ASSUME NEW s \in Session, CallStep(s) PROVE RecordWrite(s)
  BY <1>1, CallStepWrites
<1>2. ASSUME NEW s \in Session, AdfNext(s) PROVE FALSE
  BY <1>2 DEF AdfNext
<1>3. ASSUME NEW s \in Session, NEW k \in Key,
             \/ \E p \in Payload, outs \in OutputList : SubmitStart(s, k, p, outs)
             \/ \E r \in Record, d \in Digest, e \in Digest \cup {None} : WriteStart(s, k, r, d, e)
             \/ Abandon(s, k)
      PROVE  FALSE
  BY <1>3 DEF SubmitStart, WriteStart, Abandon
<1>4. ASSUME NEW s \in Session, Crash(s) PROVE FALSE
  BY <1>4 DEF Crash
<1>5. ASSUME NEW f, SwitchFramework(f) PROVE FALSE
  BY <1>5 DEF SwitchFramework
<1>6. CASE UNCHANGED vars
  BY <1>6 DEF vars
<1>7. QED BY <1>1, <1>2, <1>3, <1>4, <1>5, <1>6 DEF Next

\* No correction is lost, for any number of sessions correcting at once.
THEOREM CorrectionsAreNotLost == Spec => NoLostCorrection
<1> DEFINE Replaced(k) == results[k] # None /\ results'[k] # results[k]
           Holder(k) == \E s \in Session : /\ correction = s
                                           /\ op[s].key = k
                                           /\ op[s].existing = results[k]
<1>1. ASSUME IInv, [Next]_vars PROVE [\A k \in Key : Replaced(k) => Holder(k)]_vars
  <2> SUFFICES ASSUME NEW k \in Key, Replaced(k) PROVE Holder(k)
    OBVIOUS
  <2>1. PICK s \in Session : \/ AppendResult(s) /\ results' # results
                             \/ Overwrite(s)
    BY <1>1, WhoWritesResults
  <2>2. results' = [results EXCEPT ![op[s].key] = op[s].prepared]
    BY <2>1 DEF AppendResult, Overwrite
  <2>3. k = op[s].key
    BY <1>1, <2>2 DEF IInv, TypeOK
  <2>4. Overwrite(s)
    BY <2>1, <2>3 DEF AppendResult
  <2>5. op[s].pc = "locked"
    BY <2>4 DEF Overwrite
  <2>6. correction = s /\ results[k] = op[s].existing
    BY <1>1, <2>3, <2>5 DEF IInv, ProtocolInvariant, LockProtects
  <2>7. QED BY <2>3, <2>6
<1>2. QED BY <1>1, IInvHolds, PTL DEF Spec, NoLostCorrection

\* Whoever is told that a submission is stored finds that submission stored.
THEOREM AcknowledgementsAreTrue == Spec => AcknowledgedIsStored
<1> DEFINE Told(s) == /\ op[s].kind = "submit"
                      /\ op[s] # op'[s]
                      /\ reply'[s] \in {"stored", "already_completed"}
           Stored(s) == /\ results'[op[s].key] # None
                        /\ results'[op[s].key].payload = op[s].payload
                        /\ results'[op[s].key].outs = Outputs(op[s].outs)
<1>1. ASSUME IInv, [Next]_vars PROVE [\A s \in Session : Told(s) => Stored(s)]_vars
  <2> SUFFICES ASSUME NEW s \in Session, Told(s) PROVE Stored(s)
    OBVIOUS
  <2>0. op \in [Session -> Op] /\ reply \in [Session -> ReplyCode]
    BY <1>1 DEF IInv, TypeOK
  <2>1. reply'[s] # "pending" /\ reply'[s] # "lost" /\ op' # op
    OBVIOUS
  <2>2. ASSUME NEW t \in Session, NEW o, NEW code,
               op' = [op EXCEPT ![t] = o], reply' = [reply EXCEPT ![t] = code]
        PROVE  t = s /\ reply'[s] = code
    BY <2>0, <2>2
  <2>3. PICK t \in Session : CallStep(t)
    <3>1. ASSUME NEW t \in Session, NEW k \in Key, NEW p \in Payload, NEW outs \in OutputList,
                 SubmitStart(t, k, p, outs)
          PROVE  FALSE
      BY <2>1, <2>2, <3>1 DEF SubmitStart
    <3>2. ASSUME NEW t \in Session, NEW k \in Key, NEW r \in Record, NEW d \in Digest,
                 NEW e \in Digest \cup {None}, WriteStart(t, k, r, d, e)
          PROVE  FALSE
      BY <2>1, <2>2, <3>2 DEF WriteStart
    <3>3. ASSUME NEW t \in Session, Crash(t) PROVE FALSE
      BY <2>1, <2>2, <3>3 DEF Crash
    <3>4. QED
      BY <1>1, <2>1, <3>1, <3>2, <3>3 DEF Next, vars, AdfNext, Abandon, Edit, SwitchFramework
  <2>4. ASSUME NEW code, Answer(t, code) PROVE t = s /\ reply'[s] = code
    BY <2>2, <2>4 DEF Answer
  <2>5. ASSUME NEW pc, GoTo(t, pc) PROVE FALSE
    <3>1. t = s
      BY <2>0, <2>5 DEF GoTo
    <3>2. QED BY <2>0, <2>1, <2>5, <3>1 DEF GoTo
  <2>6. /\ op[s].key \in Key \/ op[s].pc = "idle"
        /\ op[s].pc = "write" => op[s].kind # "submit"
    BY <1>1 DEF IInv, ProtocolInvariant, CallArguments
  <2>7. CASE Replay(t)
    BY <2>4, <2>5, <2>7 DEF Replay, SubmittedMatches
  <2>8. CASE Resume(t)
    BY <2>4, <2>5, <2>8 DEF Resume
  <2>9. CASE SubmitLoad(t)
    <3>1. CASE /\ results[op[t].key] # None /\ SubmittedMatches(results[op[t].key], op[t])
               /\ Answer(t, "already_completed")
      BY <2>4, <2>9, <3>1 DEF SubmitLoad, SubmittedMatches
    <3>2. ASSUME NEW v, v = SubmitVerdict(op[t], issued[t][op[t].key]),
                 v # "accepted", Answer(t, v)
          PROVE  FALSE
      <4>1. v # "stored" /\ v # "already_completed"
        BY <3>2 DEF SubmitVerdict
      <4>2. QED BY <2>4, <3>2, <4>1
    <3>3. CASE /\ reply' = [reply EXCEPT ![t] = "pending"]
               /\ op' = [op EXCEPT
                      ![t].pc = IF results[op[t].key] = None THEN "append" ELSE "replace",
                      ![t].prepared = PrepareResult(op[t], content),
                      ![t].existing = results[op[t].key]]
      <4>1. t = s
        BY <2>0, <3>3
      <4>2. QED BY <2>0, <2>1, <3>3, <4>1
    <3>4. QED BY <2>9, <3>1, <3>2, <3>3 DEF SubmitLoad
  <2>10. ASSUME op[t].pc \in {"append", "locked"}, Answer(t, "stored"),
                results' = [results EXCEPT ![op[t].key] = op[t].prepared]
         PROVE  Stored(s)
    <3>1. /\ t = s /\ op[s].prepared \in Result
          /\ op[s].prepared.payload = op[s].payload
          /\ op[s].prepared.outs = Outputs(op[s].outs)
      BY <1>1, <2>4, <2>10 DEF IInv, ProtocolInvariant, CallHoldsResult
    <3>2. results'[op[s].key] = op[s].prepared
      BY <1>1, <2>6, <2>10, <3>1 DEF IInv, TypeOK
    <3>3. QED BY <3>1, <3>2, ConstantAssumption
  <2>11. CASE AppendResult(t)
    BY <2>4, <2>10, <2>11 DEF AppendResult
  <2>12. CASE Compare(t)
    BY <2>4, <2>5, <2>12 DEF Compare
  <2>13. CASE Overwrite(t)
    BY <2>10, <2>13 DEF Overwrite
  <2>14. CASE WriteLoad(t)
    <3>1. ASSUME NEW v, Answer(t, v), op[t].kind # "submit" PROVE FALSE
      BY <2>4, <3>1
    <3>2. QED BY <2>5, <2>14, <3>1 DEF WriteLoad
  <2>15. CASE RecordWrite(t)
    BY <2>4, <2>6, <2>15 DEF RecordWrite
  <2>16. QED
    BY <2>3, <2>7, <2>8, <2>9, <2>11, <2>12, <2>13, <2>14, <2>15 DEF CallStep
<1>2. QED BY <1>1, IInvHolds, PTL DEF Spec, AcknowledgedIsStored

\* Evidence that nobody edits by hand is never overwritten.
THEOREM EvidenceStays == Spec => EvidenceIsAppendOnly
<1> DEFINE Kept(r) == content[r] # None => content'[r] = content[r]
<1>1. ASSUME IInv, [Next]_vars PROVE [\A r \in Evidence \ Editable : Kept(r)]_vars
  <2> SUFFICES ASSUME NEW r \in Evidence \ Editable, content[r] # None, content' # content
               PROVE  content'[r] = content[r]
    OBVIOUS
  <2>1. content \in Content /\ r \in Ref
    BY <1>1 DEF IInv, TypeOK, Ref, Record
  <2>2. \/ \E s \in Session : RecordWrite(s)
        \/ \E x \in Editable, d \in Digest \cup {None} : Edit(x, d)
    BY <1>1, WhoWritesContent
  <2>3. ASSUME NEW x \in Editable, NEW d \in Digest \cup {None}, Edit(x, d)
        PROVE  content'[r] = content[r]
    BY <2>1, <2>3 DEF Edit, Content
  <2>4. ASSUME NEW s \in Session, RecordWrite(s)
        PROVE  content'[r] = content[r]
    <3>1. /\ content' = [content EXCEPT ![op[s].ref] = op[s].digest]
          /\ UpdateVerdict(op[s]) = "stored" /\ op[s].pc = "write"
      BY <2>4 DEF RecordWrite
    <3>2. op[s].kind = KindOf(op[s].ref)
      BY <1>1, <3>1 DEF IInv, ProtocolInvariant, CallArguments
    <3>3. CASE op[s].ref = r
      <4>1. op[s].kind = "evidence"
        BY <3>2, <3>3, ConstantAssumption DEF KindOf
      <4>2. UpdateVerdict(op[s]) = "WRITE_CONFLICT"
        BY <3>3, <4>1 DEF UpdateVerdict
      <4>3. QED BY <3>1, <4>2
    <3>4. CASE op[s].ref # r
      BY <2>1, <3>1, <3>4 DEF Content
    <3>5. QED BY <3>3, <3>4
  <2>5. QED BY <2>2, <2>3, <2>4
<1>2. QED BY <1>1, IInvHolds, PTL DEF Spec, EvidenceIsAppendOnly

------------------------------------------------------------------------------
(***************************************************************************)
(* Refinement of ResultLedger.                                             *)
(***************************************************************************)
Correcting(s) == op[s].pc \in {"replace", "locked"}

\* A session in a correction has seen a Result of a key.
LEMMA SeenType ==
    ASSUME IInv, NEW s \in Session, Correcting(s)
    PROVE  /\ Seen[s] = [key |-> op[s].key, result |-> op[s].existing]
           /\ Seen[s] # None
<1>1. op[s].key \in Key /\ op[s].existing \in Result
  BY DEF Correcting, IInv, TypeOK, Op, ProtocolInvariant, CallArguments, CallHoldsResult
<1>2. Seen[s] = [key |-> op[s].key, result |-> op[s].existing]
  BY DEF Seen, Correcting
<1>3. QED BY <1>1, <1>2, ConstantAssumption

\* A step outside corrections leaves the ledger's view alone.
LEMMA SeenStays ==
    ASSUME NEW s \in Session, \A t \in Session \ {s} : op'[t] = op[t],
           ~Correcting(s), ~Correcting(s)'
    PROVE  Seen' = Seen
BY DEF Seen, Correcting

\* A call that ends without a write forgets what it saw.
LEMMA AnswerForgets ==
    ASSUME IInv, NEW s \in Session, NEW code, Answer(s, code), UNCHANGED <<results, offered>>
    PROVE  [Ledger!Next]_Ledger!vars
<1>1. op'[s] = Idle /\ \A t \in Session \ {s} : op'[t] = op[t]
  BY DEF Answer, IInv, TypeOK
<1>2. ~Correcting(s)'
  BY <1>1, IdleType DEF Correcting
<1>3. CASE Correcting(s)
  <2>1. Seen[s] # None
    BY <1>3, SeenType
  <2>2. Seen' = [Seen EXCEPT ![s] = None]
    BY <1>1, <1>2 DEF Seen, Correcting
  <2>3. Ledger!Forget(s)
    BY <2>1, <2>2 DEF Ledger!Forget
  <2>4. QED BY <2>3 DEF Ledger!Next
<1>4. CASE ~Correcting(s)
  BY <1>1, <1>2, <1>4, SeenStays DEF Ledger!vars
<1>5. QED BY <1>3, <1>4

\* A step of a call outside corrections that writes and offers nothing.
LEMMA MoveStutters ==
    ASSUME IInv, NEW s \in Session, NEW o, op' = [op EXCEPT ![s] = o],
           ~Correcting(s), o.pc \notin {"replace", "locked"}, UNCHANGED <<results, offered>>
    PROVE  UNCHANGED Ledger!vars
<1>1. op'[s] = o /\ \A t \in Session \ {s} : op'[t] = op[t]
  BY DEF IInv, TypeOK
<1>2. QED BY <1>1, SeenStays DEF Correcting, Ledger!vars

\* Every step of the protocol is a step of the ledger, or none.
LEMMA StepRefines == IInv /\ [Next]_vars => [Ledger!Next]_Ledger!vars
<1> SUFFICES ASSUME IInv, [Next]_vars PROVE [Ledger!Next]_Ledger!vars
  OBVIOUS
<1>1. ASSUME op' = op, results' = results, offered' = offered
      PROVE  UNCHANGED Ledger!vars
  BY <1>1 DEF Seen, Ledger!vars
<1>2. ASSUME NEW s \in Session, AdfNext(s) PROVE [Ledger!Next]_Ledger!vars
  <2>0. PICK k \in Selections(content, results) \ {None} : offered' = offered \cup {k}
    BY <1>2 DEF AdfNext
  <2>1. k \in Key
    BY <2>0, SelectionsType DEF IInv, TypeOK
  <2>2. Ledger!Offer(k)
    BY <1>2, <2>0 DEF AdfNext, Seen, Ledger!Offer
  <2>3. QED BY <2>1, <2>2 DEF Ledger!Next
<1>3. ASSUME NEW s \in Session, NEW k \in Key, NEW p \in Payload, NEW outs \in OutputList,
             SubmitStart(s, k, p, outs)
      PROVE  [Ledger!Next]_Ledger!vars
  <2> DEFINE o == [Idle EXCEPT !.pc = IF issued[s][k] # None THEN "load" ELSE "replay",
                               !.kind = "submit", !.key = k,
                               !.payload = p, !.outs = outs]
  <2>1. o.pc \notin {"replace", "locked"}
    BY DEF Idle
  <2>2. op' = [op EXCEPT ![s] = o]
    BY <1>3 DEF SubmitStart
  <2> HIDE DEF o
  <2>3. QED BY <1>3, <2>1, <2>2, MoveStutters DEF SubmitStart, Correcting
<1>4. ASSUME NEW s \in Session, NEW k \in Key, NEW r \in Record, NEW d \in Digest,
             NEW e \in Digest \cup {None}, WriteStart(s, k, r, d, e)
      PROVE  [Ledger!Next]_Ledger!vars
  <2> DEFINE pc == IF issued[s][k] # None THEN "load" ELSE "resume"
             o == WriteCall(pc, k, r, d, e)
  <2>1. op' = [op EXCEPT ![s] = o]
    BY <1>4 DEF WriteStart
  <2>2. pc \in {"load", "resume"}
    OBVIOUS
  <2> HIDE DEF pc
  <2>3. o.pc \notin {"replace", "locked"}
    BY <2>2, WriteCallType
  <2> HIDE DEF o
  <2>4. QED BY <1>4, <2>1, <2>3, MoveStutters DEF WriteStart, Correcting
<1>5. ASSUME NEW s \in Session, CallStep(s) PROVE [Ledger!Next]_Ledger!vars
  <2>1. ASSUME NEW pc \in {"resume", "load", "write"}, GoTo(s, pc), ~Correcting(s),
               UNCHANGED <<results, offered>>
        PROVE  UNCHANGED Ledger!vars
    <3>1. op'[s].pc = pc /\ \A t \in Session \ {s} : op'[t] = op[t]
      BY <2>1 DEF GoTo, IInv, TypeOK, Op
    <3>2. Seen' = Seen
      BY <2>1, <3>1, SeenStays DEF Correcting
    <3>3. QED BY <2>1, <3>2 DEF Ledger!vars
  <2>2. CASE Replay(s)
    BY <2>1, <2>2, AnswerForgets DEF Replay, Correcting
  <2>3. CASE Resume(s)
    <3>0. PICK current \in Selections(content, results) :
             \/ Answer(s, "ACTION_NOT_CURRENT") /\ UNCHANGED offered
             \/ /\ Resumable(op[s].key, current)
                /\ offered' = offered \cup {current}
                /\ GoTo(s, "load")
      BY <2>3 DEF Resume
    <3>1. CASE Answer(s, "ACTION_NOT_CURRENT") /\ UNCHANGED offered
      BY <2>3, <3>1, AnswerForgets DEF Resume
    <3>2. CASE /\ Resumable(op[s].key, current)
               /\ offered' = offered \cup {current}
               /\ GoTo(s, "load")
      <4>1. current \in Key
        BY <2>3, <3>2 DEF Resumable, Resume, IInv, ProtocolInvariant, CallArguments
      <4>2. /\ op'[s].pc = "load" /\ op[s].pc = "resume"
            /\ \A t \in Session \ {s} : op'[t] = op[t]
        BY <2>3, <3>2 DEF Resume, GoTo, IInv, TypeOK, Op
      <4>3. Seen' = Seen
        BY <4>2, SeenStays DEF Correcting
      <4>4. Ledger!Offer(current)
        BY <2>3, <3>2, <4>3 DEF Resume, Ledger!Offer
      <4>5. QED BY <4>1, <4>4 DEF Ledger!Next
    <3>3. QED BY <3>0, <3>1, <3>2
  <2>4. CASE SubmitLoad(s)
    <3> DEFINE k == op[s].key
    <3>1. ASSUME NEW code, Answer(s, code) PROVE [Ledger!Next]_Ledger!vars
      BY <2>4, <3>1, AnswerForgets DEF SubmitLoad
    <3>2. CASE op' = [op EXCEPT ![s].pc = IF results[k] = None THEN "append" ELSE "replace",
                                ![s].prepared = PrepareResult(op[s], content),
                                ![s].existing = results[k]]
      <4>1. /\ op'[s].pc = IF results[k] = None THEN "append" ELSE "replace"
            /\ op'[s].existing = results[k] /\ op'[s].key = k
            /\ \A t \in Session \ {s} : op'[t] = op[t]
        BY <3>2 DEF IInv, TypeOK, Op
      <4>2. k \in Key /\ ~Correcting(s) /\ UNCHANGED <<results, offered>>
        BY <2>4 DEF SubmitLoad, Correcting, IInv, ProtocolInvariant, CallArguments
      <4>3. CASE results[k] = None
        BY <4>1, <4>2, <4>3, SeenStays DEF Correcting, Ledger!vars
      <4>4. CASE results[k] # None
        <5>1. Seen' = [Seen EXCEPT ![s] = [key |-> k, result |-> results[k]]]
          BY <4>1, <4>4 DEF Seen
        <5>2. Ledger!Look(s, k)
          BY <4>2, <4>4, <5>1 DEF Ledger!Look
        <5>3. QED BY <4>2, <5>2 DEF Ledger!Next
      <4>5. QED BY <4>3, <4>4
    <3>3. QED BY <2>4, <3>1, <3>2 DEF SubmitLoad
  <2>5. CASE AppendResult(s)
    <3> DEFINE k == op[s].key
               p == op[s].prepared
    <3>1. CASE Answer(s, "WRITE_CONFLICT") /\ UNCHANGED results
      BY <2>5, <3>1, AnswerForgets DEF AppendResult
    <3>2. CASE /\ results[k] = None /\ results' = [results EXCEPT ![k] = p]
               /\ Answer(s, "stored")
      <4>1. k \in offered /\ k \in Key /\ p \in Result /\ op[s].pc = "append"
        BY <2>5 DEF AppendResult, IInv, ProtocolInvariant, CallArguments, CallHoldsEntry,
           CallHoldsResult
      <4>2. op'[s] = Idle /\ \A t \in Session \ {s} : op'[t] = op[t]
        BY <3>2 DEF Answer, IInv, TypeOK
      <4>3. Seen' = Seen
        BY <4>1, <4>2, IdleType, SeenStays DEF Correcting
      <4>4. Ledger!Record(k, p)
        BY <2>5, <3>2, <4>1, <4>3 DEF AppendResult, Ledger!Record
      <4>5. QED BY <4>1, <4>4 DEF Ledger!Next
    <3>3. QED BY <2>5, <3>1, <3>2 DEF AppendResult
  <2>6. CASE Compare(s)
    <3>1. CASE Answer(s, "INVALID_ARGUMENT")
      BY <2>6, <3>1, AnswerForgets DEF Compare
    <3>2. CASE GoTo(s, "locked")
      <4>1. /\ op[s].pc = "replace" /\ op'[s].pc = "locked"
            /\ op'[s].key = op[s].key /\ op'[s].existing = op[s].existing
            /\ \A t \in Session \ {s} : op'[t] = op[t]
        BY <2>6, <3>2 DEF Compare, GoTo, IInv, TypeOK, Op
      <4>2. Seen' = Seen
        BY <4>1 DEF Seen
      <4>3. QED BY <2>6, <4>2 DEF Compare, Ledger!vars
    <3>3. QED BY <2>6, <3>1, <3>2 DEF Compare
  <2>7. CASE Overwrite(s)
    <3> DEFINE k == op[s].key
               p == op[s].prepared
    <3>1. /\ Correcting(s) /\ results[k] = op[s].existing /\ p \in Result
      BY <2>7 DEF Overwrite, Correcting, IInv, ProtocolInvariant, CallHoldsResult, LockProtects
    <3>2. Seen[s].key = k /\ Seen[s].result = op[s].existing /\ Seen[s] # None
      <4>1. Seen[s] = [key |-> k, result |-> op[s].existing]
        BY <3>1, SeenType
      <4>2. Seen[s] # None
        BY <3>1, SeenType
      <4>3. QED BY <4>1, <4>2
    <3>3. op'[s] = Idle /\ \A t \in Session \ {s} : op'[t] = op[t]
      BY <2>7 DEF Overwrite, Answer, IInv, TypeOK
    <3>4. Seen' = [Seen EXCEPT ![s] = None]
      BY <3>3, IdleType DEF Seen
    <3>5. Ledger!Amend(s, p)
      BY <2>7, <3>1, <3>2, <3>4 DEF Overwrite, Ledger!Amend
    <3>6. QED BY <3>1, <3>5 DEF Ledger!Next
  <2>8. CASE WriteLoad(s)
    BY <2>1, <2>8, AnswerForgets DEF WriteLoad, Correcting
  <2>9. CASE RecordWrite(s)
    BY <2>9, AnswerForgets DEF RecordWrite
  <2>10. QED BY <1>5, <2>2, <2>3, <2>4, <2>5, <2>6, <2>7, <2>8, <2>9 DEF CallStep
<1>6. ASSUME NEW s \in Session, Crash(s) PROVE [Ledger!Next]_Ledger!vars
  BY <1>6, AnswerForgets DEF Crash, Answer
<1>7. QED
  BY <1>1, <1>2, <1>3, <1>4, <1>5, <1>6 DEF Next, vars, Abandon, Edit, SwitchFramework

\* The protocol implements the ledger: snapshots, the lock and the two writes
\* of a correction are one atomic compare-and-set.
THEOREM ProtocolImplementsLedger == Spec => ImplementsLedger
<1>1. Init => Ledger!Init
  BY IdleType DEF Init, Ledger!Init, Seen
<1>2. IInv /\ [Next]_vars => [Ledger!Next]_Ledger!vars
  BY StepRefines
<1>3. QED BY <1>1, <1>2, IInvHolds, PTL DEF Spec, ImplementsLedger, Ledger!Spec
==============================================================================
