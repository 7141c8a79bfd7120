------------------------- MODULE RuleMigrationProofs -------------------------
(***************************************************************************)
(* Proofs about RuleMigration, for any project, candidate and number of    *)
(* commands, edits and faults: the application is one at a time, its       *)
(* record is true, a rollback restores what it found, and no legacy file   *)
(* is lost.                                                                *)
(***************************************************************************)
EXTENDS RuleMigration, TLAPS

\* The inductive part of ApplicationInvariant, with LegacyIsNeverLost, which a
\* new command relies on.
IInv ==
    /\ TypeOK /\ OneCommand /\ CandidateStays /\ StillReviewed /\ OnlyApplicationWrites
    /\ CommandsAreWhereTheySay /\ RecordIsTrue /\ LegacyIsNeverLost

------------------------------------------------------------------------------
(***************************************************************************)
(* Types of what the commands handle.                                      *)
(***************************************************************************)
LEMMA Paths ==
    /\ Path = Source \cup Target /\ Source \cap Target = {}
    /\ \A s \in Source : Legacy[s] \in Byte /\ Legacy[s] # None
    /\ \A b \in Byte : b # None
    /\ None \in File /\ Torn \in File /\ Byte \subseteq File /\ Torn # None
BY RuleMigrationAssumption DEF Path, File

LEMMA PayloadFacts ==
    ASSUME NEW f \in Payload
    PROVE  DOMAIN f \subseteq Target /\ \A x \in DOMAIN f : f[x] \in Byte /\ f[x] # None
<1>1. PICK D \in SUBSET Target : f \in [D -> Byte]
  BY DEF Payload
<1>2. QED BY <1>1, Paths

LEMMA PayloadType ==
    ASSUME NEW D, D \subseteq Target, NEW f \in [D -> Byte]
    PROVE  f \in Payload
BY DEF Payload

LEMMA ClaimFacts ==
    ASSUME NEW f \in Claim
    PROVE  DOMAIN f \subseteq Artifact /\ \A x \in DOMAIN f : f[x] \in Byte
<1>1. PICK D \in SUBSET Artifact : f \in [D -> Byte]
  BY DEF Claim
<1>2. QED BY <1>1

LEMMA NoPayloadType == NoPayload \in Payload
<1>1. NoPayload \in [{} -> Byte]
  BY DEF NoPayload
<1>2. QED BY <1>1, PayloadType

LEMMA NowhereType == Nowhere \in [Path -> File] /\ \A q \in Path : Nowhere[q] = None
BY DEF Nowhere, File

LEMMA StoppedFacts ==
    ASSUME NEW pc \in {"idle", "locked", "validated"}
    PROVE  /\ Stopped(pc) \in Run /\ Stopped(pc).pc = pc
<1>1. Stopped(pc) = [pc |-> pc, payload |-> NoPayload, sources |-> {}, todo |-> {},
                     created |-> {}, moved |-> {}, failures |-> {}, before |-> Nowhere]
  BY DEF Stopped, At
<1>2. QED BY <1>1, NoPayloadType, NowhereType DEF Run, Stage

LEMMA RunFacts ==
    ASSUME TypeOK, NEW p \in Process
    PROVE  /\ proc[p] \in Run /\ proc[p].pc \in Stage /\ proc[p].payload \in Payload
           /\ proc[p].sources \subseteq Source /\ proc[p].todo \subseteq Path
           /\ proc[p].created \subseteq Target /\ proc[p].moved \subseteq Source
           /\ proc[p].failures \subseteq {"remove", "restore"}
           /\ proc[p].before \in [Path -> File]
BY DEF TypeOK, Run

\* A stopped command owes nothing.
LEMMA StoppedFits ==
    ASSUME NEW r, r.pc \in {"idle", "locked", "validated"}
    PROVE  StageFits(r) /\ StageFits(r)'
BY DEF StageFits, Changing

------------------------------------------------------------------------------
LEMMA InitIInv == ASSUME Init PROVE IInv
<1>1. TypeOK
  <2>1. committed \in [Path -> File]
    BY Paths DEF Init
  <2>2. tree \in [Path -> File] /\ archive \in [Path -> File]
    BY <2>1, NowhereType DEF Init
  <2>3. head \in 0 .. MaxRevision /\ edits \in 0 .. MaxEdits /\ faults \in 0 .. MaxFaults
    BY RuleMigrationAssumption DEF Init
  <2>4. record \in [payload : Payload, sources : SUBSET Source]
    BY NoPayloadType DEF Init
  <2>5. proc \in [Process -> Run]
    BY StoppedFacts DEF Init
  <2>6. generator \in BOOLEAN /\ reviewed \subseteq Artifact \X Byte /\ late \subseteq Artifact
    BY DEF Init
  <2>7. /\ draft \in DraftFile \cup {None} /\ candidate \in Candidate \cup {None}
        /\ lock \in {"free", "held", "stale"}
        /\ app \in {"absent", "partial", "applied", "unsynced"}
        /\ foreign \subseteq Path
    BY DEF Init
  <2>8. QED BY <2>1, <2>2, <2>3, <2>4, <2>5, <2>6, <2>7 DEF TypeOK
<1>2. \A p \in Process : proc[p].pc = "idle"
  BY StoppedFacts DEF Init
<1>3. OneCommand /\ StillReviewed /\ CandidateStays
  BY <1>2 DEF OneCommand, StillReviewed, CandidateStays, Init
<1>4. CommandsAreWhereTheySay
  BY <1>2, StoppedFits DEF CommandsAreWhereTheySay
<1>5. OnlyApplicationWrites
  BY Paths, NowhereType DEF OnlyApplicationWrites, Init
<1>6. RecordIsTrue
  BY DEF RecordIsTrue, Init
<1>7. LegacyIsNeverLost
  BY Paths DEF LegacyIsNeverLost, Init
<1>8. QED BY <1>1, <1>3, <1>4, <1>5, <1>6, <1>7 DEF IInv

------------------------------------------------------------------------------
(***************************************************************************)
(* Preparation, edits and commits.                                         *)
(***************************************************************************)
\* What a command knows of the review of what it applies.
RunReviewed(r) ==
    /\ r.pc = "validated" =>
          \A x \in Claimed(candidate) \ late : <<x, candidate.file[x]>> \in reviewed
    /\ r.pc \in {"planned", "archiving", "writing"} =>
          \A x \in DOMAIN r.payload \ ({Config} \cup ReleaseFile \cup late) :
              <<x, r.payload[x]>> \in reviewed

ValidationType == reviewed \subseteq Artifact \X Byte /\ late \subseteq Artifact

LEMMA ReviewedStays ==
    ASSUME StillReviewed, UNCHANGED <<candidate, proc, reviewed, late>>
    PROVE  StillReviewed'
<1>1. Claimed(candidate)' = Claimed(candidate)
  BY DEF Claimed, Pending
<1>2. QED BY <1>1 DEF StillReviewed

LEMMA ClaimedType ==
    ASSUME NEW c \in Candidate
    PROVE  Claimed(c) \subseteq Artifact
<1>1. \A a \in Action : c.done[a] # None => c.done[a] \in Claim
  BY DEF Candidate
<1>2. \A a \in Pending(c) : (IF c.done[a] = None THEN {} ELSE DOMAIN c.done[a]) \subseteq Artifact
  BY <1>1, ClaimFacts DEF Pending
<1>3. QED BY <1>2 DEF Claimed

\* The candidate changes at the files S, which are late for a command that has
\* validated it.
LEMMA ReviewedMoves ==
    ASSUME StillReviewed, NEW S, NEW c \in Candidate, c = candidate, NEW d, d = candidate',
           Claimed(d) \subseteq Claimed(c) \cup S,
           \A y \in Artifact \ S : d.file[y] = c.file[y],
           late' = IF Racing THEN late \cup S ELSE late,
           UNCHANGED <<proc, reviewed>>
    PROVE  StillReviewed'
<1>1. Claimed(candidate)' = Claimed(d)
  BY DEF Claimed, Pending
<1>2. Claimed(c) \subseteq Artifact
  BY ClaimedType
<1>3. ASSUME NEW p \in Process, proc[p].pc = "validated"
      PROVE  \A x \in Claimed(d) \ late' : <<x, d.file[x]>> \in reviewed
  <2>1. late' = late \cup S
    BY <1>3 DEF Racing
  <2>2. \A x \in Claimed(c) \ late : <<x, c.file[x]>> \in reviewed
    BY <1>3 DEF StillReviewed
  <2>3. QED BY <1>2, <2>1, <2>2
<1>4. late \subseteq late'
  OBVIOUS
<1>5. QED BY <1>1, <1>3, <1>4 DEF StillReviewed

LEMMA PrepareMoves ==
    ASSUME IInv, draft' \in DraftFile \cup {None}, generator' \in BOOLEAN,
           candidate' \in Candidate \cup {None}, edits' \in 0 .. MaxEdits,
           generator' => candidate' = None, candidate # None => candidate' # None,
           ValidationType', StillReviewed', UNCHANGED <<project, applying>>
    PROVE  IInv'
<1>1. UNCHANGED <<head, committed, tree, foreign, lock, app, record, archive, proc, faults>>
  BY DEF project, applying
<1>2. TypeOK'
  BY <1>1 DEF IInv, TypeOK, ValidationType
<1>3. OneCommand' /\ CandidateStays'
  BY <1>1 DEF IInv, OneCommand, CandidateStays
<1>4. OnlyApplicationWrites' /\ RecordIsTrue' /\ LegacyIsNeverLost'
  BY <1>1 DEF IInv, OnlyApplicationWrites, RecordIsTrue, LegacyIsNeverLost
<1>5. CommandsAreWhereTheySay'
  BY <1>1 DEF IInv, CommandsAreWhereTheySay, StageFits, Changing, Original
<1>6. QED BY <1>2, <1>3, <1>4, <1>5 DEF IInv

\* The candidate stays as it is.
LEMMA QuietPrepareMoves ==
    ASSUME IInv, draft' \in DraftFile \cup {None}, generator' \in BOOLEAN,
           edits' \in 0 .. MaxEdits, generator' => candidate = None,
           UNCHANGED <<project, applying, candidate, validation>>
    PROVE  IInv'
<1>1. candidate' \in Candidate \cup {None} /\ ValidationType'
  BY DEF IInv, TypeOK, ValidationType, validation
<1>2. StillReviewed'
  BY ReviewedStays DEF IInv, applying, validation
<1>3. QED BY <1>1, <1>2, PrepareMoves

LEMMA CostsType ==
    ASSUME TypeOK, NEW m, Costs(m)
    PROVE  edits' \in 0 .. MaxEdits
BY RuleMigrationAssumption DEF TypeOK, Costs

LEMMA PreparePreserves ==
    ASSUME IInv, Prepare
    PROVE  IInv'
<1>0. TypeOK /\ (generator => candidate = None)
  BY DEF IInv, CandidateStays
<1>1. CASE DraftMigration
  <2>1. DraftFromInspection \in DraftFile
    BY <1>0 DEF TypeOK, DraftFromInspection, DraftFile, Proposed
  <2>2. QED BY <1>0, <1>1, <2>1, QuietPrepareMoves DEF DraftMigration, TypeOK
<1>2. CASE TamperDraft
  <2>1. draft' \in DraftFile
    BY <1>0, <1>2 DEF TypeOK, TamperDraft, DraftFile
  <2>2. edits' \in 0 .. MaxEdits
    BY <1>0, <1>2, RuleMigrationAssumption DEF TypeOK, TamperDraft
  <2>3. QED BY <1>0, <1>2, <2>1, <2>2, QuietPrepareMoves DEF TamperDraft, TypeOK
<1>3. CASE RemoveDraft
  BY <1>0, <1>3, QuietPrepareMoves DEF RemoveDraft, TypeOK
<1>4. CASE GenerateStart
  BY <1>0, <1>4, QuietPrepareMoves DEF GenerateStart, OutputFree, TypeOK
<1>5. CASE GenerateFinish
  <2>1. ASSUME draft # None PROVE NewCandidate(draft) \in Candidate
    BY <1>0, <2>1, RuleMigrationAssumption DEF TypeOK, NewCandidate, Candidate
  <2>2. candidate' \in Candidate \cup {None} /\ candidate = None
    BY <1>0, <1>5, <2>1 DEF GenerateFinish
  <2>3. /\ \A p \in Process : proc'[p].pc = "idle"
        /\ ValidationType'
    BY <1>0, <1>5, <2>2 DEF IInv, CandidateStays, GenerateFinish, TypeOK, ValidationType,
       applying, validation
  <2>4. StillReviewed'
    BY <2>3 DEF StillReviewed
  <2>5. QED BY <1>0, <1>5, <2>2, <2>3, <2>4, PrepareMoves DEF GenerateFinish, TypeOK
<1>6. ASSUME NEW a \in Action, NEW d \in Decision, Review(a, d) PROVE IInv'
  <2>1. draft' \in DraftFile
    BY <1>0, <1>6 DEF TypeOK, Review, DraftFile
  <2>2. edits' \in 0 .. MaxEdits
    BY <1>0, <1>6, CostsType DEF Review
  <2>3. QED BY <1>0, <1>6, <2>1, <2>2, QuietPrepareMoves DEF Review, TypeOK
<1>7. ASSUME NEW x \in Artifact, NEW b \in Byte \cup {None}, WriteArtifact(x, b) PROVE IInv'
  <2>1. candidate' \in Candidate /\ candidate' # None /\ candidate \in Candidate
    BY <1>0, <1>7, CandidateAssumption DEF TypeOK, WriteArtifact, Candidate
  <2>2. edits' \in 0 .. MaxEdits
    BY <1>0, <1>7, CostsType DEF WriteArtifact
  <2>3. late' = (IF Racing THEN late \cup {x} ELSE late) /\ UNCHANGED <<proc, reviewed>>
    BY <1>7 DEF WriteArtifact, applying
  <2>4. PICK d : d = candidate'
    OBVIOUS
  <2>5. d = [candidate EXCEPT !.file[x] = b]
    BY <1>7, <2>4 DEF WriteArtifact
  <2>6. Claimed(d) = Claimed(candidate)
    BY <2>1, <2>5 DEF Claimed, Pending, Candidate
  <2>7. \A y \in Artifact \ {x} : d.file[y] = candidate.file[y]
    BY <2>1, <2>5 DEF Candidate
  <2>8. StillReviewed'
    BY <2>1, <2>3, <2>4, <2>6, <2>7, ReviewedMoves DEF IInv
  <2>9. ValidationType'
    BY <1>0, <2>3 DEF TypeOK, ValidationType
  <2>10. QED
    BY <1>0, <1>7, <2>1, <2>2, <2>8, <2>9, PrepareMoves, CandidateAssumption
    DEF WriteArtifact, TypeOK
<1>8. ASSUME NEW a \in Action, NEW D \in SUBSET Artifact, Complete(a, D) PROVE IInv'
  <2>1. candidate \in Candidate
    BY <1>0, <1>8 DEF TypeOK, Complete
  <2>2. \A x \in D : candidate.file[x] \in Byte
    BY <1>8, <2>1 DEF Complete, Candidate
  <2> DEFINE claim == [x \in D |-> candidate.file[x]]
  <2>3. claim \in Claim
    <3>1. claim \in [D -> Byte]
      BY <2>2
    <3>2. QED BY <3>1 DEF Claim
  <2>4. candidate' = [candidate EXCEPT !.done[a] = claim]
    BY <1>8 DEF Complete
  <2> HIDE DEF claim
  <2>5. candidate' \in Candidate /\ candidate' # None
    BY <2>1, <2>3, <2>4, CandidateAssumption DEF Candidate
  <2>6. edits' \in 0 .. MaxEdits
    BY <1>0, <1>8, CostsType DEF Complete
  <2>7. late' = (IF Racing THEN late \cup D ELSE late) /\ UNCHANGED <<proc, reviewed>>
    BY <1>8 DEF Complete, applying
  <2>8. PICK d : d = candidate'
    OBVIOUS
  <2>9. /\ d.draft = candidate.draft /\ d.file = candidate.file
        /\ d.done[a] = claim /\ DOMAIN claim = D
        /\ \A e \in Action \ {a} : d.done[e] = candidate.done[e]
    BY <1>8, <2>1, <2>4, <2>8 DEF Candidate, claim
  <2>10. Claimed(d) \subseteq Claimed(candidate) \cup D
    <3>1. Pending(d) = Pending(candidate) /\ Pending(d) \subseteq Action
      BY <2>9 DEF Pending
    <3>2. \A e \in Pending(d) :
             (IF d.done[e] = None THEN {} ELSE DOMAIN d.done[e])
                \subseteq (IF candidate.done[e] = None THEN {} ELSE DOMAIN candidate.done[e]) \cup D
      BY <2>9, <3>1
    <3>3. QED BY <3>1, <3>2 DEF Claimed
  <2>11. StillReviewed'
    BY <2>1, <2>7, <2>8, <2>9, <2>10, ReviewedMoves DEF IInv
  <2>12. ValidationType'
    BY <1>0, <2>7 DEF TypeOK, ValidationType
  <2>13. QED
    BY <1>0, <1>8, <2>1, <2>5, <2>6, <2>11, <2>12, PrepareMoves, CandidateAssumption
    DEF Complete, TypeOK
<1>9. QED BY <1>1, <1>2, <1>3, <1>4, <1>5, <1>6, <1>7, <1>8 DEF Prepare

LEMMA EditPreserves ==
    ASSUME IInv, NEW p \in Path, NEW f \in Byte \cup {None}, EditProject(p, f)
    PROVE  IInv'
<1>1. /\ UNCHANGED <<head, committed, draft, generator, candidate, lock, app, record, archive,
                     proc, faults, reviewed, late>>
      /\ foreign' = foreign \cup {p}
  BY DEF EditProject, applying, validation
<1>2. /\ tree' \in [Path -> File]
      /\ \A q \in Path \ foreign' : q \in Path \ foreign /\ tree'[q] = tree[q]
  BY <1>1, Paths DEF EditProject, IInv, TypeOK, File
<1>3. edits' \in 0 .. MaxEdits
  BY RuleMigrationAssumption DEF EditProject, IInv, TypeOK
<1>4. TypeOK'
  BY <1>1, <1>2, <1>3 DEF IInv, TypeOK
<1>5. OneCommand' /\ CandidateStays'
  BY <1>1 DEF IInv, OneCommand, CandidateStays
<1>6. StillReviewed'
  BY <1>1, ReviewedStays DEF IInv
<1>7. OnlyApplicationWrites'
  BY <1>1, <1>2, Paths DEF IInv, OnlyApplicationWrites
<1>8. RecordIsTrue'
  <2>1. record.sources \subseteq Source /\ DOMAIN record.payload \subseteq Target
    BY PayloadFacts DEF IInv, TypeOK
  <2>2. QED BY <1>1, <1>2, <2>1, Paths DEF IInv, RecordIsTrue
<1>9. LegacyIsNeverLost'
  BY <1>1, <1>2, Paths DEF IInv, LegacyIsNeverLost
<1>10. CommandsAreWhereTheySay'
  <2> SUFFICES ASSUME NEW u \in Process PROVE StageFits(proc[u])'
    BY DEF CommandsAreWhereTheySay
  <2>1. PICK r : r = proc[u]
    OBVIOUS
  <2>2. StageFits(r)
    BY <2>1 DEF IInv, CommandsAreWhereTheySay
  <2>3. StageFits(r)'
    <3>1. \A x \in Target \ foreign' : x \in Target \ foreign /\ tree'[x] = tree[x]
      BY <1>2, Paths
    <3>2. \A x \in Source \ foreign' : x \in Source \ foreign /\ tree'[x] = tree[x]
      BY <1>2, Paths
    <3>3. \A x \in Path \ foreign' : x \in Path \ foreign
      BY <1>2
    <3>4. foreign \subseteq foreign'
      BY <1>1
    <3>5. QED BY <1>1, <2>2, <3>1, <3>2, <3>3, <3>4 DEF StageFits, Original
  <2>4. QED BY <1>1, <2>1, <2>3
<1>11. QED BY <1>4, <1>5, <1>6, <1>7, <1>8, <1>9, <1>10 DEF IInv

LEMMA CommitPreserves ==
    ASSUME IInv, Commit
    PROVE  IInv'
<1>1. UNCHANGED <<tree, foreign, draft, generator, candidate, lock, app, record, archive,
                  proc, faults, reviewed, late, edits>>
  BY DEF Commit, applying, validation
<1>2. TypeOK'
  BY <1>1, RuleMigrationAssumption DEF Commit, IInv, TypeOK
<1>3. OneCommand' /\ CandidateStays'
  BY <1>1 DEF IInv, OneCommand, CandidateStays
<1>4. StillReviewed'
  BY <1>1, ReviewedStays DEF IInv
<1>5. OnlyApplicationWrites' /\ RecordIsTrue' /\ LegacyIsNeverLost'
  BY <1>1 DEF IInv, OnlyApplicationWrites, RecordIsTrue, LegacyIsNeverLost
<1>6. CommandsAreWhereTheySay'
  BY <1>1 DEF IInv, CommandsAreWhereTheySay, StageFits, Changing, Original
<1>7. QED BY <1>2, <1>3, <1>4, <1>5, <1>6 DEF IInv

LEMMA ClearLockPreserves ==
    ASSUME IInv, ClearLock
    PROVE  IInv'
<1>1. /\ UNCHANGED <<head, committed, tree, foreign, draft, generator, candidate, edits, record,
                     app, archive, proc, reviewed, late, faults>>
      /\ lock = "stale" /\ lock' = "free"
  BY DEF ClearLock, project, prepared, validation
<1>2. TypeOK'
  BY <1>1 DEF IInv, TypeOK
<1>3. OneCommand' /\ CandidateStays'
  BY <1>1 DEF IInv, OneCommand, CandidateStays
<1>4. StillReviewed'
  BY <1>1, ReviewedStays DEF IInv
<1>5. OnlyApplicationWrites' /\ RecordIsTrue' /\ LegacyIsNeverLost'
  BY <1>1 DEF IInv, OnlyApplicationWrites, RecordIsTrue, LegacyIsNeverLost
<1>6. CommandsAreWhereTheySay'
  BY <1>1 DEF IInv, CommandsAreWhereTheySay, StageFits, Changing, Original
<1>7. QED BY <1>2, <1>3, <1>4, <1>5, <1>6 DEF IInv

------------------------------------------------------------------------------
(***************************************************************************)
(* One step of one command.  The lock file keeps every other command idle, *)
(* so that what the step does to the project is all that happens.          *)
(***************************************************************************)
LEMMA OthersAreIdle ==
    ASSUME IInv, NEW p \in Process, proc[p].pc # "idle" \/ lock = "free"
    PROVE  \A q \in Process \ {p} : proc[q].pc = "idle"
BY DEF IInv, OneCommand

LEMMA CommandStep ==
    ASSUME IInv, NEW p \in Process, proc[p].pc # "idle" \/ lock = "free",
           NEW r \in Run, Step(p, r), StageFits(r)',
           candidate # None, r.pc # "idle" => lock' = "held",
           lock' \in {"free", "held", "stale"}, app' \in {"absent", "partial", "applied", "unsynced"},
           record' \in [payload : Payload, sources : SUBSET Source],
           tree' \in [Path -> File], archive' \in [Path -> File],
           ValidationType', RunReviewed(r)', faults' \in 0 .. MaxFaults, foreign' \subseteq Path,
           UNCHANGED <<head, committed, prepared>>,
           OnlyApplicationWrites', RecordIsTrue', LegacyIsNeverLost'
    PROVE  IInv'
<1>1. UNCHANGED <<head, committed, draft, generator, candidate, edits>>
  BY DEF prepared
<1>2. /\ proc' \in [Process -> Run] /\ proc'[p] = r
      /\ \A q \in Process \ {p} : proc'[q] = proc[q] /\ proc[q].pc = "idle"
  BY OthersAreIdle DEF IInv, TypeOK, Step
<1>3. TypeOK'
  BY <1>1, <1>2 DEF IInv, TypeOK, ValidationType
<1>4. OneCommand'
  BY <1>2 DEF OneCommand
<1>5. CandidateStays'
  BY <1>1 DEF IInv, CandidateStays
<1>6. StillReviewed'
  BY <1>2 DEF StillReviewed, RunReviewed
<1>7. CommandsAreWhereTheySay'
  <2> SUFFICES ASSUME NEW q \in Process PROVE StageFits(proc[q])'
    BY DEF CommandsAreWhereTheySay
  <2>1. CASE q = p
    BY <1>2, <2>1
  <2>2. CASE q # p
    BY <1>2, <2>2 DEF StageFits, Changing
  <2>3. QED BY <2>1, <2>2
<1>8. QED BY <1>3, <1>4, <1>5, <1>6, <1>7 DEF IInv

\* A step that leaves the project, the archive and the record alone.
LEMMA QuietStep ==
    ASSUME IInv, NEW p \in Process, proc[p].pc # "idle" \/ lock = "free",
           NEW r \in Run, Step(p, r), StageFits(r)',
           candidate # None, r.pc # "idle" => lock' = "held",
           lock' \in {"free", "held", "stale"}, faults' \in 0 .. MaxFaults,
           ValidationType', RunReviewed(r)',
           UNCHANGED <<project, prepared, record, app, archive>>
    PROVE  IInv'
<1>1. UNCHANGED <<head, committed, tree, foreign>>
  BY DEF project
<1>2. OnlyApplicationWrites' /\ RecordIsTrue' /\ LegacyIsNeverLost'
  BY <1>1 DEF IInv, OnlyApplicationWrites, RecordIsTrue, LegacyIsNeverLost
<1>3. /\ app' \in {"absent", "partial", "applied", "unsynced"}
      /\ record' \in [payload : Payload, sources : SUBSET Source]
      /\ tree' \in [Path -> File] /\ archive' \in [Path -> File] /\ foreign' \subseteq Path
  BY <1>1 DEF IInv, TypeOK
<1>4. QED BY <1>1, <1>2, <1>3, CommandStep

\* A step of an application that changes the project: there is no record yet.
LEMMA WorkingStep ==
    ASSUME IInv, NEW p \in Process, proc[p].pc \in Changing,
           NEW r \in Run, Step(p, r), StageFits(r)', r.pc \in Changing,
           r.pc \in {"planned", "archiving", "writing"} =>
               /\ proc[p].pc \in {"planned", "archiving", "writing"}
               /\ r.payload = proc[p].payload,
           app' \in {"absent", "partial", "unsynced"}, foreign' \subseteq Path,
           record' \in [payload : Payload, sources : SUBSET Source],
           tree' \in [Path -> File], archive' \in [Path -> File], faults' \in 0 .. MaxFaults,
           UNCHANGED <<head, committed, prepared, lock, reviewed, late>>,
           OnlyApplicationWrites', LegacyIsNeverLost'
    PROVE  IInv'
<1>1. proc[p].pc # "idle" /\ r.pc # "idle" /\ r.pc # "validated"
  BY DEF Changing
<1>2. candidate # None /\ lock' = "held"
  BY <1>1 DEF IInv, CandidateStays, OneCommand
<1>3. RecordIsTrue'
  BY DEF RecordIsTrue
<1>4. ValidationType'
  BY DEF IInv, TypeOK, ValidationType
<1>5. RunReviewed(r)'
  BY <1>1 DEF IInv, StillReviewed, RunReviewed
<1>6. QED BY <1>1, <1>2, <1>3, <1>4, <1>5, CommandStep

\* One that the project's other paths have no part in.
LEMMA ChangingStep ==
    ASSUME IInv, NEW p \in Process, proc[p].pc \in Changing,
           NEW r \in Run, Step(p, r), StageFits(r)', r.pc \in Changing,
           r.pc \in {"planned", "archiving", "writing"} =>
               /\ proc[p].pc \in {"planned", "archiving", "writing"}
               /\ r.payload = proc[p].payload,
           app' \in {"absent", "partial", "unsynced"},
           tree' \in [Path -> File], archive' \in [Path -> File], faults' \in 0 .. MaxFaults,
           UNCHANGED <<head, committed, foreign, prepared, record, lock, reviewed, late>>,
           OnlyApplicationWrites', LegacyIsNeverLost'
    PROVE  IInv'
<1>1. foreign' \subseteq Path /\ record' \in [payload : Payload, sources : SUBSET Source]
  BY DEF IInv, TypeOK
<1>2. QED BY <1>1, WorkingStep

LEMMA RefusePreserves ==
    ASSUME IInv, NEW p \in Process, proc[p].pc # "idle", Refuse(p)
    PROVE  IInv'
<1>1. PICK r : r = Stopped("idle")
  OBVIOUS
<1>2. r \in Run /\ r.pc = "idle" /\ StageFits(r)' /\ RunReviewed(r)'
  BY <1>1, StoppedFacts, StoppedFits DEF RunReviewed
<1>3. candidate # None /\ faults' \in 0 .. MaxFaults /\ ValidationType'
  BY DEF IInv, CandidateStays, TypeOK, Refuse, ValidationType, validation
<1>4. QED BY <1>1, <1>2, <1>3, QuietStep DEF Refuse

LEMMA AcquirePreserves ==
    ASSUME IInv, NEW p \in Process, Acquire(p)
    PROVE  IInv'
<1>1. PICK r : r = Stopped("locked")
  OBVIOUS
<1>2. r \in Run /\ r.pc = "locked" /\ StageFits(r)' /\ RunReviewed(r)'
  BY <1>1, StoppedFacts, StoppedFits DEF RunReviewed
<1>3. faults' \in 0 .. MaxFaults /\ ValidationType'
  BY DEF IInv, TypeOK, Acquire, ValidationType, validation
<1>4. QED BY <1>1, <1>2, <1>3, QuietStep DEF Acquire

\* A valid candidate: whatever it claims was reviewed.
LEMMA ReviewedCovers ==
    ASSUME NEW c \in Candidate, CandidateValid(c), NEW x \in Claimed(c)
    PROVE  <<x, c.file[x]>> \in Reviewed(c)
<1>1. CompletionsValid(c) /\ ReviewsValid(c.draft)
  BY DEF CandidateValid, EmbeddedDraftValid
<1>2. PICK a \in Pending(c) : x \in IF c.done[a] = None THEN {} ELSE DOMAIN c.done[a]
  BY DEF Claimed
<1>3. a \in Action /\ c.done[a] # None /\ x \in DOMAIN c.done[a]
  BY <1>2 DEF Pending
<1>4. ArtifactsValid(c, a)
  BY <1>1, <1>2 DEF CompletionsValid
<1>5. InScope(c, a, x) /\ c.file[x] = c.done[a][x]
  BY <1>3, <1>4 DEF ArtifactsValid
<1>6. c.draft.review[a] \in Allowed[a]
  BY <1>1, <1>3 DEF ReviewsValid
<1>7. x \in Artifact /\ c.file[x] \in Byte
  <2>1. c.done[a] \in Claim
    BY <1>3 DEF Candidate
  <2>2. QED BY <1>3, <1>5, <2>1, ClaimFacts
<1>8. QED BY <1>2, <1>3, <1>5, <1>6, <1>7 DEF Reviewed

LEMMA ValidatePreserves ==
    ASSUME IInv, NEW p \in Process, Validate(p)
    PROVE  IInv'
<1>1. CASE Refuse(p)
  BY <1>1, RefusePreserves DEF Validate
<1>2. CASE ~Refuse(p)
  <2>1. PICK r : r = Stopped("validated")
    OBVIOUS
  <2>2. r \in Run /\ r.pc = "validated" /\ StageFits(r)'
    BY <2>1, StoppedFacts, StoppedFits
  <2>3. /\ proc[p].pc = "locked" /\ CandidateValid(candidate) /\ Step(p, r)
        /\ reviewed' = Reviewed(candidate) /\ late' = {}
        /\ UNCHANGED <<project, prepared, record, lock, app, archive, faults>>
    BY <1>2, <2>1 DEF Validate
  <2>4. /\ candidate # None /\ candidate \in Candidate /\ candidate' = candidate
        /\ faults' \in 0 .. MaxFaults /\ lock' = "held"
    BY <2>3 DEF IInv, CandidateStays, OneCommand, TypeOK, prepared
  <2>5. Claimed(candidate)' = Claimed(candidate)
    BY <2>4 DEF Claimed, Pending
  <2>6. RunReviewed(r)'
    BY <2>2, <2>3, <2>4, <2>5, ReviewedCovers DEF RunReviewed
  <2>7. ValidationType'
    BY <2>3 DEF ValidationType, Reviewed
  <2>8. QED BY <2>2, <2>3, <2>4, <2>6, <2>7, QuietStep
<1>3. QED BY <1>1, <1>2

\* What a command is about to write has a target and bytes.
LEMMA PayloadsType ==
    ASSUME NEW c \in Candidate, ~Unreadable(c)
    PROVE  Payloads(c) \in Payload
<1>1. Claimed(c) \subseteq Artifact
  BY ClaimedType
<1>2. PayloadPaths(c) \subseteq Target
  BY <1>1, RuleMigrationAssumption DEF PayloadPaths, Target
<1>3. \A x \in Artifact : c.file[x] \in Byte \cup {None}
  BY DEF Candidate
<1>4. c.config \in Byte
  BY DEF Candidate
<1>5. \A x \in PayloadPaths(c) : (IF x = Config THEN c.config ELSE c.file[x]) \in Byte
  BY <1>1, <1>3, <1>4, RuleMigrationAssumption DEF PayloadPaths, Unreadable
<1>6. Payloads(c) \in [PayloadPaths(c) -> Byte]
  BY <1>5 DEF Payloads
<1>7. QED BY <1>2, <1>6, PayloadType

LEMMA PlanPreserves ==
    ASSUME IInv, NEW p \in Process, Plan(p)
    PROVE  IInv'
<1>0. TypeOK /\ proc[p].pc = "validated" /\ candidate \in Candidate /\ lock = "held"
  BY DEF IInv, TypeOK, CandidateStays, OneCommand, Plan
<1>1. CASE Refuse(p)
  BY <1>0, <1>1, RefusePreserves
<1>2. CASE ~Refuse(p)
  <2>1. PICK r : r = At("planned", Payloads(candidate), ArchiveSources, ArchiveSources, {}, {},
                        {}, tree)
    OBVIOUS
  <2>2. /\ ~ApplicationExists /\ ~Unreadable(candidate) /\ Step(p, r)
        /\ UNCHANGED <<project, prepared, record, lock, app, archive, reviewed, late, faults>>
    BY <1>2, <2>1 DEF Plan, validation
  <2>3. /\ Payloads(candidate) \in Payload /\ ArchiveSources \in SUBSET Source
        /\ ArchiveSources \in SUBSET Path /\ tree \in [Path -> File]
    BY <1>0, <2>2, PayloadsType, Paths DEF ArchiveSources, TypeOK
  <2> HIDE DEF ArchiveSources
  <2>4. /\ r \in Run /\ r.pc = "planned" /\ r.sources = ArchiveSources
        /\ r.todo = ArchiveSources /\ r.moved = {} /\ r.failures = {} /\ r.before = tree
        /\ r.payload = Payloads(candidate)
    BY <2>1, <2>3 DEF At, Run, Stage
  <2>5. app = "absent" /\ archive = Nowhere
    BY <2>2 DEF ApplicationExists
  <2>6. \A x \in Target \ foreign : tree[x] = None
    BY <2>5 DEF IInv, OnlyApplicationWrites
  <2>7. \A s \in Source \ foreign : tree[s] = Legacy[s]
    BY <2>5, Paths, NowhereType DEF IInv, LegacyIsNeverLost
  <2>8. UNCHANGED <<tree, foreign, app, archive, lock, reviewed, late, faults>>
    BY <2>2 DEF project
  <2>9. StageFits(r)'
    <3>1. \A q \in Path \ foreign : r.before[q] = Original(q)
      BY <2>4, <2>6, <2>7, Paths DEF Original
    <3>2. QED
      BY <2>4, <2>5, <2>6, <2>7, <2>8, <3>1 DEF StageFits, Changing, Original
  <2>10. candidate # None /\ faults' \in 0 .. MaxFaults /\ ValidationType' /\ lock' = "held"
    BY <1>0, <2>8, CandidateAssumption DEF TypeOK, ValidationType
  <2>11. RunReviewed(r)'
    <3>1. \A x \in Claimed(candidate) \ late : <<x, candidate.file[x]>> \in reviewed
      BY <1>0 DEF IInv, StillReviewed
    <3>2. DOMAIN r.payload = PayloadPaths(candidate)
      BY <2>4 DEF Payloads
    <3>3. \A x \in DOMAIN r.payload \ {Config} : r.payload[x] = candidate.file[x]
      BY <2>4, <3>2 DEF Payloads
    <3>4. QED BY <2>4, <2>8, <3>1, <3>2, <3>3 DEF RunReviewed, PayloadPaths
  <2>12. QED BY <1>0, <2>2, <2>4, <2>9, <2>10, <2>11, QuietStep
<1>3. QED BY <1>1, <1>2

------------------------------------------------------------------------------
(***************************************************************************)
(* Applying.                                                               *)
(***************************************************************************)
LEMMA Fits ==
    ASSUME IInv, NEW p \in Process
    PROVE  StageFits(proc[p]) /\ TypeOK
BY DEF IInv, CommandsAreWhereTheySay

LEMMA ProvenancePreserves ==
    ASSUME IInv, NEW p \in Process, Provenance(p)
    PROVE  IInv'
<1>1. PICK r : r = Moves(proc[p], "archiving", proc[p].todo, {}, {})
  OBVIOUS
<1>2. PICK o : o = proc[p]
  OBVIOUS
<1>3. StageFits(o) /\ TypeOK /\ o.pc = "planned" /\ o.moved = {}
  BY <1>2, Fits DEF Provenance, StageFits
<1>4. /\ r \in Run /\ r.pc = "archiving" /\ r.sources = o.sources /\ r.payload = o.payload
      /\ r.todo = o.todo /\ r.moved = o.moved /\ r.failures = o.failures /\ r.before = o.before
  BY <1>1, <1>2, <1>3, RunFacts DEF Moves, At, Run, Stage
<1>5. /\ UNCHANGED <<head, committed, tree, foreign, prepared, record, lock, archive,
                     reviewed, late, faults>>
      /\ app' = "partial"
  BY DEF Provenance, project, validation
<1>6. StageFits(r)'
  BY <1>3, <1>4, <1>5 DEF StageFits, Changing, Original
<1>7. OnlyApplicationWrites' /\ LegacyIsNeverLost'
  BY <1>5 DEF IInv, OnlyApplicationWrites, LegacyIsNeverLost
<1>8. tree' \in [Path -> File] /\ archive' \in [Path -> File] /\ faults' \in 0 .. MaxFaults
  BY <1>3, <1>5 DEF TypeOK
<1>9. Step(p, r) /\ proc[p].pc \in Changing /\ r.pc \in Changing
  BY <1>1, <1>2, <1>3, <1>4 DEF Provenance, Changing
<1>10. QED BY <1>2, <1>3, <1>4, <1>5, <1>6, <1>7, <1>8, <1>9, ChangingStep

LEMMA ArchiveDonePreserves ==
    ASSUME IInv, NEW p \in Process, ArchiveDone(p)
    PROVE  IInv'
<1>1. PICK r : r = Moves(proc[p], "writing", DOMAIN proc[p].payload, {}, proc[p].moved)
  OBVIOUS
<1>2. PICK o : o = proc[p]
  OBVIOUS
<1>3. /\ StageFits(o) /\ TypeOK /\ o.pc = "archiving" /\ o.todo = {} /\ o.payload \in Payload
      /\ o.moved \subseteq Source
  BY <1>2, Fits, RunFacts DEF ArchiveDone
<1>4. /\ r \in Run /\ r.pc = "writing" /\ r.sources = o.sources /\ r.payload = o.payload
      /\ r.todo = DOMAIN o.payload /\ r.moved = o.moved /\ r.failures = o.failures
      /\ r.before = o.before
  <2>1. DOMAIN o.payload \in SUBSET Path
    BY <1>3, PayloadFacts, Paths
  <2>2. QED BY <1>1, <1>2, <1>3, <2>1, RunFacts DEF Moves, At, Run, Stage
<1>5. UNCHANGED <<head, committed, tree, foreign, prepared, record, lock, app, archive,
                  reviewed, late, faults>>
  BY DEF ArchiveDone, project, validation
<1>6. StageFits(r)'
  BY <1>3, <1>4, <1>5 DEF StageFits, Changing, Original
<1>7. OnlyApplicationWrites' /\ LegacyIsNeverLost'
  BY <1>5 DEF IInv, OnlyApplicationWrites, LegacyIsNeverLost
<1>8. /\ tree' \in [Path -> File] /\ archive' \in [Path -> File] /\ faults' \in 0 .. MaxFaults
      /\ app' = "partial"
  BY <1>3, <1>5 DEF TypeOK, StageFits
<1>9. Step(p, r) /\ proc[p].pc \in Changing /\ r.pc \in Changing
  BY <1>1, <1>2, <1>3, <1>4 DEF ArchiveDone, Changing
<1>10. QED BY <1>2, <1>3, <1>4, <1>5, <1>6, <1>7, <1>8, <1>9, ChangingStep

\* A rename moves one source, and what is below it at the new paths.
LEMMA BelowFacts ==
    ASSUME NEW s \in Source
    PROVE  Below(s) \cap Source = {s} /\ Below(s) \subseteq Path
BY Paths, RuleMigrationAssumption DEF Below

LEMMA ArchiveSourcePreserves ==
    ASSUME IInv, NEW p \in Process, NEW s \in Source, ArchiveSource(p, s)
    PROVE  IInv'
<1>1. PICK o : o = proc[p]
  OBVIOUS
<1>2. /\ StageFits(o) /\ TypeOK /\ o.pc = "archiving" /\ s \in o.todo
      /\ o.todo \subseteq Path /\ o.moved \subseteq Source
  BY <1>1, Fits, RunFacts DEF ArchiveSource, FirstOf
<1>3. PICK m : m = IF tree[s] = None THEN o.moved ELSE o.moved \cup {s}
  OBVIOUS
<1>4. PICK r : r = Moves(proc[p], "archiving", o.todo \ {s}, {}, m)
  OBVIOUS
<1>5. /\ r \in Run /\ r.pc = "archiving" /\ r.sources = o.sources /\ r.payload = o.payload
      /\ r.todo = o.todo \ {s} /\ r.moved = m /\ r.failures = o.failures /\ r.before = o.before
  BY <1>1, <1>2, <1>3, <1>4, RunFacts DEF Moves, At, Run, Stage
<1>6. /\ UNCHANGED <<head, committed, foreign, prepared, record, lock, app, reviewed, late,
                     faults>>
      /\ Step(p, r)
  BY <1>1, <1>3, <1>4 DEF ArchiveSource, validation
<1>7. \A q \in Path : /\ tree'[q] = IF tree[s] # None /\ q \in Below(s) THEN None ELSE tree[q]
                      /\ archive'[q] = IF tree[s] # None /\ q \in Below(s) THEN tree[q]
                                       ELSE archive[q]
  BY DEF ArchiveSource
<1>8. tree' \in [Path -> File] /\ archive' \in [Path -> File] /\ faults' \in 0 .. MaxFaults
  BY <1>2, <1>6, Paths DEF ArchiveSource, TypeOK
<1>9. \A x \in Target \ foreign : tree[x] = None /\ archive[x] = None
  BY <1>2 DEF StageFits, IInv, OnlyApplicationWrites
<1>10. \A x \in Target \ foreign : tree'[x] = None /\ archive'[x] = None
  BY <1>7, <1>9, Paths
<1>11. \A t \in Source \ foreign :
          IF t \in m THEN tree'[t] = None /\ archive'[t] = Legacy[t] ELSE tree'[t] = Legacy[t]
  <2> SUFFICES ASSUME NEW t \in Source \ foreign
               PROVE  IF t \in m THEN tree'[t] = None /\ archive'[t] = Legacy[t]
                      ELSE tree'[t] = Legacy[t]
    OBVIOUS
  <2>1. IF t \in o.moved THEN tree[t] = None /\ archive[t] = Legacy[t] ELSE tree[t] = Legacy[t]
    BY <1>2 DEF StageFits
  <2>2. t \in Path /\ (t \in Below(s) <=> t = s)
    BY BelowFacts, Paths
  <2>3. QED BY <1>3, <1>7, <2>1, <2>2, Paths
<1>12. o.sources \ ((o.todo \ {s}) \cup foreign) \subseteq m
  <2>1. s \notin foreign => s \in m
    BY <1>2, <1>3, Paths DEF StageFits
  <2>2. o.sources \ (o.todo \cup foreign) \subseteq m
    BY <1>2, <1>3 DEF StageFits
  <2>3. QED BY <2>1, <2>2
<1>13. StageFits(r)'
  BY <1>2, <1>5, <1>6, <1>10, <1>11, <1>12 DEF StageFits, Changing, Original
<1>14. OnlyApplicationWrites'
  BY <1>6, <1>10 DEF OnlyApplicationWrites
<1>15. LegacyIsNeverLost'
  BY <1>6, <1>11 DEF LegacyIsNeverLost
<1>16. app' = "partial" /\ proc[p].pc \in Changing /\ r.pc \in Changing
  BY <1>1, <1>2, <1>5, <1>6 DEF StageFits, Changing
<1>17. QED BY <1>1, <1>2, <1>5, <1>6, <1>8, <1>13, <1>14, <1>15, <1>16, ChangingStep

\* What the writing command has written, and listed among what it created.
WrittenSoFar(r, files) ==
    /\ r.todo \subseteq DOMAIN r.payload
    /\ \A y \in Target \ foreign :
          files[y] = IF y \in DOMAIN r.payload \ r.todo THEN r.payload[y] ELSE None
    /\ DOMAIN r.payload \ (r.todo \cup foreign) \subseteq r.created

\* A step of the writing or removing command: only target paths change, so the
\* sources stay where they are.
LEMMA TargetStep ==
    ASSUME IInv, NEW p \in Process, NEW o, o = proc[p], o.pc \in {"writing", "removing"},
           NEW r \in Run, Step(p, r), r.pc \in {"writing", "removing"},
           NEW x \in Target, tree' \in [Path -> File],
           \A q \in Path \ {x} : tree'[q] = tree[q],
           faults' \in 0 .. MaxFaults,
           app' = app, archive' = archive,
           r.moved = o.moved, r.before = o.before, r.sources = o.sources,
           r.payload = o.payload,
           o.pc = "removing" => r.pc = "removing", r.failures = o.failures,
           r.pc = "writing" => WrittenSoFar(r, tree'),
           r.pc = "removing" => \A y \in Target \ foreign : y \in r.todo \/ tree'[y] = None,
           app = "absent" => \A y \in Target \ foreign : tree'[y] = None,
           UNCHANGED <<head, committed, foreign, prepared, record, lock, reviewed, late>>
    PROVE  IInv'
<1>1. StageFits(o) /\ TypeOK /\ o.pc \in {"writing", "removing"}
  BY Fits
<1>2. \A s \in Source : tree'[s] = tree[s]
  BY Paths
<1>3. app # "applied" /\ \A q \in Path \ foreign : o.before[q] = Original(q)
  BY <1>1 DEF StageFits, Changing
<1>4. \A s \in Source \ foreign :
         IF s \in o.moved THEN tree[s] = None /\ archive[s] = Legacy[s] ELSE tree[s] = Legacy[s]
  BY <1>1 DEF StageFits
<1>5. r.pc = "writing" =>
         o.sources \ foreign \subseteq o.moved /\ app = "partial" /\ o.failures = {}
  BY <1>1 DEF StageFits
<1>6. StageFits(r)'
  BY <1>2, <1>3, <1>4, <1>5 DEF StageFits, Changing, Original, WrittenSoFar
<1>7. OnlyApplicationWrites'
  BY DEF IInv, OnlyApplicationWrites
<1>8. LegacyIsNeverLost'
  BY <1>2 DEF IInv, LegacyIsNeverLost
<1>9. app' \in {"absent", "partial", "unsynced"} /\ archive' \in [Path -> File]
  BY <1>1, <1>3 DEF TypeOK
<1>10. proc[p].pc \in Changing /\ r.pc \in Changing
  BY DEF Changing
<1>11. QED BY <1>6, <1>7, <1>8, <1>9, <1>10, ChangingStep

\* Where the writing command stands.
LEMMA WritingFacts ==
    ASSUME IInv, NEW p \in Process, proc[p].pc = "writing"
    PROVE  /\ proc[p].payload \in Payload /\ app = "partial"
           /\ proc[p].todo \subseteq DOMAIN proc[p].payload
           /\ DOMAIN proc[p].payload \subseteq Target
           /\ \A y \in Target \ foreign :
                 tree[y] = IF y \in DOMAIN proc[p].payload \ proc[p].todo
                           THEN proc[p].payload[y] ELSE None
           /\ DOMAIN proc[p].payload \ (proc[p].todo \cup foreign) \subseteq proc[p].created
           /\ \A y \in DOMAIN proc[p].payload : proc[p].payload[y] \in Byte
<1>1. StageFits(proc[p]) /\ TypeOK
  BY Fits
<1>2. proc[p].payload \in Payload
  BY <1>1, RunFacts
<1>3. /\ DOMAIN proc[p].payload \subseteq Target
      /\ \A y \in DOMAIN proc[p].payload : proc[p].payload[y] \in Byte
  BY <1>2, PayloadFacts
<1>4. QED BY <1>1, <1>2, <1>3 DEF StageFits

LEMMA WriteTargetPreserves ==
    ASSUME IInv, NEW p \in Process, NEW x \in Target, WriteTarget(p, x)
    PROVE  IInv'
<1>1. PICK o : o = proc[p]
  OBVIOUS
<1>2. /\ o.pc = "writing" /\ x \in o.todo /\ TypeOK /\ app = "partial"
      /\ o.todo \subseteq DOMAIN o.payload /\ DOMAIN o.payload \subseteq Target
      /\ \A y \in Target \ foreign :
            tree[y] = IF y \in DOMAIN o.payload \ o.todo THEN o.payload[y] ELSE None
      /\ DOMAIN o.payload \ (o.todo \cup foreign) \subseteq o.created
      /\ o.payload[x] \in Byte /\ o.payload[x] # None
  BY <1>1, WritingFacts, Fits, Paths DEF WriteTarget, FirstOf
<1>3. UNCHANGED <<head, committed, foreign, prepared, record, lock, app, archive, reviewed,
                  late, faults>>
  BY DEF WriteTarget, validation
<1>4. /\ o.payload \in Payload /\ o.sources \subseteq Source /\ o.todo \subseteq Path
      /\ o.created \subseteq Target /\ o.moved \subseteq Source
      /\ o.failures \subseteq {"remove", "restore"}
      /\ o.before \in [Path -> File] /\ tree \in [Path -> File] /\ faults' \in 0 .. MaxFaults
  BY <1>1, <1>2, <1>3, RunFacts DEF TypeOK
<1>5. CASE tree[x] = o.payload[x] /\ UNCHANGED tree
           /\ Step(p, Moves(o, "writing", o.todo \ {x}, o.created, o.moved))
  <2>1. PICK r : r = Moves(o, "writing", o.todo \ {x}, o.created, o.moved)
    OBVIOUS
  <2>2. /\ r \in Run /\ r.pc = "writing" /\ r.sources = o.sources /\ r.payload = o.payload
        /\ r.todo = o.todo \ {x} /\ r.created = o.created /\ r.moved = o.moved
        /\ r.failures = o.failures /\ r.before = o.before
    BY <1>4, <2>1 DEF Moves, At, Run, Stage
  <2>3. x \in foreign
    BY <1>2, <1>5
  <2>4. /\ tree' \in [Path -> File] /\ \A q \in Path \ {x} : tree'[q] = tree[q]
        /\ \A y \in Target \ foreign :
              tree'[y] = IF y \in DOMAIN r.payload \ r.todo THEN r.payload[y] ELSE None
    BY <1>2, <1>4, <1>5, <2>2, <2>3
  <2>5. /\ r.todo \subseteq DOMAIN r.payload
        /\ DOMAIN r.payload \ (r.todo \cup foreign) \subseteq r.created
    BY <1>2, <2>2, <2>3
  <2>6. WrittenSoFar(r, tree')
    BY <2>4, <2>5 DEF WrittenSoFar
  <2>7. Step(p, r)
    BY <1>5, <2>1
  <2>8. QED BY <1>1, <1>2, <1>3, <1>4, <2>2, <2>4, <2>6, <2>7, TargetStep
<1>6. CASE tree[x] = None /\ tree' = [tree EXCEPT ![x] = o.payload[x]]
           /\ Step(p, Moves(o, "writing", o.todo \ {x}, o.created \cup {x}, o.moved))
  <2>1. PICK r : r = Moves(o, "writing", o.todo \ {x}, o.created \cup {x}, o.moved)
    OBVIOUS
  <2>2. /\ r \in Run /\ r.pc = "writing" /\ r.sources = o.sources /\ r.payload = o.payload
        /\ r.todo = o.todo \ {x} /\ r.created = o.created \cup {x} /\ r.moved = o.moved
        /\ r.failures = o.failures /\ r.before = o.before
    BY <1>4, <2>1 DEF Moves, At, Run, Stage
  <2>3. /\ tree' \in [Path -> File] /\ tree'[x] = o.payload[x]
        /\ \A q \in Path \ {x} : tree'[q] = tree[q]
    BY <1>2, <1>4, <1>6, Paths
  <2>4. \A y \in Target \ foreign :
           tree'[y] = IF y \in DOMAIN r.payload \ r.todo THEN r.payload[y] ELSE None
    BY <1>2, <2>2, <2>3, Paths
  <2>5. /\ r.todo \subseteq DOMAIN r.payload
        /\ DOMAIN r.payload \ (r.todo \cup foreign) \subseteq r.created
    BY <1>2, <2>2
  <2>6. WrittenSoFar(r, tree')
    BY <2>4, <2>5 DEF WrittenSoFar
  <2>7. Step(p, r)
    BY <1>6, <2>1
  <2>8. QED BY <1>1, <1>2, <1>3, <1>4, <2>2, <2>3, <2>6, <2>7, TargetStep
<1>7. CASE tree[x] \notin {None, o.payload[x]} /\ UNCHANGED tree
           /\ Step(p, Moves(o, "removing", o.created \cup {x}, o.created \cup {x}, o.moved))
  <2>1. PICK r : r = Moves(o, "removing", o.created \cup {x}, o.created \cup {x}, o.moved)
    OBVIOUS
  <2>2. /\ r \in Run /\ r.pc = "removing" /\ r.sources = o.sources /\ r.payload = o.payload
        /\ r.todo = o.created \cup {x} /\ r.moved = o.moved
        /\ r.failures = o.failures /\ r.before = o.before
    <3>1. o.created \cup {x} \in SUBSET Path /\ o.created \cup {x} \in SUBSET Target
      BY <1>4, Paths
    <3>2. QED BY <1>4, <2>1, <3>1 DEF Moves, At, Run, Stage
  <2>3. \A y \in Target \ foreign : y \in r.todo \/ tree'[y] = None
    BY <1>2, <1>7, <2>2
  <2>4. tree' \in [Path -> File] /\ \A q \in Path \ {x} : tree'[q] = tree[q]
    BY <1>4, <1>7
  <2>5. Step(p, r)
    BY <1>7, <2>1
  <2>6. QED BY <1>1, <1>2, <1>3, <1>4, <2>2, <2>3, <2>4, <2>5, TargetStep
<1>8. QED BY <1>1, <1>5, <1>6, <1>7 DEF WriteTarget

\* The record is true when everything else has been done.
LEMMA RecordedIsTrue ==
    ASSUME IInv, NEW p \in Process, WritesRecord(p), UNCHANGED <<tree, archive, foreign>>
    PROVE  /\ record' \in [payload : Payload, sources : SUBSET Source]
           /\ RecordIsTrue'
<1>1. PICK o : o = proc[p]
  OBVIOUS
<1>2. StageFits(o) /\ TypeOK /\ o.pc = "writing" /\ o.todo = {}
  BY <1>1, Fits DEF WritesRecord
<1>3. record' = [payload |-> o.payload, sources |-> o.sources]
  BY <1>1 DEF WritesRecord
<1>4. o.payload \in Payload /\ o.sources \subseteq Source /\ DOMAIN o.payload \subseteq Target
  BY <1>1, <1>2, RunFacts, PayloadFacts
<1>5. /\ record' \in [payload : Payload, sources : SUBSET Source]
      /\ record'.payload = o.payload /\ record'.sources = o.sources
  BY <1>3, <1>4
<1>6. \A s \in o.sources \ foreign : tree[s] = None /\ archive[s] = Legacy[s]
  BY <1>2, <1>4 DEF StageFits
<1>7. \A x \in DOMAIN o.payload \ foreign : tree[x] = o.payload[x]
  BY <1>2, <1>4 DEF StageFits
<1>8. QED BY <1>5, <1>6, <1>7 DEF RecordIsTrue

LEMMA WriteRecordPreserves ==
    ASSUME IInv, NEW p \in Process, WriteRecord(p)
    PROVE  IInv'
<1>1. PICK r : r = Stopped("idle")
  OBVIOUS
<1>2. r \in Run /\ r.pc = "idle" /\ StageFits(r)' /\ RunReviewed(r)'
  BY <1>1, StoppedFacts, StoppedFits DEF RunReviewed
<1>3. PICK o : o = proc[p]
  OBVIOUS
<1>4. StageFits(o) /\ TypeOK /\ o.pc = "writing" /\ o.todo = {}
  BY <1>3, Fits DEF WriteRecord, WritesRecord
<1>5. /\ record' = [payload |-> o.payload, sources |-> o.sources] /\ app' = "applied"
      /\ lock' = "free" /\ Step(p, r)
      /\ UNCHANGED <<head, committed, tree, foreign, prepared, archive, reviewed, late, faults>>
  BY <1>1, <1>3 DEF WriteRecord, WritesRecord, project, validation
<1>6. record' \in [payload : Payload, sources : SUBSET Source] /\ RecordIsTrue'
  BY <1>5, RecordedIsTrue DEF WriteRecord
<1>7. OnlyApplicationWrites' /\ LegacyIsNeverLost'
  BY <1>5 DEF IInv, OnlyApplicationWrites, LegacyIsNeverLost
<1>8. /\ tree' \in [Path -> File] /\ archive' \in [Path -> File] /\ faults' \in 0 .. MaxFaults
      /\ ValidationType' /\ foreign' \subseteq Path
  BY <1>4, <1>5 DEF TypeOK, ValidationType
<1>9. candidate # None /\ proc[p].pc # "idle"
  BY <1>3, <1>4 DEF IInv, CandidateStays
<1>10. QED BY <1>2, <1>5, <1>6, <1>7, <1>8, <1>9, CommandStep

------------------------------------------------------------------------------
(***************************************************************************)
(* Failures and the rollback.                                              *)
(***************************************************************************)
LEMMA FaultsType ==
    ASSUME TypeOK, Faulty
    PROVE  faults' \in 0 .. MaxFaults
BY RuleMigrationAssumption DEF TypeOK, Faulty

LEMMA FailPlannedPreserves ==
    ASSUME IInv, NEW p \in Process, FailPlanned(p)
    PROVE  IInv'
<1>1. PICK r : r = Moves(proc[p], "removing", {}, {}, {})
  OBVIOUS
<1>2. PICK o : o = proc[p]
  OBVIOUS
<1>3. StageFits(o) /\ TypeOK /\ o.pc = "planned"
  BY <1>2, Fits DEF FailPlanned
<1>4. /\ r \in Run /\ r.pc = "removing" /\ r.todo = {} /\ r.moved = {} /\ r.before = o.before
  BY <1>1, <1>2, <1>3, RunFacts DEF Moves, At, Run, Stage
<1>5. /\ UNCHANGED <<head, committed, tree, foreign, prepared, record, lock, archive,
                     reviewed, late>>
      /\ app' \in {"absent", "partial"} /\ Step(p, r)
  BY <1>1 DEF FailPlanned, project, validation
<1>6. /\ \A x \in Target \ foreign : tree[x] = None
      /\ \A s \in Source \ foreign : tree[s] = Legacy[s]
      /\ \A q \in Path \ foreign : o.before[q] = Original(q)
  BY <1>3 DEF StageFits, Changing
<1>7. StageFits(r)'
  BY <1>4, <1>5, <1>6 DEF StageFits, Changing, Original
<1>8. OnlyApplicationWrites' /\ LegacyIsNeverLost'
  BY <1>5, <1>6 DEF IInv, OnlyApplicationWrites, LegacyIsNeverLost
<1>9. tree' \in [Path -> File] /\ archive' \in [Path -> File]
  BY <1>3, <1>5 DEF TypeOK
<1>10. faults' \in 0 .. MaxFaults
  BY <1>3, FaultsType DEF FailPlanned
<1>11. proc[p].pc \in Changing /\ r.pc \in Changing
  BY <1>2, <1>3, <1>4 DEF Changing
<1>12. QED BY <1>4, <1>5, <1>7, <1>8, <1>9, <1>10, <1>11, ChangingStep

LEMMA FailArchivingPreserves ==
    ASSUME IInv, NEW p \in Process, FailArchiving(p)
    PROVE  IInv'
<1>1. PICK r : r = Moves(proc[p], "removing", {}, {}, proc[p].moved)
  OBVIOUS
<1>2. PICK o : o = proc[p]
  OBVIOUS
<1>3. StageFits(o) /\ TypeOK /\ o.pc = "archiving"
  BY <1>2, Fits DEF FailArchiving
<1>4. /\ r \in Run /\ r.pc = "removing" /\ r.todo = {} /\ r.moved = o.moved /\ r.before = o.before
  BY <1>1, <1>2, <1>3, RunFacts DEF Moves, At, Run, Stage
<1>5. /\ UNCHANGED <<head, committed, tree, foreign, prepared, record, lock, app, archive,
                     reviewed, late>>
      /\ Step(p, r)
  BY <1>1 DEF FailArchiving, project, validation
<1>6. StageFits(r)' /\ app' = "partial"
  BY <1>3, <1>4, <1>5 DEF StageFits, Changing, Original
<1>7. OnlyApplicationWrites' /\ LegacyIsNeverLost'
  BY <1>5 DEF IInv, OnlyApplicationWrites, LegacyIsNeverLost
<1>8. tree' \in [Path -> File] /\ archive' \in [Path -> File]
  BY <1>3, <1>5 DEF TypeOK
<1>9. faults' \in 0 .. MaxFaults
  BY <1>3, FaultsType DEF FailArchiving
<1>10. proc[p].pc \in Changing /\ r.pc \in Changing
  BY <1>2, <1>3, <1>4 DEF Changing
<1>11. QED BY <1>4, <1>5, <1>6, <1>7, <1>8, <1>9, <1>10, ChangingStep

LEMMA FailWritingPreserves ==
    ASSUME IInv, NEW p \in Process, FailWriting(p)
    PROVE  IInv'
<1>1. PICK o : o = proc[p]
  OBVIOUS
<1>2. /\ o.pc = "writing" /\ TypeOK /\ app = "partial"
      /\ o.todo \subseteq DOMAIN o.payload /\ DOMAIN o.payload \subseteq Target
      /\ \A y \in Target \ foreign :
            tree[y] = IF y \in DOMAIN o.payload \ o.todo THEN o.payload[y] ELSE None
      /\ DOMAIN o.payload \ (o.todo \cup foreign) \subseteq o.created
  BY <1>1, WritingFacts, Fits DEF FailWriting
<1>3. UNCHANGED <<head, committed, foreign, prepared, record, lock, app, archive, reviewed,
                  late>>
  BY DEF FailWriting, validation
<1>4. /\ o.payload \in Payload /\ o.sources \subseteq Source
      /\ o.created \subseteq Target /\ o.moved \subseteq Source
      /\ o.failures \subseteq {"remove", "restore"}
      /\ o.before \in [Path -> File] /\ tree \in [Path -> File]
  BY <1>1, <1>2, RunFacts DEF TypeOK
<1>5. faults' \in 0 .. MaxFaults
  BY <1>2, FaultsType DEF FailWriting
<1>6. ASSUME NEW C, C \subseteq Target, o.created \subseteq C, NEW x \in Target,
             tree' \in [Path -> File], \A q \in Path \ {x} : tree'[q] = tree[q],
             x \in C \/ tree'[x] = tree[x], Step(p, Moves(o, "removing", C, C, o.moved))
      PROVE  IInv'
  <2>1. PICK r : r = Moves(o, "removing", C, C, o.moved)
    OBVIOUS
  <2>2. /\ r \in Run /\ r.pc = "removing" /\ r.sources = o.sources /\ r.payload = o.payload
        /\ r.todo = C /\ r.moved = o.moved /\ r.failures = o.failures /\ r.before = o.before
    <3>1. C \in SUBSET Path /\ C \in SUBSET Target
      BY <1>6, Paths
    <3>2. QED BY <1>4, <2>1, <3>1 DEF Moves, At, Run, Stage
  <2>3. \A y \in Target \ foreign : y \in r.todo \/ tree'[y] = None
    BY <1>2, <1>6, <2>2, Paths
  <2>4. Step(p, r)
    BY <1>6, <2>1
  <2>5. QED BY <1>1, <1>2, <1>3, <1>5, <1>6, <2>2, <2>3, <2>4, TargetStep
<1>7. CASE UNCHANGED tree /\ Step(p, Moves(o, "removing", o.created, o.created, o.moved))
  <2>1. Config \in Target
    BY DEF Target
  <2>2. QED BY <1>4, <1>6, <1>7, <2>1
<1>8. ASSUME NEW x \in o.todo, tree' = [tree EXCEPT ![x] = Torn],
             Step(p, Moves(o, "removing", o.created \cup {x}, o.created \cup {x}, o.moved))
      PROVE  IInv'
  <2>1. x \in Target /\ o.created \cup {x} \subseteq Target
    BY <1>2, <1>4
  <2>2. tree' \in [Path -> File] /\ \A q \in Path \ {x} : tree'[q] = tree[q]
    BY <1>4, <1>8, Paths
  <2>3. QED BY <1>6, <1>8, <2>1, <2>2
<1>9. QED BY <1>1, <1>7, <1>8 DEF FailWriting, FirstOf

LEMMA FailRecordPreserves ==
    ASSUME IInv, NEW p \in Process, FailRecord(p)
    PROVE  IInv'
<1>1. PICK o : o = proc[p]
  OBVIOUS
<1>2. PICK r : r = Moves(o, "removing", o.created, o.created, o.moved)
  OBVIOUS
<1>3. /\ StageFits(o) /\ TypeOK /\ o.pc = "writing" /\ o.todo = {} /\ app = "partial"
      /\ \A y \in Target \ foreign :
            tree[y] = IF y \in DOMAIN o.payload \ o.todo THEN o.payload[y] ELSE None
      /\ DOMAIN o.payload \ (o.todo \cup foreign) \subseteq o.created
      /\ o.created \subseteq Target
  BY <1>1, Fits, WritingFacts, RunFacts DEF FailRecord, WritesRecord
<1>4. /\ r \in Run /\ r.pc = "removing" /\ r.todo = o.created /\ r.moved = o.moved
      /\ r.before = o.before
  <2>1. o.created \in SUBSET Path
    BY <1>3, Paths
  <2>2. QED BY <1>1, <1>2, <1>3, <2>1, RunFacts DEF Moves, At, Run, Stage
<1>5. /\ UNCHANGED <<head, committed, tree, foreign, prepared, lock, archive, reviewed, late>>
      /\ app' = "unsynced" /\ Step(p, r)
  BY <1>1, <1>2 DEF FailRecord, project, validation
<1>6. record' \in [payload : Payload, sources : SUBSET Source]
  BY <1>5, RecordedIsTrue DEF FailRecord
<1>7. /\ \A q \in Path \ foreign : o.before[q] = Original(q)
      /\ \A s \in Source \ foreign :
            IF s \in o.moved THEN tree[s] = None /\ archive[s] = Legacy[s] ELSE tree[s] = Legacy[s]
  BY <1>3 DEF StageFits, Changing
<1>8. \A x \in Target \ foreign : x \in r.todo \/ tree[x] = None
  BY <1>3, <1>4
<1>9. StageFits(r)'
  BY <1>4, <1>5, <1>7, <1>8 DEF StageFits, Changing, Original
<1>10. OnlyApplicationWrites' /\ LegacyIsNeverLost'
  BY <1>5 DEF IInv, OnlyApplicationWrites, LegacyIsNeverLost
<1>11. tree' \in [Path -> File] /\ archive' \in [Path -> File] /\ foreign' \subseteq Path
  BY <1>3, <1>5 DEF TypeOK
<1>12. faults' \in 0 .. MaxFaults
  BY <1>3, FaultsType DEF FailRecord
<1>13. proc[p].pc \in Changing /\ r.pc \in Changing
  BY <1>1, <1>3, <1>4 DEF Changing
<1>14. QED BY <1>4, <1>5, <1>6, <1>9, <1>10, <1>11, <1>12, <1>13, WorkingStep

LEMMA RemoveCreatedPreserves ==
    ASSUME IInv, NEW p \in Process, NEW x \in Target, RemoveCreated(p, x)
    PROVE  IInv'
<1>1. PICK o : o = proc[p]
  OBVIOUS
<1>2. /\ StageFits(o) /\ TypeOK /\ o.pc = "removing"
      /\ UNCHANGED <<head, committed, prepared, record, lock, app, archive, reviewed, late>>
  BY <1>1, Fits DEF RemoveCreated, validation
<1>3. CASE /\ tree' = [tree EXCEPT ![x] = None] /\ UNCHANGED <<foreign, faults>>
           /\ Step(p, Moves(o, "removing", o.todo \ {x}, o.created, o.moved))
  <2>1. PICK r : r = Moves(o, "removing", o.todo \ {x}, o.created, o.moved)
    OBVIOUS
  <2>2. /\ r \in Run /\ r.pc = "removing" /\ r.sources = o.sources /\ r.payload = o.payload
        /\ r.todo = o.todo \ {x} /\ r.moved = o.moved /\ r.failures = o.failures
        /\ r.before = o.before
    BY <1>1, <1>2, <2>1, RunFacts DEF Moves, At, Run, Stage
  <2>3. /\ tree' \in [Path -> File] /\ tree'[x] = None
        /\ \A q \in Path \ {x} : tree'[q] = tree[q]
    BY <1>2, <1>3, Paths DEF TypeOK
  <2>4. \A y \in Target \ foreign : y \in r.todo \/ tree'[y] = None
    BY <1>2, <2>2, <2>3, Paths DEF StageFits
  <2>5. app = "absent" => \A y \in Target \ foreign : tree'[y] = None
    BY <2>3, Paths DEF IInv, OnlyApplicationWrites
  <2>6. Step(p, r) /\ faults' \in 0 .. MaxFaults
    BY <1>2, <1>3, <2>1 DEF TypeOK
  <2>7. QED BY <1>1, <1>2, <1>3, <2>2, <2>3, <2>4, <2>5, <2>6, TargetStep
<1>4. CASE /\ Faulty /\ foreign' = foreign \cup {x} /\ UNCHANGED tree
           /\ Step(p, Moves(Fails(o, "remove"), "removing", o.todo \ {x}, o.created, o.moved))
  <2>1. PICK r : r = Moves(Fails(o, "remove"), "removing", o.todo \ {x}, o.created, o.moved)
    OBVIOUS
  <2>2. /\ r \in Run /\ r.pc = "removing" /\ r.todo = o.todo \ {x} /\ r.moved = o.moved
        /\ r.before = o.before
    <3>1. PICK f : f = Fails(o, "remove")
      OBVIOUS
    <3>2. /\ f.payload = o.payload /\ f.sources = o.sources /\ f.before = o.before
          /\ f.failures \subseteq {"remove", "restore"}
      BY <1>1, <1>2, <3>1, RunFacts DEF Fails, Run
    <3>3. QED BY <1>1, <1>2, <2>1, <3>1, <3>2, RunFacts DEF Moves, At, Run, Stage
  <2>3. /\ app # "applied" /\ \A q \in Path \ foreign : o.before[q] = Original(q)
        /\ \A s \in Source \ foreign :
              IF s \in o.moved THEN tree[s] = None /\ archive[s] = Legacy[s]
              ELSE tree[s] = Legacy[s]
        /\ \A y \in Target \ foreign : y \in o.todo \/ tree[y] = None
    BY <1>2 DEF StageFits, Changing
  <2>4. foreign \subseteq foreign' /\ x \in foreign' /\ foreign' \subseteq Path
    BY <1>2, <1>4, Paths DEF TypeOK
  <2>5. StageFits(r)'
    BY <1>2, <1>4, <2>2, <2>3, <2>4 DEF StageFits, Changing, Original
  <2>6. OnlyApplicationWrites' /\ LegacyIsNeverLost'
    BY <1>2, <1>4, <2>4 DEF IInv, OnlyApplicationWrites, LegacyIsNeverLost
  <2>7. /\ tree' \in [Path -> File] /\ archive' \in [Path -> File]
        /\ record' \in [payload : Payload, sources : SUBSET Source]
        /\ app' \in {"absent", "partial", "unsynced"}
    BY <1>2, <1>4, <2>3 DEF TypeOK
  <2>8. faults' \in 0 .. MaxFaults
    BY <1>2, <1>4, FaultsType
  <2>9. proc[p].pc \in Changing /\ r.pc \in Changing /\ Step(p, r)
    BY <1>1, <1>2, <1>4, <2>1, <2>2 DEF Changing
  <2>10. QED BY <1>2, <2>2, <2>4, <2>5, <2>6, <2>7, <2>8, <2>9, WorkingStep
<1>5. QED BY <1>1, <1>3, <1>4 DEF RemoveCreated

LEMMA RemoveDonePreserves ==
    ASSUME IInv, NEW p \in Process, RemoveDone(p)
    PROVE  IInv'
<1>1. PICK r : r = Moves(proc[p], "restoring", proc[p].moved, proc[p].created, proc[p].moved)
  OBVIOUS
<1>2. PICK o : o = proc[p]
  OBVIOUS
<1>3. StageFits(o) /\ TypeOK /\ o.pc = "removing" /\ o.todo = {}
  BY <1>2, Fits DEF RemoveDone
<1>4. /\ r \in Run /\ r.pc = "restoring" /\ r.todo = o.moved /\ r.before = o.before
  <2>1. o.moved \in SUBSET Path
    BY <1>2, <1>3, RunFacts, Paths
  <2>2. QED BY <1>1, <1>2, <1>3, <2>1, RunFacts DEF Moves, At, Run, Stage
<1>5. /\ UNCHANGED <<head, committed, tree, foreign, prepared, record, lock, app, archive,
                     reviewed, late, faults>>
      /\ Step(p, r)
  BY <1>1 DEF RemoveDone, project, validation
<1>6. /\ \A x \in Target \ foreign : tree[x] = None
      /\ \A s \in Source \ foreign :
            tree[s] = Legacy[s] \/ (s \in o.moved /\ archive[s] = Legacy[s])
      /\ \A q \in Path \ foreign : o.before[q] = Original(q)
      /\ app # "applied"
  BY <1>3 DEF StageFits, Changing
<1>7. StageFits(r)'
  BY <1>4, <1>5, <1>6 DEF StageFits, Changing, Original
<1>8. OnlyApplicationWrites' /\ LegacyIsNeverLost'
  BY <1>5 DEF IInv, OnlyApplicationWrites, LegacyIsNeverLost
<1>9. /\ tree' \in [Path -> File] /\ archive' \in [Path -> File] /\ faults' \in 0 .. MaxFaults
      /\ app' \in {"absent", "partial", "unsynced"}
  BY <1>3, <1>5, <1>6 DEF TypeOK
<1>10. proc[p].pc \in Changing /\ r.pc \in Changing
  BY <1>2, <1>3, <1>4 DEF Changing
<1>11. QED BY <1>4, <1>5, <1>7, <1>8, <1>9, <1>10, ChangingStep

\* Where the restoring command stands.
LEMMA RestoringFacts ==
    ASSUME IInv, NEW o, StageFits(o), o.pc = "restoring"
    PROVE  /\ \A x \in Target \ foreign : tree[x] = None /\ archive[x] = None
           /\ \A t \in Source \ foreign : \/ tree[t] = Legacy[t]
                                          \/ (t \in o.todo \/ "restore" \in o.failures) /\ archive[t] = Legacy[t]
           /\ \A q \in Path \ foreign : o.before[q] = Original(q)
           /\ app # "applied"
BY DEF StageFits, Changing, IInv, OnlyApplicationWrites

LEMMA RestoreSourcePreserves ==
    ASSUME IInv, NEW p \in Process, NEW s \in Source, RestoreSource(p, s)
    PROVE  IInv'
<1>1. PICK o : o = proc[p]
  OBVIOUS
<1>2. /\ StageFits(o) /\ TypeOK /\ o.pc = "restoring" /\ s \in o.todo
      /\ o.failures \subseteq {"remove", "restore"}
  BY <1>1, Fits, RunFacts DEF RestoreSource, LastOf
<1>3. UNCHANGED <<head, committed, foreign, prepared, record, lock, app, reviewed, late>>
  BY DEF RestoreSource, validation
<1>4. PICK fails \in BOOLEAN :
         /\ ~fails => ~Occupied(s)
         /\ Faulty \/ UNCHANGED faults
         /\ Step(p, Moves(IF fails THEN Fails(o, "restore") ELSE o, "restoring",
                          o.todo \ {s}, o.created, o.moved))
         /\ fails => UNCHANGED <<tree, archive>>
         /\ ~fails =>
               /\ tree' = [q \in Path |-> IF q \in Below(s) THEN archive[q] ELSE tree[q]]
               /\ archive' = [q \in Path |-> IF q \in Below(s) THEN None ELSE archive[q]]
  BY <1>1 DEF RestoreSource
<1>5. PICK f : f = IF fails THEN Fails(o, "restore") ELSE o
  OBVIOUS
<1>6. /\ f.payload = o.payload /\ f.sources = o.sources /\ f.before = o.before
      /\ f.failures = IF fails THEN o.failures \cup {"restore"} ELSE o.failures
      /\ f.failures \subseteq {"remove", "restore"}
  BY <1>1, <1>2, <1>5, RunFacts DEF Fails, Run
<1>7. PICK r : r = Moves(f, "restoring", o.todo \ {s}, o.created, o.moved)
  OBVIOUS
<1>8. /\ r \in Run /\ r.pc = "restoring" /\ r.todo = o.todo \ {s} /\ r.failures = f.failures
      /\ r.before = o.before /\ Step(p, r)
  <2>1. Step(p, r)
    BY <1>4, <1>5, <1>7
  <2>2. o.todo \ {s} \subseteq Path /\ o.created \subseteq Target /\ o.moved \subseteq Source
        /\ f.payload \in Payload /\ f.sources \subseteq Source /\ f.before \in [Path -> File]
    BY <1>1, <1>2, <1>6, RunFacts
  <2>3. QED BY <1>6, <1>7, <2>1, <2>2 DEF Moves, At, Run, Stage
<1>9. tree' \in [Path -> File] /\ archive' \in [Path -> File] /\ faults' \in 0 .. MaxFaults
  BY <1>2, <1>4, FaultsType, Paths DEF TypeOK
<1>10. \A x \in Target \ foreign : tree[x] = None /\ archive[x] = None
  BY <1>2, RestoringFacts
<1>11. \A x \in Target \ foreign : tree'[x] = None /\ archive'[x] = None
  BY <1>4, <1>10, Paths
<1>12. \A t \in Source \ foreign :
          \/ tree'[t] = Legacy[t]
          \/ (t \in r.todo \/ "restore" \in r.failures) /\ archive'[t] = Legacy[t]
  <2> SUFFICES ASSUME NEW t \in Source \ foreign
               PROVE  \/ tree'[t] = Legacy[t]
                      \/ (t \in r.todo \/ "restore" \in r.failures) /\ archive'[t] = Legacy[t]
    OBVIOUS
  <2>1. \/ tree[t] = Legacy[t]
        \/ (t \in o.todo \/ "restore" \in o.failures) /\ archive[t] = Legacy[t]
    BY <1>2, RestoringFacts
  <2>2. t \in Path /\ (t \in Below(s) <=> t = s)
    BY BelowFacts, Paths
  <2>3. CASE fails
    BY <1>4, <1>6, <1>8, <2>1, <2>3
  <2>4. CASE ~fails
    <3>1. t = s => tree[t] # Legacy[t]
      BY <1>4, <2>2, <2>4, Paths DEF Occupied
    <3>2. /\ tree'[t] = IF t \in Below(s) THEN archive[t] ELSE tree[t]
          /\ archive'[t] = IF t \in Below(s) THEN None ELSE archive[t]
      BY <1>4, <2>2, <2>4
    <3>3. QED BY <1>6, <1>8, <2>1, <2>2, <2>4, <3>1, <3>2
  <2>5. QED BY <2>3, <2>4
<1>13. /\ \A q \in Path \ foreign : o.before[q] = Original(q)
       /\ app # "applied"
  BY <1>2, RestoringFacts
<1>14. StageFits(r)'
  BY <1>3, <1>8, <1>11, <1>12, <1>13 DEF StageFits, Changing, Original
<1>15. OnlyApplicationWrites'
  BY <1>3, <1>11 DEF OnlyApplicationWrites
<1>16. LegacyIsNeverLost'
  BY <1>3, <1>12 DEF LegacyIsNeverLost
<1>17. app' \in {"absent", "partial", "unsynced"}
  BY <1>2, <1>3, <1>13 DEF TypeOK
<1>18. proc[p].pc \in Changing /\ r.pc \in Changing
  BY <1>1, <1>2, <1>8 DEF Changing
<1>19. QED BY <1>3, <1>8, <1>9, <1>14, <1>15, <1>16, <1>17, <1>18, ChangingStep

LEMMA RestoreDonePreserves ==
    ASSUME IInv, NEW p \in Process, RestoreDone(p)
    PROVE  IInv'
<1>1. PICK o : o = proc[p]
  OBVIOUS
<1>2. /\ StageFits(o) /\ TypeOK /\ o.pc = "restoring" /\ o.todo = {}
      /\ o.failures \subseteq {"remove", "restore"}
  BY <1>1, Fits, RunFacts DEF RestoreDone
<1>3. /\ UNCHANGED <<head, committed, tree, foreign, prepared, record, lock, reviewed, late>>
      /\ archive' = IF "restore" \in o.failures THEN archive ELSE Nowhere
  BY <1>1 DEF RestoreDone, project, validation
<1>4. PICK fails \in BOOLEAN :
         /\ ~fails => app' = "absent"
         /\ fails => app' \in {app, "partial"}
         /\ Faulty \/ UNCHANGED faults
         /\ Step(p, Moves(IF fails THEN Fails(o, "remove") ELSE o, "ending", {}, o.created, o.moved))
  BY <1>1 DEF RestoreDone
<1>5. PICK f : f = IF fails THEN Fails(o, "remove") ELSE o
  OBVIOUS
<1>6. /\ f.payload = o.payload /\ f.sources = o.sources /\ f.before = o.before
      /\ f.failures = IF fails THEN o.failures \cup {"remove"} ELSE o.failures
      /\ f.failures \subseteq {"remove", "restore"}
  BY <1>1, <1>2, <1>5, RunFacts DEF Fails, Run
<1>7. PICK r : r = Moves(f, "ending", {}, o.created, o.moved)
  OBVIOUS
<1>8. /\ r \in Run /\ r.pc = "ending" /\ r.failures = f.failures
      /\ r.before = o.before /\ Step(p, r)
  <2>1. Step(p, r)
    BY <1>4, <1>5, <1>7
  <2>2. o.created \subseteq Target /\ o.moved \subseteq Source
        /\ f.payload \in Payload /\ f.sources \subseteq Source /\ f.before \in [Path -> File]
    BY <1>1, <1>2, <1>6, RunFacts
  <2>3. QED BY <1>6, <1>7, <2>1, <2>2 DEF Moves, At, Run, Stage
<1>9. /\ "restore" \in r.failures <=> "restore" \in o.failures
      /\ r.failures = {} => ~fails
  BY <1>6, <1>8
<1>10. /\ \A x \in Target \ foreign : tree[x] = None /\ archive[x] = None
       /\ \A t \in Source \ foreign :
             tree[t] = Legacy[t] \/ ("restore" \in o.failures /\ archive[t] = Legacy[t])
       /\ \A q \in Path \ foreign : o.before[q] = Original(q)
       /\ app # "applied"
  BY <1>2, RestoringFacts
<1>11. app' \in {"absent", "partial", "unsynced"}
  BY <1>2, <1>4, <1>10 DEF TypeOK
<1>12. StageFits(r)'
  BY <1>3, <1>4, <1>8, <1>9, <1>10, <1>11 DEF StageFits, Changing, Original
<1>13. OnlyApplicationWrites'
  BY <1>3, <1>10, NowhereType, Paths DEF OnlyApplicationWrites
<1>14. LegacyIsNeverLost'
  BY <1>3, <1>10 DEF LegacyIsNeverLost
<1>15. tree' \in [Path -> File] /\ archive' \in [Path -> File] /\ faults' \in 0 .. MaxFaults
  BY <1>2, <1>3, <1>4, NowhereType, FaultsType DEF TypeOK
<1>16. proc[p].pc \in Changing /\ r.pc \in Changing
  BY <1>1, <1>2, <1>8 DEF Changing
<1>17. QED BY <1>3, <1>8, <1>11, <1>12, <1>13, <1>14, <1>15, <1>16, ChangingStep

LEMMA CrashPreserves ==
    ASSUME IInv, NEW p \in Process, Crash(p)
    PROVE  IInv'
<1>1. PICK r : r = Stopped("idle")
  OBVIOUS
<1>2. r \in Run /\ r.pc = "idle" /\ StageFits(r)' /\ RunReviewed(r)'
  BY <1>1, StoppedFacts, StoppedFits DEF RunReviewed
<1>3. /\ lock' = "stale" /\ Step(p, r) /\ proc[p].pc # "idle" /\ TypeOK
      /\ UNCHANGED <<head, committed, foreign, prepared, archive, reviewed, late>>
  BY <1>1 DEF Crash, IInv, validation
<1>4. faults' \in 0 .. MaxFaults
  BY <1>3, FaultsType DEF Crash
<1>5. candidate # None
  BY <1>3 DEF IInv, CandidateStays
<1>6. archive' \in [Path -> File] /\ ValidationType' /\ foreign' \subseteq Path
  BY <1>3 DEF TypeOK, ValidationType
<1>7. CASE UNCHANGED <<tree, app, record>>
  <2>1. OnlyApplicationWrites' /\ RecordIsTrue' /\ LegacyIsNeverLost'
    BY <1>3, <1>7 DEF IInv, OnlyApplicationWrites, RecordIsTrue, LegacyIsNeverLost
  <2>2. /\ tree' \in [Path -> File] /\ app' \in {"absent", "partial", "applied", "unsynced"}
        /\ record' \in [payload : Payload, sources : SUBSET Source]
    BY <1>3, <1>7 DEF TypeOK
  <2>3. QED BY <1>2, <1>3, <1>4, <1>5, <1>6, <2>1, <2>2, CommandStep
<1>8. ASSUME NEW x \in proc[p].todo, proc[p].pc = "writing", tree' = [tree EXCEPT ![x] = Torn],
             UNCHANGED <<app, record>>
      PROVE  IInv'
  <2>1. x \in Target /\ app = "partial"
    BY <1>8, WritingFacts
  <2>2. tree' \in [Path -> File] /\ \A s \in Source : tree'[s] = tree[s]
    BY <1>3, <1>8, <2>1, Paths DEF TypeOK
  <2>3. OnlyApplicationWrites' /\ RecordIsTrue' /\ LegacyIsNeverLost'
    BY <1>3, <1>8, <2>1, <2>2 DEF IInv, OnlyApplicationWrites, RecordIsTrue, LegacyIsNeverLost
  <2>4. /\ app' \in {"absent", "partial", "applied", "unsynced"}
        /\ record' \in [payload : Payload, sources : SUBSET Source]
    BY <1>3, <1>8 DEF TypeOK
  <2>5. QED BY <1>2, <1>3, <1>4, <1>5, <1>6, <2>2, <2>3, <2>4, CommandStep
<1>9. CASE WritesRecord(p) /\ app' = "applied" /\ UNCHANGED tree
  <2>1. record' \in [payload : Payload, sources : SUBSET Source] /\ RecordIsTrue'
    BY <1>3, <1>9, RecordedIsTrue
  <2>2. OnlyApplicationWrites' /\ LegacyIsNeverLost' /\ tree' \in [Path -> File]
    BY <1>3, <1>9 DEF IInv, OnlyApplicationWrites, LegacyIsNeverLost, TypeOK
  <2>3. QED BY <1>2, <1>3, <1>4, <1>5, <1>6, <1>9, <2>1, <2>2, CommandStep
<1>10. QED BY <1>7, <1>8, <1>9 DEF Crash, FirstOf

LEMMA ApplyStepPreserves ==
    ASSUME IInv, NEW p \in Process, ApplyStep(p)
    PROVE  IInv'
<1>1. CASE Report(p)
  BY <1>1, RefusePreserves DEF Report
<1>2. ASSUME NEW s \in Source, ArchiveSource(p, s) \/ RestoreSource(p, s) PROVE IInv'
  BY <1>2, ArchiveSourcePreserves, RestoreSourcePreserves
<1>3. ASSUME NEW x \in Target, WriteTarget(p, x) \/ RemoveCreated(p, x) PROVE IInv'
  BY <1>3, WriteTargetPreserves, RemoveCreatedPreserves
<1>4. QED
  BY <1>1, <1>2, <1>3, ValidatePreserves, PlanPreserves, ProvenancePreserves,
     ArchiveDonePreserves, WriteRecordPreserves, RemoveDonePreserves, RestoreDonePreserves
  DEF ApplyStep

LEMMA StutterPreserves ==
    ASSUME IInv, UNCHANGED vars
    PROVE  IInv'
<1>1. UNCHANGED <<head, committed, tree, draft, generator, candidate, lock, app,
                  record, archive, proc, foreign, reviewed, late, edits, faults>>
  BY DEF vars
<1>2. TypeOK' /\ OneCommand' /\ CandidateStays'
  BY <1>1 DEF IInv, TypeOK, OneCommand, CandidateStays
<1>3. StillReviewed'
  BY <1>1, ReviewedStays DEF IInv
<1>4. OnlyApplicationWrites' /\ RecordIsTrue' /\ LegacyIsNeverLost'
  BY <1>1 DEF IInv, OnlyApplicationWrites, RecordIsTrue, LegacyIsNeverLost
<1>5. CommandsAreWhereTheySay'
  BY <1>1 DEF IInv, CommandsAreWhereTheySay, StageFits, Changing, Original
<1>6. QED BY <1>2, <1>3, <1>4, <1>5 DEF IInv

LEMMA StepPreserves ==
    ASSUME IInv, [Next]_vars
    PROVE  IInv'
<1>1. ASSUME NEW p \in Path, NEW f \in Byte \cup {None}, EditProject(p, f) PROVE IInv'
  BY <1>1, EditPreserves
<1>2. ASSUME NEW p \in Process, \/ Acquire(p) \/ ApplyStep(p) \/ Crash(p)
                                \/ FailPlanned(p) \/ FailArchiving(p) \/ FailWriting(p)
                                \/ FailRecord(p)
      PROVE  IInv'
  BY <1>2, AcquirePreserves, ApplyStepPreserves, CrashPreserves, FailPlannedPreserves,
     FailArchivingPreserves, FailWritingPreserves, FailRecordPreserves
<1>3. QED
  BY <1>1, <1>2, PreparePreserves, CommitPreserves, ClearLockPreserves, StutterPreserves DEF Next

LEMMA Inductive == Spec => []IInv
<1>1. Init => IInv
  BY InitIInv
<1>2. IInv /\ [Next]_vars => IInv'
  BY StepPreserves
<1>3. QED BY <1>1, <1>2, PTL DEF Spec

------------------------------------------------------------------------------
(***************************************************************************)
(* Theorems.                                                               *)
(***************************************************************************)
\* One application at a time, a record that is true, a rollback that restores
\* what it found: at every point of every command, whatever fails, crashes or
\* is edited meanwhile (migration.rs:1304).
THEOREM ApplicationIsSafe == Spec => []ApplicationInvariant
<1>1. IInv => ApplicationInvariant
  <2> SUFFICES ASSUME IInv PROVE ApplicationInvariant
    OBVIOUS
  <2>1. OneApplication
    <3>1. \A p \in Process : proc[p].pc = "planned" => app = "absent" /\ archive = Nowhere
      BY DEF IInv, CommandsAreWhereTheySay, StageFits
    <3>2. \A p, q \in Process : proc[p].pc \in Changing /\ proc[q].pc \in Changing => p = q
      BY DEF IInv, OneCommand, Changing
    <3>3. QED BY <3>1, <3>2 DEF OneApplication
  <2>2. RollbackRestores
    <3> SUFFICES ASSUME NEW p \in Process, proc[p].pc = "ending", proc[p].failures = {}
                 PROVE  /\ \A q \in Path \ foreign : tree[q] = proc[p].before[q]
                        /\ archive = Nowhere /\ app = "absent"
      BY DEF RollbackRestores
    <3>1. StageFits(proc[p])
      BY Fits
    <3>2. /\ archive = Nowhere /\ app = "absent"
          /\ \A q \in Path \ foreign : proc[p].before[q] = Original(q)
          /\ \A x \in Target \ foreign : tree[x] = None
          /\ \A s \in Source \ foreign : tree[s] = Legacy[s]
      BY <3>1 DEF StageFits, Changing
    <3>3. QED BY <3>2, Paths DEF Original
  <2>3. QED BY <2>1, <2>2 DEF IInv, ApplicationInvariant
<1>2. QED BY <1>1, Inductive, PTL

\* Whatever fails or crashes, the bytes of a legacy path nobody else wrote are at
\* its place or in the archive (migration.rs:1403, 1717, 1761).
THEOREM LegacyFilesSurvive == Spec => []LegacyIsNeverLost
<1>1. IInv => LegacyIsNeverLost
  BY DEF IInv
<1>2. QED BY <1>1, Inductive, PTL

\* A step that writes application.yaml.
LEMMA RecordSteps ==
    ASSUME IInv, [Next]_vars, app = "partial", app' \in {"applied", "unsynced"}
    PROVE  \E p \in Process : WritesRecord(p)
<1>1. ASSUME NEW p \in Process, ApplyStep(p) PROVE WritesRecord(p)
  <2>1. CASE WriteRecord(p)
    BY <2>1 DEF WriteRecord
  <2>2. ~Provenance(p) /\ ~RestoreDone(p)
    BY DEF Provenance, RestoreDone
  <2>3. CASE Validate(p) \/ Plan(p) \/ ArchiveDone(p) \/ RemoveDone(p) \/ Report(p)
    BY <2>3 DEF Validate, Plan, Refuse, ArchiveDone, RemoveDone, Report
  <2>4. CASE \/ \E s \in Source : ArchiveSource(p, s) \/ RestoreSource(p, s)
             \/ \E x \in Target : WriteTarget(p, x) \/ RemoveCreated(p, x)
    BY <2>4 DEF ArchiveSource, RestoreSource, WriteTarget, RemoveCreated
  <2>5. QED BY <1>1, <2>1, <2>2, <2>3, <2>4 DEF ApplyStep
<1>2. ASSUME NEW p \in Process, \/ Acquire(p) \/ Crash(p) \/ FailPlanned(p) \/ FailArchiving(p)
                                \/ FailWriting(p) \/ FailRecord(p)
      PROVE  WritesRecord(p)
  BY <1>2 DEF Acquire, Crash, FailPlanned, FailArchiving, FailWriting, FailRecord
<1>3. ~Prepare
  BY DEF Prepare, DraftMigration, TamperDraft, RemoveDraft, GenerateStart, GenerateFinish,
     Review, WriteArtifact, Complete, applying
<1>4. ~Commit /\ ~ClearLock /\ ~UNCHANGED vars
      /\ \A q \in Path, f \in Byte \cup {None} : ~EditProject(q, f)
  BY DEF Commit, ClearLock, EditProject, applying, vars
<1>5. QED BY <1>1, <1>2, <1>3, <1>4 DEF Next

\* Whatever application.yaml comes to list was bound, byte for byte, by the
\* completion of an action a person decided to carry out, when the candidate was
\* validated; only the generated config, the files under .adf/cache/releases and
\* files written or bound anew before the command read them are installed
\* otherwise (migration.rs:1170, 1547, 1567).
THEOREM ReviewedBytesOnly == Spec => InstalledWasReviewed
<1> DEFINE Listed == app' \in {"applied", "unsynced"} /\ app = "partial" =>
              \A x \in DOMAIN record'.payload \ ({Config} \cup ReleaseFile \cup late) :
                  <<x, record'.payload[x]>> \in reviewed
<1>1. IInv /\ [Next]_vars => Listed
  <2> SUFFICES ASSUME IInv, [Next]_vars, app' \in {"applied", "unsynced"}, app = "partial"
               PROVE  \A x \in DOMAIN record'.payload \ ({Config} \cup ReleaseFile \cup late) :
                          <<x, record'.payload[x]>> \in reviewed
    OBVIOUS
  <2>1. PICK p \in Process : WritesRecord(p)
    BY RecordSteps
  <2>2. proc[p].pc = "writing" /\ record'.payload = proc[p].payload
    BY <2>1 DEF WritesRecord
  <2>3. QED BY <2>2 DEF IInv, StillReviewed
<1>2. IInv /\ [Next]_vars => [Listed]_vars
  BY <1>1
<1>3. QED BY <1>2, Inductive, PTL DEF Spec, InstalledWasReviewed
=============================================================================
