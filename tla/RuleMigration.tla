---------------------------- MODULE RuleMigration ----------------------------
(***************************************************************************)
(* "adf migration": a project of the retired CLI becomes a project of this *)
(* framework.  inspect reads the project, draft lists the actions, a       *)
(* person reviews each one, generate-candidate copies the reviewed draft   *)
(* into an isolated directory, the agents complete the pending actions in  *)
(* it, validate-candidate binds every file there to a reviewed digest, and *)
(* apply-candidate archives the legacy files and writes the new ones: one  *)
(* rename or one file at a time, while people and agents go on working,    *)
(* with a rollback when a step fails and nothing at all when it crashes.   *)
(*                                                                         *)
(* There is one candidate: a second one makes the working tree dirty, and  *)
(* so neither is valid, unless Git ignores it.  Applying that one, under a *)
(* lock file of its own, is then somebody else working on the project.     *)
(*                                                                         *)
(* Bytes stand for the contents of a file or a directory and for their     *)
(* digest; the checks of Schemas, the signed Release and the repository    *)
(* observation are one predicate of the bytes (Good).                      *)
(***************************************************************************)
EXTENDS Naturals, FiniteSets

CONSTANTS
    Source,        \* paths of the retired CLI that application archives
    Legacy,        \* [Source -> what the retired CLI left there]
    LegacyConfig,  \* .agentic/config.yaml, one of them
    Config,        \* .adf/config.yaml, generated for every candidate
    Artifact,      \* other files a candidate can hold, at their target path
    Marker,        \* framework.lock, trusted keys, repository observation
    ReleaseFile,   \* those under .adf/cache/releases, of any Release
    Signed,        \* those of the Release that framework.lock selects
    Action,        \* the actions of a draft that a person reviews
    Allowed,       \* [Action -> the decisions validate_action_review takes]
    Covers,        \* <<artifact, action>>: within the action's target paths
    History,       \* <<artifact, action>>: under migration-history/<action>/
    Inside,        \* <<target, source>>: the target lies within the source
    Rank,          \* [Path -> Nat]: the order in which application goes through them
    Byte,          \* contents of files
    ConfigBytes,   \* candidate_config_bytes
    Good,          \* contents that pass Schema, Release and inventory checks
    Torn,          \* a file whose write was interrupted
    Process,       \* commands "adf migration apply-candidate"
    MaxRevision,   \* bound: commits during the migration
    MaxClaim,      \* bound: artifacts one completion record binds
    MaxEdits,      \* bound: mistakes, and changes behind its back
    MaxFaults,     \* bound: failing system calls and crashes
    None           \* no file, no draft, no candidate, no review

Target == Artifact \cup {Config}
Path == Source \cup Target
Decision == {"proceed", "retire", "preserve-history"}
File == Byte \cup {Torn, None}
Claim == UNION {[D -> Byte] : D \in SUBSET Artifact}

ASSUME RuleMigrationAssumption ==
    /\ Legacy \in [Source -> Byte]
    /\ LegacyConfig \in Source /\ Config \notin Artifact
    /\ Source \cap Target = {}
    /\ Marker \subseteq Artifact
    /\ ReleaseFile \subseteq Artifact /\ Signed \subseteq ReleaseFile
    /\ Allowed \in [Action -> SUBSET Decision]
    /\ Covers \cup History \subseteq Artifact \X Action
    /\ Inside \subseteq Target \X Source /\ Rank \in [Path -> Nat]
    /\ ConfigBytes \in Byte /\ Good \subseteq Byte
    /\ Torn \notin Byte /\ None \notin Byte \cup {Torn}
    /\ MaxRevision \in Nat /\ MaxClaim \in Nat /\ MaxEdits \in Nat /\ MaxFaults \in Nat

VARIABLES
    head,       \* the commit HEAD names
    committed,  \* [Path -> file at HEAD]
    tree,       \* [Path -> file in the working tree]
    draft,      \* the draft file a person edits
    generator,  \* generate-candidate between its two reads of that file
    candidate,  \* .adf/migration-candidates/<name>
    lock,       \* migration-apply.lock in it
    app,        \* .adf/migrations/<application-id>
    record,     \* the paths and digests application.yaml lists
    archive,    \* .adf/migration-history/<application-id>/source
    proc,       \* [Process -> state of one apply-candidate]
    foreign,    \* history: paths somebody else wrote during the migration,
                \* and those a rollback could not clear
    reviewed,   \* history: what completions bound when it was last validated
    late,       \* history: files of the candidate written or bound since then,
                \* before the command read them
    edits, faults

vars == <<head, committed, tree, draft, generator, candidate, lock, app,
          record, archive, proc, foreign, reviewed, late, edits, faults>>
project == <<head, committed, tree, foreign>>
applying == <<lock, app, record, archive, proc, faults>>
validation == <<reviewed, late>>

(***************************************************************************)
(* Inspection: read-only, from HEAD and the working tree.                  *)
(***************************************************************************)
SourceState ==
    IF tree[LegacyConfig] # None
    THEN IF \E m \in Marker : tree[m] # None THEN "mixed" ELSE "current"
    ELSE IF tree[Config] # None THEN "framework" ELSE "incomplete"

\* A control file that cannot be read or parsed.
Unparsed == tree[Config] = Torn

\* A configured source root that is not there.
InventoryIncomplete == \E s \in Source : tree[s] = None

\* Every blocking finding: a dirty tree, both runtimes, missing metadata.
Findings ==
    \/ tree # committed
    \/ SourceState \in {"mixed", "incomplete"}
    \/ SourceState = "current" /\ InventoryIncomplete
    \/ SourceState = "framework" /\ \E m \in Marker : tree[m] = None
    \/ Unparsed

Readiness ==
    IF Findings THEN "blocked"
    ELSE IF SourceState = "framework" THEN "already-migrated"
    ELSE "review-required"

(***************************************************************************)
(* Drafts and their reviews.                                               *)
(***************************************************************************)
DraftFile == [revision : 0 .. MaxRevision, intact : BOOLEAN,
              review : [Action -> Decision \cup {None}]]

\* An action for every component of the inventory, none of them decided.
Proposed == [a \in Action |-> None]

\* The unreviewed draft of the project as it is.
DraftFromInspection == [revision |-> head, intact |-> TRUE, review |-> Proposed]

ReviewsValid(d) == \A a \in Action : d.review[a] \in Allowed[a]

DraftValid(d) ==
    /\ Readiness = "review-required"
    /\ d.revision = head
    /\ d.intact
    /\ ReviewsValid(d)

\* Candidates: the draft they embed, their files, the completion records.
Candidate == [draft : DraftFile, config : Byte,
              file : [Artifact -> Byte \cup {None}],
              done : [Action -> Claim \cup {None}]]

ASSUME CandidateAssumption == None \notin Candidate

NewCandidate(d) ==
    [draft |-> d, config |-> ConfigBytes,
     file |-> [x \in Artifact |-> None], done |-> [a \in Action |-> None]]

Pending(c) == {a \in Action : c.draft.review[a] \in {"proceed", "preserve-history"}}

InScope(c, a, x) ==
    IF c.draft.review[a] = "preserve-history"
    THEN <<x, a>> \in History
    ELSE <<x, a>> \in Covers

\* Without the comparison of the bytes with the reviewed digest.
ArtifactsUnbound(c, a) ==
    /\ DOMAIN c.done[a] # {}
    /\ \A x \in DOMAIN c.done[a] : InScope(c, a, x) /\ c.file[x] # None

(***************************************************************************)
(* Candidate validation.                                                   *)
(***************************************************************************)
\* The claims of an action: at least one artifact, all in scope, none that
\* another action claims, each still with the reviewed bytes.
ArtifactsValid(c, a) ==
    /\ DOMAIN c.done[a] # {}
    /\ \A x \in DOMAIN c.done[a] :
          /\ InScope(c, a, x)
          /\ c.file[x] = c.done[a][x]
    /\ \A b \in Pending(c) \ {a} :
          c.done[b] # None => DOMAIN c.done[a] \cap DOMAIN c.done[b] = {}

\* There is a completion of this action, by its id, decision and revision.
Completed(c, a) == c.done[a] # None

\* Nothing but the pending actions has one.
NoStrayCompletions(c) == \A a \in Action \ Pending(c) : c.done[a] = None

CompletionsValid(c) ==
    /\ \A a \in Pending(c) : Completed(c, a) /\ ArtifactsValid(c, a)
    /\ NoStrayCompletions(c)

Claimed(c) ==
    UNION {IF c.done[a] = None THEN {} ELSE DOMAIN c.done[a] : a \in Pending(c)}

\* The files under .adf/cache need no completion.
NoUnclaimedFiles(c) ==
    \A x \in Artifact \ ReleaseFile : c.file[x] # None => x \in Claimed(c)

GeneratedFilesValid(c) == c.config = ConfigBytes

\* The Records the candidate claims are the ones its store finds, and valid.
RecordsValid(c) == \A x \in Claimed(c) : c.file[x] \in Good

\* The files of the selected Release are the signed ones.
ReleaseValid(c) == \A x \in Signed : c.file[x] \in Good

\* Schemas, the signed Release, its Rules, the observation, the Records.
ActivationValid(c) == Marker \subseteq Claimed(c) /\ ReleaseValid(c) /\ RecordsValid(c)

\* The draft file, when it is still there, is the one the candidate embeds.
DraftSourceValid(c) == draft \in {None, c.draft}

\* The embedded draft is still the one this revision would give, reviewed.
EmbeddedDraftValid(c) ==
    c.draft.revision = head /\ c.draft.intact /\ ReviewsValid(c.draft)

CandidateValid(c) ==
    /\ DraftSourceValid(c)
    /\ Readiness = "review-required"
    /\ EmbeddedDraftValid(c)
    /\ GeneratedFilesValid(c)
    /\ CompletionsValid(c)
    /\ NoUnclaimedFiles(c)
    /\ ActivationValid(c)

(***************************************************************************)
(* The state of an apply-candidate command.                                *)
(***************************************************************************)
Stage == {"idle", "locked", "validated", "planned", "archiving", "writing",
          "removing", "restoring", "ending"}
Payload == UNION {[D -> Byte] : D \in SUBSET Target}
Run == [pc : Stage, payload : Payload, sources : SUBSET Source,
        todo : SUBSET Path, created : SUBSET Target, moved : SUBSET Source,
        failures : SUBSET {"remove", "restore"}, before : [Path -> File]]

\* failures: what the rollback failed at; "restore" is restore_failed.
At(pc, payload, sources, todo, created, moved, failures, before) ==
    [pc |-> pc, payload |-> payload, sources |-> sources, todo |-> todo,
     created |-> created, moved |-> moved, failures |-> failures, before |-> before]
Nowhere == [p \in Path |-> None]
NoPayload == [x \in {} |-> ConfigBytes]
Stopped(pc) == At(pc, NoPayload, {}, {}, {}, {}, {}, Nowhere)

\* The same command, further on.
Moves(r, pc, todo, created, moved) ==
    At(pc, r.payload, r.sources, todo, created, moved, r.failures, r.before)

\* It goes on and reports this in the end.
Fails(r, what) == [r EXCEPT !.failures = @ \cup {what}]
Faulty == faults < MaxFaults /\ faults' = faults + 1

Init ==
    /\ head = 0
    /\ committed = [p \in Path |-> IF p \in Source THEN Legacy[p] ELSE None]
    /\ tree = committed
    /\ draft = None /\ generator = FALSE /\ candidate = None
    /\ lock = "free" /\ app = "absent" /\ archive = Nowhere
    /\ record = [payload |-> NoPayload, sources |-> {}]
    /\ proc = [p \in Process |-> Stopped("idle")]
    /\ foreign = {} /\ reviewed = {} /\ late = {} /\ edits = 0 /\ faults = 0

(***************************************************************************)
(* Preparation.                                                            *)
(***************************************************************************)
\* migration draft; the person keeps its output in a file.
DraftMigration ==
    /\ draft = None /\ candidate = None
    /\ Readiness = "review-required"
    /\ draft' = DraftFromInspection
    /\ UNCHANGED <<project, generator, candidate, applying, validation, edits>>

\* Mistakes and second thoughts are bounded; the straight path is free.
Costs(mistake) ==
    /\ mistake => edits < MaxEdits
    /\ edits' = IF mistake THEN edits + 1 ELSE edits

\* A person records a decision, in the draft file only.
Review(a, d) ==
    /\ draft # None /\ draft.review[a] # d
    /\ Costs(draft.review[a] # None \/ d \notin Allowed[a])
    /\ draft' = [draft EXCEPT !.review[a] = d]
    /\ UNCHANGED <<project, generator, candidate, applying, validation>>

\* Somebody changes a generated field of the draft.
TamperDraft ==
    /\ draft # None /\ draft.intact /\ edits < MaxEdits
    /\ draft' = [draft EXCEPT !.intact = FALSE]
    /\ edits' = edits + 1
    /\ UNCHANGED <<project, generator, candidate, applying, validation>>

\* The person has no more use for the draft file.
RemoveDraft ==
    /\ draft # None /\ candidate # None
    /\ draft' = None
    /\ UNCHANGED <<project, generator, candidate, applying, validation, edits>>

\* The candidate directory must be new.
OutputFree == candidate = None

\* generate-candidate validates the draft file ...
GenerateStart ==
    /\ OutputFree /\ ~generator /\ draft # None
    /\ DraftValid(draft)
    /\ generator' = TRUE
    /\ UNCHANGED <<project, draft, candidate, applying, validation, edits>>

\* ... and reads it again for what it writes into the new directory.
GenerateFinish ==
    /\ generator
    /\ generator' = FALSE
    /\ candidate' = IF draft = None THEN None ELSE NewCandidate(draft)
    /\ UNCHANGED <<project, draft, applying, validation, edits>>

\* The candidate changes under a command that has already validated it.
Racing == \E p \in Process : proc[p].pc = "validated"

\* An agent writes, corrects or removes a file of the candidate.
WriteArtifact(x, b) ==
    /\ candidate # None /\ candidate.file[x] # b
    /\ Costs(\/ b \notin Good
             \/ x \notin ReleaseFile /\ \A a \in Pending(candidate) : ~InScope(candidate, a, x))
    /\ candidate' = [candidate EXCEPT !.file[x] = b]
    /\ late' = IF Racing THEN late \cup {x} ELSE late
    /\ UNCHANGED <<project, draft, generator, applying, reviewed>>

\* A reviewer binds files of the candidate to the completion of an action.
Complete(a, D) ==
    /\ candidate # None /\ a \in Pending(candidate)
    /\ \A x \in D : candidate.file[x] # None
    /\ Costs(candidate.done[a] # None \/ \E x \in D : ~InScope(candidate, a, x))
    /\ candidate' = [candidate EXCEPT !.done[a] = [x \in D |-> candidate.file[x]]]
    /\ late' = IF Racing THEN late \cup D ELSE late
    /\ UNCHANGED <<project, draft, generator, applying, reviewed>>

\* Somebody works on the project itself.
EditProject(p, f) ==
    /\ edits < MaxEdits /\ tree[p] # f
    /\ tree' = [tree EXCEPT ![p] = f]
    /\ foreign' = foreign \cup {p}
    /\ edits' = edits + 1
    /\ UNCHANGED <<head, committed, draft, generator, candidate, applying, validation>>

Commit ==
    /\ head < MaxRevision
    /\ head' = head + 1 /\ committed' = tree
    /\ UNCHANGED <<tree, foreign, draft, generator, candidate, applying, validation, edits>>

(***************************************************************************)
(* apply-candidate.                                                        *)
(***************************************************************************)
\* Sources go by depth and name, new files by name; the rollback goes backwards.
FirstOf(S, q) == q \in S /\ \A o \in S : Rank[q] <= Rank[o]
LastOf(S, q) == q \in S /\ \A o \in S : Rank[o] <= Rank[q]

Step(p, r) == proc' = [proc EXCEPT ![p] = r]
prepared == <<draft, generator, candidate, edits>>

\* The lock file lies in the candidate.
Acquire(p) ==
    /\ proc[p].pc = "idle" /\ candidate # None
    /\ lock = "free"
    /\ lock' = "held"
    /\ Step(p, Stopped("locked"))
    /\ UNCHANGED <<project, prepared, record, app, archive, validation, faults>>

\* An error return before anything was written; the lock file is removed.
Refuse(p) ==
    /\ lock' = "free"
    /\ Step(p, Stopped("idle"))
    /\ UNCHANGED <<project, prepared, record, app, archive, validation, faults>>

\* The bytes that a completion binds, within the scope of an action that a
\* person decided to carry out.
Reviewed(c) ==
    {xb \in Artifact \X Byte : \E a \in Pending(c) :
        /\ c.draft.review[a] \in Allowed[a]
        /\ c.done[a] # None /\ xb[1] \in DOMAIN c.done[a]
        /\ InScope(c, a, xb[1]) /\ c.done[a][xb[1]] = xb[2]}

Validate(p) ==
    /\ proc[p].pc = "locked"
    /\ \/ ~CandidateValid(candidate) /\ Refuse(p)
       \/ /\ CandidateValid(candidate)
          /\ reviewed' = Reviewed(candidate) /\ late' = {}
          /\ Step(p, Stopped("validated"))
          /\ UNCHANGED <<project, prepared, record, lock, app, archive, faults>>

\* Archived: the legacy files that are still there.
ArchiveSources == {s \in Source : tree[s] # None}

\* The generated config, every claimed artifact and whatever lies under
\* .adf/cache/releases, as the files are now.
PayloadPaths(c) == {Config} \cup Claimed(c) \cup {x \in ReleaseFile : c.file[x] # None}
Payloads(c) ==
    [x \in PayloadPaths(c) |-> IF x = Config THEN c.config ELSE c.file[x]]

\* A target outside the archived sources is absent or already equal.
PreflightOK(sources, payload) ==
    \A x \in DOMAIN payload :
        \/ \E s \in sources : <<x, s>> \in Inside
        \/ tree[x] \in {None, payload[x]}

\* Archived material of an earlier or interrupted application.
ApplicationExists == app # "absent" \/ archive # Nowhere

\* A claimed file is no longer there.
Unreadable(c) == \E x \in Claimed(c) : c.file[x] = None

Plan(p) ==
    /\ proc[p].pc = "validated"
    /\ \/ /\ \/ ApplicationExists
             \/ Unreadable(candidate)
             \/ ~PreflightOK(ArchiveSources, Payloads(candidate))
          /\ Refuse(p)
       \/ /\ ~ApplicationExists
          /\ ~Unreadable(candidate)
          /\ PreflightOK(ArchiveSources, Payloads(candidate))
          /\ Step(p, At("planned", Payloads(candidate), ArchiveSources,
                        ArchiveSources, {}, {}, {}, tree))
          /\ UNCHANGED <<project, prepared, record, lock, app, archive, validation, faults>>

\* The record directory with manifest, draft and completions.
Provenance(p) ==
    /\ proc[p].pc = "planned"
    /\ app' = "partial"
    /\ Step(p, Moves(proc[p], "archiving", proc[p].todo, {}, {}))
    /\ UNCHANGED <<project, prepared, record, lock, archive, validation, faults>>

\* A rename takes everything below the source along.
Below(s) == {q \in Path : q = s \/ <<q, s>> \in Inside}

ArchiveSource(p, s) ==
    LET r == proc[p] IN
    /\ r.pc = "archiving" /\ FirstOf(r.todo, s)
    /\ IF tree[s] = None
       THEN /\ Step(p, Moves(r, "archiving", r.todo \ {s}, {}, r.moved))
            /\ UNCHANGED <<tree, archive>>
       ELSE /\ archive' = [q \in Path |-> IF q \in Below(s) THEN tree[q] ELSE archive[q]]
            /\ tree' = [q \in Path |-> IF q \in Below(s) THEN None ELSE tree[q]]
            /\ Step(p, Moves(r, "archiving", r.todo \ {s}, {}, r.moved \cup {s}))
    /\ UNCHANGED <<head, committed, foreign, prepared, record, lock, app, validation, faults>>

ArchiveDone(p) ==
    /\ proc[p].pc = "archiving" /\ proc[p].todo = {}
    /\ Step(p, Moves(proc[p], "writing", DOMAIN proc[p].payload, {}, proc[p].moved))
    /\ UNCHANGED <<project, prepared, record, lock, app, archive, validation, faults>>

\* create_new: an equal file is kept, a different one is an error, and the
\* error path lists whatever is at the target among the files it created.
WriteTarget(p, x) ==
    LET r == proc[p] IN
    /\ r.pc = "writing" /\ FirstOf(r.todo, x)
    /\ \/ /\ tree[x] = r.payload[x]
          /\ Step(p, Moves(r, "writing", r.todo \ {x}, r.created, r.moved))
          /\ UNCHANGED tree
       \/ /\ tree[x] = None
          /\ tree' = [tree EXCEPT ![x] = r.payload[x]]
          /\ Step(p, Moves(r, "writing", r.todo \ {x}, r.created \cup {x}, r.moved))
       \/ /\ tree[x] \notin {None, r.payload[x]}
          /\ Step(p, Moves(r, "removing", r.created \cup {x}, r.created \cup {x}, r.moved))
          /\ UNCHANGED tree
    /\ UNCHANGED <<head, committed, foreign, prepared, record, lock, app, archive, validation, faults>>

\* Only the record is left: application.yaml.
WritesRecord(p) ==
    /\ proc[p].pc = "writing" /\ proc[p].todo = {}
    /\ record' = [payload |-> proc[p].payload, sources |-> proc[p].sources]

WriteRecord(p) ==
    /\ WritesRecord(p)
    /\ app' = "applied" /\ lock' = "free"
    /\ Step(p, Stopped("idle"))
    /\ UNCHANGED <<project, prepared, archive, validation, faults>>

(***************************************************************************)
(* Failures.                                                               *)
(***************************************************************************)
\* A system call fails: the directory was or was not made, the file was or
\* was not opened.
FailPlanned(p) ==
    /\ proc[p].pc = "planned" /\ Faulty
    /\ app' \in {"absent", "partial"}
    /\ Step(p, Moves(proc[p], "removing", {}, {}, {}))
    /\ UNCHANGED <<project, prepared, record, lock, archive, validation>>

FailArchiving(p) ==
    /\ proc[p].pc = "archiving" /\ Faulty
    /\ Step(p, Moves(proc[p], "removing", {}, {}, proc[p].moved))
    /\ UNCHANGED <<project, prepared, record, lock, app, archive, validation>>

FailWriting(p) ==
    LET r == proc[p] IN
    /\ r.pc = "writing" /\ Faulty
    /\ \/ /\ Step(p, Moves(r, "removing", r.created, r.created, r.moved))
          /\ UNCHANGED tree
       \/ \E x \in r.todo :
             /\ FirstOf(r.todo, x) /\ tree[x] = None
             /\ tree' = [tree EXCEPT ![x] = Torn]
             /\ Step(p, Moves(r, "removing", r.created \cup {x}, r.created \cup {x}, r.moved))
    /\ UNCHANGED <<head, committed, foreign, prepared, record, lock, app, archive, validation>>

\* application.yaml is complete, but syncing it fails: during the rollback it
\* looks as if the application had succeeded.
FailRecord(p) ==
    /\ WritesRecord(p) /\ Faulty
    /\ app' = "unsynced"
    /\ Step(p, Moves(proc[p], "removing", proc[p].created, proc[p].created, proc[p].moved))
    /\ UNCHANGED <<project, prepared, lock, archive, validation>>

\* The rollback: the listed files in turn, then the sources, then the
\* application directory and, unless a source could not go back, the archive.
\* What fails is skipped.
RemoveCreated(p, x) ==
    LET r == proc[p] IN
    /\ r.pc = "removing" /\ LastOf(r.todo, x)
    /\ \/ /\ tree' = [tree EXCEPT ![x] = None]
          /\ Step(p, Moves(r, "removing", r.todo \ {x}, r.created, r.moved))
          /\ UNCHANGED <<foreign, faults>>
       \/ /\ tree[x] # None /\ Faulty
          /\ foreign' = foreign \cup {x}
          /\ Step(p, Moves(Fails(r, "remove"), "removing", r.todo \ {x}, r.created, r.moved))
          /\ UNCHANGED tree
    /\ UNCHANGED <<head, committed, prepared, record, lock, app, archive, validation>>

\* The files were removed before the rollback knew of the torn one.
RemoveSkips(p) ==
    /\ proc[p].pc = "removing"
    /\ Step(p, Moves(proc[p], "restoring", proc[p].moved, proc[p].created, proc[p].moved))
    /\ UNCHANGED <<project, prepared, record, lock, app, archive, validation, faults>>

RemoveDone(p) ==
    /\ proc[p].pc = "removing" /\ proc[p].todo = {}
    /\ Step(p, Moves(proc[p], "restoring", proc[p].moved, proc[p].created, proc[p].moved))
    /\ UNCHANGED <<project, prepared, record, lock, app, archive, validation, faults>>

\* Something is back at the source path, or in its directory.
Occupied(s) == \E q \in Below(s) : tree[q] # None

\* The archive is removed whether or not every source went back.
RestoreForgets(p, s) ==
    LET r == proc[p] IN
    /\ r.pc = "restoring" /\ s \in r.todo
    /\ archive' = [q \in Path |-> IF q \in Below(s) THEN None ELSE archive[q]]
    /\ tree' = IF Occupied(s) THEN tree
               ELSE [q \in Path |-> IF q \in Below(s) THEN archive[q] ELSE tree[q]]
    /\ Step(p, Moves(r, "restoring", r.todo \ {s}, r.created, r.moved))
    /\ UNCHANGED <<head, committed, foreign, prepared, record, lock, app, validation, faults>>

RestoreSource(p, s) ==
    LET r == proc[p] IN
    /\ r.pc = "restoring" /\ LastOf(r.todo, s)
    /\ \/ /\ \/ Occupied(s) /\ UNCHANGED faults
             \/ Faulty
          /\ Step(p, Moves(Fails(r, "restore"), "restoring", r.todo \ {s}, r.created, r.moved))
          /\ UNCHANGED <<tree, archive>>
       \/ /\ ~Occupied(s) /\ UNCHANGED faults
          /\ tree' = [q \in Path |-> IF q \in Below(s) THEN archive[q] ELSE tree[q]]
          /\ archive' = [q \in Path |-> IF q \in Below(s) THEN None ELSE archive[q]]
          /\ Step(p, Moves(r, "restoring", r.todo \ {s}, r.created, r.moved))
    /\ UNCHANGED <<head, committed, foreign, prepared, record, lock, app, validation>>

\* The record goes last; a directory that stays, with or without it, needs
\* recovery.
RestoreDone(p) ==
    LET r == proc[p] IN
    /\ r.pc = "restoring" /\ r.todo = {}
    /\ archive' = IF "restore" \in r.failures THEN archive ELSE Nowhere
    /\ \/ /\ app' = "absent" /\ UNCHANGED faults
          /\ Step(p, Moves(r, "ending", {}, r.created, r.moved))
       \/ /\ app # "absent" /\ Faulty
          /\ app' \in {app, "partial"}
          /\ Step(p, Moves(Fails(r, "remove"), "ending", {}, r.created, r.moved))
    /\ UNCHANGED <<project, prepared, record, lock, validation>>

\* A rollback that failed is tried again for ever.
ReportRetries(p) ==
    /\ proc[p].pc = "ending" /\ proc[p].failures = {}
    /\ Refuse(p)

\* The error is reported and the lock file removed.
Report(p) ==
    /\ proc[p].pc = "ending"
    /\ Refuse(p)

\* The process dies; its lock file stays, as it does when removing it fails.
Crash(p) ==
    /\ proc[p].pc # "idle" /\ Faulty
    /\ lock' = "stale"
    /\ Step(p, Stopped("idle"))
    /\ \/ UNCHANGED <<tree, app, record>>
       \/ /\ proc[p].pc = "writing"
          /\ \E x \in proc[p].todo :
                /\ FirstOf(proc[p].todo, x) /\ tree[x] = None
                /\ tree' = [tree EXCEPT ![x] = Torn]
          /\ UNCHANGED <<app, record>>
       \/ /\ WritesRecord(p)
          /\ app' = "applied" /\ UNCHANGED tree
    /\ UNCHANGED <<head, committed, foreign, prepared, archive, validation>>

\* An operator deletes the lock file of a command that is gone.
ClearLock ==
    /\ lock = "stale"
    /\ lock' = "free"
    /\ UNCHANGED <<project, prepared, record, app, archive, proc, validation, faults>>

ApplyStep(p) ==
    \/ Validate(p) \/ Plan(p) \/ Provenance(p) \/ ArchiveDone(p)
    \/ WriteRecord(p) \/ RemoveDone(p) \/ RestoreDone(p) \/ Report(p)
    \/ \E s \in Source : ArchiveSource(p, s) \/ RestoreSource(p, s)
    \/ \E x \in Target : WriteTarget(p, x) \/ RemoveCreated(p, x)

Prepare ==
    \/ DraftMigration \/ TamperDraft \/ RemoveDraft
    \/ GenerateStart \/ GenerateFinish
    \/ \E a \in Action, d \in Decision : Review(a, d)
    \/ \E x \in Artifact, b \in Byte \cup {None} : WriteArtifact(x, b)
    \/ \E a \in Action, D \in {D \in SUBSET Artifact : Cardinality(D) \in 1 .. MaxClaim} :
          Complete(a, D)

Next ==
    \/ Prepare
    \/ \E p \in Path, f \in Byte \cup {None} : EditProject(p, f)
    \/ Commit \/ ClearLock
    \/ \E p \in Process : \/ Acquire(p) \/ ApplyStep(p) \/ Crash(p)
                          \/ FailPlanned(p) \/ FailArchiving(p) \/ FailWriting(p)
                          \/ FailRecord(p)

Spec == Init /\ [][Next]_vars
FairSpec == Spec /\ \A p \in Process : WF_vars(ApplyStep(p))

(***************************************************************************)
(* Properties.                                                             *)
(***************************************************************************)
TypeOK ==
    /\ head \in 0 .. MaxRevision
    /\ committed \in [Path -> File] /\ tree \in [Path -> File]
    /\ draft \in DraftFile \cup {None} /\ generator \in BOOLEAN
    /\ candidate \in Candidate \cup {None}
    /\ lock \in {"free", "held", "stale"}
    /\ app \in {"absent", "partial", "applied", "unsynced"}
    /\ record \in [payload : Payload, sources : SUBSET Source]
    /\ archive \in [Path -> File]
    /\ proc \in [Process -> Run]
    /\ foreign \subseteq Path
    /\ reviewed \subseteq Artifact \X Byte /\ late \subseteq Artifact
    /\ edits \in 0 .. MaxEdits /\ faults \in 0 .. MaxFaults

\* Stages that change the project.
Changing == {"planned", "archiving", "writing", "removing", "restoring", "ending"}

\* Whatever fails or crashes, the bytes of a legacy path nobody else wrote are
\* at its place or in the archive: a rename moves them, a rollback that cannot
\* put them back keeps the archive (migration.rs:1403, 1717, 1761).
LegacyIsNeverLost ==
    \A s \in Source \ foreign : Legacy[s] \in {tree[s], archive[s]}

\* A rollback that reports no failure of its own leaves every path nobody else
\* wrote as the command found it, and neither archive nor application record
\* (migration.rs:1696).
RollbackRestores ==
    \A p \in Process :
        proc[p].pc = "ending" /\ proc[p].failures = {} =>
            /\ \A q \in Path \ foreign : tree[q] = proc[p].before[q]
            /\ archive = Nowhere /\ app = "absent"

\* application.yaml is written last: once it is there and synced, every source
\* it lists is in the archive and gone from its place, and every file it lists
\* has the listed bytes, unless somebody else wrote that path
\* (migration.rs:1424).
RecordIsTrue ==
    app = "applied" =>
        /\ \A s \in record.sources \ foreign : tree[s] = None /\ archive[s] = Legacy[s]
        /\ \A x \in DOMAIN record.payload \ foreign : tree[x] = record.payload[x]

\* What an interrupted command left behind is never mixed with a second
\* application: the lock file and the application directory keep every other
\* command away from the project (migration.rs:1349, 1459).
OneApplication ==
    /\ \A p, q \in Process :
          proc[p].pc \in Changing /\ proc[q].pc \in Changing => p = q
    /\ \A p \in Process :
          proc[p].pc = "planned" => app = "absent" /\ archive = Nowhere

\* Whatever application.yaml comes to list was bound, byte for byte, by the
\* completion of an action a person decided to carry out, when the candidate
\* was validated: only the generated config, the files under
\* .adf/cache/releases and files of the candidate written or bound anew between
\* its validation and the reading of its files are installed otherwise
\* (migration.rs:1170, 1547, 1567).
InstalledWasReviewed ==
    [][app' \in {"applied", "unsynced"} /\ app = "partial" =>
          \A x \in DOMAIN record'.payload \ ({Config} \cup ReleaseFile \cup late) :
              <<x, record'.payload[x]>> \in reviewed]_vars

\* A command that was started ends: with the record, a refusal, a rollback or
\* the death of its process.
ApplyEnds == \A p \in Process : proc[p].pc # "idle" ~> proc[p].pc = "idle"

------------------------------------------------------------------------------
(***************************************************************************)
(* The inductive invariant.                                                *)
(***************************************************************************)
\* The lock file keeps commands apart.
OneCommand ==
    \A p \in Process : proc[p].pc # "idle" =>
        lock = "held" /\ \A q \in Process : proc[q].pc # "idle" => q = p

\* A candidate that a command works on does not go away.
CandidateStays ==
    /\ generator => candidate = None
    /\ \A p \in Process : proc[p].pc # "idle" => candidate # None

\* What validation found holds until somebody touches that file, and what a
\* command read stays as it read it.
StillReviewed ==
    \A p \in Process :
        /\ proc[p].pc = "validated" =>
              \A x \in Claimed(candidate) \ late : <<x, candidate.file[x]>> \in reviewed
        /\ proc[p].pc \in {"planned", "archiving", "writing"} =>
              \A x \in DOMAIN proc[p].payload \ ({Config} \cup ReleaseFile \cup late) :
                  <<x, proc[p].payload[x]>> \in reviewed

\* What was at a path nobody else wrote before the migration.
Original(q) == IF q \in Source THEN Legacy[q] ELSE None

\* New files are there only while an application is under way, or was; nothing
\* but the legacy files is archived.
OnlyApplicationWrites ==
    \A x \in Target \ foreign :
        archive[x] = None /\ (app = "absent" => tree[x] = None)

\* Where a command stands: which sources it has moved, which files it has
\* written or has still to remove, on the paths nobody else wrote.
StageFits(r) ==
    /\ r.pc \in Changing =>
          /\ app # "applied"
          /\ \A q \in Path \ foreign : r.before[q] = Original(q)
    /\ r.pc = "planned" => r.moved = {} /\ app = "absent" /\ archive = Nowhere
    /\ r.pc \in {"archiving", "writing"} => app = "partial"
    /\ r.pc \in {"planned", "archiving", "writing", "removing"} =>
          \A s \in Source \ foreign :
              IF s \in r.moved THEN tree[s] = None /\ archive[s] = Legacy[s]
              ELSE tree[s] = Legacy[s]
    /\ r.pc \in {"planned", "archiving", "writing"} => r.failures = {}
    /\ r.pc \in {"planned", "archiving"} =>
          /\ r.todo \subseteq r.sources /\ r.sources \ (r.todo \cup foreign) \subseteq r.moved
          /\ \A x \in Target \ foreign : tree[x] = None
    /\ r.pc = "writing" =>
          /\ r.sources \ foreign \subseteq r.moved
          /\ r.todo \subseteq DOMAIN r.payload
          /\ \A x \in Target \ foreign :
                tree[x] = IF x \in DOMAIN r.payload \ r.todo THEN r.payload[x] ELSE None
          /\ DOMAIN r.payload \ (r.todo \cup foreign) \subseteq r.created
    /\ r.pc = "removing" => \A x \in Target \ foreign : x \in r.todo \/ tree[x] = None
    /\ r.pc \in {"restoring", "ending"} => \A x \in Target \ foreign : tree[x] = None
    /\ r.pc = "restoring" =>
          \A s \in Source \ foreign :
              \/ tree[s] = Legacy[s]
              \/ (s \in r.todo \/ "restore" \in r.failures) /\ archive[s] = Legacy[s]
    /\ r.pc = "ending" =>
          /\ r.failures = {} => app = "absent"
          /\ "restore" \in r.failures \/ archive = Nowhere
    /\ r.pc = "ending" /\ "restore" \notin r.failures => \A s \in Source \ foreign : tree[s] = Legacy[s]

CommandsAreWhereTheySay == \A p \in Process : StageFits(proc[p])

\* At every point of every command: one application at a time, a record that
\* is true, a rollback that restores what it found, and a command that is where
\* its lists say (migration.rs:1304).
ApplicationInvariant ==
    /\ TypeOK /\ OneApplication /\ RecordIsTrue /\ RollbackRestores
    /\ OneCommand /\ CandidateStays /\ StillReviewed /\ OnlyApplicationWrites
    /\ CommandsAreWhereTheySay
=============================================================================
