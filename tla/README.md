# Verification of the Agentic Development Framework

TLA+ models of the parts of ADF whose correctness depends on the order of steps of several
processes, people and crashes, with TLC runs on small instances and TLAPS proofs for all sizes.

## The system

ADF is a control plane for coding agents. A project directory holds Contracts, Decisions,
Evidence and Results as files; an evaluation kernel derives from them the next Action; an agent
asks for it, works, and submits a Result that is bound to digests of what it was based on.

| Part | State | Operations | Module |
| --- | --- | --- | --- |
| Action protocol (`project_application.rs`, `mcp_server.rs`, `application.rs`) | in memory: issued Actions per process, each with its Framework identity and registered outputs | next, submit, add_evidence, apply_decision, apply_contract, abandon, begin/complete_execution | `ActionSession`, `ContractStore`, `ExecutionRecords` |
| Result preparation (`submission.rs`) | none | prepare_result: staleness, outputs, freshness_refs | `ActionSession`, `ChangeWorkflow` |
| Record store (`filesystem_project.rs`, `storage_io.rs`, `project.rs`) | Record files, `result-corrections.lock`, `contract-updates.lock`, `record-storage.lock`, health index | append, replace, upsert, snapshot | `ActionSession`, `ContractStore`, `SourceCache` |
| Record storage (`record_storage.rs`, `storage_migration.rs`, `project_config.rs`) | stored form of each Record, config version, recovery journal | encode, decode, storage migrate | `StorageMigration` |
| Kernel (`kernel.rs`), Context compiler (`context.rs`), Contract health, Rules | none (functions of a snapshot) | evaluate, compile, report | `ChangeWorkflow` |
| Framework delivery (`delivery.rs`, `framework_lock.rs`) | framework.lock, its backups, installed releases, trusted keys | install, switch, rollback | `FrameworkDelivery` |
| Binary installation (`binary_install.rs`, `distribution_trust.rs`) | release directories, activation file, launcher | install, update, rollback, status | `BinaryInstall` |
| Rule migration (`migration.rs`) | draft, candidate, completion records, application record, archive, lock file | draft, generate, validate, apply | `RuleMigration` |
| Project setup (`project_setup.rs`, `binding_*_validation.rs`, `project_runtime.rs`) | config, trust, AGENTS.md, observation and its draft | init, change init, observe, promote | `ProjectSetup` |
| Execution records and runners (`execution_record.rs`, `execution_log.rs`, `codex_runner.rs`, `claude_runner.rs`) | two event files per attempt, the child process | begin, complete, run, log | `ExecutionRecords` |
| Repository observation (`git_repository.rs`) | observation cache | observe, observe_cached | `SourceCache` |
| Signal detection (`*_detection.rs`), audits, CLI output, download and publishing | none | functions over text; network | only what they mean to a Change |

What is hard about it: every MCP server process serialises its own calls (one tokio `Mutex`
around the service), but nothing serialises the processes, people and maintenance commands that
share the directory. Each call loads a snapshot, decides on it, and writes later. Durable state
is many files, written one at a time, and a process may end between any two writes.
`PROJECT.json` lists these hazards with the line where each bites and the property that covers it.

## Modules

Each component is a module `X` with its actions and properties, and `MCX` holds the constants of
its instances. The theorems are in `XProofs`, except that `RecordFilesProofs` holds those about
`StorageMigration` and `SourceCache` and `ProjectFilesProofs` those about `FrameworkDelivery` and
`ProjectSetup`. `ResultLedger` is an abstract specification: one compare-and-set register per
issued Context, which `ActionSession` implements.

The components meet in the files. `ActionSession` sees the kernel as an ordered work list and a
switch as a change of identity; `ChangeWorkflow` sees the protocol as the atomic submission that
the first shows it to be; `ContractStore` refines the one step in which `ActionSession` and
`ChangeWorkflow` replace a Contract; `ExecutionRecords` runs around one Action of the protocol;
`SourceCache` produces the observation and the Results that `ChangeWorkflow` reads.

### ActionSession

State and code: `content` is the bytes of each artifact (a digest stands for the bytes);
`framework` the active lock and Rule index identity; `results` the Result file of each (Action,
Context) key, which is what `result_filename` makes of it; `issued[s]` the private map of a
process; `op[s]` the one call it is serving; `correction` the holder of
`result-corrections.lock`. `offered` and `written` are history for the properties.

Actions: `AdfNext`; `SubmitStart`, then `Replay`, `Resume`, `SubmitLoad`, and `AppendResult` or
`Compare` and `Overwrite`; `WriteStart`, `Resume`, `WriteLoad`, `RecordWrite` for the three
write tools; `Abandon`; `Crash`; and the outside world, `Edit` and `SwitchFramework`. Each step
is one load or one durable write. A step that refuses answers with the code of the source.

Abstractions: the work of a Change is a fixed list of Actions, and evaluation selects the first that
no completing Result answers (`Selections`). A fresh Result answers its Action. One whose inputs
changed may: confirmed reviews stay binding, a build keeps the results it was based on, an outcome
is bound to the sources of its own Requirement only. `Lasting` names the Actions this can happen to,
and evaluation may then do either; `ChangeWorkflow` has the rules. An impact assessment is not bound
to the commit its Context showed (`Revision`) but to what its payload cites (`Basis`), and one that
cites something missing is refused. A payload is otherwise only whether it completes its
Requirements; a snapshot is read in one step; the Decisions a Contract must cite are fixed. A Result's ID is a
digest of its body, so comparing IDs is comparing Results. Stored `output_refs` are sorted, hence
a set; what a client sends is a list, and `Rank` is string order.

### ChangeWorkflow

State and code: `content` the Change, the code and the clauses; the sets of stored
`assessments`, `reviews`, `outcomes`, `requests`, `answers`, `builds` and `evidence`; `detected`,
`complete` and `phase` what the observation says; `held` the issued Actions that some process
holds, each with the digests its Context captured. `Evaluate` is `evaluate_with_health` as operators over that state: fresh
assessment, candidate dispositions and their independent review, Rule selection, governance and
revalidation instances, satisfaction, the baseline a build vouches for, batching, Decision
requests, and the gates in their order. `ClauseHealth` is the health report.

Actions: `Issue`, which adds the current Action to those held; one submission per kind of Result
with its checks; `WriteClause`, `AddEvidence`; `Implement` inside a build; and people who edit,
revert, lose and restore detector coverage and record the phase. Submission asks whether the inputs
are as issued and not whether the Action is still the current one, so an Action held from before can
be answered when evaluation has ceased to ask for it. `late` marks that this happened to an
assessment or to the challenge of a dismissal.

Abstractions: Results are content-addressed and are only added here; that a correction replaces the
Result of one Action and Context is in `ActionSession` and `ExecutionRecords`. References to Results
are always fresh and left out. `MaxHeld` bounds the Actions held and `Kept` says which kinds stay
held when another one is issued; those that do not were abandoned or ended with their process. Contents come from a small set, so that edits can be reverted and stale
Results become fresh again. Each signal has one candidate. Negative and partial answers and
edits nobody asked for share one bound, `MaxTrouble`. `Explicit` (a Change's
`verification_scope`) is in the model and empty in the instances.

### ContractStore

State and code: `contract` the file; `lock` the holder of `contract-updates.lock`; `call[s]` what
a client asked for, with the digests it was shown; `merged[s]` what a session is about to write.
Actions: `AskWhole`, `AskClauses`; `Acquire`, `Merge` or `Refuse`, `Write`; `Crash`, which frees
the OS lock; `Edit`, a person's save that knows no lock.

Worth knowing about the code, and visible in the model: a patch that only adds clauses must still
name some digest; a client that omits the digest of a clause it was shown can add the clause back
after somebody deleted it; a Change's own Contract may be written whole without a digest, so two
creators overwrite each other. `Bound` and `Orderly` delimit these.

### ExecutionRecords

State and code: `started` and `completed` the two event files of an execution, each absent,
`Empty` or written; `runner` and `agent` a runner and the child it launched; `call` a completion
on its way; `results` the work each Result was made for, `corrected` those a correction has
replaced; `broken` the callers that stopped in the middle or failed to write. Actions: `Launch`, `BeginCheck`, `BeginCreate`,
`BeginWrite`, `AgentEnds` or `GivesUp`, `CompleteCheck`, `CompleteCreate`, `CompleteWrite`,
`Returns`; `AgentSubmits`, also after its runner gave up on it; an operator that reports through
the MCP server; `SessionCorrects`, in which a session submits the Action once more and another
Result takes the place of the stored one; `BeginWriteFails` and `CompleteWriteFails`, which leave the
event file empty, or complete when only syncing it failed; crashes of runners and of the server.
`CodexCompletion` and `ClaudeCompletion`
are the two runners' different ways from what the agent printed to a status.

### RuleMigration

State and code: `tree`, `committed` and `head` the project; `draft`, `candidate`, `lock`, `app`,
`record` and `archive` the migration's own files; `proc` the apply commands. Readiness, draft and
candidate validation are predicates translated from the source. Actions: `DraftMigration`,
`Review`, `GenerateStart` and `GenerateFinish` (which reads the draft again), `WriteArtifact`,
`Complete`; `Acquire`, `Validate`, `Plan`, `ArchiveSource` for each source, `WriteTarget` for each
file, `WriteRecord`; the failing variants; `RemoveCreated`, `RestoreSource` and `RestoreDone` for the
undo, each of which may fail and is then skipped and reported (`failures`); `Report`; `Crash`, and
`ClearLock` for the operator who removes the lock file. `FailRecord` is the record that is complete
and cannot be synced: it looks like a success (`app` is "unsynced") until the undo removes it, which
it does last. `Rank` is the order in which application goes through files and sources.

Files under `.adf/cache/` need no completion, and those under `.adf/cache/releases` are applied all the
same (`ReleaseFile`, `PayloadPaths`); of them only the `Signed` ones, the Release that framework.lock
selects, are checked. There is one candidate. A second makes the working tree dirty, so that neither
is valid, unless Git ignores it; as the lock file lies in the candidate's directory, applying that
one is then somebody else who works on the project. `reviewed` and `late` are history: what
completions bound when the candidate was validated, and what of it changed before it was read.
`foreign` are the paths that somebody else wrote or that an undo could not clear.

### BinaryInstall

State and code: `release` the directory of each tag, `launcher`, `active` the activation file,
`lock` the OS lock, `candidate` the downloaded bundle. Actions: `StartInstall`, `Acquire`,
`CheckInstalled`, `Copy`, `CopyRest`, `Publish` (inspect the staged copy, rename it),
`WriteLauncher`, `SetExecutable`, `ReadActivation`, `Activate`; `StartRollback`, `Rollback`; the
lock-free `ReadCurrent` and `UseRelease`; `Crash`, `ChangeCandidate`, `Damage`. `Crash` is the death
of the process or its return because the next file operation fails: `set_permissions`, or syncing
the directory after a rename; only `Activate` and `Rollback` report such a failure after their last
effect. `torn` marks a command that ended so between publishing the launcher and its mode. A bundle is its
tag, revision, signer's standing and whether its digests agree.

### ProjectSetup

State and code: `file` who created each file and whether it is fully written; `agents` which text of
the project's own AGENTS.md has, and whether the ADF block; `left` the files no command takes back
any more; `observation`, `draft`, `sources`,
`accepted`; `cmd` the commands. Actions: init file by file with `WriteFails`, `InstallRelease`,
`RollBack`; the AGENTS merge, which reads the text, writes a staged file and renames it (`Merge`,
`CreateMerge`, `WriteMerge`, `ReplaceAgents`); `StartChange`; `StartObserve`, `ObserveBase`,
`ObserveSources`, `CreateOutput`, `WriteOutput`; `StartPromote`, `Validate`, `ReadBase`,
`Recheck`, `Rename`; `Killed` and the user's edits. Files that are written alike are one file.
Whatever writes, syncs or removes may fail: `WriteFails` leaves its file behind, `RollBack` ignores a
file it cannot remove, and one error return of `InstallRelease` takes nothing back. `Unsupported` are
sources with a file no detector understands. `late` is what changed after a command's last look at
it: sources, Decisions and observation under a promotion, AGENTS.md under an init. A command may fail by itself or start
another one that fails at once; edits, failing writes and kills share the bound `MaxTrouble`.

### StorageMigration

State and code: `files` the bytes of each Result and Evidence path as a logical value in a form
(`pretty` as `serialize_record` writes, `plain` canonical JSON, `packed` envelope); `config` the
schema version of `.adf/config.yaml`; `journal` the recovery journal; `mig` the running command,
which holds `record-storage.lock` exclusively; `session[s]` the policy a process read at open,
while it holds the lock shared.

Actions follow `run_cli` and `apply` line by line: `MigrateStart` (lock, scan,
`validate_pending`), `SaveJournal`, `EnableV2`, `ReadRecord` and `ReplaceRecord` for each entry,
`StartVerify`, `VerifyRecord`, `VerifyInventory`, `SwitchConfig`, `Finish`. `Interrupt` ends the
command between any two of them. `SessionOpen`, `SessionWrite`, `SessionClose`, `Edit` and
`MoveJournalAside` are the others.

Abstractions: a hash is the bytes and a logical digest the value. The order of paths is any
fixed one. A person edits Records as ordinary JSON, never as an envelope, and not in the instant
between the second read and the rename, which the README of the repository forbids. The free
space check fails before anything is written and is one more refusal. A failed lock or plan is
an error that changes nothing, so it is no action.

### FrameworkDelivery

State and code: `trust` the status of each key in `.adf/trusted-release-keys.yaml`; `cache` the
tree under each release id in `.adf/cache/releases`; `active` the file `.adf/framework.lock`;
`backups` the file under each lock digest in `.adf/cache/framework-lock-backups`; `proc[p]` the
command a process runs, with the candidate, the staged copy and the active lock it has read.
`onceActive`, `authorised`, `damaged` and `overtaken` are history for the properties.

Actions: `InstallStart`, `InstallCopy`, `InstallVerifyCopy`, `InstallRename` for
`install_release`; `SwitchStart` or `RollbackStart`, then `SwitchReadActive`,
`SwitchCheckBackup`, `SwitchBackup`, `SwitchReplace` for `switch_framework_lock_for`; `Crash`;
and people, `EditTrust` and `Damage`. A refused command changes nothing and is no action.

Abstractions: a tree is its id, its rule and schema digests, its signer and whether signature
and inventory fit (`sound`); a lock is what it pins, a lock file a lock in some layout, because
backups are named by the digest of the lock but compared byte by byte. A key that is missing
from the store, or that does not allow the source, is refused like a revoked one. Whether
`validate_framework_lock` accepts a lock depends on the lock and its pinned rules only and is the
constant `ValidLock`. The storage guard is held shared by every command here and excludes only
storage migrations, so it does not appear. A left-over staging directory has a unique name and
is never read again.

### SourceCache

State and code: `work`, `index`, `tree` and `rev` Git's three versions of each file and HEAD;
`cache` the cached observation under its signature; `entries` the health index; `proc` the calls.
Actions: a call takes identities in the code's order (`ListBlobs`, `ListDirty`, `Hash`), then
looks the signature up, and observes file by file and stores; or loads Record by Record and
stores the index. People edit, stage and commit between any two steps. Both caches are off when
Git does not ignore them (`ignored`).

Abstractions: the two `ls-files` commands of one call are one step; what the detectors find is a
function of content and manifest. `moved` and `raced` are history: both caches take identities
before they read the files, so a call during which a file changes can store new content under an
old identity. Without that exception the properties fail: after the file is changed back, the
entry is served. The comment at `git_repository.rs:303` does not mention this window.

## Runs

| Run | Question | Bound and why | Distinct states |
| --- | --- | --- | --- |
| `session_corrections` | Can two processes lose a Result, and is submit an atomic compare-and-set that always answers? | 2 sessions, 1 Action, 2 payloads, 2 Frameworks: two of everything that can conflict. No symmetry because of liveness; edits by people and Evidence writes under two sessions are left to the proofs | 0.04 M |
| `session_records` | Do write tools, crashes and edits between issue and submit keep Results and Decisions honest? | 1 session, 3 Actions: an assessment that reads the commit and cites the Contract, an analysis that writes Contract and Decision, a Human's answer. Only the commit has two versions, so that it can be edited and reverted under an Action | 1.2 M |
| `storage_migration` | Is a migration safe wherever it stops, and does repeating the command end it? | 2 paths (one done, one to do), a compressible and an incompressible Record, 1 session, 2 interruptions | 0.5 M |
| `delivery` | Can an install, a switch or a key change put the wrong Release in use or lose a restore point? | 2 processes, rival bundles of one id (signed, damaged, other rules), 2 locks in 2 layouts each, 1 key | 1.5 M |
| `rule_migration` | Is a failing, racing or killed application undone or recognisable, and is what the record lists reviewed? | 2 apply commands, 2 legacy sources, 3 artifacts, one of them a Release file, 2 actions, 1 edit and 1 fault or failing undo; preserved history is left to the proofs | 0.4 M |
| `workflow` | Does ready-to-merge mean what it says, and is it reached? | 1 signal whose Rules demand an analysis, a test and a challenge; 1 clause, 1 question, 2 contents, 1 build, 1 trouble: a Change passes every gate and one of its inputs changes and may change back; 2 Actions held at a time, assessments and work stay held when another one is issued | 0.3 M |
| `execution` | Are attempts recorded once and truthfully? | a runner, 2 operators, 1 execution, 2 pieces of work, 2 Results, 1 crash or failing write: up to three completions of one execution, and a correction of the Result they name; several runners are left to the proofs | 0.5 M |
| `binary_install` | Is what runs what was verified, and can it be rolled back? | 2 commands, 1 lock-free reader, 2 tags, 2 revisions, 1 crash, failing operation, damage or change of a candidate | 0.3 M |
| `project_setup` | Is setup all or nothing, and does promotion replace what was reviewed? | 2 commands, 2 states of the sources, one with a file no detector understands, 1 Decision, 2 edits, failing operations or kills: a reviewer fills in the draft and something changes under its promotion, or an init fails or is killed while another runs or a person saves AGENTS.md | 2.9 M |
| `contract_store` | Can a clause be overwritten unseen? | 2 sessions, 2 clauses, 2 texts, 2 calls or edits, 1 crash: two calls that conflict, or a call and a save under it | 0.03 M |
| `source_cache` | Can a cache answer with something other than the files? | 2 calls, 1 source, 1 Result, 2 changes: an edit and its revert, stage or commit | 0.4 M |
| `workflow_scoped` | As `workflow`, with a clause-scoped Contract (violation) | as `workflow` | stops at the violation |

Where `CHECK_DEADLOCK` is off the system may stop: commands have returned and the bounds on
calls, edits and faults are used up. The session, storage and delivery runs check that nobody is
stuck.

### Properties

* Agents: `OnlyIssuedWorkIsStored`, `FreshOnShownInputs`, `HumanBehindEveryDecision` (they cannot
  invent a step, a Result counts as fresh only on the inputs its Context showed, except its outputs
  and the commit under an assessment, they cannot decide for a person).
* Races between sessions: `NoLostCorrection`, `AcknowledgedIsStored`, `ImplementsLedger`,
  `NoBlindOverwrite`; `EveryCallEnds`, `EveryUpdateEnds`.
* Change: `ReadyIsVerified` (gate and health report agree that every demanded clause is verified
  on current inputs), `DismissalIsIndependent` (a dismissed signal has a Challenger's consent on
  the code as it is now), `EventuallyReady`; `WorkflowInvariant` adds that the evaluation does not
  depend on the order of Result files (`EvaluationIsDetermined`), unless a process answered an
  Action that nobody asked for any more, and that no later dismissal undoes a confirmation (`ConfirmedIsBinding`).
* Storage: `StorageInvariant` (no packed Record under config v1, open sessions write in the
  current form, an interrupted command is resumable), `MigrationKeepsRecords`,
  `RepeatingCompletes`.
* Delivery: `OnlyAuthorisedLocksAreActive`, `ActivatedReleasesStayUsable`,
  `ReplacedLocksAreBackedUp`, and `DeliveryInvariant`, which contains `BackupsAreGenuine`.
* Rule migration: `LegacyIsNeverLost`, `InstalledWasReviewed` (everything `application.yaml` lists was
  bound by the completion of a decided action when the candidate was validated, steps before it was
  written; the generated config, Release files and what changed in between are excepted), `ApplyEnds`;
  `ApplicationInvariant` contains `OneApplication`, `RecordIsTrue` and `RollbackRestores`, the last of
  an undo that reports no failure of its own.
* Execution: `AcknowledgedIsRecorded`, `UnreadableOnlyByTrouble`, `EveryRunnerReturns`;
  `ExecutionInvariant` contains `SuccessIsBound`, `ReportedIsLogged` and `FailureIsRecorded`.
* Binaries: `RollbackPointIsLastActive`, `ReadersFindTheirRelease`, `LockIsFreed`;
  `InstallInvariant` contains `ActiveIsVerified` and `LauncherIsExecutable`.
* Setup: `PromotionIsCurrent`, `NoBlindReplacement`, `InstructionsSurvive`; `SetupInvariant` is
  `AllOrNothing` (of the complete files but those in `left`), `AcknowledgedIsWhole`,
  `InForceWasReviewed` and `PromotedValidates` (valid as soon as Git tracks the sources), with what
  makes them inductive (`FilesHaveOneOwner` says that no undo removes another run's file).
  `InstructionsSurvive` excepts a save between init's read of AGENTS.md and its rename.
* Contracts: `StoreInvariant` contains `OnlyRealConflictsAreRefused`.
* Caches: `CacheInvariant` contains `ObservationsAreCurrent`; `IndexedRecordsAreCurrent`.

Every invariant named after a component includes its `TypeOK` and, where there are proofs, the
conjuncts that make it inductive, so that TLC checks on a small instance what the proofs rest on.

### Finding

`workflow_scoped`: `clause_health` wants the Contract's own id in the manifest of a verification
(`contract_health.rs:319`), but for a Contract with clause-scoped `applies_to` the Context names
only `contract-id#clause-id` refs (`context.rs:447`). A clause whose Evidence passed and whose
refs are all current stays `stale`, and the revalidation that follows from it does not end that
state; `docs/DESIGN-REVIEW.md:238` and `:245` say it is verified then.

### Other disagreements met while modelling

No run is spent on these; the model does what the code does.

* `output_refs` sent in unsorted order are compared with the sorted stored list, so an identical
  second submission is a `WRITE_CONFLICT` (`project_application.rs:374`); `docs/MCP-DESIGN.md:169`
  promises a replay.
* A process that still holds the entry overwrites a Result that has completed its Action
  (`project_application.rs:325`); `docs/MCP-DESIGN.md:170` allows a correction only while the
  Action is current.
* Refs listed as outputs are bound to what is on disk, whoever put it there (`submission.rs:107`);
  `README.md:128` says a Result is bound to what it was based on.
* Of two overlapping switches the second replaces the lock the first made active without a backup
  (`delivery.rs:349`); `docs/FRAMEWORK-REVIEW.md:2853` and `docs/implementation.md:737` say the
  current lock is kept. `ReplacedLocksAreBackedUp` shows that this overlap is the only way.
* A target that appears between preflight and its write is counted as created, and the undo of the
  failed application deletes it (`migration.rs:1417`).
* A crash between publishing the launcher and `chmod`, a failing `chmod` (`binary_install.rs:452`) or a
  failing sync of the directory (`:566`) leaves a launcher that is not executable and that no later
  installation repairs, because its text is already the wanted one (`:444`).
* `submit` does not ask whether an Action is still current (`project_application.rs:307`). Issue an
  assessment, edit, assess again, revert, assess conclusively and submit the first: two conclusive
  assessments are fresh, and which one the kernel takes depends on file names (`kernel.rs:523`).
* Untracked sources are drafted and promoted (`project_setup.rs:352`), but `validate-bindings` refuses a
  declared artifact Git does not track (`git_repository.rs:171`, `:540`).
* A save of AGENTS.md between init's read and its rename is lost (`project_setup.rs:253-265`). An init
  whose candidate can no longer be read after its Release was installed takes nothing back
  (`:169-177`), and a file its undo cannot remove stays without a word (`:281`).
* After a correction the execution log counts the measurements of the new Result beside those of the
  execution that made the replaced one (`execution_log.rs:58`).
* While an application whose record could not be synced is undone, a complete `application.yaml` says
  it succeeded (`migration.rs:2831`, `:1753`).
* A candidate's files under `.adf/cache/` need no completion record (`migration.rs:1877`), and all of
  `.adf/cache/releases` is installed (`:1567`).
* The lock of `apply-candidate` is one per candidate (`migration.rs:1461`): it does not keep the
  application of another candidate away that Git ignores.
* With the observation cache, a declared artifact that was modified and is then untracked is
  still served although `observe` would refuse it.

### Fairness

`ActionSession`: a call in progress runs on (weak fairness on its next step), and file lock
waiters are served (strong fairness on `Compare`), since the lock is held only for one read and
one rename. Clients owe nothing. `StorageMigration`: a started command runs on; operations end,
so with the run's one session the lock is free again and again; and the operator repeats the
interrupted command until it gets the lock (strong fairness on `Repeat`), which is what the
repository's README asks for. Several sessions that take turns can keep the lock busy for ever,
since the exclusive lock is only tried: the property needs pauses between operations.
`ChangeWorkflow`: somebody asks for the next Action, the agent in the end answers it completely
and positively, and people record the build and repair coverage; this is an assumption about
agents, and `EventuallyReady` says that the kernel then never asks in circles. `RuleMigration`,
`BinaryInstall`, `ContractStore`: weak fairness of a running process's next step.
`ExecutionRecords`: the same for runners and the completions they send, and agents end; operators
owe nothing. Nothing is assumed of edits, crashes and faults except their bounds.

## Proofs

| Module | Theorems |
| --- | --- |
| `ActionSessionProofs` | `ProtocolInvariantHolds`, `StoredWasIssued`, `FreshMeansShown`, `DecisionsHaveAHuman`, `CorrectionsAreNotLost`, `AcknowledgementsAreTrue`, `EvidenceStays`, `ProtocolImplementsLedger` |
| `RecordFilesProofs` | `StorageInvariantHolds` and its parts `OldReadersAreSafe`, `SessionsAreCurrent`, `InterruptedIsResumable`; `RecordsAreKept`; `CachesAreConsistent`, `IndexIsCurrent` |
| `ProjectFilesProofs` | `DeliveryInvariantHolds`, `ActiveIsAuthorised`, `ActivatedStayUsable`, `ReplacedAreBackedUp`, `BackupsStayGenuine`; `SetupIsConsistent`, `PromotionsAreCurrent`, `InstructionsAreKept`, `NoReplacementIsBlind` |
| `ContractStoreProofs` | `StoreIsSafe`, `UpdatesAreNotLost` |
| `BinaryInstallProofs` | `InstallationIsSafe`, `ReadersAreServed`, `RollbackPointIsKept` |
| `ExecutionRecordsProofs` | `ExecutionsAreSafe`, `AcknowledgementsAreTrue`, `OnlyTroubleIsUnreadable`, `EventsAreFinal` |
| `RuleMigrationProofs` | `ApplicationIsSafe`, `LegacyFilesSurvive`, `ReviewedBytesOnly` |
| `ChangeWorkflowProofs` | `WorkflowIsSafe`, `DismissalsAreIndependent`, `ReadyClausesAreVerified` |

The proofs assume only what the component modules assume of their constants: what kind of thing
each is, that `None` and the other markers are no values, and that names of different kinds
differ (no artifact is a clause or is called `change`, no operator is a runner). TLC evaluates these
assumptions in every run. The one theorem with hypotheses of its own is
`ReadyClausesAreVerified`. All hold for any number of sessions, Actions, refs, Records, clauses,
Rules, processes, edits and interruptions: the bounds of the models are constants too.

`ActionSessionProofs`: `IInv == TypeOK /\ ProtocolInvariant`. None of the safety properties is
inductive alone, because a call carries what it read from one step to the next. The
strengthening says what may be carried: a call past resume holds an issued entry
(`CallHoldsEntry`), a prepared Result is bound to its Context outside its outputs
(`CallHoldsResult`, `BoundToContext`), the correction lock's holder has compared the Result that
is still on disk (`LockProtects`), and a Decision about to be written is backed by an answer that
cannot disappear (`DecisionIsBacked`). From it follow the invariants, the action properties
(`EvidenceIsAppendOnly` among them, which no run repeats) and the refinement of `ResultLedger`,
where loading a Result is `Look`, renaming is `Amend` and all else stutters or forgets.

`RecordFilesProofs`, storage: `IInv == TypeOK /\ StorageInvariant`. `PackedNeedsV2` needs to know
that the config stays at v2 from enabling to lowering (`V2Throughout`), that on the way to plain
every packed file is still ahead of the command (`PackedIsAhead`), and that nobody who might
write a packed file is open meanwhile (`Exclusive`). `PendingIsResumable` needs to know where
every file stands relative to plan and journal (`PlanConverts`, `FilesFollowPlan`).

`RecordFilesProofs`, caches: `CacheIInv` is `CacheTypeOK`, `StoresAreConsistent` and
`CallsAreConsistent`. What the caches hold is stated without the files: an observation describes
what its signature was made from (`Describes`), an index entry holds the content its identity
names (`Genuine`), unless it is marked `raced`. What a call holds is stated relative to the files,
as long as none of them `moved` under it: the identities taken so far, and the observation
(`FreshObservation`) or the Results (`FreshIndex`) as far as they were read; `Steady` is what a
call keeps whatever moves. A hit is current because equal identities then mean equal content: a clean tracked file has
the content of its blob and every other one was hashed.

`ProjectFilesProofs`, delivery: `DeliveryInvariant`. A lock is chosen when a switch accepts it and
becomes active steps later, so everything is said of chosen locks: they are authorised and valid
(`ChosenLocksAreGood`) and their Releases are in the cache as pinned (`ChosenReleasesAreIntact`),
which installs cannot undo because a rename never replaces a Release. Rollback adds no lock
because a backup was active before (`BackupsAreGenuine`). That nothing is lost without overlap
needs `SwitchesAgreeOnBackups`: two switches about to write a backup under one digest have read
the same file, since a digest without a backup can only be that of the active lock.

`ProjectFilesProofs`, setup: `SetupIInv` is `SetupTypeOK` and the conjuncts of `SetupInvariant`
but `AllOrNothing`, which follows, with `PromotionIsCurrent`. `roll_back` removes
files by path, so `AllOrNothing` rests on the exclusive creation: a file an init counts as its own
was made by it, is counted by no other and is in no init that reported success
(`FilesHaveOneOwner`). With it, a complete file that nobody would remove and that nobody left behind
(`left`) belongs to a complete project (`SettledIsComplete`), and `AllOrNothing` is that with no
command running. `InstructionsSurvive` needs `MergeIsCurrent`: unless a save was missed, an init past
its read of AGENTS.md still knows the text that is there. A promotion looks at sources, Decisions and observation in different steps;
`PromotionsHold` says at each of them what it has established of everything not in `late`, from
which, with `PromotionIsCurrent` itself, `PromotedValidates` and the action property
`NoBlindReplacement` are facts about one step.

`ContractStoreProofs`: `StoreInvariant`. An update is decided at the merge and takes effect at the
rename, so `NoBlindOverwrite` needs `MergedIsFresh`: in between, the file still fits the digests the
call sent, and what is about to be written is that merge of it; the lock keeps the other sessions
away and `slipped` marks the calls under which a person saved. What a digest says of the clauses a
client was shown is `CallsAreShown`. The action property then is a fact about one `Write`: a clause
it changes was named by the call, and a named digest that fits means the clause was seen as it is.

`BinaryInstallProofs`: the conjuncts of `InstallInvariant` from `OneAtATime` on. A tag is active
steps after its directory was published, so verification is stated of every directory
(`ReleasesAreVerified`) and existence of every tag somebody holds, the activation, a reader or a
command past its copy (`TagsHaveReleases`); nothing ever removes a directory, which is why
lock-free readers are safe. `RollbackPointIsLastActive` needs `ReadIsCurrent`: under the lock what
a command read of the activation stays true. `LauncherIsExecutable` is inductive only without its
premise (`LauncherIsWhole`); both except a command that ended between rename and mode (`torn`).

`ExecutionRecordsProofs`: `IInv` is the conjuncts from `ExecutionsAreDistinct` on, with
`SuccessIsBound`, `AcknowledgedIsRecorded` and `UnreadableOnlyByTrouble`. A completion is checked,
its file created and then written in three steps; `ChecksStillHold` says that meanwhile the started
event stays and the Result it names, corrected or not, is one of that work: an id is made from the
Action and the Context, so a correction never gives it to other work, `OneWriter` that the exclusive creation leaves
one process to fill an empty file. `EventsAreFinal` is the action property behind the log: a
written event file never changes.

`RuleMigrationProofs`: `IInv` is the conjuncts from `OneCommand` on, with `RecordIsTrue` and
`LegacyIsNeverLost`. The lock file keeps commands apart (`OneCommand`), so each step is about one
command, and `StageFits` says at each stage which sources it has moved, which files it has
written and which it has still to undo, on the paths nobody else wrote; a crash at any stage keeps
what `LegacyIsNeverLost` needs. The exceptions are in the invariant: a step of the undo that fails puts its path among
the `foreign` ones or its name among the `failures`, and an unsynced record is no applied one.
`InstalledWasReviewed` is an action property: what validation found stays true of every file nobody
touched since, and what a command has read stays as it read it (`StillReviewed`), which the step
that writes the record needs.

`ChangeWorkflowProofs`: the conjuncts of `WorkflowInvariant` from `AssessmentsDiffer` on. The
evaluation is a function of the state, so the invariant is about what Results and issued Actions
rest on. `EvaluationIsDetermined` holds although stale Results become fresh again, because an
assessment or a challenge that evaluation still asks for has no fresh answer on its inputs, and
one that it does not ask for sets `late`; so without `late` two answers on the same inputs are one or
agree (`AssessmentsDiffer`, `OutcomesAgree`). What an Action shows is captured when it is issued and
kept however long it is held (`HeldFit`). That a
build's baseline lists satisfied outcomes only (`BaselinesHold`) and that the key of a dismissal
holds the code it was challenged on (`InputsFit`) give `DismissalIsIndependent` also where the consent
is taken over from the build. `ConfirmedIsBinding`, `DismissalIsIndependent` and `ReadyIsVerified`
then are facts about one state in which every instance is resolved.

`ReadyClausesAreVerified` has two hypotheses, both satisfied by the run. `~Scoped` excludes the
finding above. That Evidence-backed Rules gate the merge and not the build is needed because a
before-build Requirement may be resolved by the baseline of a build whose code has replaced the
code its Evidence was recorded on (`kernel.rs:295`). The argument: the
instance is satisfied with current Evidence; if the health report did not call the clause verified,
it would call it stale or failed, and so issue a revalidation; that one is satisfied too, and a
revalidation's inputs name the Contract, which is what the report asks for.

Only model-checked are the liveness properties (`EveryCallEnds`, `RepeatingCompletes`, `ApplyEnds`,
`EventuallyReady`, `EveryRunnerReturns`, `LockIsFreed`, `EveryUpdateEnds`): fairness and `ENABLED` are
beyond the proof system. Every invariant and every other action property of a run is also a theorem.

## Not modelled

* Download and publishing of Releases (`remote_delivery.rs`, `release_publisher.rs`): network,
  archives and cryptography; what they hand over is a bundle, which `FrameworkDelivery` takes from
  there.
* The language and framework analysers: heuristics over the text of one file, without state or
  order of steps. `ChangeWorkflow` has what they mean for a Change.
* Detector audit and benchmark, explain, reports and command-line formatting; JSON schemas.
* The repository-wide CI gate over the health report (`contract_health_gate.rs`): a threshold on
  counts.
* Compilation of Rule packages beyond what its result must satisfy (`rules.rs`).
