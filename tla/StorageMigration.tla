-------------------------- MODULE StorageMigration --------------------------
(***************************************************************************)
(* The Record files of a project, their two stored forms, and              *)
(* "adf project storage migrate", which rewrites them in place.            *)
(*                                                                         *)
(* Project config v1 promises older CLIs that every Result and Evidence    *)
(* file is plain JSON; v2 lets a file be packed (adaptive-refmaps-v1).     *)
(* Ordinary operations hold record-storage.lock shared and write in the    *)
(* policy they read when they opened the project; a migration holds it     *)
(* exclusively.  A migration is many separate durable writes: a journal,   *)
(* the config, each Record, the config again, the journal again.  It can   *)
(* be interrupted between any two of them, and the recovery is to run the  *)
(* command again.                                                          *)
(*                                                                         *)
(* A hash stands for the bytes of a file, a logical digest for its value.  *)
(***************************************************************************)
EXTENDS Naturals, FiniteSets

CONSTANTS
    Path,           \* Result and Evidence paths the project can use
    Value,          \* logical Records
    Compressible,   \* those with a repeated reference map worth sharing
    Session,        \* processes that hold the shared storage guard
    MaxInterrupts,  \* bound: interruptions of migrations in a behaviour
    None            \* no file, no journal, no session, nothing read

Policy == {"plain", "adaptive"}
Form == {"pretty", "plain", "packed"}
Bytes == {b \in [value : Value, form : Form] :
             b.form = "packed" => b.value \in Compressible}
Record == [before : Bytes, after : Bytes]
Plan == UNION {[D -> Record] : D \in SUBSET Path}
Journal == [target : Policy, complete : BOOLEAN, entries : Plan]

ASSUME StorageAssumption ==
    /\ Compressible \subseteq Value
    /\ MaxInterrupts \in Nat
    /\ None \notin Bytes \cup Journal \cup Policy

VARIABLES
    files,       \* [Path -> bytes on disk, or None]
    config,      \* schema_version of .adf/config.yaml
    journal,     \* .adf/local/storage-migrations/current.json
    mig,         \* the migrate command in progress; it holds the lock
    session,     \* [Session -> policy it opened the project with, or None]
    touched,     \* history: somebody changed a Record since the last plan
    interrupts   \* history: interruptions so far

vars == <<files, config, journal, mig, session, touched, interrupts>>

(***************************************************************************)
(* Encoding (record_storage.rs).                                           *)
(***************************************************************************)
PolicyOf(version) == IF version = "v2" THEN "adaptive" ELSE "plain"

\* Canonical JSON, or the envelope when sharing reference maps makes it smaller.
Encode(v, policy) ==
    [value |-> v,
     form  |-> IF policy = "adaptive" /\ v \in Compressible THEN "packed" ELSE "plain"]

Size(b) == CASE b.form = "pretty" -> 3 [] b.form = "plain" -> 2 [] b.form = "packed" -> 1

\* converted: adaptive keeps the bytes that it would not make smaller.
Converted(b, target) ==
    LET encoded == Encode(b.value, target)
    IN IF target = "adaptive" /\ Size(encoded) >= Size(b) THEN b ELSE encoded

\* serialize_stored: a plain project writes pretty JSON.
SerializeStored(v, policy) ==
    IF policy = "adaptive" THEN Encode(v, policy) ELSE [value |-> v, form |-> "pretty"]

Inventory == {p \in Path : files[p] # None}

\* scan: the plan of a migration to target.
Scan(target) ==
    [p \in Inventory |-> [before |-> files[p], after |-> Converted(files[p], target)]]

Pending == journal # None /\ ~journal.complete

\* A resume that knows only the original bytes.
ValidatePendingOriginalsOnly(plan) ==
    Pending => /\ DOMAIN plan = DOMAIN journal.entries
               /\ \A p \in DOMAIN plan : plan[p].before = journal.entries[p].before

\* validate_pending: an interrupted plan may be continued only over files that
\* are as it found them or as it left them.
ValidatePending(plan) ==
    Pending => /\ DOMAIN plan = DOMAIN journal.entries
               /\ \A p \in DOMAIN plan :
                     /\ plan[p].before \in {journal.entries[p].before, journal.entries[p].after}
                     /\ plan[p].before.value = journal.entries[p].before.value

------------------------------------------------------------------------------
Stopped == [pc |-> "idle", target |-> "plain", plan |-> <<>>, todo |-> {}, raw |-> None]

Init ==
    /\ config \in {"v1", "v2"}
    /\ files \in [Path -> {b \in Bytes : b.form = "packed" => config = "v2"} \cup {None}]
    /\ journal = None
    /\ mig = Stopped
    /\ session = [s \in Session |-> None]
    /\ touched = FALSE
    /\ interrupts = 0

(***************************************************************************)
(* storage migrate --to target.                                            *)
(***************************************************************************)
\* StorageGuard::exclusive fails at once while anybody holds the lock.
ExclusiveGuard == \A s \in Session : session[s] = None

\* run_cli up to the first write.  A busy lock or a plan that does not fit the
\* pending journal is an error that changes nothing.
MigrateStart(target) ==
    /\ mig.pc = "idle"
    /\ ExclusiveGuard
    /\ ValidatePending(Scan(target))
    /\ mig' = [pc |-> "journal", target |-> target, plan |-> Scan(target),
               todo |-> Inventory, raw |-> None]
    /\ touched' = FALSE
    /\ UNCHANGED <<files, config, journal, session, interrupts>>

SaveJournal ==
    /\ mig.pc = "journal"
    /\ journal' = [target |-> mig.target, complete |-> FALSE, entries |-> mig.plan]
    /\ mig' = [mig EXCEPT !.pc = "enable"]
    /\ UNCHANGED <<files, config, session, touched, interrupts>>

\* "Keep v2 enabled throughout either direction."
EnabledVersion == "v2"

EnableV2 ==
    /\ mig.pc = "enable"
    /\ config' = EnabledVersion
    /\ mig' = [mig EXCEPT !.pc = "replace"]
    /\ UNCHANGED <<files, journal, session, touched, interrupts>>

\* The loops follow the sorted inventory; any fixed order will do here.
FirstOf(S) == CHOOSE p \in S : TRUE

\* Any error ends the command; dropping its guard releases the lock.
Fail == mig' = Stopped

\* The replacement loop, first half: read, compare with the plan, convert.
ReadRecord ==
    LET p == FirstOf(mig.todo)
    IN /\ mig.pc = "replace" /\ mig.todo # {} /\ mig.raw = None
       /\ \/ files[p] = mig.plan[p].before /\ mig' = [mig EXCEPT !.raw = files[p]]
          \/ files[p] # mig.plan[p].before /\ Fail
       /\ UNCHANGED <<files, config, journal, session, touched, interrupts>>

\* A replacement that does not read the file a second time.
UnchangedSinceReadUnchecked(p) == TRUE

\* Does the file still hold the bytes that were converted?
UnchangedSinceRead(p) == files[p] = mig.raw

\* Second half: read again, then rename the new bytes into place.
ReplaceRecord ==
    LET p == FirstOf(mig.todo)
    IN /\ mig.pc = "replace" /\ mig.raw # None
       /\ \/ /\ ~UnchangedSinceRead(p) /\ Fail /\ UNCHANGED files
          \/ /\ UnchangedSinceRead(p)
             /\ files' = [files EXCEPT ![p] = Converted(mig.raw, mig.target)]
             /\ mig' = [mig EXCEPT !.todo = @ \ {p}, !.raw = None]
       /\ UNCHANGED <<config, journal, session, touched, interrupts>>

StartVerify ==
    /\ mig.pc = "replace" /\ mig.todo = {} /\ mig.raw = None
    /\ mig' = [mig EXCEPT !.pc = "verify", !.todo = DOMAIN mig.plan]
    /\ UNCHANGED <<files, config, journal, session, touched, interrupts>>

Verified(p) == files[p] = mig.plan[p].after

VerifyRecord ==
    LET p == FirstOf(mig.todo)
    IN /\ mig.pc = "verify" /\ mig.todo # {}
       /\ \/ Verified(p) /\ mig' = [mig EXCEPT !.todo = @ \ {p}]
          \/ ~Verified(p) /\ Fail
       /\ UNCHANGED <<files, config, journal, session, touched, interrupts>>

VerifyInventory ==
    /\ mig.pc = "verify" /\ mig.todo = {}
    /\ \/ /\ Cardinality(Inventory) = Cardinality(DOMAIN mig.plan)
          /\ mig' = [mig EXCEPT !.pc = "config"]
       \/ Cardinality(Inventory) # Cardinality(DOMAIN mig.plan) /\ Fail
    /\ UNCHANGED <<files, config, journal, session, touched, interrupts>>

SwitchConfig ==
    /\ mig.pc = "config"
    /\ config' = IF mig.target = "adaptive" THEN "v2" ELSE "v1"
    /\ mig' = [mig EXCEPT !.pc = "finish"]
    /\ UNCHANGED <<files, journal, session, touched, interrupts>>

Finish ==
    /\ mig.pc = "finish"
    /\ journal' = [target |-> mig.target, complete |-> TRUE, entries |-> mig.plan]
    /\ mig' = Stopped
    /\ UNCHANGED <<files, config, session, touched, interrupts>>

\* A crash or a failed write between any two durable writes.
Interrupt ==
    /\ mig.pc # "idle" /\ interrupts < MaxInterrupts
    /\ interrupts' = interrupts + 1
    /\ Fail
    /\ UNCHANGED <<files, config, journal, session, touched>>

(***************************************************************************)
(* Everybody else.                                                         *)
(***************************************************************************)
\* An operation that opens the project without the maintenance lock.
SharedGuardIgnored == TRUE

\* StorageGuard::shared fails at once while a migration holds the lock.
SharedGuard == mig.pc = "idle"

\* open_with_options: the shared guard, then the policy of the config.
SessionOpen(s) ==
    /\ session[s] = None
    /\ SharedGuard
    /\ session' = [session EXCEPT ![s] = PolicyOf(config)]
    /\ UNCHANGED <<files, config, journal, mig, touched, interrupts>>

\* append_result, add_evidence and replace_result.
SessionWrite(s, p, v) ==
    /\ session[s] # None
    /\ files' = [files EXCEPT ![p] = SerializeStored(v, session[s])]
    /\ touched' = TRUE
    /\ UNCHANGED <<config, journal, mig, session, interrupts>>

SessionClose(s) ==
    /\ session[s] # None
    /\ session' = [session EXCEPT ![s] = None]
    /\ UNCHANGED <<files, config, journal, mig, touched, interrupts>>

\* A person saves a Record as ordinary JSON, adds one or deletes one.
Edit(p, b) ==
    /\ b # files[p]
    /\ b # None => b.form # "packed"
    /\ files' = [files EXCEPT ![p] = b]
    /\ touched' = TRUE
    /\ UNCHANGED <<config, journal, mig, session, interrupts>>

\* The documented way out of a conflict.
MoveJournalAside ==
    /\ mig.pc = "idle" /\ Pending
    /\ journal' = None
    /\ UNCHANGED <<files, config, mig, session, touched, interrupts>>

MigrateStep ==
    \/ SaveJournal \/ EnableV2 \/ ReadRecord \/ ReplaceRecord \/ StartVerify
    \/ VerifyRecord \/ VerifyInventory \/ SwitchConfig \/ Finish

Next ==
    \/ \E t \in Policy : MigrateStart(t)
    \/ MigrateStep
    \/ Interrupt
    \/ \E s \in Session : SessionOpen(s) \/ SessionClose(s)
    \/ \E s \in Session, p \in Path, v \in Value : SessionWrite(s, p, v)
    \/ \E p \in Path, b \in Bytes \cup {None} : Edit(p, b)
    \/ MoveJournalAside

Spec == Init /\ [][Next]_vars

\* "Repeat the same migration command after interruption."
Repeat == Pending /\ MigrateStart(journal.target)

(***************************************************************************)
(* A started command runs on; operations end, so the lock becomes free     *)
(* again and again; and the operator repeats an interrupted command until  *)
(* it gets the lock.                                                       *)
(***************************************************************************)
FairSpec ==
    /\ Spec
    /\ WF_vars(MigrateStep)
    /\ SF_vars(Repeat)
    /\ \A s \in Session : WF_vars(SessionClose(s))

------------------------------------------------------------------------------
(***************************************************************************)
(* Properties.                                                             *)
(***************************************************************************)
Migration == [pc : {"idle", "journal", "enable", "replace", "verify", "config", "finish"},
              target : Policy, plan : Plan \cup {<<>>}, todo : SUBSET Path,
              raw : Bytes \cup {None}]

\* Every variable has its type.
TypeOK ==
    /\ files \in [Path -> Bytes \cup {None}]
    /\ config \in {"v1", "v2"}
    /\ journal \in Journal \cup {None}
    /\ mig \in Migration
    /\ session \in [Session -> Policy \cup {None}]
    /\ touched \in BOOLEAN
    /\ interrupts \in Nat

Packed(p) == files[p] # None /\ files[p].form = "packed"

\* "Keep v2 enabled throughout either direction, including interrupted
\* rollback": an older CLI that accepts the config never meets a packed file,
\* wherever a migration stopped and whatever ran in between.
PackedNeedsV2 == \A p \in Path : Packed(p) => config = "v2"

\* An ordinary operation never writes in a policy that a migration has since
\* replaced: what it read from the config is what the config says.
OpenSessionsAreCurrent ==
    \A s \in Session : session[s] # None => session[s] = PolicyOf(config)

\* An interrupted migration can be resumed or reversed: while nobody else has
\* changed a Record, the plan of either direction fits the journal on disk, at
\* every point where the previous attempt can have stopped.
PendingIsResumable == ~touched => \A t \in Policy : ValidatePending(Scan(t))

\* Rewriting loses nothing: no step of the command changes what a Record says,
\* even when a person saves the file between its being read and replaced.
MigrationKeepsRecords ==
    [][mig.pc # "idle" /\ mig' # mig =>
          \A p \in Path : IF files[p] = None THEN files'[p] = None
                          ELSE files'[p] # None /\ files'[p].value = files[p].value]_vars

\* Repeating an interrupted command ends it: a pending journal is completed
\* unless somebody changes a Record or moves the journal aside.
RepeatingCompletes == Pending /\ ~touched ~> ~Pending \/ touched

------------------------------------------------------------------------------
(***************************************************************************)
(* The inductive invariant.                                                *)
(***************************************************************************)
\* While the command holds the lock nobody else does.
Exclusive == mig.pc # "idle" => \A s \in Session : session[s] = None

\* From enabling to lowering, the config allows packed files.
V2Throughout == mig.pc \in {"replace", "verify", "config"} => config = "v2"

\* A command on its way to plain has every packed file still before it: in its
\* plan until it verifies, among the files to verify then, and nowhere after.
PackedIsAhead ==
    mig.target = "plain" /\ mig.pc # "idle" =>
        \A p \in Path : Packed(p) =>
            IF mig.pc \in {"journal", "enable", "replace"} THEN p \in DOMAIN mig.plan
            ELSE p \in mig.todo

\* What the plan holds: the bytes of the target form for the same Record.
PlanConverts ==
    mig.pc # "idle" =>
        /\ mig.plan \in Plan
        /\ mig.todo \subseteq DOMAIN mig.plan
        /\ mig.pc \in {"journal", "enable"} => mig.todo = DOMAIN mig.plan
        /\ mig.pc \in {"config", "finish"} => mig.todo = {}
        /\ mig.raw # None =>
              mig.pc = "replace" /\ mig.todo # {} /\ mig.raw = mig.plan[FirstOf(mig.todo)].before
        /\ \A p \in DOMAIN mig.plan : mig.plan[p].after = Converted(mig.plan[p].before, mig.target)

Unconverted(p) ==
    \/ mig.pc \in {"journal", "enable"}
    \/ mig.pc = "replace" /\ p \in mig.todo

\* Where each file stands between two steps of an undisturbed command.
FilesFollowPlan ==
    mig.pc # "idle" /\ ~touched =>
        /\ Inventory = DOMAIN mig.plan
        /\ \A p \in Inventory :
              files[p] = IF Unconverted(p) THEN mig.plan[p].before ELSE mig.plan[p].after
        /\ mig.pc # "journal" =>
              journal = [target |-> mig.target, complete |-> FALSE, entries |-> mig.plan]

\* Between any two steps: readers are safe, writers are current, and the
\* command is where its plan and its journal say.
StorageInvariant ==
    /\ PackedNeedsV2 /\ OpenSessionsAreCurrent /\ PendingIsResumable
    /\ Exclusive /\ V2Throughout /\ PackedIsAhead /\ PlanConverts /\ FilesFollowPlan
==============================================================================
