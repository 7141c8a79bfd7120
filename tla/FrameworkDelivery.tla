-------------------------- MODULE FrameworkDelivery --------------------------
(***************************************************************************)
(* Framework Releases: the immutable cache of installed Releases, the      *)
(* active Framework lock, the lock backups, and the commands that change   *)
(* them ("adf release install", "switch" and "rollback", delivery.rs).     *)
(*                                                                         *)
(* A lock pins one Release by id, by the digests of its rules and schemas, *)
(* and (signed locks) by its signer.  Every command verifies a Release     *)
(* tree against a lock and against the trust store, which people edit.     *)
(* Installs take no lock; switch and rollback hold record-storage.lock     *)
(* shared, so that any number of them may overlap, and touch two files     *)
(* (the backup and the active lock) with a separate atomic write each.     *)
(***************************************************************************)
EXTENDS FiniteSets

CONSTANTS
    Process,     \* concurrent invocations of the CLI
    Release,     \* release ids
    Rules,       \* contents of a Release, as its rule and schema digests see it
    Key,         \* signing keys
    Form,        \* ways to write the same lock: layout and comments of the YAML
    Bundle,      \* Release trees people offer for installation
    Candidate,   \* lock files people offer for install and switch
    ValidLock,   \* locks that validate_framework_lock accepts for their rules
    Unsigned,    \* legacy manifests and locks name no signer
    None         \* no tree, no file

\* A key that is not in the trust store is refused like a revoked one.
Status == {"active", "retired", "revoked"}
TrustUse == {"runtime", "activation", "rollback"}
Signer == Key \cup {Unsigned}

\* A Release directory.  sound: the signature fits the manifest and the signed
\* inventory fits the files.
Tree == [release : Release, rules : Rules, signer : Signer, sound : BOOLEAN]
Lock == [release : Release, rules : Rules, signer : Signer]
\* A lock file: two files of the same lock have the same canonical digest.
Text == [lock : Lock, form : Form]

ASSUME DeliveryAssumption ==
    /\ Bundle \subseteq Tree
    /\ Candidate \subseteq Text
    /\ ValidLock \subseteq Lock
    /\ Unsigned \notin Key
    /\ None \notin Tree \cup Text

VARIABLES
    trust,       \* .adf/trusted-release-keys.yaml: the status of each key
    cache,       \* .adf/cache/releases/<release-id>
    active,      \* .adf/framework.lock
    backups,     \* .adf/cache/framework-lock-backups/<lock digest>.yaml
    proc,        \* [Process -> the command it runs and what it has read]
    onceActive,  \* history: lock files that have been active
    authorised,  \* history: locks accepted while their signer was active
    damaged,     \* history: Releases whose cached files somebody changed
    overtaken    \* history: a switch replaced a lock it had not read

vars == <<trust, cache, active, backups, proc, onceActive, authorised, damaged, overtaken>>

(***************************************************************************)
(* Verification of a Release tree against a lock.                          *)
(***************************************************************************)
\* trusted_key: which uses a key's status permits.
Allowed(key, use) ==
    \/ trust[key] = "active"
    \/ trust[key] = "retired" /\ use # "activation"

\* verify_release_manifest and verify_signed_manifest, but for the trust store.
ManifestFits(lock, tree) ==
    /\ tree.release = lock.release
    /\ lock.signer # Unsigned => tree.signer = lock.signer
    /\ tree.signer # Unsigned => tree.sound

\* The part of the verification that does not depend on the trust store.
Matches(lock, tree) == tree # None /\ ManifestFits(lock, tree) /\ tree.rules = lock.rules

Trusted(tree, use) == tree.signer # Unsigned => Allowed(tree.signer, use)

\* resolve_verified_release_for.
Verified(lock, tree, use) == Matches(lock, tree) /\ Trusted(tree, use)

------------------------------------------------------------------------------
At(pc, text, tree, seen) == [pc |-> pc, text |-> text, tree |-> tree, seen |-> seen]
Nothing == At("idle", None, None, None)

\* A project that has been set up: its Release is installed and no command runs.
Init ==
    /\ trust \in [Key -> Status]
    /\ active \in Candidate
    /\ active.lock \in ValidLock
    /\ cache \in [Release -> Bundle \cup {None}]
    /\ \A r \in Release : IF r = active.lock.release THEN Matches(active.lock, cache[r])
                                                     ELSE cache[r] = None
    /\ backups = [d \in Lock |-> None]
    /\ proc = [p \in Process |-> Nothing]
    /\ onceActive = {active}
    /\ authorised = {active.lock}
    /\ damaged = {}
    /\ overtaken = FALSE

(***************************************************************************)
(* release install.  An install that is refused, or that finds its Release *)
(* installed, changes nothing.                                             *)
(***************************************************************************)
InstallStart(p, text, bundle) ==
    /\ proc[p].pc = "idle"
    /\ Verified(text.lock, bundle, "activation")
    /\ cache[text.lock.release] = None
    /\ proc' = [proc EXCEPT ![p] = At("copy", text, None, None)]
    /\ UNCHANGED <<trust, cache, active, backups, onceActive, authorised, damaged, overtaken>>

\* copy_release_tree reads the bundle again, and it may have changed since.
InstallCopy(p, bundle) ==
    /\ proc[p].pc = "copy"
    /\ proc' = [proc EXCEPT ![p] = At("staged", proc[p].text, bundle, None)]
    /\ UNCHANGED <<trust, cache, active, backups, onceActive, authorised, damaged, overtaken>>

\* "Verify the copied bytes before the atomic directory rename."
CopyIsVerified(p) == Verified(proc[p].text.lock, proc[p].tree, "activation")

InstallVerifyCopy(p) ==
    /\ proc[p].pc = "staged"
    /\ proc' = [proc EXCEPT ![p] =
                    IF CopyIsVerified(p) THEN At("rename", proc[p].text, proc[p].tree, None)
                                         ELSE Nothing]
    /\ UNCHANGED <<trust, cache, active, backups, onceActive, authorised, damaged, overtaken>>

\* A rename that replaces the directory it finds.
TargetIsFreeAssumed(r) == TRUE

\* rename(2) refuses to replace a directory that is not empty.
TargetIsFree(r) == cache[r] = None

InstallRename(p) ==
    LET target == proc[p].text.lock.release
    IN /\ proc[p].pc = "rename"
       /\ cache' = IF TargetIsFree(target) THEN [cache EXCEPT ![target] = proc[p].tree]
                                           ELSE cache
       /\ proc' = [proc EXCEPT ![p] = Nothing]
       /\ UNCHANGED <<trust, active, backups, onceActive, authorised, damaged, overtaken>>

(***************************************************************************)
(* release switch and release rollback.                                    *)
(***************************************************************************)
SignerIsActive(tree) == tree.signer # Unsigned => trust[tree.signer] = "active"

\* Read the candidate once and verify the installed Release it names.
Accept(p, text, use) ==
    LET tree == cache[text.lock.release]
    IN /\ proc[p].pc = "idle"
       /\ Verified(text.lock, tree, use)
       /\ text.lock \in ValidLock
       /\ proc' = [proc EXCEPT ![p] = At("accepted", text, None, None)]
       /\ authorised' = IF SignerIsActive(tree) THEN authorised \cup {text.lock}
                                              ELSE authorised
       /\ UNCHANGED <<trust, cache, active, backups, onceActive, damaged, overtaken>>

SwitchStart(p, text) == Accept(p, text, "activation")

\* A rollback to any lock file.
RestorePointsUnchecked == Candidate

\* rollback takes only files of the backup directory.
RestorePoints == {backups[d] : d \in {e \in Lock : backups[e] # None}}

RollbackStart(p) == \E text \in RestorePoints : Accept(p, text, "rollback")

SwitchReadActive(p) ==
    /\ proc[p].pc = "accepted"
    /\ proc' = [proc EXCEPT ![p] = At("read", proc[p].text, None, active)]
    /\ UNCHANGED <<trust, cache, active, backups, onceActive, authorised, damaged, overtaken>>

\* A check that takes any backup of that name for its own.
AfterExistenceCheck(p) == IF backups[proc[p].seen.lock] = None THEN "backup" ELSE "replace"

\* Where the command goes when it has looked for a backup of that digest; a
\* different file under the name is an error.
AfterBackupCheck(p) ==
    LET existing == backups[proc[p].seen.lock]
    IN IF existing = None THEN "backup"
       ELSE IF existing = proc[p].seen THEN "replace" ELSE "idle"

SwitchCheckBackup(p) ==
    LET next == AfterBackupCheck(p)
    IN /\ proc[p].pc = "read"
       /\ proc' = [proc EXCEPT ![p] =
                        IF next = "idle" THEN Nothing
                                         ELSE At(next, proc[p].text, None, proc[p].seen)]
       /\ UNCHANGED <<trust, cache, active, backups, onceActive, authorised, damaged, overtaken>>

BackupText(p) == proc[p].seen

SwitchBackup(p) ==
    /\ proc[p].pc = "backup"
    /\ backups' = [backups EXCEPT ![proc[p].seen.lock] = BackupText(p)]
    /\ proc' = [proc EXCEPT ![p] = At("replace", proc[p].text, None, proc[p].seen)]
    /\ UNCHANGED <<trust, cache, active, onceActive, authorised, damaged, overtaken>>

SwitchReplace(p) ==
    /\ proc[p].pc = "replace"
    /\ active' = proc[p].text
    /\ onceActive' = onceActive \cup {proc[p].text}
    /\ overtaken' = (overtaken \/ active # proc[p].seen)
    /\ proc' = [proc EXCEPT ![p] = Nothing]
    /\ UNCHANGED <<trust, cache, backups, authorised, damaged>>

(***************************************************************************)
(* The environment.                                                        *)
(***************************************************************************)
\* A command is killed; its staging directory is never read again.
Crash(p) ==
    /\ proc[p].pc # "idle"
    /\ proc' = [proc EXCEPT ![p] = Nothing]
    /\ UNCHANGED <<trust, cache, active, backups, onceActive, authorised, damaged, overtaken>>

\* People review and edit the trust store.
EditTrust(key, status) ==
    /\ trust[key] # status
    /\ trust' = [trust EXCEPT ![key] = status]
    /\ UNCHANGED <<cache, active, backups, proc, onceActive, authorised, damaged, overtaken>>

\* Somebody changes or removes an installed Release, at most once each.
Damage(r, tree) ==
    /\ r \notin damaged
    /\ cache[r] \notin {None, tree}
    /\ cache' = [cache EXCEPT ![r] = tree]
    /\ damaged' = damaged \cup {r}
    /\ UNCHANGED <<trust, active, backups, proc, onceActive, authorised, overtaken>>

Install(p) ==
    \/ \E text \in Candidate, bundle \in Bundle : InstallStart(p, text, bundle)
    \/ \E bundle \in Bundle : InstallCopy(p, bundle)
    \/ InstallVerifyCopy(p)
    \/ InstallRename(p)

Switch(p) ==
    \/ \E text \in Candidate : SwitchStart(p, text)
    \/ RollbackStart(p)
    \/ SwitchReadActive(p)
    \/ SwitchCheckBackup(p)
    \/ SwitchBackup(p)
    \/ SwitchReplace(p)

Next ==
    \/ \E p \in Process : Install(p) \/ Switch(p) \/ Crash(p)
    \/ \E key \in Key, status \in Status : EditTrust(key, status)
    \/ \E r \in Release, tree \in Bundle \cup {None} : Damage(r, tree)

Spec == Init /\ [][Next]_vars

------------------------------------------------------------------------------
Phase == {"idle", "copy", "staged", "rename", "accepted", "read", "backup", "replace"}
CommandState == [pc : Phase, text : Text \cup {None}, tree : Tree \cup {None}, seen : Text \cup {None}]

\* Every file and every local of delivery.rs holds what it is declared to hold.
TypeOK ==
    /\ trust \in [Key -> Status]
    /\ cache \in [Release -> Tree \cup {None}]
    /\ active \in Text
    /\ backups \in [Lock -> Text \cup {None}]
    /\ proc \in [Process -> CommandState]
    /\ \A p \in Process : proc[p].pc # "idle" => proc[p].text # None
    /\ \A p \in Process : proc[p].pc \in {"staged", "rename"} => proc[p].tree # None
    /\ \A p \in Process : proc[p].pc \in {"read", "backup", "replace"} => proc[p].seen # None
    /\ onceActive \subseteq Text
    /\ authorised \subseteq Lock
    /\ damaged \subseteq Release
    /\ overtaken \in BOOLEAN

\* "retired: running and rollback allowed, new install and switch refused": every
\* lock that becomes active, by switch or by rollback, however the trust store
\* is edited between the steps, was once accepted while its signer was active.
OnlyAuthorisedLocksAreActive == active.lock \in authorised

\* Every Release that was ever activated stays as its lock pins it, whatever is
\* installed, switched or interrupted afterwards, and unless its key is revoked
\* or removed it can still be run and rolled back to; only somebody who changes
\* the cache can take that away.
ActivatedReleasesStayUsable ==
    \A text \in onceActive :
        LET tree == cache[text.lock.release]
        IN text.lock.release \notin damaged =>
               /\ Matches(text.lock, tree)
               /\ text.lock \in ValidLock
               /\ (tree.signer # Unsigned => trust[tree.signer] # "revoked")
                      => /\ Verified(text.lock, tree, "runtime")
                         /\ Verified(text.lock, tree, "rollback")

\* As long as no two switches overlap, every lock that was replaced can be
\* restored, byte for byte, also when switches are interrupted.
ReplacedLocksAreBackedUp ==
    ~overtaken => \A text \in onceActive : text = active \/ backups[text.lock] = text

\* Even when switches overlap, a backup is a lock that really was active, under
\* the name of its own digest.
BackupsAreGenuine ==
    \A d \in Lock : backups[d] # None => backups[d].lock = d /\ backups[d] \in onceActive

(***************************************************************************)
(* The inductive invariant behind these properties.                        *)
(***************************************************************************)
Switching == {"accepted", "read", "backup", "replace"}
HasRead == {"read", "backup", "replace"}

\* Locks that are active, were active, or that a switch has accepted.
Chosen == onceActive \cup {proc[p].text : p \in {q \in Process : proc[q].pc \in Switching}}

ChosenLocksAreGood ==
    /\ active \in onceActive
    /\ \A text \in Chosen : text.lock \in authorised /\ text.lock \in ValidLock
    /\ \A p \in Process : proc[p].pc \in HasRead => proc[p].seen \in onceActive

ChosenReleasesAreIntact ==
    \A text \in Chosen :
        text.lock.release \notin damaged => Matches(text.lock, cache[text.lock.release])

\* What the backups hold of the locks that switches in progress have read, as
\* long as none of them has been overtaken.
SwitchesAgreeOnBackups ==
    ~overtaken =>
        /\ \A text \in onceActive : text = active \/ backups[text.lock] = text
        /\ \A p \in Process :
              proc[p].pc = "replace" => backups[proc[p].seen.lock] = proc[p].seen
        /\ \A p \in Process :
              proc[p].pc = "backup" => backups[proc[p].seen.lock] \in {None, proc[p].seen}
        /\ \A p, q \in Process :
              (/\ proc[p].pc = "backup" /\ proc[q].pc = "backup"
               /\ proc[p].seen.lock = proc[q].seen.lock) => proc[p].seen = proc[q].seen

\* What every reachable state of delivery.rs satisfies: which locks can become
\* active, what keeps their Releases usable and what the backups are worth.
DeliveryInvariant ==
    /\ TypeOK
    /\ ChosenLocksAreGood
    /\ ChosenReleasesAreIntact
    /\ BackupsAreGenuine
    /\ SwitchesAgreeOnBackups
==============================================================================
