---------------------------- MODULE BinaryInstall ----------------------------
(***************************************************************************)
(* adf binary install, update, rollback and status on one installation     *)
(* root: verified release directories, the launcher, and the activation    *)
(* file with the current and the previous tag.                             *)
(*                                                                         *)
(* Installers and rollbacks hold an OS lock; status and the launcher read  *)
(* without it.  The candidate directory belongs to whoever downloaded it   *)
(* and may change while it is inspected and copied.                        *)
(***************************************************************************)
EXTENDS Naturals, FiniteSets

CONSTANTS
    Tag,         \* release tags
    Revision,    \* source revisions
    Bundle,      \* what a candidate directory may hold, see BundleType
    Process,     \* runs of the adf binary command
    Reader,      \* runs of adf binary status and of the launcher
    MaxTrouble,  \* bound: crashes, failing operations, changes by others
    None

\* The tag and revision its Publication Record names, the standing of the
\* signer in its trust bundle, and whether all digests, the build record and
\* the checksums agree with the files.
BundleType == [tag : Tag, revision : Revision, intact : BOOLEAN,
               signer : {"active", "retired", "revoked", "unlisted"}]

ASSUME InstallAssumption ==
    /\ Bundle \subseteq BundleType /\ MaxTrouble \in Nat
    /\ None \notin Tag \cup Process \cup BundleType
    /\ None \notin {"install", "rollback", "sound", "damaged", "missing"}

VARIABLES
    candidate,   \* the downloaded bundle
    release,     \* [Tag -> the bundle in releases/<tag>, None when absent]
    launcher,    \* its text, "none" when absent, and whether it is executable
    active,      \* the activation file: current and previous tag
    lock,        \* holder of .binary-install.lock
    proc,        \* [Process -> its step and what it holds]
    reader,      \* [Reader -> the tag it read, and what it found]
    torn,        \* a command ended between publishing the launcher and chmod
    damaged,     \* tags whose directory was damaged after its installation
    trouble

vars == <<candidate, release, launcher, active, lock, proc, reader, torn, damaged, trouble>>

(***************************************************************************)
(* inspect_binary_candidate.                                               *)
(***************************************************************************)
PublicationMatches(b, t, r) == b.tag = t /\ b.revision = r
\* validate_distribution_binding
SignerIsBound(b) == b.signer = "active"
\* The assets, the binary, its build record and SHA256SUMS.
DigestsMatch(b) == b.intact

Inspect(b, t, r) ==
    b # None /\ PublicationMatches(b, t, r) /\ SignerIsBound(b) /\ DigestsMatch(b)

Idle == [pc |-> "idle", op |-> None, tag |-> None, revision |-> None,
         copy |-> None, read |-> None]

Init ==
    /\ candidate \in Bundle
    /\ release = [t \in Tag |-> None]
    /\ launcher \in [text : {"none", "older", "foreign"}, executable : {TRUE}]
    /\ active = [current |-> None, previous |-> None]
    /\ lock = None
    /\ proc = [p \in Process |-> Idle]
    /\ reader = [q \in Reader |-> [tag |-> None, found |-> None]]
    /\ torn = FALSE /\ damaged = {} /\ trouble = 0

Stopped == {"idle", "done", "failed", "crashed"}

At(p, pc) == proc[p].pc = pc
Goes(p, pc) == proc' = [proc EXCEPT ![p].pc = pc]

\* The command returns; its lock and its private copies go with it.
Ends(p, pc) ==
    /\ proc' = [proc EXCEPT ![p].pc = pc, ![p].copy = None, ![p].read = None]
    /\ lock' = IF lock = p THEN None ELSE lock

Trouble == trouble < MaxTrouble /\ trouble' = trouble + 1

(***************************************************************************)
(* Install and update.                                                     *)
(***************************************************************************)
StartInstall(p, t, r) ==
    /\ proc[p].pc \in Stopped
    /\ proc' = [proc EXCEPT ![p] =
          [Idle EXCEPT !.op = "install", !.tag = t, !.revision = r,
                       !.pc = IF Inspect(candidate, t, r) THEN "lock" ELSE "failed"]]
    /\ UNCHANGED <<candidate, release, launcher, active, lock, reader, torn, damaged, trouble>>

\* Nobody asks who else holds the lock.
AcquireShared(p) ==
    /\ At(p, "lock")
    /\ lock' = p
    /\ Goes(p, IF proc[p].op = "install" THEN "locked" ELSE "activation")
    /\ UNCHANGED <<candidate, release, launcher, active, reader, torn, damaged, trouble>>

\* try_lock: a second command gives up at once.
Acquire(p) ==
    /\ At(p, "lock")
    /\ IF lock = None
       THEN /\ lock' = p
            /\ Goes(p, IF proc[p].op = "install" THEN "locked" ELSE "activation")
       ELSE Ends(p, "failed")
    /\ UNCHANGED <<candidate, release, launcher, active, reader, torn, damaged, trouble>>

\* A release of this tag that is there must be the one asked for.
CheckInstalled(p) ==
    /\ At(p, "locked") /\ release[proc[p].tag] # None
    /\ IF Inspect(release[proc[p].tag], proc[p].tag, proc[p].revision)
       THEN Goes(p, "launcher") /\ UNCHANGED lock
       ELSE Ends(p, "failed")
    /\ UNCHANGED <<candidate, release, launcher, active, reader, torn, damaged, trouble>>

\* The assets are copied into a staging directory one by one ...
Copy(p) ==
    /\ At(p, "locked") /\ release[proc[p].tag] = None
    /\ proc' = [proc EXCEPT ![p].pc = "copying", ![p].copy = candidate]
    /\ UNCHANGED <<candidate, release, launcher, active, lock, reader, torn, damaged, trouble>>

\* ... the last of them from what the candidate is by then.
CopyRest(p) ==
    /\ At(p, "copying")
    /\ proc' = [proc EXCEPT ![p].pc = "staged",
                            ![p].copy = IF candidate = @ THEN @
                                        ELSE [@ EXCEPT !.intact = FALSE]]
    /\ UNCHANGED <<candidate, release, launcher, active, lock, reader, torn, damaged, trouble>>

\* The copy is what was inspected.
PublishUnchecked(p) ==
    /\ At(p, "staged")
    /\ release' = [release EXCEPT ![proc[p].tag] = proc[p].copy]
    /\ Goes(p, "launcher")
    /\ UNCHANGED <<candidate, launcher, active, lock, reader, torn, damaged, trouble>>

\* The staged copy is inspected again, then renamed to releases/<tag>.
Publish(p) ==
    /\ At(p, "staged")
    /\ IF Inspect(proc[p].copy, proc[p].tag, proc[p].revision)
       THEN /\ release' = [release EXCEPT ![proc[p].tag] = proc[p].copy]
            /\ Goes(p, "launcher") /\ UNCHANGED lock
       ELSE Ends(p, "failed") /\ UNCHANGED release
    /\ UNCHANGED <<candidate, launcher, active, reader, torn, damaged, trouble>>

\* A foreign launcher is refused, a current one left alone; another one is
\* replaced by a file that is not executable yet.  That its directory cannot be
\* synced after the rename is a failure at the next step.
WriteLauncher(p) ==
    /\ At(p, "launcher")
    /\ \/ /\ launcher.text = "foreign"
          /\ Ends(p, "failed") /\ UNCHANGED launcher
       \/ /\ launcher.text = "current"
          /\ Goes(p, "activation") /\ UNCHANGED <<lock, launcher>>
       \/ /\ launcher.text \in {"none", "older"}
          /\ launcher' = [text |-> "current", executable |-> FALSE]
          /\ Goes(p, "chmod") /\ UNCHANGED lock
    /\ UNCHANGED <<candidate, release, active, reader, torn, damaged, trouble>>

SetExecutable(p) ==
    /\ At(p, "chmod")
    /\ launcher' = [launcher EXCEPT !.executable = TRUE]
    /\ Goes(p, "activation")
    /\ UNCHANGED <<candidate, release, active, lock, reader, torn, damaged, trouble>>

ReadActivation(p) ==
    /\ At(p, "activation")
    /\ proc' = [proc EXCEPT ![p].read = active,
                            ![p].pc = IF proc[p].op = "install" THEN "activate" ELSE "rollback"]
    /\ UNCHANGED <<candidate, release, launcher, active, lock, reader, torn, damaged, trouble>>

\* The release that is no longer active is cleaned up.
ActivateAndClean(p) ==
    /\ At(p, "activate")
    /\ IF proc[p].read.current # proc[p].tag
       THEN /\ active' = [current |-> proc[p].tag, previous |-> proc[p].read.current]
            /\ release' = [t \in Tag |-> IF t = proc[p].tag THEN release[t] ELSE None]
       ELSE UNCHANGED <<active, release>>
    /\ Ends(p, "done")
    /\ UNCHANGED <<candidate, launcher, reader, torn, damaged, trouble>>

\* publish_bytes replaced the activation; syncing its directory may still fail.
Reports(p) ==
    \/ Ends(p, "done") /\ UNCHANGED trouble
    \/ Ends(p, "failed") /\ Trouble

\* One replacement of the file, unless the tag is active already.
Activate(p) ==
    /\ At(p, "activate")
    /\ active' = IF proc[p].read.current # proc[p].tag
                 THEN [current |-> proc[p].tag, previous |-> proc[p].read.current]
                 ELSE active
    /\ Reports(p)
    /\ UNCHANGED <<candidate, release, launcher, reader, torn, damaged>>

(***************************************************************************)
(* Rollback, status and the launcher.                                      *)
(***************************************************************************)
StartRollback(p) ==
    /\ proc[p].pc \in Stopped
    /\ proc' = [proc EXCEPT ![p] = [Idle EXCEPT !.op = "rollback", !.pc = "lock"]]
    /\ UNCHANGED <<candidate, release, launcher, active, lock, reader, torn, damaged, trouble>>

\* The previous release is inspected for the revision it names itself.
RollbackPoint(a) ==
    /\ a.current # None /\ a.previous \notin {None, a.current}
    /\ LET b == release[a.previous] IN b # None /\ Inspect(b, a.previous, b.revision)

Rollback(p) ==
    /\ At(p, "rollback")
    /\ LET a == proc[p].read IN
       IF RollbackPoint(a)
       THEN active' = [current |-> a.previous, previous |-> a.current] /\ Reports(p)
       ELSE Ends(p, "failed") /\ UNCHANGED <<active, trouble>>
    /\ UNCHANGED <<candidate, release, launcher, reader, torn, damaged>>

\* status and the launcher read the current tag ...
ReadCurrent(q) ==
    /\ reader[q].tag = None \/ reader[q].found # None
    /\ active.current # None
    /\ reader' = [reader EXCEPT ![q] = [tag |-> active.current, found |-> None]]
    /\ UNCHANGED <<candidate, release, launcher, active, lock, proc, torn, damaged, trouble>>

\* ... and then look into its directory.
UseRelease(q) ==
    /\ reader[q].tag # None /\ reader[q].found = None
    /\ LET b == release[reader[q].tag] IN
       reader' = [reader EXCEPT ![q].found =
          IF b # None /\ Inspect(b, reader[q].tag, b.revision) THEN "sound"
          ELSE IF reader[q].tag \in damaged THEN "damaged" ELSE "missing"]
    /\ UNCHANGED <<candidate, release, launcher, active, lock, proc, torn, damaged, trouble>>

(***************************************************************************)
(* Trouble.                                                                *)
(***************************************************************************)
\* A lock file whose holder is gone.
CrashKeepsLock(p) ==
    /\ Trouble /\ proc[p].pc \notin Stopped
    /\ torn' = (torn \/ At(p, "chmod"))
    /\ proc' = [proc EXCEPT ![p].pc = "crashed", ![p].copy = None, ![p].read = None]
    /\ UNCHANGED <<candidate, release, launcher, active, lock, reader, damaged>>

\* The system releases the lock of a process that dies, and of one that returns
\* because the next file operation fails: set_permissions, a sync of what was
\* just renamed, a copy, a read.
Crash(p) ==
    /\ Trouble /\ proc[p].pc \notin Stopped
    /\ torn' = (torn \/ At(p, "chmod"))
    /\ \E pc \in {"crashed", "failed"} : Ends(p, pc)
    /\ UNCHANGED <<candidate, release, launcher, active, reader, damaged>>

ChangeCandidate(b) ==
    /\ b # candidate
    /\ IF \A p \in Process : proc[p].pc \notin {"lock", "locked", "copying"}
       THEN UNCHANGED trouble ELSE Trouble
    /\ candidate' = b
    /\ UNCHANGED <<release, launcher, active, lock, proc, reader, torn, damaged>>

Damage(t) ==
    /\ Trouble /\ release[t] # None /\ release[t].intact
    /\ release' = [release EXCEPT ![t].intact = FALSE]
    /\ damaged' = damaged \cup {t}
    /\ UNCHANGED <<candidate, launcher, active, lock, proc, reader, torn>>

Step(p) ==
    \/ Acquire(p) \/ CheckInstalled(p) \/ Copy(p) \/ CopyRest(p) \/ Publish(p)
    \/ WriteLauncher(p) \/ SetExecutable(p) \/ ReadActivation(p) \/ Activate(p)
    \/ Rollback(p)

Next ==
    \/ \E p \in Process : \/ \E t \in Tag, r \in Revision : StartInstall(p, t, r)
                          \/ StartRollback(p) \/ Step(p) \/ Crash(p)
    \/ \E q \in Reader : ReadCurrent(q) \/ UseRelease(q)
    \/ \E b \in Bundle : ChangeCandidate(b)
    \/ \E t \in Tag : Damage(t)

Spec == Init /\ [][Next]_vars

\* A command that runs keeps running.
FairSpec == Spec /\ \A p \in Process : WF_vars(Step(p))

(***************************************************************************)
(* Properties.                                                             *)
(***************************************************************************)
Activation == [current : Tag \cup {None}, previous : Tag \cup {None}]

Command == [pc : Stopped \cup {"lock", "locked", "copying", "staged", "launcher", "chmod",
                               "activation", "activate", "rollback"},
            op : {"install", "rollback", None}, tag : Tag \cup {None},
            revision : Revision \cup {None}, copy : BundleType \cup {None},
            read : Activation \cup {None}]

TypeOK ==
    /\ candidate \in Bundle
    /\ release \in [Tag -> BundleType \cup {None}]
    /\ launcher \in [text : {"none", "older", "foreign", "current"}, executable : BOOLEAN]
    /\ active \in Activation /\ (active.current = None => active.previous = None)
    /\ lock \in Process \cup {None}
    /\ proc \in [Process -> Command]
    /\ reader \in [Reader -> [tag : Tag \cup {None}, found : {"sound", "damaged", "missing", None}]]
    /\ torn \in BOOLEAN /\ damaged \subseteq Tag /\ trouble \in 0 .. MaxTrouble

\* What is active passed the inspection as it lies in its directory, whatever
\* happened to the candidate between its inspection and the end of its copying;
\* only damage done to the directory later makes it unsound
\* (binary_install.rs:296, 318).
ActiveIsVerified ==
    active.current # None =>
        LET b == release[active.current] IN
        /\ b # None /\ b.tag = active.current
        /\ active.current \notin damaged => Inspect(b, b.tag, b.revision)

\* Every change of the activation keeps, as the rollback point, the tag that
\* was active until then, another one than the new one: no update is lost
\* between two that ran at the same time (binary_install.rs:366, 530).
RollbackPointIsLastActive ==
    [][active' # active => /\ active'.previous = active.current
                           /\ active'.previous # active'.current]_vars

\* status and the launcher, which take no lock, always find the release they
\* read the tag of (binary_install.rs:391, 412).
ReadersFindTheirRelease == \A q \in Reader : reader[q].found # "missing"

\* An installation that returned left a launcher that can be executed, unless
\* some command, by dying or by an error, ended between publishing the launcher
\* and setting its mode: then no later installation repairs it, because the
\* text is the wanted one (binary_install.rs:444, 448).
LauncherIsExecutable ==
    (\E p \in Process : At(p, "done") /\ proc[p].op = "install") /\ ~torn =>
        launcher.executable \/ \E p \in Process : At(p, "chmod")

\* A command that dies blocks nobody after it (binary_install.rs:575).
LockIsFreed == \A p \in Process : (lock = p) ~> (lock # p)

------------------------------------------------------------------------------
(***************************************************************************)
(* The inductive invariant.                                                *)
(***************************************************************************)
\* Past the lock a command is alone, and one that installs has its tag.
OneAtATime ==
    \A p \in Process : proc[p].pc \notin Stopped \cup {"lock"} => lock = p

InstallSteps == {"locked", "copying", "staged", "launcher", "chmod", "activate"}

CommandIsBound ==
    \A p \in Process :
        /\ proc[p].pc \in InstallSteps => proc[p].op = "install"
        /\ proc[p].op = "install" => proc[p].tag \in Tag /\ proc[p].revision \in Revision
        /\ proc[p].pc \in {"copying", "staged"} => proc[p].copy \in BundleType

\* Every directory under releases/ was inspected as it lies there.
ReleasesAreVerified ==
    \A t \in Tag : release[t] # None =>
        /\ release[t].tag = t
        /\ t \in damaged \/ Inspect(release[t], t, release[t].revision)

\* The tags that somebody is going to use have a directory.
TagsHaveReleases ==
    /\ active.current # None => release[active.current] # None
    /\ \A q \in Reader : reader[q].tag # None => release[reader[q].tag] # None
    /\ \A p \in Process :
          \/ proc[p].pc \in {"launcher", "chmod", "activate"}
          \/ proc[p].pc = "activation" /\ proc[p].op = "install"
          => release[proc[p].tag] # None

\* What a command read of the activation is what it says until it replaces it.
ReadIsCurrent == \A p \in Process : proc[p].pc \in {"activate", "rollback"} => proc[p].read = active

\* Only an end in the middle leaves a launcher that cannot be executed.
LauncherIsWhole == torn \/ launcher.executable \/ \E p \in Process : At(p, "chmod")

\* At every point of every command: what is active was verified and its
\* launcher can be executed, and the command holds what its next steps rely on
\* (binary_install.rs:264, 412).
InstallInvariant ==
    /\ TypeOK /\ ActiveIsVerified /\ LauncherIsExecutable
    /\ OneAtATime /\ CommandIsBound /\ ReleasesAreVerified /\ TagsHaveReleases
    /\ ReadIsCurrent /\ LauncherIsWhole
=============================================================================
