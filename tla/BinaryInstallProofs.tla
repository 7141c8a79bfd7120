------------------------- MODULE BinaryInstallProofs -------------------------
(***************************************************************************)
(* Proofs about BinaryInstall, for any number of releases, commands and    *)
(* readers: InstallInvariant is inductive; with it readers find their      *)
(* release and the rollback point is the release that was active last.     *)
(***************************************************************************)
EXTENDS BinaryInstall, TLAPS

\* The inductive part of InstallInvariant; the rest follows from it.
IInv ==
    /\ TypeOK /\ OneAtATime /\ CommandIsBound /\ ReleasesAreVerified /\ TagsHaveReleases
    /\ ReadIsCurrent /\ LauncherIsWhole

LEMMA IInvSuffices == ASSUME IInv PROVE InstallInvariant
<1>1. ActiveIsVerified
  BY DEF IInv, TypeOK, Activation, ActiveIsVerified, ReleasesAreVerified, TagsHaveReleases
<1>2. LauncherIsExecutable
  BY DEF IInv, LauncherIsWhole, LauncherIsExecutable
<1>3. QED BY <1>1, <1>2 DEF IInv, InstallInvariant

LEMMA InitIInv == ASSUME Init PROVE IInv
<1>1. Idle \in Command
  BY DEF Idle, Command, Stopped
<1>2. TypeOK
  <2>1. candidate \in Bundle /\ release \in [Tag -> BundleType \cup {None}]
    BY DEF Init
  <2>2. launcher \in [text : {"none", "older", "foreign", "current"}, executable : BOOLEAN]
    BY DEF Init
  <2>3. active \in Activation /\ active.previous = None /\ lock = None
    BY DEF Init, Activation
  <2>4. proc \in [Process -> Command]
    BY <1>1 DEF Init
  <2>5. reader \in [Reader -> [tag : Tag \cup {None}, found : {"sound", "damaged", "missing", None}]]
    BY DEF Init
  <2>6. torn \in BOOLEAN /\ damaged \subseteq Tag
    BY DEF Init
  <2>7. trouble \in 0 .. MaxTrouble
    BY InstallAssumption DEF Init
  <2>8. QED BY <2>1, <2>2, <2>3, <2>4, <2>5, <2>6, <2>7 DEF TypeOK
<1>3. \A p \in Process : proc[p].pc = "idle" /\ proc[p].op = None
  BY DEF Init, Idle
<1>4. OneAtATime /\ ReadIsCurrent
  BY <1>3 DEF OneAtATime, ReadIsCurrent, Stopped
<1>5. CommandIsBound
  BY <1>3, InstallAssumption DEF CommandIsBound, InstallSteps
<1>6. ReleasesAreVerified /\ TagsHaveReleases /\ LauncherIsWhole
  BY <1>3 DEF Init, ReleasesAreVerified, TagsHaveReleases, LauncherIsWhole
<1>7. QED BY <1>2, <1>4, <1>5, <1>6 DEF IInv

------------------------------------------------------------------------------
(***************************************************************************)
(* Steps of one command that touch only it, the lock and the launcher.     *)
(***************************************************************************)
\* The step leaves every other command alone; c is what becomes of p.
Becomes(p, c) ==
    /\ proc' \in [Process -> Command] /\ proc'[p] = c
    /\ \A u \in Process : u # p => proc'[u] = proc[u]

\* What IInv asks of one command, given the rest of the state.
Fits(p, c) ==
    /\ c \in Command
    /\ c.pc \notin Stopped \cup {"lock"} => lock' = p
    /\ c.pc \in InstallSteps => c.op = "install"
    /\ c.op = "install" => c.tag \in Tag /\ c.revision \in Revision
    /\ c.pc \in {"copying", "staged"} => c.copy \in BundleType
    /\ c.pc \in {"launcher", "chmod", "activate"} => release'[c.tag] # None
    /\ c.pc = "activation" /\ c.op = "install" => release'[c.tag] # None
    /\ c.pc \in {"activate", "rollback"} => c.read = active'

LEMMA CommandStep ==
    ASSUME IInv, NEW p \in Process, NEW c, Becomes(p, c), Fits(p, c),
           lock' \in {lock, p} \/ (lock = p /\ lock' = None),
           lock' = p => lock \in {p, None},
           candidate' = candidate, reader' = reader, damaged' = damaged,
           trouble' \in 0 .. MaxTrouble, torn' \in BOOLEAN, torn => torn',
           launcher' \in [text : {"none", "older", "foreign", "current"}, executable : BOOLEAN],
           c.pc = "chmod" \/ torn' \/ launcher'.executable
             \/ (launcher' = launcher /\ ~At(p, "chmod")),
           release' \in [Tag -> BundleType \cup {None}],
           \A t \in Tag : \/ release'[t] = release[t]
                          \/ /\ release'[t] # None
                             /\ Inspect(release'[t], t, release'[t].revision),
           active' \in Activation, active'.current = None => active'.previous = None,
           active'.current # None => release'[active'.current] # None,
           active' = active \/ lock = p
    PROVE  IInv'
<1>1. proc'[p] = c /\ \A u \in Process : u # p => proc'[u] = proc[u]
  BY DEF IInv, TypeOK, Becomes
<1>2. \A t \in Tag : release[t] # None => release'[t] # None
  OBVIOUS
<1>3. TypeOK'
  <2>1. proc' \in [Process -> Command]
    BY DEF IInv, TypeOK, Becomes, Fits
  <2>2. lock' \in Process \cup {None}
    BY DEF IInv, TypeOK
  <2>3. QED BY <2>1, <2>2 DEF IInv, TypeOK
<1>4. OneAtATime'
  <2> SUFFICES ASSUME NEW u \in Process, proc'[u].pc \notin Stopped \cup {"lock"}
               PROVE  lock' = u
    BY DEF OneAtATime
  <2>1. CASE u = p
    BY <1>1, <2>1 DEF Fits
  <2>2. CASE u # p
    <3>1. lock = u
      BY <1>1, <2>2 DEF IInv, OneAtATime
    <3>2. QED BY <2>2, <3>1, InstallAssumption
  <2>3. QED BY <2>1, <2>2
<1>5. CommandIsBound'
  BY <1>1 DEF IInv, CommandIsBound, Fits
<1>6. ReleasesAreVerified'
  BY DEF IInv, ReleasesAreVerified, Inspect, PublicationMatches
<1>7. TagsHaveReleases'
  <2>1. \A q \in Reader : reader'[q].tag # None => release'[reader'[q].tag] # None
    BY <1>2 DEF IInv, TypeOK, TagsHaveReleases
  <2>2. ASSUME NEW u \in Process,
               \/ proc'[u].pc \in {"launcher", "chmod", "activate"}
               \/ proc'[u].pc = "activation" /\ proc'[u].op = "install"
        PROVE  release'[proc'[u].tag] # None
    <3>1. CASE u = p
      BY <1>1, <2>2, <3>1 DEF Fits
    <3>2. CASE u # p
      <4>1. release[proc[u].tag] # None
        BY <1>1, <2>2, <3>2 DEF IInv, TagsHaveReleases
      <4>2. proc[u].tag \in Tag
        BY <1>1, <2>2, <3>2 DEF IInv, CommandIsBound, InstallSteps
      <4>3. QED BY <1>1, <1>2, <3>2, <4>1, <4>2
    <3>3. QED BY <3>1, <3>2
  <2>3. QED BY <2>1, <2>2 DEF TagsHaveReleases
<1>8. ReadIsCurrent'
  <2> SUFFICES ASSUME NEW u \in Process, proc'[u].pc \in {"activate", "rollback"}
               PROVE  proc'[u].read = active'
    BY DEF ReadIsCurrent
  <2>1. CASE u = p
    BY <1>1, <2>1 DEF Fits
  <2>2. CASE u # p
    <3>1. lock = u /\ proc[u].read = active
      BY <1>1, <2>2 DEF IInv, OneAtATime, ReadIsCurrent, Stopped
    <3>2. QED BY <1>1, <2>2, <3>1
  <2>3. QED BY <2>1, <2>2
<1>9. LauncherIsWhole'
  <2>1. CASE c.pc = "chmod"
    BY <1>1, <2>1 DEF LauncherIsWhole, At
  <2>2. CASE torn' \/ launcher'.executable
    BY <2>2 DEF LauncherIsWhole
  <2>3. CASE launcher' = launcher /\ ~At(p, "chmod")
    <3>1. CASE \E u \in Process : At(u, "chmod")
      BY <1>1, <2>3, <3>1 DEF LauncherIsWhole, At
    <3>2. CASE ~\E u \in Process : At(u, "chmod")
      BY <2>3, <3>2 DEF IInv, LauncherIsWhole
    <3>3. QED BY <3>1, <3>2
  <2>4. QED BY <2>1, <2>2, <2>3
<1>10. QED BY <1>3, <1>4, <1>5, <1>6, <1>7, <1>8, <1>9 DEF IInv

LEMMA CommandFields ==
    ASSUME TypeOK, NEW p \in Process
    PROVE  /\ proc[p] \in Command
           /\ proc[p].tag \in Tag \cup {None} /\ proc[p].copy \in BundleType \cup {None}
BY DEF TypeOK, Command

LEMMA GoesFields ==
    ASSUME TypeOK, NEW p \in Process, NEW pc, Goes(p, pc),
           pc \in Stopped \cup {"lock", "locked", "copying", "staged", "launcher", "chmod",
                                "activation", "activate", "rollback"}
    PROVE  /\ Becomes(p, proc'[p]) /\ proc'[p] \in Command /\ proc'[p].pc = pc
           /\ proc'[p].op = proc[p].op /\ proc'[p].tag = proc[p].tag
           /\ proc'[p].revision = proc[p].revision /\ proc'[p].copy = proc[p].copy
           /\ proc'[p].read = proc[p].read
<1>1. proc'[p] = [proc[p] EXCEPT !.pc = pc] /\ \A u \in Process : u # p => proc'[u] = proc[u]
  BY DEF TypeOK, Goes
<1>2. proc[p] \in Command
  BY DEF TypeOK
<1>3. proc'[p] \in Command
  BY <1>1, <1>2 DEF Command
<1>4. proc' \in [Process -> Command]
  BY <1>1, <1>3 DEF TypeOK, Goes
<1>5. QED BY <1>1, <1>2, <1>3, <1>4 DEF Becomes, Command

LEMMA EndsFits ==
    ASSUME IInv, NEW p \in Process, NEW pc \in Stopped, Ends(p, pc)
    PROVE  /\ Becomes(p, proc'[p]) /\ Fits(p, proc'[p]) /\ proc'[p].pc = pc
           /\ lock' = IF lock = p THEN None ELSE lock
<1> DEFINE c == [proc[p] EXCEPT !.pc = pc, !.copy = None, !.read = None]
<1>1. proc'[p] = c /\ \A u \in Process : u # p => proc'[u] = proc[u]
  BY DEF IInv, TypeOK, Ends
<1>2. proc[p] \in Command
  BY DEF IInv, TypeOK
<1>3. c \in Command /\ c.pc = pc /\ c.op = proc[p].op /\ c.tag = proc[p].tag
      /\ c.revision = proc[p].revision
  BY <1>2 DEF Command
<1> HIDE DEF c
<1>4. proc' \in [Process -> Command]
  BY <1>1, <1>3 DEF IInv, TypeOK, Ends
<1>5. Fits(p, c)
  BY <1>3 DEF Fits, IInv, CommandIsBound, Stopped, InstallSteps
<1>6. QED BY <1>1, <1>3, <1>4, <1>5 DEF Becomes, Ends

------------------------------------------------------------------------------
(***************************************************************************)
(* One lemma per step of a command.                                        *)
(***************************************************************************)
LEMMA StartInstallPreserves ==
    ASSUME IInv, NEW p \in Process, NEW t \in Tag, NEW r \in Revision, StartInstall(p, t, r)
    PROVE  IInv'
<1> DEFINE pc == IF Inspect(candidate, t, r) THEN "lock" ELSE "failed"
           c == [Idle EXCEPT !.op = "install", !.tag = t, !.revision = r, !.pc = pc]
<1>1. c \in Command /\ c.pc \in Stopped \cup {"lock"} /\ c.pc # "chmod"
      /\ c.op = "install" /\ c.tag = t /\ c.revision = r
  BY DEF Idle, Command, Stopped
<1>2. Fits(p, c)
  BY <1>1 DEF Fits, Stopped, InstallSteps
<1>3. proc' = [proc EXCEPT ![p] = c]
  BY DEF StartInstall
<1> HIDE DEF c
<1>4. Becomes(p, c)
  BY <1>1, <1>3 DEF IInv, TypeOK, Becomes
<1>5. ~At(p, "chmod")
  BY DEF StartInstall, At, Stopped
<1>6. QED
  BY <1>2, <1>4, <1>5, CommandStep DEF StartInstall, IInv, TypeOK, TagsHaveReleases

LEMMA StartRollbackPreserves ==
    ASSUME IInv, NEW p \in Process, StartRollback(p)
    PROVE  IInv'
<1> DEFINE c == [Idle EXCEPT !.op = "rollback", !.pc = "lock"]
<1>1. c \in Command /\ c.pc = "lock" /\ c.op = "rollback"
  BY DEF Idle, Command
<1>2. Fits(p, c)
  BY <1>1 DEF Fits, InstallSteps
<1>3. proc' = [proc EXCEPT ![p] = c]
  BY DEF StartRollback
<1> HIDE DEF c
<1>4. Becomes(p, c)
  BY <1>1, <1>3 DEF IInv, TypeOK, Becomes
<1>5. ~At(p, "chmod")
  BY DEF StartRollback, At, Stopped
<1>6. QED
  BY <1>2, <1>4, <1>5, CommandStep DEF StartRollback, IInv, TypeOK, TagsHaveReleases

\* A command that ends without changing anything but the lock.
LEMMA FailPreserves ==
    ASSUME IInv, NEW p \in Process, NEW pc \in Stopped, Ends(p, pc),
           ~At(p, "chmod") \/ torn', torn' \in BOOLEAN, torn => torn',
           trouble' \in 0 .. MaxTrouble,
           UNCHANGED <<candidate, release, launcher, active, reader, damaged>>
    PROVE  IInv'
BY EndsFits, CommandStep DEF IInv, TypeOK, TagsHaveReleases

LEMMA AcquirePreserves ==
    ASSUME IInv, NEW p \in Process, Acquire(p)
    PROVE  IInv'
<1>1. CASE lock = None
  <2> DEFINE pc == IF proc[p].op = "install" THEN "locked" ELSE "activation"
  <2>1. Goes(p, pc) /\ lock' = p /\ ~At(p, "chmod")
    BY <1>1 DEF Acquire, At
  <2>2. pc \in {"locked", "activation"} /\ (pc = "locked" <=> proc[p].op = "install")
    OBVIOUS
  <2> HIDE DEF pc
  <2>3. Becomes(p, proc'[p]) /\ proc'[p] \in Command /\ proc'[p].pc = pc
        /\ proc'[p].op = proc[p].op /\ proc'[p].tag = proc[p].tag
        /\ proc'[p].revision = proc[p].revision
    BY <2>1, <2>2, GoesFields DEF IInv
  <2>4. Fits(p, proc'[p])
    BY <2>1, <2>2, <2>3 DEF IInv, CommandIsBound, Fits, InstallSteps
  <2>5. QED
    BY <1>1, <2>1, <2>2, <2>3, <2>4, CommandStep DEF Acquire, IInv, TypeOK, TagsHaveReleases
<1>2. CASE lock # None
  BY <1>2, FailPreserves DEF Acquire, At, Stopped, IInv, TypeOK
<1>3. QED BY <1>1, <1>2

LEMMA CheckInstalledPreserves ==
    ASSUME IInv, NEW p \in Process, CheckInstalled(p)
    PROVE  IInv'
<1>0. At(p, "locked") /\ lock = p /\ proc[p].op = "install" /\ ~At(p, "chmod")
  BY DEF CheckInstalled, At, IInv, OneAtATime, CommandIsBound, InstallSteps, Stopped
<1>1. CASE Goes(p, "launcher") /\ UNCHANGED lock
  <2>1. Becomes(p, proc'[p]) /\ proc'[p] \in Command /\ proc'[p].pc = "launcher"
        /\ proc'[p].op = proc[p].op /\ proc'[p].tag = proc[p].tag
        /\ proc'[p].revision = proc[p].revision
    BY <1>1, GoesFields DEF IInv
  <2>2. Fits(p, proc'[p])
    BY <1>0, <1>1, <2>1 DEF IInv, CommandIsBound, Fits, CheckInstalled
  <2>3. QED
    BY <1>0, <1>1, <2>1, <2>2, CommandStep DEF CheckInstalled, IInv, TypeOK, TagsHaveReleases
<1>2. CASE Ends(p, "failed")
  BY <1>0, <1>2, FailPreserves DEF CheckInstalled, Stopped, IInv, TypeOK
<1>3. QED BY <1>1, <1>2 DEF CheckInstalled

LEMMA CopyPreserves ==
    ASSUME IInv, NEW p \in Process, Copy(p)
    PROVE  IInv'
<1>0. At(p, "locked") /\ lock = p /\ proc[p].op = "install" /\ ~At(p, "chmod")
  BY DEF Copy, At, IInv, OneAtATime, CommandIsBound, InstallSteps, Stopped
<1>1. candidate \in BundleType
  BY InstallAssumption DEF IInv, TypeOK
<1> DEFINE c == [proc[p] EXCEPT !.pc = "copying", !.copy = candidate]
<1>2. proc'[p] = c /\ \A u \in Process : u # p => proc'[u] = proc[u]
  BY DEF IInv, TypeOK, Copy
<1>3. c \in Command /\ c.pc = "copying" /\ c.op = proc[p].op /\ c.tag = proc[p].tag
      /\ c.revision = proc[p].revision /\ c.copy = candidate
  BY <1>1, CommandFields DEF IInv, Command
<1> HIDE DEF c
<1>4. Becomes(p, c)
  BY <1>2, <1>3 DEF IInv, TypeOK, Copy, Becomes
<1>5. Fits(p, c)
  BY <1>0, <1>1, <1>3 DEF Copy, Fits, IInv, CommandIsBound
<1>6. QED BY <1>0, <1>4, <1>5, CommandStep DEF Copy, IInv, TypeOK, TagsHaveReleases

LEMMA CopyRestPreserves ==
    ASSUME IInv, NEW p \in Process, CopyRest(p)
    PROVE  IInv'
<1>0. At(p, "copying") /\ lock = p /\ proc[p].op = "install" /\ ~At(p, "chmod")
      /\ proc[p].copy \in BundleType
  BY DEF CopyRest, At, IInv, OneAtATime, CommandIsBound, InstallSteps, Stopped
<1> DEFINE b == IF candidate = proc[p].copy THEN proc[p].copy
                ELSE [proc[p].copy EXCEPT !.intact = FALSE]
           c == [proc[p] EXCEPT !.pc = "staged", !.copy = b]
<1>1. b \in BundleType
  BY <1>0 DEF BundleType
<1>2. proc'[p] = c /\ \A u \in Process : u # p => proc'[u] = proc[u]
  BY DEF IInv, TypeOK, CopyRest
<1> HIDE DEF b
<1>3. c \in Command /\ c.pc = "staged" /\ c.op = proc[p].op /\ c.tag = proc[p].tag
      /\ c.revision = proc[p].revision /\ c.copy = b
  BY <1>1, CommandFields DEF IInv, Command
<1> HIDE DEF c
<1>4. Becomes(p, c)
  BY <1>2, <1>3 DEF IInv, TypeOK, CopyRest, Becomes
<1>5. Fits(p, c)
  BY <1>0, <1>1, <1>3 DEF CopyRest, Fits, IInv, CommandIsBound
<1>6. QED BY <1>0, <1>4, <1>5, CommandStep DEF CopyRest, IInv, TypeOK, TagsHaveReleases

LEMMA PublishPreserves ==
    ASSUME IInv, NEW p \in Process, Publish(p)
    PROVE  IInv'
<1>0. At(p, "staged") /\ lock = p /\ proc[p].op = "install" /\ ~At(p, "chmod")
      /\ proc[p].tag \in Tag /\ proc[p].copy \in BundleType
  BY DEF Publish, At, IInv, OneAtATime, CommandIsBound, InstallSteps, Stopped
<1>1. CASE Inspect(proc[p].copy, proc[p].tag, proc[p].revision)
  <2>1. /\ release' = [release EXCEPT ![proc[p].tag] = proc[p].copy]
        /\ Goes(p, "launcher") /\ lock' = lock
    BY <1>1 DEF Publish
  <2>2. Becomes(p, proc'[p]) /\ proc'[p] \in Command /\ proc'[p].pc = "launcher"
        /\ proc'[p].op = proc[p].op /\ proc'[p].tag = proc[p].tag
        /\ proc'[p].revision = proc[p].revision
    BY <2>1, GoesFields DEF IInv
  <2>3. /\ release' \in [Tag -> BundleType \cup {None}]
        /\ \A t \in Tag : \/ release'[t] = release[t]
                          \/ t = proc[p].tag /\ release'[t] = proc[p].copy
    BY <1>0, <2>1 DEF IInv, TypeOK
  <2>4. \A t \in Tag : \/ release'[t] = release[t]
                       \/ /\ release'[t] # None
                          /\ Inspect(release'[t], t, release'[t].revision)
    BY <1>1, <2>3 DEF Inspect, PublicationMatches
  <2>5. release'[proc[p].tag] = proc[p].copy /\ proc[p].copy # None
    BY <1>0, <2>1, InstallAssumption DEF IInv, TypeOK
  <2>6. Fits(p, proc'[p])
    BY <1>0, <2>1, <2>2, <2>5 DEF IInv, CommandIsBound, Fits
  <2>7. active.current # None => release'[active.current] # None
    BY <2>4 DEF IInv, TypeOK, Activation, TagsHaveReleases
  <2>8. QED
    BY <1>0, <2>1, <2>2, <2>3, <2>4, <2>6, <2>7, CommandStep DEF Publish, IInv, TypeOK
<1>2. CASE ~Inspect(proc[p].copy, proc[p].tag, proc[p].revision)
  BY <1>0, <1>2, FailPreserves DEF Publish, Stopped, IInv, TypeOK
<1>3. QED BY <1>1, <1>2

LEMMA WriteLauncherPreserves ==
    ASSUME IInv, NEW p \in Process, WriteLauncher(p)
    PROVE  IInv'
<1>0. At(p, "launcher") /\ lock = p /\ proc[p].op = "install" /\ ~At(p, "chmod")
      /\ release[proc[p].tag] # None
  BY DEF WriteLauncher, At, IInv, OneAtATime, CommandIsBound, InstallSteps, Stopped,
         TagsHaveReleases
<1>1. ASSUME NEW pc \in {"activation", "chmod"}, Goes(p, pc)
      PROVE  Becomes(p, proc'[p]) /\ proc'[p] \in Command /\ proc'[p].pc = pc
             /\ proc'[p].op = proc[p].op /\ proc'[p].tag = proc[p].tag
             /\ proc'[p].revision = proc[p].revision
  BY <1>1, GoesFields DEF IInv
<1>2. CASE Ends(p, "failed") /\ UNCHANGED launcher
  BY <1>0, <1>2, FailPreserves DEF WriteLauncher, Stopped, IInv, TypeOK
<1>3. CASE Goes(p, "activation") /\ UNCHANGED <<lock, launcher>>
  <2>1. Fits(p, proc'[p])
    BY <1>0, <1>1, <1>3 DEF IInv, CommandIsBound, Fits, WriteLauncher, InstallSteps
  <2>2. QED
    BY <1>0, <1>1, <1>3, <2>1, CommandStep DEF WriteLauncher, IInv, TypeOK, TagsHaveReleases
<1>4. CASE /\ launcher' = [text |-> "current", executable |-> FALSE]
           /\ Goes(p, "chmod") /\ UNCHANGED lock
  <2>1. Fits(p, proc'[p])
    BY <1>0, <1>1, <1>4 DEF IInv, CommandIsBound, Fits, WriteLauncher
  <2>2. launcher' \in [text : {"none", "older", "foreign", "current"}, executable : BOOLEAN]
    BY <1>4
  <2>3. proc'[p].pc = "chmod" /\ Becomes(p, proc'[p])
    BY <1>1, <1>4
  <2>4. QED
    BY <1>0, <1>4, <2>1, <2>2, <2>3, CommandStep DEF WriteLauncher, IInv, TypeOK, TagsHaveReleases
<1>5. QED BY <1>2, <1>3, <1>4 DEF WriteLauncher

LEMMA SetExecutablePreserves ==
    ASSUME IInv, NEW p \in Process, SetExecutable(p)
    PROVE  IInv'
<1>0. At(p, "chmod") /\ lock = p /\ proc[p].op = "install" /\ release[proc[p].tag] # None
  BY DEF SetExecutable, At, IInv, OneAtATime, CommandIsBound, InstallSteps, Stopped,
         TagsHaveReleases
<1>1. Becomes(p, proc'[p]) /\ proc'[p] \in Command /\ proc'[p].pc = "activation"
      /\ proc'[p].op = proc[p].op /\ proc'[p].tag = proc[p].tag
      /\ proc'[p].revision = proc[p].revision
  BY GoesFields DEF IInv, SetExecutable
<1>2. Fits(p, proc'[p])
  BY <1>0, <1>1 DEF IInv, CommandIsBound, Fits, SetExecutable, InstallSteps
<1>3. launcher' \in [text : {"none", "older", "foreign", "current"}, executable : BOOLEAN]
      /\ launcher'.executable
  BY DEF SetExecutable, IInv, TypeOK
<1>4. QED
  BY <1>0, <1>1, <1>2, <1>3, CommandStep DEF SetExecutable, IInv, TypeOK, TagsHaveReleases

LEMMA ReadActivationPreserves ==
    ASSUME IInv, NEW p \in Process, ReadActivation(p)
    PROVE  IInv'
<1>0. At(p, "activation") /\ lock = p /\ ~At(p, "chmod")
  BY DEF ReadActivation, At, IInv, OneAtATime, Stopped
<1> DEFINE pc == IF proc[p].op = "install" THEN "activate" ELSE "rollback"
           c == [proc[p] EXCEPT !.read = active, !.pc = pc]
<1>1. proc'[p] = c /\ \A u \in Process : u # p => proc'[u] = proc[u]
  BY DEF IInv, TypeOK, ReadActivation
<1>2. pc \in {"activate", "rollback"} /\ (pc = "activate" <=> proc[p].op = "install")
  OBVIOUS
<1> HIDE DEF pc
<1>3. c \in Command /\ c.pc = pc /\ c.op = proc[p].op /\ c.tag = proc[p].tag
      /\ c.revision = proc[p].revision /\ c.read = active
  BY <1>2, CommandFields DEF IInv, TypeOK, Command
<1> HIDE DEF c
<1>4. Becomes(p, c)
  BY <1>1, <1>3 DEF IInv, TypeOK, ReadActivation, Becomes
<1>5. Fits(p, c)
  BY <1>0, <1>2, <1>3 DEF ReadActivation, At, Fits, IInv, CommandIsBound, TagsHaveReleases,
     InstallSteps
<1>6. QED BY <1>0, <1>4, <1>5, CommandStep DEF ReadActivation, IInv, TypeOK, TagsHaveReleases

\* What activation and rollback leave behind.
LEMMA SwitchPreserves ==
    ASSUME IInv, NEW p \in Process, Reports(p), lock = p, ~At(p, "chmod"),
           active' \in Activation, active'.current \in Tag, release[active'.current] # None,
           UNCHANGED <<candidate, release, launcher, reader, torn, damaged>>
    PROVE  IInv'
<1>1. PICK pc \in Stopped : Ends(p, pc)
  BY DEF Reports, Stopped
<1>2. active'.current # None /\ trouble' \in 0 .. MaxTrouble
  BY InstallAssumption DEF Reports, Trouble, IInv, TypeOK
<1>3. QED BY <1>1, <1>2, EndsFits, CommandStep DEF IInv, TypeOK

LEMMA ActivatePreserves ==
    ASSUME IInv, NEW p \in Process, Activate(p)
    PROVE  IInv'
<1>0. /\ At(p, "activate") /\ lock = p /\ ~At(p, "chmod") /\ proc[p].tag \in Tag
      /\ release[proc[p].tag] # None /\ proc[p].read = active
  BY DEF Activate, At, IInv, OneAtATime, CommandIsBound, InstallSteps, Stopped,
         TagsHaveReleases, ReadIsCurrent
<1>1. CASE active.current # proc[p].tag
  <2>1. active' = [current |-> proc[p].tag, previous |-> active.current]
    BY <1>0, <1>1 DEF Activate
  <2>2. active' \in Activation /\ active'.current = proc[p].tag
    BY <1>0, <2>1 DEF IInv, TypeOK, Activation
  <2>3. QED BY <1>0, <2>2, SwitchPreserves DEF Activate
<1>2. CASE active.current = proc[p].tag
  <2>1. active' = active
    BY <1>0, <1>2 DEF Activate
  <2>2. QED BY <1>0, <1>2, <2>1, SwitchPreserves DEF Activate, IInv, TypeOK
<1>3. QED BY <1>1, <1>2

LEMMA RollbackPreserves ==
    ASSUME IInv, NEW p \in Process, Rollback(p)
    PROVE  IInv'
<1>0. At(p, "rollback") /\ lock = p /\ ~At(p, "chmod") /\ proc[p].read = active
  BY DEF Rollback, At, IInv, OneAtATime, Stopped, ReadIsCurrent
<1>1. CASE RollbackPoint(active)
  <2>1. active' = [current |-> active.previous, previous |-> active.current] /\ Reports(p)
    BY <1>0, <1>1 DEF Rollback
  <2>2. active.previous \in Tag /\ release[active.previous] # None
    BY <1>1 DEF RollbackPoint, IInv, TypeOK, Activation
  <2>3. active' \in Activation /\ active'.current = active.previous
    BY <2>1, <2>2 DEF IInv, TypeOK, Activation
  <2>4. QED BY <1>0, <2>1, <2>2, <2>3, SwitchPreserves DEF Rollback
<1>2. CASE ~RollbackPoint(active)
  BY <1>0, <1>2, FailPreserves DEF Rollback, Stopped, IInv, TypeOK
<1>3. QED BY <1>1, <1>2

LEMMA CrashPreserves ==
    ASSUME IInv, NEW p \in Process, Crash(p)
    PROVE  IInv'
<1>1. trouble' \in 0 .. MaxTrouble
  BY InstallAssumption DEF Crash, Trouble, IInv, TypeOK
<1>2. torn' \in BOOLEAN /\ (torn => torn') /\ (At(p, "chmod") => torn')
  BY DEF Crash, At
<1>3. PICK pc \in Stopped : Ends(p, pc)
  BY DEF Crash, Stopped
<1>4. QED BY <1>1, <1>2, <1>3, FailPreserves DEF Crash

------------------------------------------------------------------------------
(***************************************************************************)
(* Readers, the owner of the candidate, and damage.                        *)
(***************************************************************************)
LEMMA ReaderPreserves ==
    ASSUME IInv, NEW q \in Reader, ReadCurrent(q) \/ UseRelease(q)
    PROVE  IInv'
<1>1. UNCHANGED <<candidate, release, launcher, active, lock, proc, torn, damaged, trouble>>
  BY DEF ReadCurrent, UseRelease
<1>2. /\ reader' \in [Reader -> [tag : Tag \cup {None},
                                 found : {"sound", "damaged", "missing", None}]]
      /\ \A u \in Reader : reader'[u].tag # None => release[reader'[u].tag] # None
  <2>1. CASE ReadCurrent(q)
    BY <2>1 DEF ReadCurrent, IInv, TypeOK, Activation, TagsHaveReleases
  <2>2. CASE UseRelease(q)
    <3>1. PICK f \in {"sound", "damaged", "missing"} :
             reader' = [reader EXCEPT ![q].found = f]
      BY <2>2 DEF UseRelease
    <3>2. QED BY <3>1 DEF IInv, TypeOK, TagsHaveReleases
  <2>3. QED BY <2>1, <2>2
<1>3. TypeOK'
  BY <1>1, <1>2 DEF IInv, TypeOK
<1>4. TagsHaveReleases'
  BY <1>1, <1>2 DEF IInv, TagsHaveReleases
<1>5. OneAtATime' /\ CommandIsBound' /\ ReadIsCurrent' /\ LauncherIsWhole'
  BY <1>1 DEF IInv, OneAtATime, CommandIsBound, ReadIsCurrent, LauncherIsWhole, At
<1>6. ReleasesAreVerified'
  BY <1>1 DEF IInv, ReleasesAreVerified, Inspect, PublicationMatches, SignerIsBound, DigestsMatch
<1>7. QED BY <1>3, <1>4, <1>5, <1>6 DEF IInv

LEMMA ChangeCandidatePreserves ==
    ASSUME IInv, NEW b \in Bundle, ChangeCandidate(b)
    PROVE  IInv'
<1>1. UNCHANGED <<release, launcher, active, lock, proc, reader, torn, damaged>>
  BY DEF ChangeCandidate
<1>2. trouble' \in 0 .. MaxTrouble
  BY InstallAssumption DEF ChangeCandidate, Trouble, IInv, TypeOK
<1>3. TypeOK'
  BY <1>1, <1>2 DEF ChangeCandidate, IInv, TypeOK
<1>4. OneAtATime' /\ CommandIsBound' /\ ReadIsCurrent' /\ LauncherIsWhole' /\ TagsHaveReleases'
  BY <1>1 DEF IInv, OneAtATime, CommandIsBound, ReadIsCurrent, LauncherIsWhole, At,
     TagsHaveReleases
<1>5. ReleasesAreVerified'
  BY <1>1 DEF IInv, ReleasesAreVerified, Inspect, PublicationMatches, SignerIsBound, DigestsMatch
<1>6. QED BY <1>3, <1>4, <1>5 DEF IInv

LEMMA DamagePreserves ==
    ASSUME IInv, NEW t \in Tag, Damage(t)
    PROVE  IInv'
<1>1. UNCHANGED <<candidate, launcher, active, lock, proc, reader, torn>>
  BY DEF Damage
<1>2. trouble' \in 0 .. MaxTrouble
  BY InstallAssumption DEF Damage, Trouble, IInv, TypeOK
<1>3. release[t] \in BundleType
  BY DEF Damage, IInv, TypeOK
<1>4. /\ release'[t] \in BundleType /\ release'[t].tag = release[t].tag
      /\ \A u \in Tag : u # t => release'[u] = release[u]
  BY <1>3 DEF Damage, IInv, TypeOK, BundleType
<1>5. release' \in [Tag -> BundleType \cup {None}]
  BY <1>4 DEF Damage, IInv, TypeOK
<1>6. \A u \in Tag : release[u] # None => release'[u] # None
  BY <1>4, InstallAssumption
<1>7. TypeOK'
  BY <1>1, <1>2, <1>5 DEF Damage, IInv, TypeOK
<1>8. OneAtATime' /\ CommandIsBound' /\ ReadIsCurrent' /\ LauncherIsWhole'
  BY <1>1 DEF IInv, OneAtATime, CommandIsBound, ReadIsCurrent, LauncherIsWhole, At
<1>9. ReleasesAreVerified'
  <2> SUFFICES ASSUME NEW u \in Tag, release'[u] # None
               PROVE  /\ release'[u].tag = u
                      /\ u \in damaged' \/ Inspect(release'[u], u, release'[u].revision)
    BY DEF ReleasesAreVerified, Inspect, PublicationMatches, SignerIsBound, DigestsMatch
  <2>1. CASE u = t
    BY <1>4, <2>1 DEF Damage, IInv, ReleasesAreVerified
  <2>2. CASE u # t
    BY <1>4, <2>2 DEF Damage, IInv, ReleasesAreVerified
  <2>3. QED BY <2>1, <2>2
<1>10. TagsHaveReleases'
  <2>1. active'.current # None => release'[active'.current] # None
    BY <1>1, <1>6 DEF IInv, TypeOK, Activation, TagsHaveReleases
  <2>2. \A q \in Reader : reader'[q].tag # None => release'[reader'[q].tag] # None
    BY <1>1, <1>6 DEF IInv, TypeOK, TagsHaveReleases
  <2>3. ASSUME NEW p \in Process,
               \/ proc[p].pc \in {"launcher", "chmod", "activate"}
               \/ proc[p].pc = "activation" /\ proc[p].op = "install"
        PROVE  release'[proc[p].tag] # None
    <3>1. proc[p].tag \in Tag
      BY <2>3 DEF IInv, CommandIsBound, InstallSteps
    <3>2. QED BY <1>6, <2>3, <3>1 DEF IInv, TagsHaveReleases
  <2>4. QED BY <1>1, <2>1, <2>2, <2>3 DEF TagsHaveReleases
<1>11. QED BY <1>7, <1>8, <1>9, <1>10 DEF IInv

LEMMA StepPreserves ==
    ASSUME IInv, NEW p \in Process, Step(p)
    PROVE  IInv'
BY AcquirePreserves, CheckInstalledPreserves, CopyPreserves, CopyRestPreserves,
   PublishPreserves, WriteLauncherPreserves, SetExecutablePreserves, ReadActivationPreserves,
   ActivatePreserves, RollbackPreserves DEF Step

LEMMA NextIInv ==
    ASSUME IInv, [Next]_vars
    PROVE  IInv'
<1>1. ASSUME NEW p \in Process, NEW t \in Tag, NEW r \in Revision, StartInstall(p, t, r)
      PROVE  IInv'
  BY <1>1, StartInstallPreserves
<1>2. ASSUME NEW p \in Process, StartRollback(p) \/ Step(p) \/ Crash(p) PROVE IInv'
  BY <1>2, StartRollbackPreserves, StepPreserves, CrashPreserves
<1>3. ASSUME NEW q \in Reader, ReadCurrent(q) \/ UseRelease(q) PROVE IInv'
  BY <1>3, ReaderPreserves
<1>4. ASSUME NEW b \in Bundle, ChangeCandidate(b) PROVE IInv'
  BY <1>4, ChangeCandidatePreserves
<1>5. ASSUME NEW t \in Tag, Damage(t) PROVE IInv'
  BY <1>5, DamagePreserves
<1>6. CASE UNCHANGED vars
  BY <1>6 DEF vars, IInv, TypeOK, OneAtATime, CommandIsBound, ReadIsCurrent, LauncherIsWhole, At,
     TagsHaveReleases, ReleasesAreVerified, Inspect, PublicationMatches, SignerIsBound,
     DigestsMatch
<1>7. QED BY <1>1, <1>2, <1>3, <1>4, <1>5, <1>6 DEF Next

LEMMA IInvHolds == Spec => []IInv
<1>1. Init => IInv
  BY InitIInv
<1>2. IInv /\ [Next]_vars => IInv'
  BY NextIInv
<1>3. QED BY <1>1, <1>2, PTL DEF Spec

------------------------------------------------------------------------------
(***************************************************************************)
(* Theorems.                                                               *)
(***************************************************************************)
\* What is active was verified as it lies in its directory, its launcher can be
\* executed, and one command at a time changes either (binary_install.rs:264).
THEOREM InstallationIsSafe == Spec => []InstallInvariant
<1>1. IInv => InstallInvariant
  BY IInvSuffices
<1>2. QED BY <1>1, IInvHolds, PTL

\* status and the launcher, which take no lock, find the release whose tag they
\* read, however many updates and rollbacks ran in between
\* (binary_install.rs:391, 412).
THEOREM ReadersAreServed == Spec => []ReadersFindTheirRelease
<1>1. Init => ReadersFindTheirRelease
  BY InstallAssumption DEF Init, ReadersFindTheirRelease
<1>2. IInv /\ ReadersFindTheirRelease /\ [Next]_vars => ReadersFindTheirRelease'
  <2> SUFFICES ASSUME IInv, ReadersFindTheirRelease, [Next]_vars, NEW q \in Reader
               PROVE  reader'[q].found # "missing"
    BY DEF ReadersFindTheirRelease
  <2>1. CASE reader' = reader
    BY <2>1 DEF ReadersFindTheirRelease
  <2>2. ASSUME NEW u \in Reader, ReadCurrent(u) PROVE reader'[q].found # "missing"
    BY <2>2, InstallAssumption DEF ReadCurrent, ReadersFindTheirRelease, IInv, TypeOK
  <2>3. ASSUME NEW u \in Reader, UseRelease(u) PROVE reader'[q].found # "missing"
    <3>1. /\ reader[u].tag \in Tag /\ release[reader[u].tag] # None
      BY <2>3 DEF UseRelease, IInv, TypeOK, TagsHaveReleases
    <3>2. \/ reader[u].tag \in damaged
          \/ Inspect(release[reader[u].tag], reader[u].tag, release[reader[u].tag].revision)
      BY <3>1 DEF IInv, ReleasesAreVerified
    <3>3. PICK f \in {"sound", "damaged"} : reader' = [reader EXCEPT ![u].found = f]
      BY <2>3, <3>1, <3>2 DEF UseRelease
    <3>4. QED BY <3>3 DEF ReadersFindTheirRelease, IInv, TypeOK
  <2>4. ASSUME NEW p \in Process, Step(p) PROVE reader' = reader
    BY <2>4 DEF Step, Acquire, CheckInstalled, Copy, CopyRest, Publish, WriteLauncher,
       SetExecutable, ReadActivation, Activate, Rollback
  <2>5. QED
    BY <2>1, <2>2, <2>3, <2>4 DEF Next, StartInstall, StartRollback, Crash, ChangeCandidate,
       Damage, vars
<1>3. QED BY <1>1, <1>2, IInvHolds, PTL DEF Spec

\* Every change of the activation keeps the tag that was active until then as
\* the rollback point: no update is lost between two at the same time
\* (binary_install.rs:366, 530).
THEOREM RollbackPointIsKept == Spec => RollbackPointIsLastActive
<1>1. ASSUME IInv, [Next]_vars
      PROVE  [active' # active => /\ active'.previous = active.current
                                  /\ active'.previous # active'.current]_vars
  <2> SUFFICES ASSUME active' # active
               PROVE  /\ active'.previous = active.current
                      /\ active'.previous # active'.current
    OBVIOUS
  <2>1. ASSUME NEW p \in Process, Step(p) PROVE Activate(p) \/ Rollback(p)
    BY <2>1 DEF Step, Acquire, CheckInstalled, Copy, CopyRest, Publish, WriteLauncher,
       SetExecutable, ReadActivation
  <2>2. PICK p \in Process : Activate(p) \/ Rollback(p)
    BY <1>1, <2>1 DEF Next, StartInstall, StartRollback, Crash, ReadCurrent, UseRelease,
       ChangeCandidate, Damage, vars
  <2>3. proc[p].read = active
    BY <1>1, <2>2 DEF Activate, Rollback, At, IInv, ReadIsCurrent
  <2>4. CASE Activate(p)
    BY <2>3, <2>4 DEF Activate
  <2>5. CASE Rollback(p)
    BY <2>3, <2>5 DEF Rollback, RollbackPoint
  <2>6. QED BY <2>2, <2>4, <2>5
<1>2. QED BY <1>1, IInvHolds, PTL DEF Spec, RollbackPointIsLastActive
=============================================================================
