------------------------- MODULE ProjectFilesProofs -------------------------
(***************************************************************************)
(* Proofs about the files the adf commands keep in a project:              *)
(* FrameworkDelivery, for any number of processes, Releases, keys, bundles *)
(* and lock files, and ProjectSetup, for any number of commands, states of *)
(* the sources, Decisions and steps of the user.                           *)
(***************************************************************************)
EXTENDS FrameworkDelivery, ProjectSetup, TLAPS

------------------------------------------------------------------------------
(***************************************************************************)
(* FrameworkDelivery.                                                      *)
(***************************************************************************)

LEMMA NothingIsIdle ==
    /\ Nothing \in CommandState
    /\ Nothing.pc = "idle"
  BY DEF Nothing, CommandState, Phase, At

LEMMA RestorePointsAreTexts == TypeOK => RestorePoints \subseteq Text
  BY DEF TypeOK, RestorePoints

------------------------------------------------------------------------------
LEMMA TypeInit == Init => TypeOK
  <1> SUFFICES ASSUME Init PROVE TypeOK
    OBVIOUS
  <1> USE DeliveryAssumption DEF Init
  <1>1. active \in Text /\ active.lock \in Lock
    BY DEF Text
  <1>2. cache \in [Release -> Tree \cup {None}]
    OBVIOUS
  <1>3. proc \in [Process -> CommandState] /\ \A p \in Process : proc[p].pc = "idle"
    BY NothingIsIdle
  <1>4. backups \in [Lock -> Text \cup {None}]
    OBVIOUS
  <1> QED
    BY <1>1, <1>2, <1>3, <1>4 DEF TypeOK

\* Accept leaves the types alone whatever lock file it is given.
LEMMA TypeAccept ==
    ASSUME TypeOK, NEW p \in Process, NEW text \in Text, NEW use, Accept(p, text, use)
    PROVE  TypeOK'
  <1>1. text # None
    BY DeliveryAssumption
  <1>2. text.lock \in Lock
    BY DEF Text
  <1>3. proc' \in [Process -> CommandState]
    BY DEF TypeOK, Accept, Nothing, CommandState, Phase, At
  <1>4. \A q \in Process : proc'[q] = IF q = p THEN At("accepted", text, None, None)
                                               ELSE proc[q]
    BY DEF TypeOK, Accept
  <1>5. authorised' \subseteq Lock
    BY <1>2 DEF TypeOK, Accept
  <1> QED
    BY <1>1, <1>3, <1>4, <1>5 DEF TypeOK, Accept, Nothing, At

LEMMA TypeNext == TypeOK /\ [Next]_vars => TypeOK'
  <1> SUFFICES ASSUME TypeOK, [Next]_vars PROVE TypeOK'
    OBVIOUS
  <1> USE DeliveryAssumption
  <1>1. ASSUME NEW p \in Process, NEW text \in Candidate, NEW bundle \in Bundle,
               InstallStart(p, text, bundle)
        PROVE  TypeOK'
    BY <1>1 DEF InstallStart, TypeOK, Nothing, CommandState, Phase, At
  <1>2. ASSUME NEW p \in Process, NEW bundle \in Bundle, InstallCopy(p, bundle)
        PROVE  TypeOK'
    BY <1>2 DEF InstallCopy, TypeOK, CommandState, Phase, At
  <1>3. ASSUME NEW p \in Process, InstallVerifyCopy(p)
        PROVE  TypeOK'
    BY <1>3, NothingIsIdle DEF InstallVerifyCopy, TypeOK, CommandState, Phase, At
  <1>4. ASSUME NEW p \in Process, InstallRename(p)
        PROVE  TypeOK'
    BY <1>4, NothingIsIdle DEF InstallRename, TypeOK, CommandState, Phase, At
  <1>5. ASSUME NEW p \in Process, NEW text \in Candidate, SwitchStart(p, text)
        PROVE  TypeOK'
    BY <1>5, TypeAccept DEF SwitchStart
  <1>6. ASSUME NEW p \in Process, RollbackStart(p)
        PROVE  TypeOK'
    BY <1>6, TypeAccept, RestorePointsAreTexts DEF RollbackStart
  <1>7. ASSUME NEW p \in Process, SwitchReadActive(p)
        PROVE  TypeOK'
    BY <1>7 DEF SwitchReadActive, TypeOK, CommandState, Phase, At
  <1>8. ASSUME NEW p \in Process, SwitchCheckBackup(p)
        PROVE  TypeOK'
    BY <1>8, NothingIsIdle DEF SwitchCheckBackup, AfterBackupCheck, TypeOK, CommandState, Phase, At
  <1>9. ASSUME NEW p \in Process, SwitchBackup(p)
        PROVE  TypeOK'
    BY <1>9 DEF SwitchBackup, BackupText, TypeOK, CommandState, Phase, At
  <1>10. ASSUME NEW p \in Process, SwitchReplace(p)
         PROVE  TypeOK'
    BY <1>10, NothingIsIdle DEF SwitchReplace, TypeOK, CommandState, Phase, At
  <1>11. ASSUME NEW p \in Process, Crash(p)
         PROVE  TypeOK'
    BY <1>11, NothingIsIdle DEF Crash, TypeOK
  <1>12. ASSUME NEW key \in Key, NEW status \in Status, EditTrust(key, status)
         PROVE  TypeOK'
    BY <1>12 DEF EditTrust, TypeOK
  <1>13. ASSUME NEW r \in Release, NEW tree \in Bundle \cup {None}, Damage(r, tree)
         PROVE  TypeOK'
    BY <1>13 DEF Damage, TypeOK
  <1>14. CASE UNCHANGED vars
    BY <1>14 DEF vars, TypeOK
  <1> QED
    BY <1>1, <1>2, <1>3, <1>4, <1>5, <1>6, <1>7, <1>8, <1>9, <1>10, <1>11, <1>12, <1>13, <1>14
       DEF Next, Install, Switch

\* Every file and local of delivery.rs keeps its type, whatever runs.
THEOREM TypeCorrect == Spec => []TypeOK
  BY TypeInit, TypeNext, PTL DEF Spec

------------------------------------------------------------------------------
(***************************************************************************)
(* Which locks can become active, and what keeps their Releases in place.  *)
(***************************************************************************)
Core == ChosenLocksAreGood /\ ChosenReleasesAreIntact /\ BackupsAreGenuine

\* A step that no switch takes, or that only moves one along, keeps the chosen
\* locks.
Quiet ==
    /\ UNCHANGED <<active, backups, onceActive, authorised>>
    /\ \A p \in Process :
          proc'[p].pc \in Switching => /\ proc[p].pc \in Switching
                                       /\ proc'[p].text = proc[p].text
    /\ \A p \in Process :
          proc'[p].pc \in HasRead =>
              proc'[p].seen = IF proc[p].pc \in HasRead THEN proc[p].seen ELSE active

LEMMA QuietChosen ==
    ASSUME Quiet
    PROVE  Chosen' \subseteq Chosen
  BY DEF Quiet, Chosen

LEMMA QuietGood ==
    ASSUME Quiet, ChosenLocksAreGood, BackupsAreGenuine
    PROVE  ChosenLocksAreGood' /\ BackupsAreGenuine'
  <1>1. Chosen' \subseteq Chosen
    BY QuietChosen
  <1>2. BackupsAreGenuine'
    BY DEF Quiet, BackupsAreGenuine
  <1>3. \A text \in Chosen' : text.lock \in authorised' /\ text.lock \in ValidLock
    BY <1>1 DEF Quiet, ChosenLocksAreGood
  <1>4. \A q \in Process : proc'[q].pc \in HasRead => proc'[q].seen \in onceActive'
    BY DEF Quiet, ChosenLocksAreGood
  <1> QED
    BY <1>2, <1>3, <1>4 DEF Quiet, ChosenLocksAreGood

LEMMA QuietIntact ==
    ASSUME Quiet, ChosenReleasesAreIntact, UNCHANGED <<cache, damaged>>
    PROVE  ChosenReleasesAreIntact'
  BY QuietChosen DEF ChosenReleasesAreIntact, Matches

\* What switch and rollback accept is authorised, valid and installed: switch
\* because the signer is active, rollback because a backup was active before.
LEMMA AcceptCore ==
    ASSUME TypeOK, Core, NEW p \in Process, NEW text \in Text, NEW use, Accept(p, text, use),
           text.lock \in authorised'
    PROVE  Core'
  <1>1. \A q \in Process : proc'[q] = IF q = p THEN At("accepted", text, None, None) ELSE proc[q]
    BY DEF Accept, TypeOK
  <1>2. UNCHANGED <<cache, active, backups, onceActive, damaged>> /\ authorised \subseteq authorised'
    BY DEF Accept
  <1>3. Chosen' \subseteq Chosen \cup {text}
    BY <1>1, <1>2 DEF Chosen, At
  <1>4. text.lock \in ValidLock /\ Matches(text.lock, cache[text.lock.release])
    BY DEF Accept, Verified
  <1>5. ChosenLocksAreGood'
    <2>1. \A t \in Chosen' : t.lock \in authorised' /\ t.lock \in ValidLock
      BY <1>2, <1>3, <1>4 DEF Core, ChosenLocksAreGood
    <2>2. \A q \in Process : proc'[q].pc \in HasRead => proc'[q].seen \in onceActive'
      BY <1>1, <1>2 DEF Core, ChosenLocksAreGood, HasRead, At
    <2> QED
      BY <1>2, <2>1, <2>2 DEF Core, ChosenLocksAreGood
  <1>6. ChosenReleasesAreIntact'
    <2>1. \A t \in Chosen' : t.lock.release \notin damaged => Matches(t.lock, cache[t.lock.release])
      BY <1>3, <1>4 DEF Core, ChosenReleasesAreIntact
    <2> QED
      BY <1>2, <2>1 DEF ChosenReleasesAreIntact, Matches
  <1>7. BackupsAreGenuine'
    BY <1>2 DEF Core, BackupsAreGenuine
  <1> QED
    BY <1>5, <1>6, <1>7 DEF Core

LEMMA CoreInit == Init => Core
  <1> SUFFICES ASSUME Init PROVE Core
    OBVIOUS
  <1>1. TypeOK /\ \A p \in Process : proc[p].pc = "idle"
    BY TypeInit, NothingIsIdle DEF Init
  <1>2. Chosen = {active}
    BY <1>1 DEF Chosen, Switching, Init
  <1>3. active.lock.release \in Release
    BY <1>1 DEF TypeOK, Text, Lock
  <1>4. ChosenLocksAreGood
    BY <1>1, <1>2 DEF ChosenLocksAreGood, HasRead, Init
  <1>5. ChosenReleasesAreIntact
    BY <1>2, <1>3 DEF ChosenReleasesAreIntact, Init
  <1>6. BackupsAreGenuine
    BY DEF BackupsAreGenuine, Init
  <1> QED
    BY <1>4, <1>5, <1>6 DEF Core

LEMMA CoreNext == TypeOK /\ Core /\ [Next]_vars => Core'
  <1> SUFFICES ASSUME TypeOK, Core, [Next]_vars PROVE Core'
    OBVIOUS
  <1>0. TypeOK'
    BY TypeNext
  <1>q. ASSUME Quiet, UNCHANGED <<cache, damaged>> PROVE Core'
    BY <1>q, QuietGood, QuietIntact DEF Core
  <1>1. ASSUME NEW p \in Process, NEW text \in Candidate, NEW bundle \in Bundle,
               InstallStart(p, text, bundle)
        PROVE  Core'
    BY <1>1, <1>q DEF InstallStart, Quiet, TypeOK, Switching, HasRead, At
  <1>2. ASSUME NEW p \in Process, NEW bundle \in Bundle, InstallCopy(p, bundle)
        PROVE  Core'
    BY <1>2, <1>q DEF InstallCopy, Quiet, TypeOK, Switching, HasRead, At
  <1>3. ASSUME NEW p \in Process, InstallVerifyCopy(p)
        PROVE  Core'
    BY <1>3, <1>q DEF InstallVerifyCopy, Quiet, TypeOK, Switching, HasRead, At, Nothing
  <1>4. ASSUME NEW p \in Process, InstallRename(p)
        PROVE  Core'
    <2>1. Quiet /\ damaged' = damaged
      BY <1>4 DEF InstallRename, Quiet, TypeOK, Switching, HasRead, At, Nothing
    <2>2. \A r \in Release : cache[r] # None => cache'[r] = cache[r]
      BY <1>4 DEF InstallRename, TargetIsFree, TypeOK
    <2>3. ChosenReleasesAreIntact'
      <3> SUFFICES ASSUME NEW text \in Chosen', text.lock.release \notin damaged'
                   PROVE  Matches(text.lock, cache[text.lock.release])'
        BY DEF ChosenReleasesAreIntact
      <3>1. text \in Chosen
        BY <2>1, QuietChosen
      <3>2. text \in Text
        BY <3>1 DEF Chosen, TypeOK, Switching, CommandState
      <3>3. text.lock.release \in Release
        BY <3>2 DEF Text, Lock
      <3>4. Matches(text.lock, cache[text.lock.release])
        BY <2>1, <3>1 DEF Core, ChosenReleasesAreIntact
      <3> QED
        BY <2>2, <3>3, <3>4 DEF Matches
    <2> QED
      BY <2>1, <2>3, QuietGood DEF Core
  <1>5. ASSUME NEW p \in Process, NEW text \in Candidate, SwitchStart(p, text)
        PROVE  Core'
    <2>1. text \in Text /\ Accept(p, text, "activation")
      BY <1>5, DeliveryAssumption DEF SwitchStart
    <2>2. text.lock \in authorised'
      BY <2>1 DEF Accept, Verified, Trusted, Allowed, SignerIsActive
    <2> QED
      BY <2>1, <2>2, AcceptCore
  <1>6. ASSUME NEW p \in Process, RollbackStart(p)
        PROVE  Core'
    <2>1. PICK d \in Lock : backups[d] # None /\ Accept(p, backups[d], "rollback")
      BY <1>6 DEF RollbackStart, RestorePoints
    <2>2. backups[d] \in Text
      BY <2>1 DEF TypeOK
    <2>3. backups[d] \in Chosen
      BY <2>1 DEF Core, BackupsAreGenuine, Chosen
    <2>4. backups[d].lock \in authorised'
      BY <2>1, <2>3 DEF Accept, Core, ChosenLocksAreGood
    <2> QED
      BY <2>1, <2>2, <2>4, AcceptCore
  <1>7. ASSUME NEW p \in Process, SwitchReadActive(p)
        PROVE  Core'
    BY <1>7, <1>q DEF SwitchReadActive, Quiet, TypeOK, Switching, HasRead, At
  <1>8. ASSUME NEW p \in Process, SwitchCheckBackup(p)
        PROVE  Core'
    BY <1>8, <1>q DEF SwitchCheckBackup, AfterBackupCheck, Quiet, TypeOK, Switching, HasRead, At, Nothing
  <1>9. ASSUME NEW p \in Process, SwitchBackup(p)
        PROVE  Core'
    <2>1. \A q \in Process : proc'[q] = IF q = p THEN At("replace", proc[p].text, None, proc[p].seen)
                                                 ELSE proc[q]
      BY <1>9 DEF SwitchBackup, TypeOK
    <2>2. UNCHANGED <<cache, active, onceActive, authorised, damaged>>
      BY <1>9 DEF SwitchBackup
    <2>3. Chosen' \subseteq Chosen
      BY <1>9, <2>1, <2>2 DEF Chosen, Switching, At, SwitchBackup
    <2>4. proc[p].seen \in onceActive
      BY <1>9 DEF SwitchBackup, Core, ChosenLocksAreGood, HasRead
    <2>5. ChosenLocksAreGood'
      <3>1. \A q \in Process : proc'[q].pc \in HasRead => proc'[q].seen \in onceActive'
        BY <2>1, <2>2, <2>4 DEF Core, ChosenLocksAreGood, At
      <3> QED
        BY <2>2, <2>3, <3>1 DEF Core, ChosenLocksAreGood
    <2>6. ChosenReleasesAreIntact'
      BY <2>2, <2>3 DEF Core, ChosenReleasesAreIntact, Matches
    <2>7. BackupsAreGenuine'
      BY <1>9, <2>2, <2>4 DEF SwitchBackup, BackupText, Core, BackupsAreGenuine, TypeOK
    <2> QED
      BY <2>5, <2>6, <2>7 DEF Core
  <1>10. ASSUME NEW p \in Process, SwitchReplace(p)
         PROVE  Core'
    <2>1. \A q \in Process : proc'[q] = IF q = p THEN Nothing ELSE proc[q]
      BY <1>10 DEF SwitchReplace, TypeOK
    <2>2. /\ UNCHANGED <<cache, backups, authorised, damaged>>
          /\ active' = proc[p].text
          /\ onceActive' = onceActive \cup {proc[p].text}
      BY <1>10 DEF SwitchReplace
    <2>3. Chosen' \subseteq Chosen
      BY <1>10, <2>1, <2>2, NothingIsIdle DEF Chosen, Switching, SwitchReplace
    <2>4. ChosenLocksAreGood'
      <3>1. \A q \in Process : proc'[q].pc \in HasRead => proc'[q].seen \in onceActive'
        BY <2>1, <2>2, NothingIsIdle DEF Core, ChosenLocksAreGood, HasRead
      <3> QED
        BY <2>2, <2>3, <3>1 DEF Core, ChosenLocksAreGood
    <2>5. ChosenReleasesAreIntact'
      BY <2>2, <2>3 DEF Core, ChosenReleasesAreIntact, Matches
    <2>6. BackupsAreGenuine'
      BY <2>2 DEF Core, BackupsAreGenuine
    <2> QED
      BY <2>4, <2>5, <2>6 DEF Core
  <1>11. ASSUME NEW p \in Process, Crash(p)
         PROVE  Core'
    BY <1>11, <1>q DEF Crash, Quiet, TypeOK, Switching, HasRead, At, Nothing
  <1>12. ASSUME NEW key \in Key, NEW status \in Status, EditTrust(key, status)
         PROVE  Core'
    BY <1>12, <1>q DEF EditTrust, Quiet, TypeOK, Switching, HasRead
  <1>13. ASSUME NEW r \in Release, NEW tree \in Bundle \cup {None}, Damage(r, tree)
         PROVE  Core'
    <2>1. Quiet
      BY <1>13 DEF Damage, Quiet, Switching, HasRead
    <2>2. \A s : s \notin damaged' => s \notin damaged /\ cache'[s] = cache[s]
      BY <1>13 DEF Damage, TypeOK
    <2>3. ChosenReleasesAreIntact'
      BY <2>1, <2>2, QuietChosen DEF Core, ChosenReleasesAreIntact, Matches
    <2> QED
      BY <2>1, <2>3, QuietGood DEF Core
  <1>14. CASE UNCHANGED vars
    BY <1>14, <1>q DEF vars, Quiet, Switching, HasRead
  <1> QED
    BY <1>1, <1>2, <1>3, <1>4, <1>5, <1>6, <1>7, <1>8, <1>9, <1>10, <1>11, <1>12, <1>13, <1>14
       DEF Next, Install, Switch

------------------------------------------------------------------------------
(***************************************************************************)
(* What the backups are worth while no switch has been overtaken.          *)
(***************************************************************************)
\* A step that writes neither lock file and takes no process to a write keeps
\* the agreement.
Aside ==
    /\ UNCHANGED <<active, backups, onceActive, overtaken>>
    /\ \A p \in Process :
          proc'[p].pc \in {"backup", "replace"} => proc'[p] = proc[p]

LEMMA AsideAgrees ==
    ASSUME Aside, SwitchesAgreeOnBackups
    PROVE  SwitchesAgreeOnBackups'
  BY DEF Aside, SwitchesAgreeOnBackups

LEMMA AgreeInit == Init => SwitchesAgreeOnBackups
  <1> SUFFICES ASSUME Init PROVE SwitchesAgreeOnBackups
    OBVIOUS
  <1>1. \A p \in Process : proc[p].pc = "idle"
    BY NothingIsIdle DEF Init
  <1> QED
    BY <1>1 DEF Init, SwitchesAgreeOnBackups

\* Looking for the backup: if there is none, the lock that was read must still
\* be the active one, and every lock of that digest that ever was active is it.
LEMMA AgreeCheckBackup ==
    ASSUME TypeOK, Core, SwitchesAgreeOnBackups, NEW p \in Process, SwitchCheckBackup(p)
    PROVE  SwitchesAgreeOnBackups'
  <1> SUFFICES ASSUME ~overtaken PROVE SwitchesAgreeOnBackups'
    BY DEF SwitchesAgreeOnBackups, SwitchCheckBackup
  <1> DEFINE existing == backups[proc[p].seen.lock]
  <1>1. UNCHANGED <<active, backups, onceActive, overtaken>>
    BY DEF SwitchCheckBackup
  <1>2. \A q \in Process : q # p => proc'[q] = proc[q]
    BY DEF SwitchCheckBackup, TypeOK
  <1>3. CASE existing = None
    <2>1. proc'[p] = At("backup", proc[p].text, None, proc[p].seen)
      BY <1>3 DEF SwitchCheckBackup, AfterBackupCheck, TypeOK
    <2>2. \A t \in onceActive : t.lock = proc[p].seen.lock => t = active
      <3> SUFFICES ASSUME NEW t \in onceActive, t.lock = proc[p].seen.lock, t # active
                   PROVE  FALSE
        OBVIOUS
      <3>1. backups[t.lock] = t
        BY DEF SwitchesAgreeOnBackups
      <3>2. t \in Text
        BY DEF TypeOK
      <3> QED
        BY <1>3, <3>1, <3>2, DeliveryAssumption
    <2>3. \A q \in Process : proc[q].pc = "backup" => proc[q].seen \in onceActive
      BY DEF Core, ChosenLocksAreGood, HasRead
    <2>4. proc[p].seen \in onceActive
      BY DEF SwitchCheckBackup, Core, ChosenLocksAreGood, HasRead
    <2>5. \A q \in Process : (proc[q].pc = "backup" /\ proc[q].seen.lock = proc[p].seen.lock)
                                 => proc[q].seen = proc[p].seen
      BY <2>2, <2>3, <2>4
    <2> QED
      BY <1>1, <1>2, <1>3, <2>1, <2>5 DEF SwitchesAgreeOnBackups, At
  <1>4. CASE existing # None /\ existing = proc[p].seen
    <2>1. proc'[p] = At("replace", proc[p].text, None, proc[p].seen)
      BY <1>4 DEF SwitchCheckBackup, AfterBackupCheck, TypeOK
    <2> QED
      BY <1>1, <1>2, <1>4, <2>1 DEF SwitchesAgreeOnBackups, At
  <1>5. CASE existing # None /\ existing # proc[p].seen
    <2>1. proc'[p] = Nothing
      BY <1>5 DEF SwitchCheckBackup, AfterBackupCheck, TypeOK
    <2> QED
      BY <1>1, <1>2, <2>1, NothingIsIdle, AsideAgrees DEF Aside
  <1> QED
    BY <1>3, <1>4, <1>5

\* Writing the backup: whoever needs a backup of that digest needs this one.
LEMMA AgreeBackup ==
    ASSUME TypeOK, Core, SwitchesAgreeOnBackups, NEW p \in Process, SwitchBackup(p)
    PROVE  SwitchesAgreeOnBackups'
  <1> SUFFICES ASSUME ~overtaken PROVE SwitchesAgreeOnBackups'
    BY DEF SwitchesAgreeOnBackups, SwitchBackup
  <1> DEFINE mine == proc[p].seen
  <1>1. UNCHANGED <<active, onceActive, overtaken>>
    BY DEF SwitchBackup
  <1>2. \A q \in Process : proc'[q] = IF q = p THEN At("replace", proc[p].text, None, mine)
                                               ELSE proc[q]
    BY DEF SwitchBackup, TypeOK
  <1>3. mine \in onceActive /\ mine \in Text /\ mine.lock \in Lock
    BY DEF SwitchBackup, Core, ChosenLocksAreGood, HasRead, TypeOK, Text
  <1>4. backups'[mine.lock] = mine
    BY <1>3 DEF SwitchBackup, BackupText, TypeOK
  <1>5. \A d \in Lock : d # mine.lock => backups'[d] = backups[d]
    BY DEF SwitchBackup, TypeOK
  <1>6. backups[mine.lock] \in {None, mine}
    BY DEF SwitchBackup, SwitchesAgreeOnBackups
  <1>7. \A t \in Text : backups[t.lock] = t => backups'[t.lock] = t
    <2> SUFFICES ASSUME NEW t \in Text, backups[t.lock] = t PROVE backups'[t.lock] = t
      OBVIOUS
    <2>1. t.lock \in Lock /\ t # None
      BY DeliveryAssumption DEF Text
    <2> QED
      BY <1>4, <1>5, <1>6, <2>1
  <1>8. \A q \in Process : proc[q].pc \in {"backup", "replace"} => proc[q].seen \in Text
    BY DEF Core, ChosenLocksAreGood, HasRead, TypeOK
  <1>9. \A t \in onceActive' : t = active' \/ backups'[t.lock] = t
    BY <1>1, <1>7 DEF SwitchesAgreeOnBackups, TypeOK
  <1>10. \A q \in Process : proc'[q].pc = "replace" => backups'[proc'[q].seen.lock] = proc'[q].seen
    BY <1>2, <1>4, <1>7, <1>8 DEF SwitchesAgreeOnBackups, At
  <1>11. \A q \in Process : proc'[q].pc = "backup"
                                => backups'[proc'[q].seen.lock] \in {None, proc'[q].seen}
    <2> SUFFICES ASSUME NEW q \in Process, proc'[q].pc = "backup"
                 PROVE  backups'[proc[q].seen.lock] \in {None, proc[q].seen}
      BY <1>2 DEF At
    <2>1. proc[q].pc = "backup" /\ proc[q].seen.lock \in Lock
      BY <1>2, <1>8 DEF At, Text
    <2>2. CASE proc[q].seen.lock = mine.lock
      <3>1. proc[q].seen = mine
        BY <2>1, <2>2 DEF SwitchBackup, SwitchesAgreeOnBackups
      <3> QED
        BY <1>4, <3>1
    <2>3. CASE proc[q].seen.lock # mine.lock
      BY <1>5, <2>1, <2>3 DEF SwitchesAgreeOnBackups
    <2> QED
      BY <2>2, <2>3
  <1>12. \A q, r \in Process :
            (/\ proc'[q].pc = "backup" /\ proc'[r].pc = "backup"
             /\ proc'[q].seen.lock = proc'[r].seen.lock) => proc'[q].seen = proc'[r].seen
    BY <1>2 DEF SwitchesAgreeOnBackups, At
  <1> QED
    BY <1>9, <1>10, <1>11, <1>12 DEF SwitchesAgreeOnBackups

\* Replacing the active lock: unless it has been overtaken, the lock that goes
\* away is the one the process backed up.
LEMMA AgreeReplace ==
    ASSUME TypeOK, Core, SwitchesAgreeOnBackups, NEW p \in Process, SwitchReplace(p)
    PROVE  SwitchesAgreeOnBackups'
  <1> SUFFICES ASSUME ~overtaken' PROVE SwitchesAgreeOnBackups'
    BY DEF SwitchesAgreeOnBackups
  <1>1. ~overtaken /\ active = proc[p].seen
    BY DEF SwitchReplace, TypeOK
  <1>2. backups' = backups /\ active' = proc[p].text /\ onceActive' = onceActive \cup {proc[p].text}
    BY DEF SwitchReplace
  <1>3. \A q \in Process : proc'[q] = IF q = p THEN Nothing ELSE proc[q]
    BY DEF SwitchReplace, TypeOK
  <1>4. backups[active.lock] = active
    BY <1>1 DEF SwitchReplace, SwitchesAgreeOnBackups
  <1>5. \A t \in onceActive' : t = active' \/ backups'[t.lock] = t
    BY <1>1, <1>2, <1>4 DEF SwitchesAgreeOnBackups
  <1> QED
    BY <1>1, <1>2, <1>3, <1>5, NothingIsIdle DEF SwitchesAgreeOnBackups

LEMMA AgreeNext == TypeOK /\ Core /\ SwitchesAgreeOnBackups /\ [Next]_vars => SwitchesAgreeOnBackups'
  <1> SUFFICES ASSUME TypeOK, Core, SwitchesAgreeOnBackups, [Next]_vars
               PROVE  SwitchesAgreeOnBackups'
    OBVIOUS
  <1>1. ASSUME NEW p \in Process, Install(p)
        PROVE  SwitchesAgreeOnBackups'
    <2>1. Aside
      BY <1>1 DEF Install, InstallStart, InstallCopy, InstallVerifyCopy, InstallRename, Aside,
                  TypeOK, At, Nothing
    <2> QED
      BY <2>1, AsideAgrees
  <1>2. ASSUME NEW p \in Process, NEW text, NEW use, Accept(p, text, use)
        PROVE  SwitchesAgreeOnBackups'
    BY <1>2, AsideAgrees DEF Accept, Aside, TypeOK, At
  <1>3. ASSUME NEW p \in Process, SwitchReadActive(p)
        PROVE  SwitchesAgreeOnBackups'
    BY <1>3, AsideAgrees DEF SwitchReadActive, Aside, TypeOK, At
  <1>4. ASSUME NEW p \in Process, Switch(p)
        PROVE  SwitchesAgreeOnBackups'
    BY <1>2, <1>3, <1>4, AgreeCheckBackup, AgreeBackup, AgreeReplace
       DEF Switch, SwitchStart, RollbackStart
  <1>5. ASSUME NEW p \in Process, Crash(p)
        PROVE  SwitchesAgreeOnBackups'
    BY <1>5, AsideAgrees, NothingIsIdle DEF Crash, Aside, TypeOK
  <1>6. ASSUME NEW key \in Key, NEW status \in Status, EditTrust(key, status)
        PROVE  SwitchesAgreeOnBackups'
    BY <1>6, AsideAgrees DEF EditTrust, Aside
  <1>7. ASSUME NEW r \in Release, NEW tree \in Bundle \cup {None}, Damage(r, tree)
        PROVE  SwitchesAgreeOnBackups'
    BY <1>7, AsideAgrees DEF Damage, Aside
  <1>8. CASE UNCHANGED vars
    BY <1>8, AsideAgrees DEF vars, Aside
  <1> QED
    BY <1>1, <1>4, <1>5, <1>6, <1>7, <1>8 DEF Next

------------------------------------------------------------------------------
\* The inductive invariant of the delivery commands, for any number of
\* processes and any edits of the trust store and the cache.
THEOREM DeliveryInvariantHolds == Spec => []DeliveryInvariant
  <1>1. Init => DeliveryInvariant
    BY TypeInit, CoreInit, AgreeInit DEF DeliveryInvariant, Core
  <1>2. DeliveryInvariant /\ [Next]_vars => DeliveryInvariant'
    BY TypeNext, CoreNext, AgreeNext DEF DeliveryInvariant, Core
  <1> QED
    BY <1>1, <1>2, PTL DEF Spec

\* No lock becomes active that was not accepted under an active key, although
\* rollback itself accepts retired ones.
THEOREM ActiveIsAuthorised == Spec => []OnlyAuthorisedLocksAreActive
  <1>1. DeliveryInvariant => OnlyAuthorisedLocksAreActive
    BY DEF DeliveryInvariant, ChosenLocksAreGood, Chosen, OnlyAuthorisedLocksAreActive
  <1> QED
    BY <1>1, DeliveryInvariantHolds, PTL

\* A Release that was activated stays installed as its lock pins it, and retiring
\* its key neither stops it nor the way back to it.
THEOREM ActivatedStayUsable == Spec => []ActivatedReleasesStayUsable
  <1>1. DeliveryInvariant => ActivatedReleasesStayUsable
    <2> SUFFICES ASSUME DeliveryInvariant, NEW text \in onceActive,
                        text.lock.release \notin damaged
                 PROVE  LET tree == cache[text.lock.release]
                        IN /\ Matches(text.lock, tree)
                           /\ text.lock \in ValidLock
                           /\ (tree.signer # Unsigned => trust[tree.signer] # "revoked")
                                  => /\ Verified(text.lock, tree, "runtime")
                                     /\ Verified(text.lock, tree, "rollback")
      BY DEF ActivatedReleasesStayUsable
    <2> DEFINE tree == cache[text.lock.release]
    <2>1. text \in Chosen
      BY DEF Chosen
    <2>2. Matches(text.lock, tree) /\ text.lock \in ValidLock
      BY <2>1 DEF DeliveryInvariant, ChosenLocksAreGood, ChosenReleasesAreIntact
    <2>3. text.lock.release \in Release
      BY DEF DeliveryInvariant, TypeOK, Text, Lock
    <2>4. tree.signer # Unsigned => trust[tree.signer] \in Status
      <3>1. tree \in Tree
        BY <2>2, <2>3 DEF DeliveryInvariant, TypeOK, Matches
      <3> QED
        BY <3>1 DEF DeliveryInvariant, TypeOK, Tree, Signer
    <2> QED
      BY <2>2, <2>4 DEF Verified, Trusted, Allowed, Status
  <1> QED
    BY <1>1, DeliveryInvariantHolds, PTL

\* Switches that do not overlap lose no lock, wherever they are interrupted.
THEOREM ReplacedAreBackedUp == Spec => []ReplacedLocksAreBackedUp
  <1>1. DeliveryInvariant => ReplacedLocksAreBackedUp
    BY DEF DeliveryInvariant, SwitchesAgreeOnBackups, ReplacedLocksAreBackedUp
  <1> QED
    BY <1>1, DeliveryInvariantHolds, PTL

\* Whatever overlaps, rollback can only restore a lock that was active.
THEOREM BackupsStayGenuine == Spec => []BackupsAreGenuine
  <1>1. DeliveryInvariant => BackupsAreGenuine
    BY DEF DeliveryInvariant
  <1> QED
    BY <1>1, DeliveryInvariantHolds, PTL

------------------------------------------------------------------------------
(***************************************************************************)
(* ProjectSetup.                                                           *)
(***************************************************************************)

\* The files of project init by their number.
LEMMA InitFilesAre ==
    /\ Len(InitFiles) = 4 /\ InitFile = {1, 2, 3, 4}
    /\ InitFiles[1] = "trust" /\ InitFiles[2] = "config"
    /\ InitFiles[3] = "observation" /\ InitFiles[4] = "asset"
    /\ Target = {"trust", "config", "observation", "asset"}
    /\ Path = {"trust", "config", "observation", "asset", "agents", "staged", "draft", "change"}
  <1>1. /\ Len(InitFiles) = 4
        /\ InitFiles[1] = "trust" /\ InitFiles[2] = "config"
        /\ InitFiles[3] = "observation" /\ InitFiles[4] = "asset"
    BY DEF InitFiles
  <1>2. InitFile = {1, 2, 3, 4}
    BY <1>1 DEF InitFile
  <1>3. Target = {"trust", "config", "observation", "asset"}
    BY <1>1, <1>2 DEF Target, InitFile
  <1> QED
    BY <1>1, <1>2, <1>3 DEF Path

LEMMA InitFilesFacts ==
    /\ \A i \in InitFile : InitFiles[i] \in Target /\ InitFiles[i] \in Path
    /\ \A f \in Target : \E i \in InitFile : InitFiles[i] = f
    /\ \A i, j \in InitFile : InitFiles[i] = InitFiles[j] => i = j
    /\ \A i \in InitFile : InitFiles[i] = "observation" <=> i = 3
    /\ \A i \in InitFile : InitFiles[i] \notin {"agents", "staged", "draft", "change"}
    /\ \A i \in InitFile : i \in 1..4
  BY InitFilesAre

LEMMA FileIs ==
    ASSUME NEW by \in Command \union {Nil}, NEW whole \in BOOLEAN
    PROVE  /\ [by |-> by, whole |-> whole] \in FileState
           /\ [by |-> by, whole |-> whole] # Nil
  <1>1. [by |-> by, whole |-> whole] \in FileState
    BY DEF FileState
  <1> QED
    BY <1>1, SetupAssumption

LEMMA StepsAre ==
    /\ DOMAIN Steps = {"none", "init", "change", "observe", "promote"}
    /\ Steps["none"] = {"idle"} /\ Steps["init"] = InitSteps \union {"done"}
    /\ Steps["change"] = {"create", "fill", "done"}
    /\ Steps["observe"] = {"base", "sources", "create", "fill", "done"}
    /\ Steps["promote"] = {"base", "sources", "validate", "read", "recheck", "rename", "done"}
  BY DEF Steps

LEMMA IdleRun ==
    /\ Idle \in Run /\ Idle.op = "none" /\ Idle.pc = "idle" /\ Idle.at = 0 /\ Idle.gone = 0
    /\ Idle.late = {} /\ Idle.draft = Nil /\ Idle.base = Nil /\ Idle.sources = Nil
    /\ Idle.text = 0
  BY InitFilesAre, StepsAre DEF Idle, Run, Step

\* A field of a run, and the step its operation allows.
LEMMA RunFields ==
    ASSUME NEW r \in Run
    PROVE  /\ r.op \in {"none", "init", "change", "observe", "promote"}
           /\ r.pc \in Step /\ r.at \in 0..4 /\ r.gone \in 0..4
           /\ r.draft \in DraftType \union {Nil} /\ r.base \in Content \union {Nil}
           /\ r.sources \in Source \union {Nil} /\ r.text \in Nat
           /\ r.late \in SUBSET (Thing \union {"agents"})
           /\ r.late \subseteq {"observation", "sources", "decisions", "agents"}
  BY InitFilesAre, StepsAre DEF Run, Thing

(***************************************************************************)
(* What a step does to the runs.                                           *)
(***************************************************************************)
OthersSame(c) == \A d \in Command : d # c => cmd'[d] = cmd[d]
\* Everything in a run but its step.
SameBut(r, s) ==
    /\ r.op = s.op /\ r.at = s.at /\ r.gone = s.gone /\ r.draft = s.draft
    /\ r.base = s.base /\ r.sources = s.sources /\ r.late = s.late

LEMMA RunSet ==
    ASSUME cmd \in [Command -> Run], NEW c \in Command, NEW r \in Run,
           cmd' = [cmd EXCEPT ![c] = r]
    PROVE  cmd' \in [Command -> Run] /\ cmd'[c] = r /\ OthersSame(c)
  BY DEF OthersSame

LEMMA FailsFields ==
    ASSUME cmd \in [Command -> Run], NEW c \in Command, Fails(c)
    PROVE  cmd' \in [Command -> Run] /\ cmd'[c] = Idle /\ OthersSame(c)
  BY IdleRun DEF OthersSame, Fails

LEMMA GoesFields ==
    ASSUME cmd \in [Command -> Run], NEW c \in Command, NEW pc \in Step, Goes(c, pc)
    PROVE  /\ cmd' \in [Command -> Run] /\ cmd'[c].pc = pc /\ SameBut(cmd'[c], cmd[c])
           /\ cmd'[c].text = cmd[c].text
           /\ OthersSame(c)
  BY InitFilesAre, StepsAre DEF OthersSame, Goes, SameBut, Run

LEMMA SucceedsFields ==
    ASSUME cmd \in [Command -> Run], NEW c \in Command, Succeeds(c)
    PROVE  /\ cmd' \in [Command -> Run] /\ cmd'[c].op = cmd[c].op /\ cmd'[c].pc = "done"
           /\ cmd'[c].at = 0 /\ cmd'[c].gone = 0 /\ cmd'[c].late = {}
           /\ OthersSame(c)
  BY InitFilesAre, StepsAre, IdleRun DEF OthersSame, Succeeds, Run, Step

\* A run that starts, or fails at once.
LEMMA StartsFields ==
    ASSUME cmd \in [Command -> Run], NEW c \in Command, NEW op \in DOMAIN Steps,
           NEW pc \in Step, NEW ok \in BOOLEAN, Starts(c, op, pc, ok)
    PROVE  /\ cmd[c].pc \in Stopped
           /\ cmd' \in [Command -> Run]
           /\ \/ ok /\ cmd'[c].op = op /\ cmd'[c].pc = pc
              \/ cmd'[c].op = "none" /\ cmd'[c].pc = "idle"
           /\ cmd'[c].at = 0 /\ cmd'[c].gone = 0 /\ cmd'[c].late = {}
           /\ OthersSame(c)
  <1>1. CASE ok
    <2> DEFINE r == [Idle EXCEPT !.op = op, !.pc = pc]
    <2>1. r \in Run /\ r.op = op /\ r.pc = pc /\ r.at = 0 /\ r.gone = 0 /\ r.late = {}
      BY IdleRun DEF Run
    <2>2. cmd' = [cmd EXCEPT ![c] = r] /\ cmd[c].pc \in Stopped
      BY <1>1 DEF Starts
    <2> HIDE DEF r
    <2> QED
      BY <1>1, <2>1, <2>2, RunSet
  <1>2. CASE ~ok
    BY <1>2, FailsFields, IdleRun DEF Starts
  <1> QED
    BY <1>1, <1>2

LEMMA LateRun ==
    ASSUME NEW r \in Run, NEW t \in Thing \union {"agents"}
    PROVE  LET l == [r EXCEPT !.late = @ \union {t}]
           IN  /\ l \in Run /\ l.op = r.op /\ l.pc = r.pc /\ l.at = r.at /\ l.gone = r.gone
               /\ l.draft = r.draft /\ l.base = r.base /\ l.sources = r.sources
               /\ l.text = r.text /\ l.late = r.late \union {t}
  <1>1. r.late \union {t} \in SUBSET (Thing \union {"agents"})
    BY DEF Run
  <1> QED
    BY <1>1 DEF Run

\* The runs after somebody changed t.
LEMMA DisturbedFields ==
    ASSUME cmd \in [Command -> Run], NEW t \in Thing
    PROVE  /\ Disturbed(t) \in [Command -> Run]
           /\ \A d \in Command :
                 /\ Disturbed(t)[d].op = cmd[d].op /\ Disturbed(t)[d].pc = cmd[d].pc
                 /\ Disturbed(t)[d].at = cmd[d].at /\ Disturbed(t)[d].gone = cmd[d].gone
                 /\ Disturbed(t)[d].draft = cmd[d].draft /\ Disturbed(t)[d].base = cmd[d].base
                 /\ Disturbed(t)[d].sources = cmd[d].sources
                 /\ IF cmd[d].op = "promote" /\ cmd[d].pc \in Looked(t)
                    THEN Disturbed(t)[d].late = cmd[d].late \union {t}
                    ELSE Disturbed(t)[d] = cmd[d]
  <1>1. \A d \in Command :
           Disturbed(t)[d] = IF cmd[d].op = "promote" /\ cmd[d].pc \in Looked(t)
                             THEN [cmd[d] EXCEPT !.late = @ \union {t}] ELSE cmd[d]
    BY DEF Disturbed
  <1>2. ASSUME NEW d \in Command
        PROVE  /\ Disturbed(t)[d] \in Run
               /\ Disturbed(t)[d].op = cmd[d].op /\ Disturbed(t)[d].pc = cmd[d].pc
               /\ Disturbed(t)[d].at = cmd[d].at /\ Disturbed(t)[d].gone = cmd[d].gone
               /\ Disturbed(t)[d].draft = cmd[d].draft /\ Disturbed(t)[d].base = cmd[d].base
               /\ Disturbed(t)[d].sources = cmd[d].sources
               /\ IF cmd[d].op = "promote" /\ cmd[d].pc \in Looked(t)
                  THEN Disturbed(t)[d].late = cmd[d].late \union {t}
                  ELSE Disturbed(t)[d] = cmd[d]
    <2> DEFINE l == [cmd[d] EXCEPT !.late = @ \union {t}]
    <2>1. cmd[d] \in Run
      OBVIOUS
    <2>2. /\ l \in Run /\ l.op = cmd[d].op /\ l.pc = cmd[d].pc /\ l.at = cmd[d].at
          /\ l.gone = cmd[d].gone /\ l.draft = cmd[d].draft /\ l.base = cmd[d].base
          /\ l.sources = cmd[d].sources /\ l.late = cmd[d].late \union {t}
      BY <2>1, LateRun
    <2>3. Disturbed(t)[d] = IF cmd[d].op = "promote" /\ cmd[d].pc \in Looked(t)
                            THEN l ELSE cmd[d]
      BY <1>1
    <2> HIDE DEF l
    <2> QED
      BY <2>1, <2>2, <2>3
  <1>3. \A d \in Command :
           (IF cmd[d].op = "promote" /\ cmd[d].pc \in Looked(t)
            THEN [cmd[d] EXCEPT !.late = @ \union {t}] ELSE cmd[d]) \in Run
    BY <1>1, <1>2
  <1>4. Disturbed(t) \in [Command -> Run]
    BY ONLY <1>3 DEF Disturbed
  <1> QED
    BY <1>2, <1>4

\* The runs after somebody saved AGENTS.md.
LEMMA MissedFields ==
    ASSUME cmd \in [Command -> Run]
    PROVE  /\ Missed \in [Command -> Run]
           /\ \A d \in Command :
                 /\ Missed[d].op = cmd[d].op /\ Missed[d].pc = cmd[d].pc
                 /\ Missed[d].at = cmd[d].at /\ Missed[d].gone = cmd[d].gone
                 /\ Missed[d].sources = cmd[d].sources
                 /\ IF cmd[d].op = "init" /\ cmd[d].pc \in MergeSteps
                    THEN "agents" \in Missed[d].late ELSE Missed[d] = cmd[d]
  <1>1. ASSUME NEW d \in Command
        PROVE  LET m == IF cmd[d].op = "init" /\ cmd[d].pc \in MergeSteps
                        THEN [cmd[d] EXCEPT !.late = @ \union {"agents"}] ELSE cmd[d]
               IN  /\ m \in Run /\ m.op = cmd[d].op /\ m.pc = cmd[d].pc
                   /\ m.at = cmd[d].at /\ m.gone = cmd[d].gone /\ m.sources = cmd[d].sources
                   /\ IF cmd[d].op = "init" /\ cmd[d].pc \in MergeSteps
                      THEN "agents" \in m.late ELSE m = cmd[d]
    BY <1>1, LateRun
  <1> QED
    BY <1>1 DEF Missed

------------------------------------------------------------------------------
(***************************************************************************)
(* Project init: who owns which file.                                      *)
(***************************************************************************)
InitAcknowledged ==
    \A c \in Command : Doing(c, "init", "done") =>
       /\ \A i \in InitFile : Whole(InitFiles[i]) /\ MadeBy(c, InitFiles[i])
       /\ installed /\ agents.block

InitInv == InitIsWhere /\ FilesHaveOneOwner /\ SettledIsComplete /\ InitAcknowledged

TargetsSame == \A i \in InitFile : file'[InitFiles[i]] = file[InitFiles[i]]
Grows == (installed => installed') /\ (agents.block => agents'.block) /\ left \subseteq left'

\* A run keeps its files and is not reported complete by this step.
KeepsFiles(c) ==
    /\ cmd'[c].at = cmd[c].at /\ cmd'[c].gone = cmd[c].gone
    /\ cmd'[c].at > 0 => (cmd'[c].pc = "write" <=> cmd[c].pc = "write")
    /\ Doing(c, "init", "done")' => Doing(c, "init", "done")

LEMMA KeepsOwns ==
    ASSUME NEW c \in Command, KeepsFiles(c), NEW i
    PROVE  Owns(c, i)' <=> Owns(c, i)
  BY DEF KeepsFiles, Owns

LEMMA InitQuiet ==
    ASSUME SetupTypeOK, InitInv, InitIsWhere', TargetsSame, Grows,
           \A c \in Command : KeepsFiles(c)
    PROVE  InitInv'
  <1>1. ASSUME NEW i \in InitFile
        PROVE  /\ Whole(InitFiles[i])' <=> Whole(InitFiles[i])
               /\ \A c : MadeBy(c, InitFiles[i])' <=> MadeBy(c, InitFiles[i])
               /\ file'[InitFiles[i]].by = file[InitFiles[i]].by
    BY DEF TargetsSame, Whole, Present, MadeBy
  <1>2. \A c \in Command, i \in InitFile : Owns(c, i)' <=> Owns(c, i)
    BY KeepsOwns
  <1>3. FilesHaveOneOwner'
    <2> SUFFICES ASSUME NEW c \in Command, NEW i \in InitFile, Owns(c, i)'
                 PROVE  LET f == InitFiles[i]
                            writing == (cmd[c].pc = "write" /\ i = cmd[c].at)'
                        IN  /\ MadeBy(c, f)'
                            /\ IF writing THEN Whole(f)' => file'[f].by = Nil ELSE Whole(f)'
                            /\ \A d \in Command : (d # c => ~Owns(d, i)') /\ ~Doing(d, "init", "done")'
      BY DEF FilesHaveOneOwner
    <2>1. Owns(c, i)
      BY <1>2
    <2>2. cmd'[c].at = cmd[c].at /\ (cmd'[c].pc = "write" <=> cmd[c].pc = "write")
      <3>1. cmd'[c].at > 0
        BY InitFilesFacts, RunFields, <2>1 DEF KeepsFiles, Owns, SetupTypeOK
      <3> QED
        BY <3>1 DEF KeepsFiles
    <2>3. \A d \in Command : (d # c => ~Owns(d, i)') /\ ~Doing(d, "init", "done")'
      BY <2>1, <1>2 DEF InitInv, FilesHaveOneOwner, KeepsFiles
    <2> QED
      BY <1>1, <2>1, <2>2, <2>3 DEF InitInv, FilesHaveOneOwner
  <1>4. SettledIsComplete'
    BY <1>1, <1>2 DEF InitInv, SettledIsComplete, Grows
  <1>5. InitAcknowledged'
    BY <1>1 DEF InitInv, InitAcknowledged, KeepsFiles, Grows
  <1> QED
    BY <1>3, <1>4, <1>5 DEF InitInv

\* A run of project init that goes on without a file, from a step in which it
\* writes none.
LEMMA InitGoesOn ==
    ASSUME SetupTypeOK, InitInv, TargetsSame, Grows, NEW c \in Command,
           OthersSame(c), SameBut(cmd'[c], cmd[c]), cmd[c].op = "init",
           cmd[c].pc \notin {"write", "done"}, cmd'[c].pc \in InitSteps \ {"write"},
           /\ cmd'[c].pc # "remove" => cmd[c].gone = 0
           /\ cmd'[c].pc = "next" => cmd[c].at < 4
           /\ cmd'[c].pc = "install" => cmd[c].at = 1
           /\ cmd'[c].pc \in {"merge"} \union MergeSteps => cmd[c].at = 4
           /\ cmd'[c].pc = "remove" => cmd[c].gone < cmd[c].at
           /\ cmd[c].at > 1 \/ (cmd[c].at = 1 /\ cmd'[c].pc \in {"next", "remove"}) => installed'
    PROVE  InitInv'
  <1>1. \A d \in Command : KeepsFiles(d)
    BY DEF KeepsFiles, OthersSame, SameBut, Doing, InitSteps, MergeSteps
  <1>2. InitIsWhere'
    <2> SUFFICES ASSUME NEW d \in Command
                 PROVE  Where(cmd[d])'
      BY DEF InitIsWhere
    <2>1. CASE d = c
      BY <2>1, InitFilesAre DEF SameBut, InitSteps, MergeSteps, Where
    <2>2. CASE d # c
      BY <2>2 DEF OthersSame, InitInv, InitIsWhere, Grows, Where, MergeSteps
    <2> QED
      BY <2>1, <2>2
  <1> QED
    BY <1>1, <1>2, InitQuiet

\* A run that starts, ends or goes on and is no project init under way.
LEMMA InitElsewhere ==
    ASSUME SetupTypeOK, InitInv, TargetsSame, Grows,
           \A d \in Command :
              \/ /\ cmd'[d].op = cmd[d].op /\ cmd'[d].pc = cmd[d].pc
                 /\ cmd'[d].at = cmd[d].at /\ cmd'[d].gone = cmd[d].gone
              \/ /\ cmd[d].at = 0 /\ cmd[d].gone = 0
                 /\ cmd'[d].at = 0 /\ cmd'[d].gone = 0
                 /\ cmd'[d].op # "init" \/ cmd'[d].pc = "next"
    PROVE  InitInv'
  <1>1. \A d \in Command : KeepsFiles(d)
    BY DEF KeepsFiles, Doing
  <1>2. InitIsWhere'
    <2> SUFFICES ASSUME NEW d \in Command
                 PROVE  Where(cmd[d])'
      BY DEF InitIsWhere
    <2>1. CASE /\ cmd'[d].op = cmd[d].op /\ cmd'[d].pc = cmd[d].pc
               /\ cmd'[d].at = cmd[d].at /\ cmd'[d].gone = cmd[d].gone
      BY <2>1 DEF InitInv, InitIsWhere, Grows, Where, MergeSteps
    <2>2. CASE /\ cmd'[d].at = 0 /\ cmd'[d].gone = 0
               /\ cmd'[d].op # "init" \/ cmd'[d].pc = "next"
      BY <2>2, InitFilesAre DEF Where, MergeSteps
    <2> QED
      BY <2>1, <2>2
  <1> QED
    BY <1>1, <1>2, InitQuiet

\* Only the k-th file of project init changes.
OneFile(k, v) ==
    \A j \in InitFile : file'[InitFiles[j]] = IF j = k THEN v ELSE file[InitFiles[j]]

LEMMA OneFileFacts ==
    ASSUME NEW k \in InitFile, NEW v, OneFile(k, v), NEW j \in InitFile, j # k
    PROVE  /\ file'[InitFiles[j]] = file[InitFiles[j]]
           /\ Whole(InitFiles[j])' <=> Whole(InitFiles[j])
           /\ \A c : MadeBy(c, InitFiles[j])' <=> MadeBy(c, InitFiles[j])
  BY DEF OneFile, Whole, Present, MadeBy

LEMMA OwnsRange ==
    ASSUME SetupTypeOK, NEW c \in Command, NEW i \in InitFile
    PROVE  /\ Owns(c, i) => cmd[c].at > 0 /\ cmd[c].gone < cmd[c].at
           /\ cmd[c].at \in 0..4 /\ cmd[c].gone \in 0..4 /\ i \in 1..4
  BY RunFields, InitFilesFacts DEF Owns, SetupTypeOK

\* Who owns a file is running project init.
LEMMA OwnerRuns ==
    ASSUME SetupTypeOK, InitInv, NEW c \in Command, NEW i \in InitFile, Owns(c, i)
    PROVE  cmd[c].op = "init" /\ cmd[c].pc \in InitSteps
  BY OwnsRange, StepsAre DEF InitInv, InitIsWhere, Where, SetupTypeOK, MergeSteps

LEMMA CreateInit ==
    ASSUME SetupTypeOK, InitInv, NEW c \in Command, Doing(c, "init", "next"),
           ~Present(InitFiles[cmd[c].at + 1]),
           OneFile(cmd[c].at + 1, [by |-> c, whole |-> FALSE]),
           OthersSame(c), cmd'[c].op = "init", cmd'[c].pc = "write",
           cmd'[c].at = cmd[c].at + 1, cmd'[c].gone = cmd[c].gone,
           installed' = installed, agents' = agents, left' = left
    PROVE  InitInv'
  <1>a. cmd[c].gone = 0 /\ cmd[c].at \in 0..3 /\ (cmd[c].at > 0 => installed)
    BY InitFilesAre, RunFields DEF InitInv, InitIsWhere, Where, Doing, SetupTypeOK, MergeSteps
  <1>b. PICK i \in InitFile : i = cmd[c].at + 1
    BY <1>a, InitFilesAre
  <1>1. cmd[c].gone = 0 /\ cmd[c].at \in 0..3 /\ i = cmd[c].at + 1 /\ (cmd[c].at > 0 => installed)
    BY <1>a, <1>b
  <1>2. \A d \in Command : ~Owns(d, i) /\ ~Doing(d, "init", "done")
    BY <1>1 DEF InitInv, FilesHaveOneOwner, InitAcknowledged, MadeBy
  <1>3. \A d \in Command : d # c =>
           (\A j : Owns(d, j)' <=> Owns(d, j)) /\ (Doing(d, "init", "done")' <=> Doing(d, "init", "done"))
    BY DEF OthersSame, Owns, Doing
  <1>4. \A j \in InitFile : Owns(c, j)' <=> Owns(c, j) \/ j = i
    BY <1>1, InitFilesFacts DEF Owns
  <1>5. ~Doing(c, "init", "done")'
    BY DEF Doing
  <1>6. MadeBy(c, InitFiles[i])' /\ ~Whole(InitFiles[i])'
    <2>1. file'[InitFiles[i]] = [by |-> c, whole |-> FALSE]
      BY <1>1 DEF OneFile
    <2>2. [by |-> c, whole |-> FALSE] # Nil
      BY FileIs
    <2> QED
      BY <2>1, <2>2 DEF MadeBy, Whole, Present
  <1>7. InitIsWhere'
    <2> SUFFICES ASSUME NEW d \in Command PROVE Where(cmd[d])'
      BY DEF InitIsWhere
    <2>1. CASE d = c
      BY <2>1, <1>1 DEF Where, MergeSteps
    <2>2. CASE d # c
      BY <2>2 DEF OthersSame, InitInv, InitIsWhere, Where, MergeSteps
    <2> QED
      BY <2>1, <2>2
  <1>8. FilesHaveOneOwner'
    <2> SUFFICES ASSUME NEW d \in Command, NEW j \in InitFile, Owns(d, j)'
                 PROVE  LET f == InitFiles[j]
                            writing == (cmd[d].pc = "write" /\ j = cmd[d].at)'
                        IN  /\ MadeBy(d, f)'
                            /\ IF writing THEN Whole(f)' => file'[f].by = Nil ELSE Whole(f)'
                            /\ \A e \in Command : (e # d => ~Owns(e, j)') /\ ~Doing(e, "init", "done")'
      BY DEF FilesHaveOneOwner
    <2>1. \A e \in Command : ~Doing(e, "init", "done")'
      BY <1>2, <1>3, <1>5
    <2>2. CASE j = i
      <3>1. d = c
        BY <2>2, <1>2, <1>3
      <3>2. cmd'[c].pc = "write" /\ i = cmd'[c].at
        BY <1>1
      <3>3. \A e \in Command : e # c => ~Owns(e, i)'
        BY <1>2, <1>3
      <3> QED
        BY <2>1, <2>2, <3>1, <3>2, <3>3, <1>6
    <2>3. CASE j # i
      <3>1. Owns(d, j) /\ \A e \in Command : Owns(e, j)' <=> Owns(e, j)
        BY <2>3, <1>3, <1>4
      <3>2. /\ MadeBy(d, InitFiles[j])' <=> MadeBy(d, InitFiles[j])
            /\ Whole(InitFiles[j])' <=> Whole(InitFiles[j])
            /\ file'[InitFiles[j]] = file[InitFiles[j]]
        BY <2>3, <1>1, OneFileFacts
      <3>3. (cmd[d].pc = "write" /\ j = cmd[d].at)' <=> (cmd[d].pc = "write" /\ j = cmd[d].at)
        BY <2>3, <1>1 DEF OthersSame, Doing
      <3> QED
        BY <2>1, <3>1, <3>2, <3>3 DEF InitInv, FilesHaveOneOwner
    <2> QED
      BY <2>2, <2>3
  <1>9. SettledIsComplete'
    <2> SUFFICES ASSUME NEW j \in InitFile, InitFiles[j] \notin left, Whole(InitFiles[j])',
                        file'[InitFiles[j]].by # Nil, \A d \in Command : ~Owns(d, j)'
                 PROVE  FALSE
      BY DEF SettledIsComplete
    <2>1. j # i
      BY <1>6
    <2>2. Whole(InitFiles[j]) /\ file[InitFiles[j]].by # Nil
      BY <2>1, <1>1, OneFileFacts
    <2>3. \A d \in Command : ~Owns(d, j)
      BY <1>3, <1>4
    <2>4. Whole(InitFiles[i])
      BY <2>2, <2>3, <1>1 DEF InitInv, SettledIsComplete
    <2> QED
      BY <2>4, <1>1 DEF Whole
  <1>10. InitAcknowledged'
    BY <1>2, <1>3, <1>5 DEF InitAcknowledged
  <1> QED
    BY <1>7, <1>8, <1>9, <1>10 DEF InitInv

LEMMA FillInit ==
    ASSUME SetupTypeOK, InitInv, NEW c \in Command, Doing(c, "init", "write"),
           NEW i \in InitFile, i = cmd[c].at,
           NEW v \in FileState, OneFile(i, v), v.whole, v.by = file[InitFiles[i]].by,
           OthersSame(c), SameBut(cmd'[c], cmd[c]),
           cmd'[c].pc = (CASE cmd[c].at = 1 -> "install" [] cmd[c].at = 4 -> "merge"
                           [] OTHER -> "next"),
           installed' = installed, agents' = agents, left' = left
    PROVE  InitInv'
  <1>1. cmd[c].gone = 0 /\ cmd[c].at \in 1..4 /\ (cmd[c].at > 1 => installed)
    BY InitFilesAre, RunFields DEF InitInv, InitIsWhere, Where, Doing, SetupTypeOK, MergeSteps
  <1>2. /\ cmd'[c].pc \in {"install", "merge", "next"} /\ cmd'[c].pc # "write" /\ cmd'[c].pc # "done"
        /\ cmd'[c].pc = "install" => cmd[c].at = 1
        /\ cmd'[c].pc = "merge" => cmd[c].at = 4
        /\ cmd'[c].pc = "next" => cmd[c].at \in {2, 3}
    BY <1>1
  <1>3. \A d \in Command, j \in InitFile : Owns(d, j)' <=> Owns(d, j)
    BY DEF OthersSame, Owns, SameBut
  <1>4. Owns(c, i)
    BY <1>1 DEF Owns
  <1>5. \A d \in Command : ~Doing(d, "init", "done")'
    BY <1>2, <1>4 DEF InitInv, FilesHaveOneOwner, OthersSame, Doing
  <1>6. MadeBy(c, InitFiles[i])' /\ Whole(InitFiles[i])'
    <2>1. MadeBy(c, InitFiles[i]) /\ file[InitFiles[i]] # Nil /\ file[InitFiles[i]] \in FileState
      <3>1. MadeBy(c, InitFiles[i]) /\ file[InitFiles[i]] # Nil
        BY <1>4 DEF InitInv, FilesHaveOneOwner, MadeBy, Present
      <3> QED
        BY <3>1, InitFilesFacts DEF SetupTypeOK
    <2>2. file'[InitFiles[i]] = v /\ v # Nil
      BY SetupAssumption DEF OneFile
    <2>3. file[InitFiles[i]] = [by |-> Nil, whole |-> TRUE] => v = [by |-> Nil, whole |-> TRUE]
      BY DEF FileState
    <2> QED
      BY <2>1, <2>2, <2>3 DEF MadeBy, Whole, Present
  <1>7. InitIsWhere'
    <2> SUFFICES ASSUME NEW d \in Command PROVE Where(cmd[d])'
      BY DEF InitIsWhere
    <2>1. CASE d = c
      BY <2>1, <1>1, <1>2, InitFilesAre DEF Where, SameBut, Doing, MergeSteps
    <2>2. CASE d # c
      BY <2>2 DEF OthersSame, InitInv, InitIsWhere, Where, MergeSteps
    <2> QED
      BY <2>1, <2>2
  <1>8. FilesHaveOneOwner'
    <2> SUFFICES ASSUME NEW d \in Command, NEW j \in InitFile, Owns(d, j)'
                 PROVE  LET f == InitFiles[j]
                            writing == (cmd[d].pc = "write" /\ j = cmd[d].at)'
                        IN  /\ MadeBy(d, f)'
                            /\ IF writing THEN Whole(f)' => file'[f].by = Nil ELSE Whole(f)'
                            /\ \A e \in Command : (e # d => ~Owns(e, j)') /\ ~Doing(e, "init", "done")'
      BY DEF FilesHaveOneOwner
    <2>1. Owns(d, j) /\ \A e \in Command : e # d => ~Owns(e, j)'
      BY <1>3 DEF InitInv, FilesHaveOneOwner
    <2>2. CASE j = i
      <3>1. d = c
        BY <2>1, <2>2, <1>3, <1>4
      <3> QED
        BY <2>1, <2>2, <3>1, <1>2, <1>5, <1>6
    <2>3. CASE j # i
      <3>2. /\ MadeBy(d, InitFiles[j])' <=> MadeBy(d, InitFiles[j])
            /\ Whole(InitFiles[j])' <=> Whole(InitFiles[j])
            /\ file'[InitFiles[j]] = file[InitFiles[j]]
        BY <2>3, OneFileFacts
      <3>3. (cmd[d].pc = "write" /\ j = cmd[d].at)' <=> (cmd[d].pc = "write" /\ j = cmd[d].at)
        BY <2>3, <1>2 DEF OthersSame, Doing
      <3> QED
        BY <2>1, <1>5, <3>2, <3>3 DEF InitInv, FilesHaveOneOwner
    <2> QED
      BY <2>2, <2>3
  <1>9. SettledIsComplete'
    <2> SUFFICES ASSUME NEW j \in InitFile, InitFiles[j] \notin left, Whole(InitFiles[j])',
                        file'[InitFiles[j]].by # Nil, \A d \in Command : ~Owns(d, j)'
                 PROVE  FALSE
      BY DEF SettledIsComplete
    <2>1. j # i /\ \A d \in Command : ~Owns(d, j)
      BY <1>3, <1>4
    <2>2. Whole(InitFiles[j]) /\ file[InitFiles[j]].by # Nil
      BY <2>1, OneFileFacts
    <2> QED
      BY <2>1, <2>2, <1>4 DEF InitInv, SettledIsComplete
  <1>10. InitAcknowledged'
    BY <1>5 DEF InitAcknowledged
  <1> QED
    BY <1>7, <1>8, <1>9, <1>10 DEF InitInv

OthersKeep(c) ==
    \A d \in Command : d # c => /\ cmd'[d].op = cmd[d].op /\ cmd'[d].pc = cmd[d].pc
                                /\ cmd'[d].at = cmd[d].at /\ cmd'[d].gone = cmd[d].gone

\* A run gives up its k-th file: it removes it, or never finished writing it.
LEMMA DropInit ==
    ASSUME SetupTypeOK, InitInv, NEW c \in Command, NEW k \in InitFile, Owns(c, k),
           NEW v, OneFile(k, v), v # Nil /\ v.whole => v.by = Nil \/ InitFiles[k] \in left',
           cmd[c].pc = "write" => k = cmd[c].at,
           OthersKeep(c), cmd'[c].pc \notin {"write", "done"}, Where(cmd[c])',
           \A j \in InitFile : Owns(c, j)' <=> Owns(c, j) /\ j # k,
           installed' = installed, agents' = agents, left \subseteq left'
    PROVE  InitInv'
  <1>1. \A d \in Command : d # c => \A j \in InitFile : Owns(d, j)' <=> Owns(d, j)
    BY DEF OthersKeep, Owns
  <1>2. \A d \in Command : ~Doing(d, "init", "done")'
    BY DEF InitInv, FilesHaveOneOwner, OthersKeep, Doing
  <1>3. \A d \in Command : ~Owns(d, k)'
    BY <1>1 DEF InitInv, FilesHaveOneOwner
  <1>4. Whole(InitFiles[k])' => file'[InitFiles[k]].by = Nil \/ InitFiles[k] \in left'
    BY DEF OneFile, Whole, Present
  <1>5. InitIsWhere'
    <2> SUFFICES ASSUME NEW d \in Command PROVE Where(cmd[d])'
      BY DEF InitIsWhere
    <2> QED
      BY DEF OthersKeep, InitInv, InitIsWhere, Where, MergeSteps
  <1>6. FilesHaveOneOwner'
    <2> SUFFICES ASSUME NEW d \in Command, NEW j \in InitFile, Owns(d, j)'
                 PROVE  LET f == InitFiles[j]
                            writing == (cmd[d].pc = "write" /\ j = cmd[d].at)'
                        IN  /\ MadeBy(d, f)'
                            /\ IF writing THEN Whole(f)' => file'[f].by = Nil ELSE Whole(f)'
                            /\ \A e \in Command : (e # d => ~Owns(e, j)') /\ ~Doing(e, "init", "done")'
      BY DEF FilesHaveOneOwner
    <2>1. j # k /\ Owns(d, j) /\ \A e \in Command : e # d => ~Owns(e, j)'
      BY <1>1, <1>3 DEF InitInv, FilesHaveOneOwner
    <2>2. /\ MadeBy(d, InitFiles[j])' <=> MadeBy(d, InitFiles[j])
          /\ Whole(InitFiles[j])' <=> Whole(InitFiles[j])
          /\ file'[InitFiles[j]] = file[InitFiles[j]]
      BY <2>1, OneFileFacts
    <2>3. (cmd[d].pc = "write" /\ j = cmd[d].at)' <=> (cmd[d].pc = "write" /\ j = cmd[d].at)
      BY <2>1 DEF OthersKeep
    <2> QED
      BY <2>1, <2>2, <2>3, <1>2 DEF InitInv, FilesHaveOneOwner
  <1>7. SettledIsComplete'
    <2> SUFFICES ASSUME NEW j \in InitFile, InitFiles[j] \notin left', Whole(InitFiles[j])',
                        file'[InitFiles[j]].by # Nil, \A d \in Command : ~Owns(d, j)'
                 PROVE  FALSE
      BY DEF SettledIsComplete
    <2>1. j # k /\ \A d \in Command : ~Owns(d, j)
      BY <1>1, <1>4
    <2>2. Whole(InitFiles[j]) /\ file[InitFiles[j]].by # Nil
      BY <2>1, OneFileFacts
    <2> QED
      BY <2>1, <2>2 DEF InitInv, SettledIsComplete
  <1>8. InitAcknowledged'
    BY <1>2 DEF InitAcknowledged
  <1> QED
    BY <1>5, <1>6, <1>7, <1>8 DEF InitInv

\* The run that merged AGENTS.md has all its files, and nobody else has one.
LEMMA CompleteInit ==
    ASSUME SetupTypeOK, InitInv, NEW c \in Command, cmd[c].op = "init",
           cmd[c].pc \in {"merge"} \union MergeSteps, TargetsSame, OthersSame(c),
           cmd'[c].op = "init", cmd'[c].pc = "done", cmd'[c].at = 0, cmd'[c].gone = 0,
           installed' = installed, agents'.block, left \subseteq left'
    PROVE  InitInv'
  <1>1. cmd[c].at = 4 /\ cmd[c].gone = 0 /\ installed
    BY InitFilesAre DEF InitInv, InitIsWhere, Where, MergeSteps
  <1>2. \A i \in InitFile : Owns(c, i)
    BY <1>1, InitFilesFacts DEF Owns
  <1>3. \A i \in InitFile : Whole(InitFiles[i]) /\ MadeBy(c, InitFiles[i])
    BY <1>2 DEF InitInv, FilesHaveOneOwner, MergeSteps
  <1>4. \A i \in InitFile : Whole(InitFiles[i])' /\ MadeBy(c, InitFiles[i])'
    BY <1>3 DEF TargetsSame, Whole, MadeBy, Present
  <1>5. \A d \in Command : d # c =>
           /\ \A i \in InitFile : ~Owns(d, i)'
           /\ ~Doing(d, "init", "done")'
    <2>1. 1 \in InitFile
      BY InitFilesAre
    <2> QED
      BY <2>1, <1>2 DEF InitInv, FilesHaveOneOwner, OthersSame, Owns, Doing
  <1>6. \A d \in Command, i \in InitFile : ~Owns(d, i)'
    <2>1. \A i \in InitFile : ~Owns(c, i)'
      BY InitFilesFacts DEF Owns
    <2> QED
      BY <1>5, <2>1
  <1>7. InitIsWhere'
    <2> SUFFICES ASSUME NEW d \in Command PROVE Where(cmd[d])'
      BY DEF InitIsWhere
    <2> QED
      BY DEF OthersSame, InitInv, InitIsWhere, Where, MergeSteps
  <1>8. FilesHaveOneOwner'
    BY <1>6 DEF FilesHaveOneOwner
  <1>9. SettledIsComplete'
    BY <1>4, <1>6 DEF SettledIsComplete
  <1>10. InitAcknowledged'
    BY <1>1, <1>4, <1>5 DEF InitAcknowledged
  <1> QED
    BY <1>7, <1>8, <1>9, <1>10 DEF InitInv

LEMMA KillInit ==
    ASSUME SetupTypeOK, InitInv, NEW c \in Command, TargetsSame, OthersSame(c),
           cmd'[c] = Idle, installed => installed', agents' = agents, left \subseteq left',
           \A i \in InitFile : Owns(c, i) => InitFiles[i] \in left'
    PROVE  InitInv'
  <1>1. \A d \in Command, i \in InitFile : Owns(d, i)' => Owns(d, i) /\ d # c
    BY IdleRun, InitFilesFacts DEF OthersSame, Owns
  <1>2. \A d \in Command : Doing(d, "init", "done")' => Doing(d, "init", "done") /\ d # c
    BY IdleRun DEF OthersSame, Doing
  <1>3. ASSUME NEW i \in InitFile
        PROVE  /\ Whole(InitFiles[i])' <=> Whole(InitFiles[i])
               /\ \A d : MadeBy(d, InitFiles[i])' <=> MadeBy(d, InitFiles[i])
               /\ file'[InitFiles[i]].by = file[InitFiles[i]].by
    BY DEF TargetsSame, Whole, Present, MadeBy
  <1>4. InitIsWhere'
    <2> SUFFICES ASSUME NEW d \in Command PROVE Where(cmd[d])'
      BY DEF InitIsWhere
    <2> QED
      BY IdleRun DEF OthersSame, InitInv, InitIsWhere, Where, MergeSteps
  <1>5. FilesHaveOneOwner'
    <2> SUFFICES ASSUME NEW d \in Command, NEW j \in InitFile, Owns(d, j)'
                 PROVE  LET f == InitFiles[j]
                            writing == (cmd[d].pc = "write" /\ j = cmd[d].at)'
                        IN  /\ MadeBy(d, f)'
                            /\ IF writing THEN Whole(f)' => file'[f].by = Nil ELSE Whole(f)'
                            /\ \A e \in Command : (e # d => ~Owns(e, j)') /\ ~Doing(e, "init", "done")'
      BY DEF FilesHaveOneOwner
    <2>1. Owns(d, j) /\ cmd'[d] = cmd[d]
      BY <1>1 DEF OthersSame
    <2> QED
      BY <2>1, <1>1, <1>2, <1>3 DEF InitInv, FilesHaveOneOwner
  <1>6. SettledIsComplete'
    <2> SUFFICES ASSUME NEW j \in InitFile, Whole(InitFiles[j])', InitFiles[j] \notin left',
                        file'[InitFiles[j]].by # Nil, \A d \in Command : ~Owns(d, j)'
                 PROVE  \A i \in InitFile :
                           Whole(InitFiles[i])' /\ \A d \in Command : ~Owns(d, i)'
      BY DEF SettledIsComplete
    <2>1. \A d \in Command : ~Owns(d, j)
      BY DEF OthersSame, Owns
    <2> QED
      BY <2>1, <1>1, <1>3 DEF InitInv, SettledIsComplete
  <1>7. InitAcknowledged'
    BY <1>2, <1>3 DEF InitInv, InitAcknowledged
  <1> QED
    BY <1>4, <1>5, <1>6, <1>7 DEF InitInv

\* A promotion's rename takes no file from the run of project init it races.
LEMMA RenameInit ==
    ASSUME SetupTypeOK, InitInv, NEW c \in Command,
           OneFile(3, [by |-> Nil, whole |-> TRUE]), OthersKeep(c),
           cmd[c].op = "promote", cmd'[c].op = "promote", cmd'[c].at = 0, cmd'[c].gone = 0,
           installed' = installed, agents' = agents, left' = left
    PROVE  InitInv'
  <1>1. cmd[c].at = 0 /\ cmd[c].gone = 0 /\ 3 \in InitFile
    BY InitFilesAre DEF InitInv, InitIsWhere, Where, MergeSteps
  <1>2. \A d \in Command, i \in InitFile : Owns(d, i)' <=> Owns(d, i)
    BY <1>1 DEF OthersKeep, Owns
  <1>3. \A d \in Command : Doing(d, "init", "done")' <=> Doing(d, "init", "done")
    BY DEF OthersKeep, Doing
  <1>4. /\ file'[InitFiles[3]] = [by |-> Nil, whole |-> TRUE]
        /\ Whole(InitFiles[3])' /\ \A d : MadeBy(d, InitFiles[3])'
        /\ file'[InitFiles[3]].by = Nil
    <2>1. file'[InitFiles[3]] = [by |-> Nil, whole |-> TRUE] /\ [by |-> Nil, whole |-> TRUE] # Nil
      BY <1>1, FileIs DEF OneFile
    <2> QED
      BY <2>1, InitFilesAre DEF Whole, Present, MadeBy
  <1>5. InitIsWhere'
    <2> SUFFICES ASSUME NEW d \in Command PROVE Where(cmd[d])'
      BY DEF InitIsWhere
    <2> QED
      BY DEF OthersKeep, InitInv, InitIsWhere, Where, MergeSteps
  <1>6. FilesHaveOneOwner'
    <2> SUFFICES ASSUME NEW d \in Command, NEW j \in InitFile, Owns(d, j)'
                 PROVE  LET f == InitFiles[j]
                            writing == (cmd[d].pc = "write" /\ j = cmd[d].at)'
                        IN  /\ MadeBy(d, f)'
                            /\ IF writing THEN Whole(f)' => file'[f].by = Nil ELSE Whole(f)'
                            /\ \A e \in Command : (e # d => ~Owns(e, j)') /\ ~Doing(e, "init", "done")'
      BY DEF FilesHaveOneOwner
    <2>1. Owns(d, j) /\ d # c
      BY <1>1, <1>2, OwnsRange
    <2>2. cmd'[d].at = cmd[d].at /\ cmd'[d].pc = cmd[d].pc
      BY <2>1 DEF OthersKeep
    <2>3. \A e \in Command : (e # d => ~Owns(e, j)') /\ ~Doing(e, "init", "done")'
      BY <2>1, <1>2, <1>3 DEF InitInv, FilesHaveOneOwner
    <2>4. CASE j = 3
      BY <2>3, <2>4, <1>4
    <2>5. CASE j # 3
      <3>1. /\ MadeBy(d, InitFiles[j])' <=> MadeBy(d, InitFiles[j])
            /\ Whole(InitFiles[j])' <=> Whole(InitFiles[j])
            /\ file'[InitFiles[j]] = file[InitFiles[j]]
        BY <2>5, <1>1, OneFileFacts
      <3> QED
        BY <2>1, <2>2, <2>3, <3>1 DEF InitInv, FilesHaveOneOwner
    <2> QED
      BY <2>4, <2>5
  <1>7. SettledIsComplete'
    <2> SUFFICES ASSUME NEW j \in InitFile, InitFiles[j] \notin left, Whole(InitFiles[j])',
                        file'[InitFiles[j]].by # Nil, \A d \in Command : ~Owns(d, j)'
                 PROVE  \A i \in InitFile :
                           Whole(InitFiles[i])' /\ \A d \in Command : ~Owns(d, i)'
      BY DEF SettledIsComplete
    <2>1. j # 3
      BY <1>4
    <2>2. Whole(InitFiles[j]) /\ file[InitFiles[j]].by # Nil /\ \A d \in Command : ~Owns(d, j)
      BY <2>1, <1>1, <1>2, OneFileFacts
    <2>3. \A i \in InitFile : Whole(InitFiles[i]) /\ \A d \in Command : ~Owns(d, i)
      BY <2>2 DEF InitInv, SettledIsComplete
    <2>4. \A i \in InitFile : i # 3 => Whole(InitFiles[i])'
      BY <2>3, <1>1, OneFileFacts
    <2> QED
      BY <2>3, <2>4, <1>2, <1>4
  <1>8. InitAcknowledged'
    <2> SUFFICES ASSUME NEW d \in Command, Doing(d, "init", "done")'
                 PROVE  /\ \A i \in InitFile : Whole(InitFiles[i])' /\ MadeBy(d, InitFiles[i])'
                        /\ installed' /\ agents'.block
      BY DEF InitAcknowledged
    <2>1. /\ \A i \in InitFile : Whole(InitFiles[i]) /\ MadeBy(d, InitFiles[i])
          /\ installed /\ agents.block
      BY <1>3 DEF InitInv, InitAcknowledged
    <2>2. \A i \in InitFile : i # 3 => Whole(InitFiles[i])' /\ MadeBy(d, InitFiles[i])'
      BY <2>1, <1>1, OneFileFacts
    <2> QED
      BY <2>1, <2>2, <1>4
  <1> QED
    BY <1>5, <1>6, <1>7, <1>8 DEF InitInv

------------------------------------------------------------------------------
(***************************************************************************)
(* Promotions: what each has established and what is in force.             *)
(***************************************************************************)
PromoAt(c) ==
    cmd[c].op = "promote" =>
       /\ cmd[c].pc # "done" => cmd[c].draft # Nil
       /\ cmd[c].pc = "validate" =>
             cmd[c].sources # Nil /\ ("sources" \in cmd[c].late \/ cmd[c].sources = sources)
       /\ cmd[c].pc \in {"read", "recheck", "rename"} =>
             /\ ArtifactsBound(cmd[c].draft) /\ Filled(cmd[c].draft.bindings)
             /\ "sources" \in cmd[c].late \/ cmd[c].draft.sources = sources
             /\ "decisions" \in cmd[c].late \/ Authorised(cmd[c].draft.bindings)
       /\ cmd[c].pc \in {"recheck", "rename"} => cmd[c].draft.base # Nil
       /\ cmd[c].pc = "rename" /\ "observation" \notin cmd[c].late =>
             Whole("observation") /\ observation = cmd[c].draft.base
       /\ cmd[c].pc = "done" /\ "observation" \notin cmd[c].late => Present("observation")
       /\ cmd[c].pc = "done" /\ cmd[c].late = {} => Report(TRUE) = "valid"

PromoInv == InForceWasReviewed /\ \A c \in Command : PromoAt(c)

LEMMA ReportValid ==
    Report(TRUE) = "valid" <=>
       /\ observation.bindings # Nil /\ observation.bindings.of = sources
       /\ observation.bindings.filled /\ observation.bindings.authority \in accepted
       /\ sources \notin Unsupported
  BY DEF Report, BindingsReviewed, Filled, Authorised

WorldSame ==
    /\ UNCHANGED <<observation, sources, accepted>>
    /\ Whole("observation") => Whole("observation")'
    /\ Present("observation") => Present("observation")'

LEMMA PromoKept ==
    ASSUME NEW c \in Command, PromoAt(c), cmd'[c] = cmd[c] \/ cmd'[c].op # "promote", WorldSame
    PROVE  PromoAt(c)'
  <1>1. CASE cmd'[c].op # "promote"
    BY <1>1 DEF PromoAt
  <1>2. CASE cmd'[c] = cmd[c]
    <2>1. Report(TRUE)' = Report(TRUE)
      BY DEF WorldSame, Report, BindingsReviewed, Filled, Authorised
    <2> QED
      BY <1>2, <2>1 DEF WorldSame, PromoAt, ArtifactsBound, ObservationsBound, Filled, Authorised
  <1> QED
    BY <1>1, <1>2

\* One run takes a step that changes nothing a promotion compares.
LEMMA PromoStep ==
    ASSUME PromoInv, NEW c \in Command, OthersSame(c), WorldSame, PromoAt(c)'
    PROVE  PromoInv'
  <1>1. \A d \in Command : PromoAt(d)'
    BY PromoKept DEF PromoInv, OthersSame
  <1>2. InForceWasReviewed'
    BY DEF PromoInv, InForceWasReviewed, WorldSame
  <1> QED
    BY <1>1, <1>2 DEF PromoInv

LEMMA PromoOther ==
    ASSUME PromoInv, NEW c \in Command, OthersSame(c), WorldSame, cmd'[c].op # "promote"
    PROVE  PromoInv'
  <1>1. PromoAt(c)'
    BY DEF PromoAt
  <1> QED
    BY <1>1, PromoStep

LEMMA PromoSame ==
    ASSUME PromoInv, WorldSame, cmd' = cmd
    PROVE  PromoInv'
  <1>1. \A d \in Command : PromoAt(d)'
    BY PromoKept DEF PromoInv
  <1>2. InForceWasReviewed'
    BY DEF PromoInv, InForceWasReviewed, WorldSame
  <1> QED
    BY <1>1, <1>2 DEF PromoInv

\* A run that is disturbed keeps what it has seen of everything else.
LEMMA PromoDisturbed ==
    ASSUME SetupTypeOK, PromoInv, NEW t \in Thing, NEW d \in Command,
           cmd'[d] = Disturbed(t)[d],
           t # "sources" => sources' = sources,
           t # "decisions" => accepted' = accepted,
           t # "observation" => observation' = observation /\ file' = file
    PROVE  PromoAt(d)'
  <1>1. /\ cmd'[d].op = cmd[d].op /\ cmd'[d].pc = cmd[d].pc /\ cmd'[d].draft = cmd[d].draft
        /\ cmd'[d].sources = cmd[d].sources
        /\ IF cmd[d].op = "promote" /\ cmd[d].pc \in Looked(t)
           THEN cmd'[d].late = cmd[d].late \union {t} ELSE cmd'[d].late = cmd[d].late
    BY DisturbedFields DEF SetupTypeOK
  <1> SUFFICES ASSUME cmd[d].op = "promote" PROVE PromoAt(d)'
    BY <1>1 DEF PromoAt
  <1>2. PromoAt(d)
    BY DEF PromoInv
  <1>3. CASE t = "sources"
    <2>1. cmd[d].pc \in {"validate", "read", "recheck", "rename", "done"} => "sources" \in cmd'[d].late
      BY <1>1, <1>3 DEF Looked
    <2>2. cmd[d].late \subseteq cmd'[d].late
      BY <1>1
    <2>3. UNCHANGED <<observation, file, accepted>>
      BY <1>3
    <2> QED
      BY <1>1, <1>2, <2>1, <2>2, <2>3
         DEF PromoAt, ArtifactsBound, ObservationsBound, Filled, Authorised, Whole, Present
  <1>4. CASE t = "decisions"
    <2>1. cmd[d].pc \in {"read", "recheck", "rename", "done"} => "decisions" \in cmd'[d].late
      BY <1>1, <1>4 DEF Looked
    <2>2. cmd[d].late \subseteq cmd'[d].late
      BY <1>1
    <2>3. UNCHANGED <<observation, file, sources>>
      BY <1>4
    <2> QED
      BY <1>1, <1>2, <2>1, <2>2, <2>3
         DEF PromoAt, ArtifactsBound, ObservationsBound, Filled, Whole, Present
  <1>5. CASE t = "observation"
    <2>1. cmd[d].pc \in {"rename", "done"} => "observation" \in cmd'[d].late
      BY <1>1, <1>5 DEF Looked
    <2>2. cmd[d].late \subseteq cmd'[d].late
      BY <1>1
    <2>3. UNCHANGED <<accepted, sources>>
      BY <1>5
    <2> QED
      BY <1>1, <1>2, <2>1, <2>2, <2>3
         DEF PromoAt, ArtifactsBound, ObservationsBound, Filled, Authorised
  <1> QED
    BY <1>3, <1>4, <1>5 DEF Thing

\* The Observation is created only where none was, so no promotion that has
\* seen it missed its removal.
LEMMA PromoCreates ==
    ASSUME PromoInv, NEW c \in Command, OthersSame(c), cmd'[c].op # "promote",
           ~Present("observation"), observation' = EmptyObservation,
           UNCHANGED <<sources, accepted>>
    PROVE  PromoInv'
  <1>1. InForceWasReviewed'
    BY DEF InForceWasReviewed, EmptyObservation
  <1>2. ASSUME NEW d \in Command PROVE PromoAt(d)'
    <2>1. CASE cmd'[d].op # "promote"
      BY <2>1 DEF PromoAt
    <2>2. CASE cmd'[d].op = "promote"
      <3>1. cmd'[d] = cmd[d] /\ PromoAt(d)
        BY <2>2 DEF OthersSame, PromoInv
      <3> QED
        BY <2>2, <3>1 DEF PromoAt, Whole, ArtifactsBound, ObservationsBound, Filled, Authorised
    <2> QED
      BY <2>1, <2>2
  <1> QED
    BY <1>1, <1>2 DEF PromoInv

------------------------------------------------------------------------------
(***************************************************************************)
(* The outputs of the other commands, and the inductive invariant.         *)
(***************************************************************************)
OutInv ==
    /\ OutputsAreOwned
    /\ \A c \in Command : Doing(c, "change", "done") => Whole("change") /\ file["change"].by = c

SetupIInv == SetupTypeOK /\ InitInv /\ PromoInv /\ OutInv /\ MergeIsCurrent

\* A run writes none of them after this step, or went on as it was.
OutKept(c) ==
    \/ /\ cmd'[c].op = cmd[c].op /\ cmd'[c].pc = cmd[c].pc
       /\ cmd'[c].sources = cmd[c].sources
    \/ /\ cmd'[c].op = "observe" => cmd'[c].pc \notin {"create", "fill"}
       /\ cmd'[c].op = "change" => cmd'[c].pc \notin {"fill", "done"}

LEMMA OutQuiet ==
    ASSUME OutInv, \A d \in Command : OutKept(d), draft' = draft,
           file'["draft"] = file["draft"], file'["change"] = file["change"]
    PROVE  OutInv'
  BY DEF OutInv, OutputsAreOwned, OutKept, Doing, Whole, Present

\* A run is not merging AGENTS.md after this step, or went on as it was.
MergeKept(d) ==
    \/ cmd'[d].op # "init" \/ cmd'[d].pc \notin MergeSteps
    \/ cmd'[d] = cmd[d]

LEMMA MergeQuiet ==
    ASSUME MergeIsCurrent, \A d \in Command : MergeKept(d), agents' = agents,
           file'["agents"] = file["agents"], file'["staged"] = file["staged"]
    PROVE  MergeIsCurrent'
  <1>1. ~Present("agents")' => agents'.own = 0
    BY DEF MergeIsCurrent, Present
  <1>2. ASSUME NEW d \in Command, cmd'[d].op = "init", cmd'[d].pc \in MergeSteps
        PROVE  cmd'[d] = cmd[d]
    BY <1>2 DEF MergeKept
  <1>3. "stage" \in MergeSteps /\ "replace" \in MergeSteps
    BY DEF MergeSteps
  <1> QED
    BY <1>1, <1>2, <1>3 DEF MergeIsCurrent, MergeSteps, Present

LEMMA StepsKept ==
    ASSUME SetupTypeOK, NEW c \in Command, OthersSame(c), cmd'[c].pc \in Steps[cmd'[c].op]
    PROVE  \A d \in Command : cmd'[d].pc \in Steps[cmd'[d].op]
  BY DEF SetupTypeOK, OthersSame

\* Where a run outside project init may be.
LEMMA RunIsWhere ==
    ASSUME SetupTypeOK, NEW c \in Command
    PROVE  /\ cmd[c] \in Run
           /\ cmd[c].pc = "idle" => cmd[c].op = "none"
           /\ cmd[c].pc \in {"base", "sources"} => cmd[c].op \in {"observe", "promote"}
           /\ cmd[c].pc \in {"create", "fill"} => cmd[c].op \in {"observe", "change"}
           /\ cmd[c].pc \in {"validate", "read", "recheck", "rename"} => cmd[c].op = "promote"
           /\ cmd[c].pc \in InitSteps => cmd[c].op = "init"
           /\ cmd[c].op = "none" => cmd[c].pc = "idle"
  BY StepsAre, RunFields DEF SetupTypeOK, InitSteps, MergeSteps

LEMMA NotOwning ==
    ASSUME SetupTypeOK, InitInv, NEW c \in Command, cmd[c].op # "init" \/ cmd[c].pc \in Stopped
    PROVE  cmd[c].at = 0 /\ cmd[c].gone = 0
  BY RunIsWhere DEF InitInv, InitIsWhere, Where, Stopped, MergeSteps

\* Only a run outside project init, or starting it, changes.
LEMMA OnlyRun ==
    ASSUME SetupIInv, NEW c \in Command, OthersSame(c), cmd' \in [Command -> Run],
           UNCHANGED <<file, installed, agents, observation, draft, sources, accepted, left, trouble>>,
           cmd[c].op # "init" \/ cmd[c].pc \in Stopped \/ (cmd[c].at = 0 /\ cmd[c].gone = 0),
           cmd'[c].pc \in Steps[cmd'[c].op], cmd'[c].at = 0, cmd'[c].gone = 0,
           cmd'[c].op # "init" \/ cmd'[c].pc = "next",
           cmd'[c].op = "promote" => PromoAt(c)',
           /\ cmd'[c].op = "observe" => cmd'[c].pc # "fill" /\ (cmd'[c].pc = "create" => cmd'[c].sources # Nil)
           /\ cmd'[c].op = "change" => cmd'[c].pc \notin {"fill", "done"}
    PROVE  SetupIInv'
  <1>1. cmd[c].at = 0 /\ cmd[c].gone = 0
    BY NotOwning DEF SetupIInv
  <1>2. SetupTypeOK'
    BY StepsKept DEF SetupIInv, SetupTypeOK
  <1>3. InitInv'
    BY <1>1, InitElsewhere DEF SetupIInv, TargetsSame, Grows, OthersSame
  <1>4. PromoInv'
    <2>1. WorldSame
      BY DEF WorldSame, Whole, Present
    <2>2. PromoAt(c)'
      BY DEF PromoAt
    <2> QED
      BY <2>1, <2>2, PromoStep DEF SetupIInv
  <1>5. OutInv'
    BY DEF SetupIInv, OutInv, OutputsAreOwned, OthersSame, Doing, Whole, Present
  <1>6. MergeIsCurrent'
    BY MergeQuiet DEF SetupIInv, MergeKept, OthersSame, MergeSteps
  <1> QED
    BY <1>2, <1>3, <1>4, <1>5, <1>6 DEF SetupIInv

\* Only one run has all files of project init, and so only one merges.
LEMMA OneMerges ==
    ASSUME SetupTypeOK, InitInv, NEW c \in Command, cmd[c].op = "init",
           cmd[c].pc \in {"merge"} \union MergeSteps, NEW d \in Command, d # c
    PROVE  ~(cmd[d].op = "init" /\ cmd[d].pc \in MergeSteps)
  <1> SUFFICES ASSUME cmd[d].op = "init", cmd[d].pc \in MergeSteps PROVE FALSE
    OBVIOUS
  <1>1. \A e \in {c, d} : cmd[e].at = 4 /\ cmd[e].gone = 0
    BY InitFilesAre DEF InitInv, InitIsWhere, Where, MergeSteps
  <1>2. 1 \in InitFile
    BY InitFilesAre
  <1>3. Owns(c, 1) /\ Owns(d, 1)
    BY <1>1 DEF Owns
  <1> QED
    BY <1>2, <1>3 DEF InitInv, FilesHaveOneOwner

LEMMA MergeCurrent ==
    ASSUME SetupTypeOK, InitInv, NEW c \in Command, cmd[c].op = "init",
           cmd[c].pc \in {"merge"} \union MergeSteps, OthersSame(c),
           file'["agents"] = Nil => agents'.own = 0,
           cmd'[c].op = "init" /\ cmd'[c].pc \in MergeSteps =>
              /\ "agents" \notin cmd'[c].late => cmd'[c].text = agents'.own
              /\ cmd'[c].pc \in {"stage", "replace"} => file'["staged"] # Nil
    PROVE  MergeIsCurrent'
  <1>1. \A d \in Command : d # c => ~(cmd'[d].op = "init" /\ cmd'[d].pc \in MergeSteps)
    BY OneMerges DEF OthersSame
  <1>2. "stage" \in MergeSteps /\ "replace" \in MergeSteps
    BY DEF MergeSteps
  <1> QED
    BY <1>1, <1>2 DEF MergeIsCurrent, Present

\* ... as when a command outside project init fails.
LEMMA OnlyFails ==
    ASSUME SetupIInv, NEW c \in Command, Fails(c),
           UNCHANGED <<file, installed, agents, observation, draft, sources, accepted, left, trouble>>,
           cmd[c].op # "init" \/ cmd[c].pc \in Stopped \/ (cmd[c].at = 0 /\ cmd[c].gone = 0)
    PROVE  SetupIInv'
  <1>1. cmd' \in [Command -> Run] /\ cmd'[c] = Idle /\ OthersSame(c)
    BY FailsFields DEF SetupIInv, SetupTypeOK
  <1> QED
    BY <1>1, IdleRun, StepsAre, OnlyRun

LEMMA StartInitPreserves ==
    ASSUME SetupIInv, NEW c \in Command, StartInit(c) PROVE SetupIInv'
  <1>1. PICK usable \in BOOLEAN :
           Starts(c, "init", "next", usable /\ \A f \in Target : ~Present(f))
    BY DEF StartInit
  <1>2. PICK ok \in BOOLEAN : ok <=> (usable /\ \A f \in Target : ~Present(f))
    OBVIOUS
  <1>3. Starts(c, "init", "next", ok)
    BY <1>1, <1>2 DEF Starts
  <1>4. "init" \in DOMAIN Steps /\ "next" \in Step
    BY StepsAre DEF Step, InitSteps, MergeSteps
  <1>5. /\ cmd[c].pc \in Stopped /\ cmd' \in [Command -> Run] /\ OthersSame(c)
        /\ \/ cmd'[c].op = "init" /\ cmd'[c].pc = "next"
           \/ cmd'[c].op = "none" /\ cmd'[c].pc = "idle"
        /\ cmd'[c].at = 0 /\ cmd'[c].gone = 0
    BY <1>3, <1>4, StartsFields DEF SetupIInv, SetupTypeOK
  <1>6. cmd'[c].pc \in Steps[cmd'[c].op]
    BY <1>5, StepsAre DEF InitSteps, MergeSteps
  <1>7. UNCHANGED <<file, installed, agents, observation, draft, sources, accepted, left, trouble>>
    BY DEF StartInit
  <1> QED
    BY <1>5, <1>6, <1>7, OnlyRun

LEMMA StartChangePreserves ==
    ASSUME SetupIInv, NEW c \in Command, StartChange(c) PROVE SetupIInv'
  <1>1. PICK ok \in BOOLEAN : ok <=> Present("config")
    OBVIOUS
  <1>2. Starts(c, "change", "create", ok)
    BY <1>1 DEF Starts, StartChange
  <1>3. "change" \in DOMAIN Steps /\ "create" \in Step
    BY StepsAre DEF Step
  <1>4. /\ cmd[c].pc \in Stopped /\ cmd' \in [Command -> Run] /\ OthersSame(c)
        /\ \/ cmd'[c].op = "change" /\ cmd'[c].pc = "create"
           \/ cmd'[c].op = "none" /\ cmd'[c].pc = "idle"
        /\ cmd'[c].at = 0 /\ cmd'[c].gone = 0
    BY <1>2, <1>3, StartsFields DEF SetupIInv, SetupTypeOK
  <1>5. cmd'[c].pc \in Steps[cmd'[c].op]
    BY <1>4, StepsAre
  <1>6. UNCHANGED <<file, installed, agents, observation, draft, sources, accepted, left, trouble>>
    BY DEF StartChange
  <1> QED
    BY <1>4, <1>5, <1>6, OnlyRun

LEMMA StartObservePreserves ==
    ASSUME SetupIInv, NEW c \in Command, StartObserve(c) PROVE SetupIInv'
  <1>a. PICK ok \in BOOLEAN : ok <=> TRUE
    OBVIOUS
  <1>1. Starts(c, "observe", "base", ok)
    BY <1>a DEF Starts, StartObserve
  <1>2. "observe" \in DOMAIN Steps /\ "base" \in Step
    BY StepsAre DEF Step
  <1>3. /\ cmd[c].pc \in Stopped /\ cmd' \in [Command -> Run] /\ OthersSame(c)
        /\ \/ cmd'[c].op = "observe" /\ cmd'[c].pc = "base"
           \/ cmd'[c].op = "none" /\ cmd'[c].pc = "idle"
        /\ cmd'[c].at = 0 /\ cmd'[c].gone = 0
    BY <1>1, <1>2, StartsFields DEF SetupIInv, SetupTypeOK
  <1>4. cmd'[c].pc \in Steps[cmd'[c].op]
    BY <1>3, StepsAre
  <1>5. UNCHANGED <<file, installed, agents, observation, draft, sources, accepted, left, trouble>>
    BY DEF StartObserve
  <1> QED
    BY <1>3, <1>4, <1>5, OnlyRun

LEMMA StartPromotePreserves ==
    ASSUME SetupIInv, NEW c \in Command, StartPromote(c) PROVE SetupIInv'
  <1>1. /\ cmd[c].pc \in Stopped
        /\ UNCHANGED <<file, installed, agents, observation, draft, sources, accepted, left, trouble>>
    BY DEF StartPromote
  <1>2. CASE ~(Loadable /\ Whole("draft"))
    BY <1>1, <1>2, OnlyFails DEF StartPromote
  <1>3. CASE Loadable /\ Whole("draft")
    <2>1. draft # Nil /\ draft \in DraftType
      BY <1>3 DEF SetupIInv, OutInv, OutputsAreOwned, SetupTypeOK
    <2>2. PICK r : r = [Idle EXCEPT !.op = "promote", !.pc = "base", !.draft = draft]
      OBVIOUS
    <2>3. /\ r \in Run /\ r.op = "promote" /\ r.pc = "base" /\ r.draft = draft
          /\ r.at = 0 /\ r.gone = 0
      BY <2>1, <2>2, IdleRun, StepsAre DEF Run, Step
    <2>4. cmd' = [cmd EXCEPT ![c] = r]
      BY <1>3, <2>2 DEF StartPromote
    <2>5. cmd' \in [Command -> Run] /\ cmd'[c] = r /\ OthersSame(c)
      BY <2>3, <2>4, RunSet DEF SetupIInv, SetupTypeOK
    <2>6. PromoAt(c)'
      BY <2>1, <2>3, <2>5 DEF PromoAt
    <2> QED
      BY <1>1, <2>3, <2>5, <2>6, StepsAre, OnlyRun
  <1> QED
    BY <1>2, <1>3

LEMMA DigestType == SetupTypeOK => Digest \in Content \union {Nil}
  BY DEF SetupTypeOK, Digest

LEMMA ObserveBasePreserves ==
    ASSUME SetupIInv, NEW c \in Command, ObserveBase(c) PROVE SetupIInv'
  <1>1. /\ cmd[c] \in Run /\ cmd[c].pc = "base" /\ cmd[c].op \in {"observe", "promote"}
        /\ UNCHANGED <<file, installed, agents, observation, draft, sources, accepted, left, trouble>>
    BY RunIsWhere DEF ObserveBase, SetupIInv
  <1>2. CASE Fails(c)
    BY <1>1, <1>2, OnlyFails
  <1>3. CASE cmd' = [cmd EXCEPT ![c].pc = "sources",
                               ![c].base = IF Present("config") THEN Digest ELSE Nil]
    <2>1. PICK b \in Content \union {Nil} : b = IF Present("config") THEN Digest ELSE Nil
      BY DigestType DEF SetupIInv
    <2>2. PICK r : r = [cmd[c] EXCEPT !.pc = "sources", !.base = b]
      OBVIOUS
    <2>3. /\ r \in Run /\ r.op = cmd[c].op /\ r.pc = "sources" /\ r.draft = cmd[c].draft
          /\ r.at = cmd[c].at /\ r.gone = cmd[c].gone
      BY <2>2, <1>1 DEF Run, Step
    <2>4. cmd' = [cmd EXCEPT ![c] = r]
      BY <1>3, <2>1, <2>2
    <2>5. cmd' \in [Command -> Run] /\ cmd'[c] = r /\ OthersSame(c)
      BY <2>3, <2>4, RunSet DEF SetupIInv, SetupTypeOK
    <2>6. cmd'[c].op = "promote" => PromoAt(c)'
      BY <1>1, <2>3, <2>5 DEF PromoAt, SetupIInv, PromoInv
    <2>7. cmd[c].at = 0 /\ cmd[c].gone = 0
      BY <1>1, NotOwning DEF SetupIInv
    <2>8. cmd'[c].pc \in Steps[cmd'[c].op]
      BY <1>1, <2>3, <2>5, StepsAre
    <2> QED
      BY <1>1, <2>3, <2>5, <2>6, <2>7, <2>8, OnlyRun
  <1> QED
    BY <1>2, <1>3 DEF ObserveBase

LEMMA ObserveSourcesPreserves ==
    ASSUME SetupIInv, NEW c \in Command, ObserveSources(c) PROVE SetupIInv'
  <1>1. /\ cmd[c] \in Run /\ cmd[c].pc = "sources" /\ cmd[c].op \in {"observe", "promote"}
        /\ UNCHANGED <<file, installed, agents, observation, draft, sources, accepted, left, trouble>>
    BY RunIsWhere DEF ObserveSources, SetupIInv
  <1>2. PICK pc : pc = IF cmd[c].op = "observe" THEN "create" ELSE "validate"
    OBVIOUS
  <1>3. PICK s : s = sources
    OBVIOUS
  <1>4. s \in Source /\ s # Nil
    BY <1>3, SetupAssumption DEF SetupIInv, SetupTypeOK
  <1>5. PICK r : r = [cmd[c] EXCEPT !.sources = s, !.pc = pc]
    OBVIOUS
  <1>6. /\ r \in Run /\ r.op = cmd[c].op /\ r.pc = pc /\ r.draft = cmd[c].draft
        /\ r.at = cmd[c].at /\ r.gone = cmd[c].gone /\ r.sources = s
    BY <1>1, <1>2, <1>4, <1>5 DEF Run, Step
  <1>7. cmd' = [cmd EXCEPT ![c] = r]
    BY <1>2, <1>3, <1>5 DEF ObserveSources
  <1>8. cmd' \in [Command -> Run] /\ cmd'[c] = r /\ OthersSame(c)
    BY <1>6, <1>7, RunSet DEF SetupIInv, SetupTypeOK
  <1>9. cmd'[c].op = "promote" => PromoAt(c)'
    BY <1>1, <1>2, <1>3, <1>4, <1>6, <1>8 DEF PromoAt, SetupIInv, PromoInv
  <1>10. cmd[c].at = 0 /\ cmd[c].gone = 0
    BY <1>1, NotOwning DEF SetupIInv
  <1>11. cmd'[c].pc \in Steps[cmd'[c].op]
    BY <1>1, <1>2, <1>6, <1>8, StepsAre
  <1> QED
    BY <1>1, <1>2, <1>4, <1>6, <1>8, <1>9, <1>10, <1>11, OnlyRun

\* A promotion goes one step on.
LEMMA PromotionGoesOn ==
    ASSUME SetupIInv, NEW c \in Command, cmd[c].op = "promote",
           NEW pc \in {"read", "recheck", "rename"}, cmd' = [cmd EXCEPT ![c].pc = pc],
           UNCHANGED <<file, installed, agents, observation, draft, sources, accepted, left, trouble>>,
           SameBut(cmd'[c], cmd[c]) /\ cmd'[c].pc = pc => PromoAt(c)'
    PROVE  SetupIInv'
  <1>1. pc \in Step /\ Goes(c, pc)
    BY DEF Step, Goes
  <1>2. cmd' \in [Command -> Run] /\ cmd'[c].pc = pc /\ SameBut(cmd'[c], cmd[c]) /\ OthersSame(c)
    BY <1>1, GoesFields DEF SetupIInv, SetupTypeOK
  <1>3. cmd[c].at = 0 /\ cmd[c].gone = 0
    BY NotOwning DEF SetupIInv
  <1>4. cmd'[c].pc \in Steps[cmd'[c].op] /\ cmd'[c].op = "promote" /\ cmd'[c].at = 0 /\ cmd'[c].gone = 0
    BY <1>2, <1>3, StepsAre DEF SameBut
  <1> QED
    BY <1>2, <1>3, <1>4, OnlyRun

LEMMA ValidatePreserves ==
    ASSUME SetupIInv, NEW c \in Command, Validate(c) PROVE SetupIInv'
  <1>1. /\ cmd[c].op = "promote" /\ cmd[c].pc = "validate" /\ PromoAt(c)
        /\ UNCHANGED <<file, installed, agents, observation, draft, sources, accepted, left, trouble>>
    BY DEF Validate, Doing, SetupIInv, PromoInv
  <1>2. CASE Fails(c)
    BY <1>1, <1>2, OnlyFails
  <1>3. CASE /\ DraftValid(cmd[c].draft, cmd[c].base, cmd[c].sources)
             /\ cmd' = [cmd EXCEPT ![c].pc = "read"]
    <2>1. ASSUME SameBut(cmd'[c], cmd[c]), cmd'[c].pc = "read" PROVE PromoAt(c)'
      BY <1>1, <1>3, <2>1 DEF PromoAt, SameBut, DraftValid, DraftFresh, ArtifactsBound,
         ObservationsBound, BindingsReviewed, Filled, Authorised, Report
    <2>2. SameBut(cmd'[c], cmd[c]) /\ cmd'[c].pc = "read" => PromoAt(c)'
      BY <2>1, Zenon
    <2> QED
      BY <1>1, <1>3, <2>2, PromotionGoesOn
  <1> QED
    BY <1>2, <1>3 DEF Validate

LEMMA ReadBasePreserves ==
    ASSUME SetupIInv, NEW c \in Command, ReadBase(c) PROVE SetupIInv'
  <1>1. /\ cmd[c].op = "promote" /\ cmd[c].pc = "read" /\ PromoAt(c)
        /\ UNCHANGED <<file, installed, agents, observation, draft, sources, accepted, left, trouble>>
    BY DEF ReadBase, Doing, SetupIInv, PromoInv
  <1>2. CASE Fails(c)
    BY <1>1, <1>2, OnlyFails
  <1>3. CASE /\ Whole("observation") /\ cmd[c].draft.base = observation
             /\ cmd' = [cmd EXCEPT ![c].pc = "recheck"]
    <2>1. observation # Nil
      BY SetupAssumption DEF SetupIInv, SetupTypeOK
    <2>2. ASSUME SameBut(cmd'[c], cmd[c]), cmd'[c].pc = "recheck" PROVE PromoAt(c)'
      BY <1>1, <1>3, <2>1, <2>2 DEF PromoAt, SameBut, ArtifactsBound, ObservationsBound,
         Filled, Authorised, Report
    <2>3. SameBut(cmd'[c], cmd[c]) /\ cmd'[c].pc = "recheck" => PromoAt(c)'
      BY <2>2, Zenon
    <2> QED
      BY <1>1, <1>3, <2>3, PromotionGoesOn
  <1> QED
    BY <1>2, <1>3 DEF ReadBase

LEMMA RecheckPreserves ==
    ASSUME SetupIInv, NEW c \in Command, Recheck(c) PROVE SetupIInv'
  <1>1. /\ cmd[c].op = "promote" /\ cmd[c].pc = "recheck" /\ PromoAt(c)
        /\ UNCHANGED <<file, installed, agents, observation, draft, sources, accepted, left, trouble>>
    BY DEF Recheck, Doing, SetupIInv, PromoInv
  <1>2. CASE Fails(c)
    BY <1>1, <1>2, OnlyFails
  <1>3. CASE /\ Digest = cmd[c].draft.base
             /\ cmd' = [cmd EXCEPT ![c].pc = "rename"]
    <2>1. Whole("observation") /\ observation = cmd[c].draft.base
      BY <1>1, <1>3 DEF PromoAt, Digest
    <2>2. ASSUME SameBut(cmd'[c], cmd[c]), cmd'[c].pc = "rename" PROVE PromoAt(c)'
      BY <1>1, <2>1, <2>2 DEF PromoAt, SameBut, ArtifactsBound, ObservationsBound,
         Filled, Authorised, Whole, Present
    <2> QED
      BY <1>1, <1>3, <2>2, PromotionGoesOn
  <1> QED
    BY <1>2, <1>3 DEF Recheck

(***************************************************************************)
(* Steps that write files.                                                 *)
(***************************************************************************)
LEMMA FileSet ==
    ASSUME SetupTypeOK, NEW f \in Path, NEW v \in FileState \union {Nil},
           file' = [file EXCEPT ![f] = v]
    PROVE  /\ file' \in [Path -> FileState \union {Nil}] /\ file'[f] = v
           /\ \A g \in Path : g # f => file'[g] = file[g]
  BY DEF SetupTypeOK

\* A file that is not of project init changes.
LEMMA OutsideInit ==
    ASSUME NEW f \in Path, f \notin Target, \A g \in Path : g # f => file'[g] = file[g]
    PROVE  TargetsSame /\ (UNCHANGED <<observation, sources, accepted>> => WorldSame)
  <1>1. TargetsSame
    BY InitFilesFacts DEF TargetsSame
  <1>2. "observation" \in Path /\ f # "observation"
    BY InitFilesAre
  <1> QED
    BY <1>1, <1>2 DEF WorldSame, Whole, Present

LEMMA OneFileSet ==
    ASSUME NEW i \in InitFile, NEW v, file'[InitFiles[i]] = v,
           \A g \in Path : g # InitFiles[i] => file'[g] = file[g]
    PROVE  OneFile(i, v)
  BY InitFilesFacts DEF OneFile

LEMMA FillIs ==
    ASSUME SetupTypeOK, NEW f \in Path, Fill(f)
    PROVE  \E v \in FileState \union {Nil} :
              /\ file' = [file EXCEPT ![f] = v]
              /\ file[f] = Nil <=> v = Nil
              /\ file[f] # Nil => v \in FileState /\ v.whole = TRUE /\ v.by = file[f].by
  <1>1. CASE file[f] = Nil
    BY <1>1 DEF Fill
  <1>2. CASE file[f] # Nil
    <2>1. file[f] \in FileState
      BY <1>2 DEF SetupTypeOK
    <2>2. PICK v : v = [file[f] EXCEPT !.whole = TRUE]
      OBVIOUS
    <2>3. v \in FileState /\ v.whole = TRUE /\ v.by = file[f].by
      BY <2>1, <2>2 DEF FileState
    <2>4. v # Nil
      BY <2>3, SetupAssumption
    <2>5. file' = [file EXCEPT ![f] = v]
      BY <1>2, <2>2 DEF Fill
    <2> QED
      BY <1>2, <2>3, <2>4, <2>5
  <1> QED
    BY <1>1, <1>2

LEMMA TroubledType == SetupTypeOK /\ Troubled => trouble' \in 0..MaxTrouble
  BY SetupAssumption DEF SetupTypeOK, Troubled

LEMMA CreateOutputPreserves ==
    ASSUME SetupIInv, NEW c \in Command, CreateOutput(c) PROVE SetupIInv'
  <1>1. /\ cmd[c] \in Run /\ cmd[c].pc = "create" /\ cmd[c].op \in {"observe", "change"}
        /\ UNCHANGED <<installed, agents, observation, draft, sources, accepted, left, trouble>>
    BY RunIsWhere DEF CreateOutput, SetupIInv
  <1>2. CASE Fails(c) /\ UNCHANGED file
    BY <1>1, <1>2, OnlyFails
  <1>3. CASE ~Present(Output(c)) /\ Create(c, Output(c)) /\ Goes(c, "fill")
    <2>1. PICK f : f = Output(c) /\ f = IF cmd[c].op = "observe" THEN "draft" ELSE "change"
      BY DEF Output
    <2>2. f \in Path /\ f \notin Target /\ "draft" \in Path /\ "change" \in Path
      BY <2>1, InitFilesAre
    <2>3. PICK v : v = [by |-> c, whole |-> FALSE]
      OBVIOUS
    <2>4. v \in FileState /\ v # Nil /\ v.by = c /\ v.whole = FALSE
      BY <2>3, FileIs
    <2>5. /\ file' \in [Path -> FileState \union {Nil}] /\ file'[f] = v
          /\ \A g \in Path : g # f => file'[g] = file[g]
      BY <1>3, <2>1, <2>2, <2>3, <2>4, FileSet DEF Create, SetupIInv
    <2>6. cmd' \in [Command -> Run] /\ cmd'[c].pc = "fill" /\ SameBut(cmd'[c], cmd[c]) /\ OthersSame(c)
      BY <1>3, GoesFields DEF SetupIInv, SetupTypeOK, Step
    <2>7. cmd'[c].pc \in Steps[cmd'[c].op]
      BY <1>1, <2>6, StepsAre DEF SameBut
    <2>8. SetupTypeOK'
      BY <1>1, <2>5, <2>6, <2>7, StepsKept DEF SetupIInv, SetupTypeOK
    <2>9. TargetsSame /\ WorldSame
      BY <1>1, <2>2, <2>5, OutsideInit
    <2>10. cmd[c].at = 0 /\ cmd[c].gone = 0
      BY <1>1, NotOwning DEF SetupIInv
    <2>11. InitInv'
      BY <1>1, <2>6, <2>9, <2>10, InitElsewhere DEF SetupIInv, Grows, OthersSame, SameBut
    <2>12. PromoInv'
      BY <1>1, <2>6, <2>9, PromoOther DEF SetupIInv, SameBut
    <2>13. OutInv'
      <3>1. \A d \in Command : d # c => cmd'[d] = cmd[d]
        BY <2>6 DEF OthersSame
      <3>2. /\ cmd'[c].pc = "fill" /\ cmd'[c].op = cmd[c].op /\ cmd'[c].sources = cmd[c].sources
        BY <2>6 DEF SameBut
      <3>3. CASE cmd[c].op = "observe"
        <4>1. f = "draft" /\ file'["change"] = file["change"] /\ ~Whole("draft")'
          BY <3>3, <2>1, <2>2, <2>4, <2>5 DEF Whole
        <4> QED
          BY <1>1, <3>1, <3>2, <3>3, <4>1 DEF SetupIInv, OutInv, OutputsAreOwned, Doing, Whole, Present
      <3>4. CASE cmd[c].op = "change"
        <4>1. /\ f = "change" /\ file'["draft"] = file["draft"] /\ ~Present("change")
              /\ file'["change"] # Nil /\ file'["change"].by = c
          BY <3>4, <1>3, <2>1, <2>2, <2>4, <2>5
        <4> QED
          BY <1>1, <3>1, <3>2, <3>4, <4>1 DEF SetupIInv, OutInv, OutputsAreOwned, Doing, Whole, Present
      <3> QED
        BY <1>1, <3>3, <3>4
    <2>14. MergeIsCurrent'
      <3>1. /\ "agents" \in Path /\ "staged" \in Path /\ f # "agents" /\ f # "staged"
            /\ cmd'[c].op # "init"
        BY <1>1, <2>1, <2>6, InitFilesAre DEF SameBut
      <3> QED
        BY <1>1, <2>5, <2>6, <3>1, MergeQuiet DEF SetupIInv, MergeKept, OthersSame
    <2> QED
      BY <2>8, <2>11, <2>12, <2>13, <2>14 DEF SetupIInv
  <1> QED
    BY <1>2, <1>3 DEF CreateOutput

LEMMA WriteOutputPreserves ==
    ASSUME SetupIInv, NEW c \in Command, WriteOutput(c) PROVE SetupIInv'
  <1>1. /\ cmd[c] \in Run /\ cmd[c].pc = "fill" /\ cmd[c].op \in {"observe", "change"}
        /\ UNCHANGED <<installed, agents, observation, sources, accepted, left>>
    BY RunIsWhere DEF WriteOutput, SetupIInv
  <1>2. cmd[c].at = 0 /\ cmd[c].gone = 0
    BY <1>1, NotOwning DEF SetupIInv
  <1>3. CASE Troubled /\ Fails(c) /\ UNCHANGED <<file, draft>>
    <2>1. cmd' \in [Command -> Run] /\ cmd'[c] = Idle /\ OthersSame(c)
      BY <1>3, FailsFields DEF SetupIInv, SetupTypeOK
    <2>2. SetupTypeOK'
      BY <1>1, <1>3, <2>1, IdleRun, StepsAre, StepsKept, TroubledType DEF SetupIInv, SetupTypeOK
    <2>3. TargetsSame /\ WorldSame /\ Grows
      BY <1>1, <1>3 DEF TargetsSame, WorldSame, Grows, Whole, Present
    <2>4. InitInv'
      BY <1>2, <2>1, <2>3, IdleRun, InitElsewhere DEF SetupIInv, OthersSame
    <2>5. PromoInv'
      BY <2>1, <2>3, IdleRun, PromoOther DEF SetupIInv
    <2>6. OutInv'
      BY <1>3, <2>1, IdleRun, OutQuiet DEF SetupIInv, OutKept, OthersSame
    <2>7. MergeIsCurrent'
      BY <1>1, <1>3, <2>1, IdleRun, MergeQuiet DEF SetupIInv, MergeKept, OthersSame
    <2> QED
      BY <2>2, <2>4, <2>5, <2>6, <2>7 DEF SetupIInv
  <1>4. CASE /\ Fill(Output(c))
             /\ \/ Succeeds(c) /\ UNCHANGED trouble
                \/ Troubled /\ Fails(c)
             /\ draft' = IF cmd[c].op = "observe"
                         THEN [base |-> cmd[c].base, sources |-> cmd[c].sources,
                               bindings |-> [of |-> cmd[c].sources, filled |-> FALSE,
                                             authority |-> Nil]]
                         ELSE draft
    <2>1. PICK f : f = Output(c) /\ f = IF cmd[c].op = "observe" THEN "draft" ELSE "change"
      BY DEF Output
    <2>2. f \in Path /\ f \notin Target /\ "draft" \in Path /\ "change" \in Path
      BY <2>1, InitFilesAre
    <2>3. PICK v \in FileState \union {Nil} :
              /\ file' = [file EXCEPT ![f] = v]
              /\ (file[f] = Nil) <=> (v = Nil)
              /\ file[f] # Nil => v \in FileState /\ v.whole = TRUE /\ v.by = file[f].by
      BY <1>4, <2>1, <2>2, FillIs DEF SetupIInv
    <2>5. /\ file' \in [Path -> FileState \union {Nil}] /\ file'[f] = v
          /\ \A g \in Path : g # f => file'[g] = file[g]
      BY <2>2, <2>3, FileSet DEF SetupIInv
    <2>6. /\ cmd' \in [Command -> Run] /\ OthersSame(c)
          /\ \/ cmd'[c].op = cmd[c].op /\ cmd'[c].pc = "done"
             \/ cmd'[c].op = "none" /\ cmd'[c].pc = "idle"
          /\ cmd'[c].at = 0 /\ cmd'[c].gone = 0
      BY <1>4, SucceedsFields, FailsFields, IdleRun DEF SetupIInv, SetupTypeOK
    <2>7. cmd'[c].pc \in Steps[cmd'[c].op]
      BY <1>1, <2>6, StepsAre
    <2>8. draft' \in DraftType \union {Nil} /\ (cmd[c].op = "observe" => draft' \in DraftType)
      <3>1. CASE cmd[c].op = "observe"
        <4>1. cmd[c].sources \in Source /\ cmd[c].base \in Content \union {Nil}
          BY <1>1, <3>1, RunFields DEF SetupIInv, OutInv, OutputsAreOwned
        <4>2. [of |-> cmd[c].sources, filled |-> FALSE, authority |-> Nil] \in Bindings
          BY <4>1 DEF Bindings
        <4> QED
          BY <1>4, <3>1, <4>1, <4>2 DEF DraftType
      <3>2. CASE cmd[c].op # "observe"
        BY <1>4, <3>2 DEF SetupIInv, SetupTypeOK
      <3> QED
        BY <3>1, <3>2
    <2>a. trouble' \in 0..MaxTrouble
      BY <1>4, TroubledType DEF SetupIInv, SetupTypeOK
    <2>9. SetupTypeOK'
      BY <1>1, <2>a, <2>5, <2>6, <2>7, <2>8, StepsKept DEF SetupIInv, SetupTypeOK
    <2>10. TargetsSame /\ WorldSame
      BY <1>1, <2>2, <2>5, OutsideInit
    <2>11. InitInv'
      BY <1>1, <1>2, <2>6, <2>10, InitElsewhere DEF SetupIInv, Grows, OthersSame
    <2>12. PromoInv'
      BY <1>1, <2>6, <2>10, PromoOther DEF SetupIInv
    <2>13. OutInv'
      <3>1. \A d \in Command : d # c => cmd'[d] = cmd[d]
        BY <2>6 DEF OthersSame
      <3>3. CASE cmd[c].op = "observe"
        <4>1. f = "draft" /\ file'["change"] = file["change"] /\ draft' # Nil
          BY <3>3, <2>1, <2>2, <2>5, <2>8, SetupAssumption
        <4> QED
          BY <1>1, <2>6, <3>1, <3>3, <4>1 DEF SetupIInv, OutInv, OutputsAreOwned, Doing, Whole, Present
      <3>4. CASE cmd[c].op = "change"
        <4>1. f = "change" /\ file["change"] # Nil /\ file["change"].by = c
          BY <1>1, <3>4, <2>1 DEF SetupIInv, OutInv, OutputsAreOwned, Doing, Present
        <4>2. /\ file'["draft"] = file["draft"] /\ draft' = draft
              /\ file'["change"] # Nil /\ file'["change"].whole /\ file'["change"].by = c
          BY <1>4, <2>2, <2>3, <2>5, <3>4, <4>1
        <4> QED
          BY <1>1, <2>6, <3>1, <3>4, <4>1, <4>2
             DEF SetupIInv, OutInv, OutputsAreOwned, Doing, Whole, Present
      <3> QED
        BY <1>1, <3>3, <3>4
    <2>14. MergeIsCurrent'
      <3>1. /\ "agents" \in Path /\ "staged" \in Path /\ f # "agents" /\ f # "staged"
            /\ cmd'[c].op # "init"
        BY <1>1, <2>1, <2>6, InitFilesAre
      <3> QED
        BY <1>1, <2>5, <2>6, <3>1, MergeQuiet DEF SetupIInv, MergeKept, OthersSame
    <2> QED
      BY <2>9, <2>11, <2>12, <2>13, <2>14 DEF SetupIInv
  <1> QED
    BY <1>3, <1>4 DEF WriteOutput

OthersMerge(c) ==
    \A d \in Command : d # c =>
       cmd'[d].op # "init" \/ cmd'[d].pc \notin MergeSteps \/ cmd'[d] = cmd[d]

\* A step of project init before the merge of AGENTS.md.
LEMMA BeforeMerge ==
    ASSUME SetupIInv, NEW c \in Command, OthersMerge(c), agents' = agents,
           cmd'[c].op # "init" \/ cmd'[c].pc \notin MergeSteps,
           NEW f \in Target, \A g \in Path : g # f => file'[g] = file[g]
    PROVE  MergeIsCurrent'
  <1>1. /\ "agents" \in Path /\ "staged" \in Path /\ f # "agents" /\ f # "staged"
    BY InitFilesAre
  <1> QED
    BY <1>1, MergeQuiet DEF SetupIInv, MergeKept, OthersMerge

\* A step of project init, as far as the other commands are concerned.
LEMMA InitStep ==
    ASSUME SetupIInv, NEW c \in Command, OthersKeep(c), \A d \in Command : d # c => OutKept(d),
           cmd' \in [Command -> Run], cmd'[c].op \in {"init", "none"},
           \A d \in Command : cmd'[d].pc \in Steps[cmd'[d].op],
           file' \in [Path -> FileState \union {Nil}],
           file'["draft"] = file["draft"], file'["change"] = file["change"],
           installed' \in BOOLEAN, agents' \in [own : Nat, block : BOOLEAN],
           observation' \in Content, UNCHANGED <<draft, sources, accepted>>,
           left' \subseteq Target, trouble' \in 0..MaxTrouble,
           InitInv', PromoInv', MergeIsCurrent'
    PROVE  SetupIInv'
  <1>1. SetupTypeOK'
    BY DEF SetupIInv, SetupTypeOK
  <1>2. OutKept(c)
    BY DEF OutKept
  <1>3. OutInv'
    BY <1>2, OutQuiet DEF SetupIInv
  <1> QED
    BY <1>1, <1>3 DEF SetupIInv

LEMMA OthersSameKeep ==
    ASSUME NEW c \in Command, OthersSame(c)
    PROVE  OthersKeep(c) /\ OthersMerge(c) /\ \A d \in Command : d # c => OutKept(d)
  BY DEF OthersSame, OthersKeep, OthersMerge, OutKept

LEMMA CreateFilePreserves ==
    ASSUME SetupIInv, NEW c \in Command, CreateFile(c) PROVE SetupIInv'
  <1>1. /\ cmd[c] \in Run /\ cmd[c].op = "init" /\ cmd[c].pc = "next"
        /\ UNCHANGED <<installed, agents, draft, sources, accepted, left>>
    BY RunIsWhere DEF CreateFile, Doing, SetupIInv
  <1>2. cmd[c].at \in 0..3 /\ cmd[c].gone = 0 /\ (cmd[c].at > 0 => installed)
    BY <1>1, RunFields, InitFilesAre DEF SetupIInv, InitInv, InitIsWhere, Where, MergeSteps
  <1>3. PICK i \in InitFile : i = cmd[c].at + 1
    BY <1>2, InitFilesAre
  <1>4. PICK f : f = InitFiles[i]
    OBVIOUS
  <1>a. f \in Target
    BY <1>4, InitFilesFacts
  <1>b. SetupTypeOK
    BY DEF SetupIInv
  <1>5. f \in Path /\ f # "draft" /\ f # "change" /\ "draft" \in Path /\ "change" \in Path
    BY <1>4, InitFilesFacts, InitFilesAre
  <1>6. CASE /\ UNCHANGED trouble \/ Troubled
             /\ cmd[c].at = 0 /\ Fails(c) /\ UNCHANGED <<file, observation>>
    <2>1. cmd' \in [Command -> Run] /\ cmd'[c] = Idle /\ OthersSame(c)
      BY <1>6, FailsFields DEF SetupIInv, SetupTypeOK
    <2>2. TargetsSame /\ Grows /\ WorldSame
      BY <1>1, <1>6 DEF TargetsSame, Grows, WorldSame, Whole, Present
    <2>3. InitInv'
      BY <1>2, <1>6, <2>1, <2>2, IdleRun, InitElsewhere DEF SetupIInv, OthersSame
    <2>4. PromoInv'
      BY <2>1, <2>2, IdleRun, PromoOther DEF SetupIInv
    <2>5. cmd'[c].pc \in Steps[cmd'[c].op] /\ cmd'[c].op = "none" /\ trouble' \in 0..MaxTrouble
      BY <1>6, <1>b, <2>1, IdleRun, StepsAre, TroubledType DEF SetupTypeOK
    <2>6. MergeIsCurrent'
      BY <1>1, <1>6, <1>a, <2>1, <2>5, OthersSameKeep, BeforeMerge
    <2> QED
      BY <1>1, <1>6, <2>1, <2>3, <2>4, <2>5, <2>6, StepsKept, OthersSameKeep, InitStep
         DEF SetupIInv, SetupTypeOK
  <1>7. CASE /\ UNCHANGED trouble \/ Troubled
             /\ cmd[c].at # 0 /\ Goes(c, "remove") /\ UNCHANGED <<file, observation>>
    <2>1. Goes(c, "remove") /\ UNCHANGED <<file, observation>> /\ trouble' \in 0..MaxTrouble
      BY <1>7, <1>b, TroubledType DEF SetupTypeOK
    <2>2. cmd' \in [Command -> Run] /\ cmd'[c].pc = "remove" /\ SameBut(cmd'[c], cmd[c]) /\ OthersSame(c)
      BY <2>1, GoesFields DEF SetupIInv, SetupTypeOK, Step, InitSteps, MergeSteps
    <2>3. cmd'[c].pc \in Steps[cmd'[c].op] /\ cmd'[c].op = "init"
      BY <1>1, <2>2, StepsAre DEF SameBut, InitSteps, MergeSteps
    <2>4. TargetsSame /\ Grows /\ WorldSame
      BY <1>1, <2>1 DEF TargetsSame, Grows, WorldSame, Whole, Present
    <2>5. InitInv'
      BY <1>1, <1>2, <1>7, <2>2, <2>4, InitGoesOn DEF SetupIInv, InitSteps, MergeSteps
    <2>6. PromoInv'
      BY <2>2, <2>3, <2>4, PromoOther DEF SetupIInv
    <2>7. MergeIsCurrent'
      BY <1>1, <1>a, <2>1, <2>2, OthersSameKeep, BeforeMerge DEF MergeSteps
    <2> QED
      BY <1>1, <2>1, <2>2, <2>3, <2>5, <2>6, <2>7, StepsKept, OthersSameKeep, InitStep
         DEF SetupIInv, SetupTypeOK
  <1>8. CASE /\ ~Present(f) /\ UNCHANGED trouble /\ Create(c, f)
             /\ observation' = IF f = "observation" THEN EmptyObservation ELSE observation
             /\ cmd' = [cmd EXCEPT ![c].pc = "write", ![c].at = @ + 1]
    <2>1. /\ Create(c, f)
          /\ observation' = IF f = "observation" THEN EmptyObservation ELSE observation
          /\ cmd' = [cmd EXCEPT ![c].pc = "write", ![c].at = @ + 1]
      BY <1>8
    <2>2. PICK v : v = [by |-> c, whole |-> FALSE]
      OBVIOUS
    <2>3. v \in FileState
      BY <2>2, FileIs
    <2>4. /\ file' \in [Path -> FileState \union {Nil}] /\ file'[f] = v
          /\ \A g \in Path : g # f => file'[g] = file[g]
      BY <1>5, <2>1, <2>2, <2>3, FileSet DEF Create, SetupIInv
    <2>5. OneFile(i, v)
      BY <1>4, <2>4, OneFileSet
    <2>6. PICK r : r = [cmd[c] EXCEPT !.pc = "write", !.at = i]
      OBVIOUS
    <2>7. r \in Run /\ r.op = "init" /\ r.pc = "write" /\ r.at = i /\ r.gone = cmd[c].gone
      <3>1. "write" \in Step /\ i \in 0..Len(InitFiles)
        BY InitFilesAre DEF Step, InitSteps, MergeSteps
      <3> QED
        BY <1>1, <2>6, <3>1 DEF Run
    <2>8. cmd' = [cmd EXCEPT ![c] = r]
      BY <1>3, <2>1, <2>6
    <2>9. cmd' \in [Command -> Run] /\ cmd'[c] = r /\ OthersSame(c)
      BY <2>7, <2>8, RunSet DEF SetupIInv, SetupTypeOK
    <2>10. InitInv'
      BY <1>1, <1>3, <1>4, <1>8, <2>2, <2>5, <2>7, <2>9, CreateInit DEF SetupIInv, Doing
    <2>11. observation' \in Content
      BY <2>1 DEF SetupIInv, SetupTypeOK, EmptyObservation, Content
    <2>12. PromoInv'
      <3>1. CASE f = "observation"
        BY <1>1, <1>8, <3>1, <2>1, <2>7, <2>9, PromoCreates DEF SetupIInv
      <3>2. CASE f # "observation"
        <4>1. WorldSame
          BY <1>1, <3>2, <2>1, <2>4, InitFilesAre DEF WorldSame, Whole, Present
        <4> QED
          BY <4>1, <2>7, <2>9, PromoOther DEF SetupIInv
      <3> QED
        BY <3>1, <3>2
    <2>13. cmd'[c].pc \in Steps[cmd'[c].op]
      BY <2>7, <2>9, StepsAre DEF InitSteps, MergeSteps
    <2>14. file'["draft"] = file["draft"] /\ file'["change"] = file["change"]
      BY <1>5, <2>4
    <2>15. MergeIsCurrent'
      BY <1>1, <1>a, <2>4, <2>7, <2>9, OthersSameKeep, BeforeMerge DEF MergeSteps
    <2> QED
      BY <1>1, <1>8, <2>4, <2>7, <2>9, <2>10, <2>11, <2>12, <2>13, <2>14, <2>15, StepsKept,
         OthersSameKeep, InitStep
         DEF SetupIInv, SetupTypeOK
  <1> QED
    BY <1>3, <1>4, <1>6, <1>7, <1>8 DEF CreateFile

LEMMA WriteFilePreserves ==
    ASSUME SetupIInv, NEW c \in Command, WriteFile(c) PROVE SetupIInv'
  <1>1. /\ cmd[c] \in Run /\ cmd[c].op = "init" /\ cmd[c].pc = "write"
        /\ UNCHANGED <<installed, agents, observation, draft, sources, accepted, left, trouble>>
    BY RunIsWhere DEF WriteFile, Doing, SetupIInv
  <1>2. cmd[c].at \in 1..4 /\ cmd[c].gone = 0
    BY <1>1, RunFields, InitFilesAre DEF SetupIInv, InitInv, InitIsWhere, Where, MergeSteps
  <1>3. PICK i \in InitFile : i = cmd[c].at
    BY <1>2, InitFilesAre
  <1>4. PICK f : f = InitFiles[i]
    OBVIOUS
  <1>5. f \in Path /\ f # "draft" /\ f # "change" /\ "draft" \in Path /\ "change" \in Path
    BY <1>4, InitFilesFacts, InitFilesAre
  <1>6. file[f] # Nil
    BY <1>2, <1>3, <1>4 DEF SetupIInv, InitInv, FilesHaveOneOwner, Owns, MadeBy, Present
  <1>7. PICK v \in FileState \union {Nil} :
            /\ file' = [file EXCEPT ![f] = v]
            /\ file[f] # Nil => v \in FileState /\ v.whole = TRUE /\ v.by = file[f].by
    BY <1>3, <1>4, <1>5, FillIs DEF WriteFile, SetupIInv
  <1>8. /\ file' \in [Path -> FileState \union {Nil}] /\ file'[f] = v
        /\ \A g \in Path : g # f => file'[g] = file[g]
    BY <1>5, <1>7, FileSet DEF SetupIInv
  <1>9. OneFile(i, v)
    BY <1>4, <1>8, OneFileSet
  <1>10. PICK pc : pc = (CASE cmd[c].at = 1 -> "install" [] cmd[c].at = 4 -> "merge"
                           [] OTHER -> "next")
    OBVIOUS
  <1>11. pc \in {"install", "merge", "next"} /\ pc \in Step /\ pc \in InitSteps
    BY <1>2, <1>10 DEF Step, InitSteps, MergeSteps
  <1>12. Goes(c, pc)
    BY <1>10, InitFilesAre DEF WriteFile
  <1>13. cmd' \in [Command -> Run] /\ cmd'[c].pc = pc /\ SameBut(cmd'[c], cmd[c]) /\ OthersSame(c)
    BY <1>11, <1>12, GoesFields DEF SetupIInv, SetupTypeOK
  <1>14. cmd'[c].pc \in Steps[cmd'[c].op] /\ cmd'[c].op = "init"
    BY <1>1, <1>11, <1>13, StepsAre DEF SameBut
  <1>15. InitInv'
    BY <1>1, <1>3, <1>4, <1>6, <1>7, <1>9, <1>10, <1>13, FillInit DEF SetupIInv, Doing
  <1>16. WorldSame
    <2>1. CASE f = "observation"
      <3>1. v # Nil /\ v.whole = TRUE
        BY <1>6, <1>7, SetupAssumption
      <3> QED
        BY <1>1, <1>8, <2>1, <3>1 DEF WorldSame, Whole, Present
    <2>2. CASE f # "observation"
      BY <1>1, <1>8, <2>2, InitFilesAre DEF WorldSame, Whole, Present
    <2> QED
      BY <2>1, <2>2
  <1>17. PromoInv'
    BY <1>13, <1>14, <1>16, PromoOther DEF SetupIInv
  <1>18. file'["draft"] = file["draft"] /\ file'["change"] = file["change"]
    BY <1>5, <1>8
  <1>19. MergeIsCurrent'
    <2>1. f \in Target
      BY <1>4, InitFilesFacts
    <2> QED
      BY <1>1, <1>8, <1>11, <1>13, <2>1, OthersSameKeep, BeforeMerge DEF MergeSteps
  <1> QED
    BY <1>1, <1>8, <1>13, <1>14, <1>15, <1>17, <1>18, <1>19, StepsKept, OthersSameKeep, InitStep
       DEF SetupIInv, SetupTypeOK

LEMMA WriteFailsPreserves ==
    ASSUME SetupIInv, NEW c \in Command, WriteFails(c) PROVE SetupIInv'
  <1>1. /\ cmd[c] \in Run /\ cmd[c].op = "init" /\ cmd[c].pc = "write" /\ Troubled
        /\ UNCHANGED <<installed, agents, observation, draft, sources, accepted>>
    BY RunIsWhere DEF WriteFails, Doing, SetupIInv
  <1>2. cmd[c].at \in 1..4 /\ cmd[c].gone = 0 /\ (cmd[c].at > 1 => installed)
    BY <1>1, RunFields, InitFilesAre DEF SetupIInv, InitInv, InitIsWhere, Where, MergeSteps
  <1>3. PICK i \in InitFile : i = cmd[c].at
    BY <1>2, InitFilesAre
  <1>4. PICK f : f = InitFiles[i]
    OBVIOUS
  <1>5. f \in Path /\ f \in Target /\ f # "draft" /\ f # "change" /\ "draft" \in Path /\ "change" \in Path
    BY <1>4, InitFilesFacts, InitFilesAre
  <1>6. Owns(c, i) /\ file[f] # Nil
    BY <1>2, <1>3, <1>4 DEF SetupIInv, InitInv, FilesHaveOneOwner, Owns, MadeBy, Present
  <1>7. PICK v \in FileState \union {Nil} :
            /\ v # Nil /\ file' = [file EXCEPT ![f] = v]
            /\ file[f].whole => v.whole
    <2>1. CASE UNCHANGED file
      <3>1. PICK v : v = file[f]
        OBVIOUS
      <3>2. v \in FileState \union {Nil}
        BY <1>5, <3>1 DEF SetupIInv, SetupTypeOK
      <3>3. file' = [file EXCEPT ![f] = v]
        BY <1>5, <2>1, <3>1 DEF SetupIInv, SetupTypeOK
      <3> QED
        BY <1>6, <3>1, <3>2, <3>3
    <2>2. CASE Fill(f)
      BY <1>5, <1>6, <2>2, FillIs DEF SetupIInv
    <2> QED
      BY <1>3, <1>4, <2>1, <2>2 DEF WriteFails
  <1>8. /\ file' \in [Path -> FileState \union {Nil}] /\ file'[f] = v
        /\ \A g \in Path : g # f => file'[g] = file[g]
    BY <1>5, <1>7, FileSet DEF SetupIInv
  <1>9. OneFile(i, v)
    BY <1>4, <1>8, OneFileSet
  <1>10. left \subseteq left' /\ f \in left' /\ left' \subseteq Target
    BY <1>3, <1>4, <1>5 DEF WriteFails, SetupIInv, SetupTypeOK
  <1>11. PICK r \in Run : /\ cmd' = [cmd EXCEPT ![c] = r] /\ r.gone = 0
                         /\ \/ cmd[c].at = 1 /\ r = Idle
                            \/ cmd[c].at > 1 /\ r.op = "init" /\ r.pc = "remove"
                         /\ r.at = cmd[c].at - 1
    <2>1. CASE cmd[c].at = 1
      BY <1>2, <2>1, IdleRun DEF WriteFails, Fails
    <2>2. CASE cmd[c].at # 1
      <3>1. PICK a : a = cmd[c].at - 1
        OBVIOUS
      <3>2. "remove" \in Step /\ a \in 0..Len(InitFiles) /\ cmd[c].at > 1
        BY <1>2, <2>2, <3>1, InitFilesAre DEF Step, InitSteps, MergeSteps
      <3>3. PICK r : r = [cmd[c] EXCEPT !.pc = "remove", !.at = a]
        OBVIOUS
      <3>4. r \in Run /\ r.op = "init" /\ r.pc = "remove" /\ r.at = a /\ r.gone = 0
        BY <1>1, <1>2, <3>2, <3>3 DEF Run
      <3>5. cmd' = [cmd EXCEPT ![c] = r]
        BY <2>2, <3>1, <3>3 DEF WriteFails
      <3> QED
        BY <3>1, <3>2, <3>4, <3>5
    <2> QED
      BY <2>1, <2>2
  <1>12. cmd' \in [Command -> Run] /\ cmd'[c] = r /\ OthersSame(c)
    BY <1>11, RunSet DEF SetupIInv, SetupTypeOK
  <1>13. /\ cmd'[c].pc \in Steps[cmd'[c].op] /\ cmd'[c].op \in {"init", "none"}
         /\ cmd'[c].pc \notin {"write", "done"}
         /\ cmd'[c].op # "init" \/ cmd'[c].pc \notin MergeSteps
    BY <1>11, <1>12, IdleRun, StepsAre DEF InitSteps, MergeSteps
  <1>14. Where(cmd[c])'
    BY <1>1, <1>2, <1>11, <1>12, IdleRun DEF Where, MergeSteps
  <1>15. \A j \in InitFile : Owns(c, j)' <=> Owns(c, j) /\ j # i
    BY <1>2, <1>3, <1>11, <1>12, InitFilesFacts DEF Owns
  <1>16. OthersKeep(c) /\ OthersMerge(c) /\ \A d \in Command : d # c => OutKept(d)
    BY <1>12, OthersSameKeep
  <1>17. InitInv'
    BY <1>1, <1>3, <1>4, <1>6, <1>9, <1>10, <1>13, <1>14, <1>15, <1>16, DropInit DEF SetupIInv
  <1>18. PromoInv'
    <2>1. WorldSame
      <3>1. CASE f = "observation"
        BY <1>1, <1>7, <1>8, <3>1 DEF WorldSame, Whole, Present
      <3>2. CASE f # "observation"
        BY <1>1, <1>8, <3>2, InitFilesAre DEF WorldSame, Whole, Present
      <3> QED
        BY <3>1, <3>2
    <2> QED
      BY <1>12, <1>13, <2>1, PromoOther DEF SetupIInv
  <1>19. trouble' \in 0..MaxTrouble
    BY <1>1, TroubledType DEF SetupIInv
  <1>20. MergeIsCurrent'
    BY <1>1, <1>5, <1>8, <1>13, <1>16, BeforeMerge
  <1>21. file'["draft"] = file["draft"] /\ file'["change"] = file["change"]
    BY <1>5, <1>8
  <1> QED
    BY <1>1, <1>8, <1>10, <1>12, <1>13, <1>16, <1>17, <1>18, <1>19, <1>20, <1>21, StepsKept, InitStep
       DEF SetupIInv, SetupTypeOK

LEMMA InstallReleasePreserves ==
    ASSUME SetupIInv, NEW c \in Command, InstallRelease(c) PROVE SetupIInv'
  <1>1. /\ cmd[c] \in Run /\ cmd[c].op = "init" /\ cmd[c].pc = "install"
        /\ UNCHANGED <<agents, observation, draft, sources, accepted>>
    BY RunIsWhere DEF InstallRelease, Doing, SetupIInv
  <1>2. cmd[c].at = 1 /\ cmd[c].gone = 0
    BY <1>1 DEF SetupIInv, InitInv, InitIsWhere, Where, MergeSteps
  <1>a. "trust" \in Target /\ 1 \in InitFile /\ InitFiles[1] = "trust"
    BY InitFilesAre
  <1>3. CASE installed' = TRUE /\ Goes(c, "next") /\ UNCHANGED <<file, left, trouble>>
    <2>1. cmd' \in [Command -> Run] /\ cmd'[c].pc = "next" /\ SameBut(cmd'[c], cmd[c]) /\ OthersSame(c)
      BY <1>3, GoesFields DEF SetupIInv, SetupTypeOK, Step, InitSteps, MergeSteps
    <2>2. cmd'[c].pc \in Steps[cmd'[c].op] /\ cmd'[c].op = "init"
      BY <1>1, <2>1, StepsAre DEF SameBut, InitSteps, MergeSteps
    <2>3. TargetsSame /\ Grows /\ WorldSame
      BY <1>1, <1>3 DEF TargetsSame, Grows, WorldSame, Whole, Present
    <2>4. InitInv'
      BY <1>1, <1>2, <1>3, <2>1, <2>3, InitGoesOn DEF SetupIInv, InitSteps, MergeSteps
    <2>5. PromoInv'
      BY <2>1, <2>2, <2>3, PromoOther DEF SetupIInv
    <2>6. MergeIsCurrent'
      BY <1>1, <1>a, <1>3, <2>1, OthersSameKeep, BeforeMerge DEF MergeSteps
    <2> QED
      BY <1>1, <1>3, <2>1, <2>2, <2>4, <2>5, <2>6, StepsKept, OthersSameKeep, InitStep
         DEF SetupIInv, SetupTypeOK
  <1>4. CASE Troubled /\ file' = [file EXCEPT !["trust"] = Nil] /\ Fails(c)
             /\ UNCHANGED <<installed, left>>
    <2>1. /\ "trust" \in Path /\ 1 \in InitFile /\ InitFiles[1] = "trust"
          /\ "draft" \in Path /\ "change" \in Path /\ "observation" \in Path
      BY InitFilesAre
    <2>2. /\ file' \in [Path -> FileState \union {Nil}] /\ file'["trust"] = Nil
          /\ \A g \in Path : g # "trust" => file'[g] = file[g]
      BY <1>4, <2>1, FileSet DEF SetupIInv
    <2>3. OneFile(1, Nil)
      BY <2>1, <2>2, OneFileSet
    <2>4. cmd' \in [Command -> Run] /\ cmd'[c] = Idle /\ OthersSame(c)
      BY <1>4, FailsFields DEF SetupIInv, SetupTypeOK
    <2>5. OthersKeep(c) /\ OthersMerge(c) /\ \A d \in Command : d # c => OutKept(d)
      BY <2>4, OthersSameKeep
    <2>6. Where(cmd[c])'
      BY <2>4, IdleRun DEF Where, MergeSteps
    <2>7. Owns(c, 1) /\ \A j \in InitFile : Owns(c, j)' <=> Owns(c, j) /\ j # 1
      BY <1>2, <2>4, IdleRun, InitFilesFacts DEF Owns
    <2>8. InitInv'
      BY <1>1, <1>4, <2>1, <2>3, <2>4, <2>5, <2>6, <2>7, IdleRun, DropInit DEF SetupIInv
    <2>9. WorldSame
      BY <1>1, <2>1, <2>2 DEF WorldSame, Whole, Present
    <2>10. PromoInv'
      BY <2>4, <2>9, IdleRun, PromoOther DEF SetupIInv
    <2>11. trouble' \in 0..MaxTrouble
      BY <1>4, TroubledType DEF SetupIInv
    <2>12. cmd'[c].op = "none" /\ cmd'[c].pc \in Steps[cmd'[c].op]
      BY <2>4, IdleRun, StepsAre
    <2>13. file'["draft"] = file["draft"] /\ file'["change"] = file["change"]
      BY <2>1, <2>2
    <2>14. MergeIsCurrent'
      BY <1>1, <1>a, <2>2, <2>5, <2>12, BeforeMerge
    <2> QED
      BY <1>1, <1>4, <2>14, <2>2, <2>4, <2>5, <2>8, <2>10, <2>11, <2>12, <2>13, StepsKept, InitStep
         DEF SetupIInv, SetupTypeOK
  <1>5. CASE /\ Troubled /\ Fails(c) /\ left' = left \union {"trust"} /\ UNCHANGED file
             /\ installed' \in {installed, TRUE}
    <2>1. cmd' \in [Command -> Run] /\ cmd'[c] = Idle /\ OthersSame(c)
      BY <1>5, FailsFields DEF SetupIInv, SetupTypeOK
    <2>2. TargetsSame /\ WorldSame
      BY <1>1, <1>5 DEF TargetsSame, WorldSame, Whole, Present
    <2>3. \A i \in InitFile : Owns(c, i) => InitFiles[i] \in left'
      BY <1>2, <1>5, <1>a, InitFilesFacts DEF Owns
    <2>4. InitInv'
      <3>1. installed' = installed \/ installed' = TRUE
        BY <1>5
      <3>2. installed => installed'
        BY <3>1, Zenon
      <3>3. left \subseteq left' /\ agents' = agents
        BY <1>1, <1>5
      <3> QED
        BY <2>1, <2>2, <2>3, <3>2, <3>3, KillInit DEF SetupIInv
    <2>5. PromoInv'
      BY <2>1, <2>2, IdleRun, PromoOther DEF SetupIInv
    <2>6. /\ trouble' \in 0..MaxTrouble /\ left' \subseteq Target /\ installed' \in BOOLEAN
      BY <1>a, <1>5, TroubledType DEF SetupIInv, SetupTypeOK
    <2>7. cmd'[c].op = "none" /\ cmd'[c].pc \in Steps[cmd'[c].op]
      BY <2>1, IdleRun, StepsAre
    <2>8. MergeIsCurrent'
      BY <1>1, <1>5, <1>a, <2>1, <2>7, OthersSameKeep, BeforeMerge
    <2> QED
      BY <1>1, <1>5, <2>1, <2>4, <2>5, <2>6, <2>7, <2>8, StepsKept, OthersSameKeep, InitStep
         DEF SetupIInv, SetupTypeOK
  <1> QED
    BY <1>3, <1>4, <1>5 DEF InstallRelease

LEMMA RollBackPreserves ==
    ASSUME SetupIInv, NEW c \in Command, RollBack(c) PROVE SetupIInv'
  <1>1. /\ cmd[c] \in Run /\ cmd[c].op = "init" /\ cmd[c].pc = "remove"
        /\ UNCHANGED <<installed, agents, observation, draft, sources, accepted>>
    BY RunIsWhere DEF RollBack, Doing, SetupIInv
  <1>2. /\ cmd[c].at \in 1..4 /\ cmd[c].gone \in 0..3 /\ cmd[c].gone < cmd[c].at /\ installed
    BY <1>1, RunFields DEF SetupIInv, InitInv, InitIsWhere, Where, MergeSteps
  <1>3. PICK k \in InitFile : k = cmd[c].gone + 1
    BY <1>2, InitFilesAre
  <1>4. PICK f : f = InitFiles[k]
    OBVIOUS
  <1>5. f \in Path /\ f # "draft" /\ f # "change" /\ "draft" \in Path /\ "change" \in Path
    BY <1>4, InitFilesFacts, InitFilesAre
  <1>a. PICK removed \in BOOLEAN :
           IF removed THEN file' = [file EXCEPT ![f] = Nil] /\ UNCHANGED <<left, trouble>>
                      ELSE Troubled /\ left' = left \union {f} /\ UNCHANGED file
    BY <1>3, <1>4 DEF RollBack
  <1>b. f \in Target /\ file[f] # Nil /\ file[f] \in FileState
    <2>1. Owns(c, k)
      BY <1>2, <1>3 DEF Owns
    <2> QED
      BY <1>4, <1>5, <2>1, InitFilesFacts DEF SetupIInv, InitInv, FilesHaveOneOwner, MadeBy, Present, SetupTypeOK
  <1>c. PICK v \in FileState \union {Nil} : v = IF removed THEN Nil ELSE file[f]
    BY <1>b
  <1>d. file' = [file EXCEPT ![f] = v]
    BY <1>a, <1>c, <1>5 DEF SetupIInv, SetupTypeOK
  <1>e. /\ left \subseteq left' /\ left' \subseteq Target /\ (v = Nil \/ f \in left')
        /\ trouble' \in 0..MaxTrouble
    BY <1>a, <1>b, <1>c, TroubledType DEF SetupIInv, SetupTypeOK
  <1>6. /\ file' \in [Path -> FileState \union {Nil}] /\ file'[f] = v
        /\ \A g \in Path : g # f => file'[g] = file[g]
    BY <1>5, <1>d, FileSet DEF SetupIInv
  <1>7. OneFile(k, v)
    BY <1>4, <1>6, OneFileSet
  <1>f. PICK seen \in BOOLEAN :
           /\ seen => f = "observation"
           /\ ~seen /\ f = "observation" => v # Nil
           /\ cmd' = [(IF seen THEN Disturbed("observation") ELSE cmd) EXCEPT
                          ![c] = IF k < cmd[c].at THEN [cmd[c] EXCEPT !.gone = @ + 1] ELSE Idle]
    <2> DEFINE next == IF k < cmd[c].at THEN [cmd[c] EXCEPT !.gone = @ + 1] ELSE Idle
    <2>1. \/ cmd' = [(IF f = "observation" THEN Disturbed("observation") ELSE cmd) EXCEPT ![c] = next]
          \/ UNCHANGED file /\ cmd' = [cmd EXCEPT ![c] = next]
      BY <1>3, <1>4 DEF RollBack
    <2> HIDE DEF next
    <2>2. UNCHANGED file => v # Nil
      BY <1>b, <1>6
    <2>3. CASE f = "observation"
      BY <2>1, <2>2, <2>3 DEF next
    <2>4. CASE f # "observation"
      BY <2>1, <2>4 DEF next
    <2> QED
      BY <2>3, <2>4
  <1>8. PICK m : m = IF seen THEN Disturbed("observation") ELSE cmd
    OBVIOUS
  <1>9. /\ m \in [Command -> Run] /\ m[c] = cmd[c]
        /\ \A d \in Command : /\ m[d].op = cmd[d].op /\ m[d].pc = cmd[d].pc
                              /\ m[d].at = cmd[d].at /\ m[d].gone = cmd[d].gone
                              /\ m[d].sources = cmd[d].sources
                              /\ cmd[d].op = "init" => m[d] = cmd[d]
    <2>1. CASE seen
      BY <1>1, <1>8, <2>1, DisturbedFields DEF SetupIInv, SetupTypeOK, Thing
    <2>2. CASE ~seen
      BY <1>8, <2>2 DEF SetupIInv, SetupTypeOK
    <2> QED
      BY <2>1, <2>2
  <1>10. PICK r \in Run : /\ cmd' = [m EXCEPT ![c] = r]
                          /\ \/ k < cmd[c].at /\ r.op = "init" /\ r.pc = "remove"
                                /\ r.at = cmd[c].at /\ r.gone = k
                             \/ k = cmd[c].at /\ r = Idle
    <2>1. CASE k < cmd[c].at
      <3>1. k \in 0..Len(InitFiles)
        BY InitFilesAre
      <3>2. PICK r : r = [cmd[c] EXCEPT !.gone = k]
        OBVIOUS
      <3>3. r \in Run /\ r.op = "init" /\ r.pc = "remove" /\ r.at = cmd[c].at /\ r.gone = k
        BY <1>1, <3>1, <3>2 DEF Run
      <3>4. [cmd[c] EXCEPT !.gone = @ + 1] = r
        BY <1>1, <1>3, <3>2 DEF Run
      <3>5. cmd' = [m EXCEPT ![c] = r]
        BY <1>f, <1>8, <2>1, <3>4
      <3> QED
        BY <2>1, <3>3, <3>5
    <2>2. CASE ~(k < cmd[c].at)
      <3>1. k = cmd[c].at
        BY <1>2, <1>3, <2>2
      <3>2. cmd' = [m EXCEPT ![c] = Idle]
        BY <1>f, <1>8, <2>2
      <3> QED
        BY <3>1, <3>2, IdleRun
    <2> QED
      BY <2>1, <2>2
  <1>11. /\ cmd' \in [Command -> Run] /\ cmd'[c] = r
         /\ \A d \in Command : d # c => cmd'[d] = m[d]
    BY <1>9, <1>10
  <1>12. OthersKeep(c) /\ OthersMerge(c) /\ \A d \in Command : d # c => OutKept(d)
    BY <1>9, <1>11 DEF OthersKeep, OthersMerge, OutKept
  <1>13. Where(cmd[c])' /\ cmd'[c].op \in {"init", "none"} /\ cmd'[c].pc \notin {"write", "done"}
         /\ (cmd'[c].op # "init" \/ cmd'[c].pc \notin MergeSteps)
    BY <1>1, <1>2, <1>3, <1>10, <1>11, IdleRun DEF Where, MergeSteps
  <1>14. Owns(c, k) /\ \A j \in InitFile : Owns(c, j)' <=> Owns(c, j) /\ j # k
    BY <1>2, <1>3, <1>10, <1>11, IdleRun, InitFilesFacts DEF Owns
  <1>15. InitInv'
    BY <1>1, <1>4, <1>7, <1>e, <1>12, <1>13, <1>14, DropInit DEF SetupIInv
  <1>16. PromoInv'
    <2>1. CASE seen
      <3>1. ASSUME NEW d \in Command PROVE PromoAt(d)'
        <4>1. CASE d = c
          BY <4>1, <1>13 DEF PromoAt
        <4>2. CASE d # c
          <5>1. "observation" \in Thing /\ cmd'[d] = Disturbed("observation")[d]
            BY <2>1, <4>2, <1>8, <1>11 DEF Thing
          <5> QED
            BY <1>1, <5>1, PromoDisturbed DEF SetupIInv
        <4> QED
          BY <4>1, <4>2
      <3>2. InForceWasReviewed'
        BY <1>1 DEF SetupIInv, PromoInv, InForceWasReviewed
      <3> QED
        BY <3>1, <3>2 DEF PromoInv
    <2>2. CASE ~seen
      <3>1. WorldSame
        <4>1. f # "observation" \/ (v # Nil /\ v = file[f])
          BY <1>c, <1>f, <2>2
        <4> QED
          BY <1>1, <1>6, <4>1, InitFilesAre DEF WorldSame, Whole, Present
      <3>2. OthersSame(c)
        BY <1>8, <1>11, <2>2 DEF OthersSame
      <3> QED
        BY <1>13, <3>1, <3>2, PromoOther DEF SetupIInv
    <2> QED
      BY <2>1, <2>2
  <1>17. \A d \in Command : cmd'[d].pc \in Steps[cmd'[d].op]
    <2>1. cmd'[c].pc \in Steps[cmd'[c].op]
      BY <1>10, <1>11, IdleRun, StepsAre DEF InitSteps, MergeSteps
    <2> QED
      BY <2>1, <1>12 DEF OthersKeep, SetupIInv, SetupTypeOK
  <1>18. file'["draft"] = file["draft"] /\ file'["change"] = file["change"]
    BY <1>5, <1>6
  <1>19. MergeIsCurrent'
    BY <1>1, <1>6, <1>b, <1>12, <1>13, BeforeMerge
  <1> QED
    BY <1>1, <1>e, <1>6, <1>11, <1>12, <1>13, <1>15, <1>16, <1>17, <1>18, <1>19, InitStep DEF SetupIInv, SetupTypeOK

\* A step of merge_agents_block, which touches no file but AGENTS.md and the
\* staged one.
LEMMA MergeStep ==
    ASSUME SetupIInv, NEW c \in Command, cmd[c].op = "init",
           \A g \in Path : g \notin {"agents", "staged"} => file'[g] = file[g],
           file' \in [Path -> FileState \union {Nil}],
           agents' \in [own : Nat, block : BOOLEAN],
           UNCHANGED <<installed, observation, draft, sources, accepted, left>>,
           trouble' \in 0..MaxTrouble, cmd' \in [Command -> Run], OthersSame(c),
           cmd'[c].op = "init", cmd'[c].pc \in InitSteps \union {"done"},
           TargetsSame => InitInv', MergeIsCurrent'
    PROVE  SetupIInv'
  <1>1. "draft" \in Path /\ "change" \in Path /\ "observation" \in Path
    BY InitFilesAre
  <1>2. TargetsSame
    BY InitFilesFacts DEF TargetsSame
  <1>3. WorldSame
    BY <1>1 DEF WorldSame, Whole, Present
  <1>4. PromoInv'
    BY <1>3, PromoOther DEF SetupIInv
  <1>5. cmd'[c].pc \in Steps[cmd'[c].op]
    BY StepsAre
  <1> QED
    BY <1>1, <1>2, <1>4, <1>5, StepsKept, OthersSameKeep, InitStep DEF SetupIInv, SetupTypeOK

\* ... that goes on to pc,
LEMMA MergeGoesOn ==
    ASSUME SetupIInv, NEW c \in Command, cmd[c].op = "init",
           cmd[c].pc \in {"merge"} \union MergeSteps,
           NEW pc \in MergeSteps \union {"remove"}, cmd'[c].pc = pc, SameBut(cmd'[c], cmd[c]),
           cmd' \in [Command -> Run], OthersSame(c),
           \A g \in Path : g \notin {"agents", "staged"} => file'[g] = file[g],
           file' \in [Path -> FileState \union {Nil}],
           agents' \in [own : Nat, block : BOOLEAN], agents.block => agents'.block,
           UNCHANGED <<installed, observation, draft, sources, accepted, left>>,
           trouble' \in 0..MaxTrouble, MergeIsCurrent'
    PROVE  SetupIInv'
  <1>1. cmd[c].at = 4 /\ cmd[c].gone = 0 /\ installed
    BY InitFilesAre DEF SetupIInv, InitInv, InitIsWhere, Where, MergeSteps
  <1>2. pc \in InitSteps \ {"write"} /\ pc \notin {"install", "next"}
        /\ cmd[c].pc \notin {"write", "done"}
    BY DEF InitSteps, MergeSteps
  <1>4. Grows
    BY DEF Grows
  <1>5. TargetsSame => InitInv'
    BY <1>1, <1>2, <1>4, InitGoesOn DEF SetupIInv
  <1>6. cmd'[c].op = "init" /\ cmd'[c].pc \in InitSteps
    BY <1>2 DEF SameBut
  <1> QED
    BY <1>5, <1>6, MergeStep

\* The run's text and what it missed stay, and so does the project's own text.
LEMMA MergeMoves ==
    ASSUME SetupIInv, NEW c \in Command, cmd[c].op = "init",
           cmd[c].pc \in MergeSteps,
           NEW pc \in {"stage", "new", "replace", "remove"}, Goes(c, pc),
           \A g \in Path : g \notin {"agents", "staged"} => file'[g] = file[g],
           file' \in [Path -> FileState \union {Nil}],
           file["agents"] # Nil => file'["agents"] # Nil,
           pc \in {"stage", "replace"} => file'["staged"] # Nil,
           agents' \in [own : Nat, block : BOOLEAN], agents.block => agents'.block,
           agents'.own = agents.own,
           UNCHANGED <<installed, observation, draft, sources, accepted, left>>,
           trouble' \in 0..MaxTrouble
    PROVE  SetupIInv'
  <1>1. pc \in Step /\ pc \in MergeSteps \union {"remove"}
    BY DEF Step, InitSteps, MergeSteps
  <1>2. /\ cmd' \in [Command -> Run] /\ cmd'[c].pc = pc /\ SameBut(cmd'[c], cmd[c]) /\ OthersSame(c)
        /\ cmd'[c].text = cmd[c].text
    BY <1>1, GoesFields DEF SetupIInv, SetupTypeOK
  <1>3. MergeIsCurrent'
    <2>1. file'["agents"] = Nil => agents'.own = 0
      BY DEF SetupIInv, MergeIsCurrent, Present
    <2>2. "agents" \notin cmd'[c].late => cmd'[c].text = agents'.own
      BY <1>2 DEF SetupIInv, MergeIsCurrent, SameBut
    <2> QED
      BY <1>2, <2>1, <2>2, MergeCurrent DEF SetupIInv
  <1> QED
    BY <1>1, <1>2, <1>3, MergeGoesOn

\* ... or ends the initialization.
LEMMA MergeSucceeds ==
    ASSUME SetupIInv, NEW c \in Command, cmd[c].op = "init",
           cmd[c].pc \in {"merge"} \union MergeSteps, Succeeds(c),
           \A g \in Path : g \notin {"agents", "staged"} => file'[g] = file[g],
           file' \in [Path -> FileState \union {Nil}],
           agents' \in [own : Nat, block : BOOLEAN], agents'.block,
           file'["agents"] = Nil => agents'.own = 0,
           UNCHANGED <<installed, observation, draft, sources, accepted, left, trouble>>
    PROVE  SetupIInv'
  <1>1. /\ cmd' \in [Command -> Run] /\ cmd'[c].op = "init" /\ cmd'[c].pc = "done"
        /\ cmd'[c].at = 0 /\ cmd'[c].gone = 0 /\ OthersSame(c)
    BY SucceedsFields DEF SetupIInv, SetupTypeOK
  <1>2. TargetsSame => InitInv'
    BY <1>1, CompleteInit DEF SetupIInv
  <1>3. MergeIsCurrent'
    BY <1>1, MergeCurrent DEF SetupIInv, MergeSteps
  <1> QED
    BY <1>1, <1>2, <1>3, MergeStep DEF SetupIInv, SetupTypeOK

LEMMA MergeFiles ==
    ASSUME SetupTypeOK, NEW f \in {"agents", "staged"}, NEW v \in FileState \union {Nil},
           file' = [file EXCEPT ![f] = v]
    PROVE  /\ file' \in [Path -> FileState \union {Nil}]
           /\ \A g \in Path : g \notin {"agents", "staged"} => file'[g] = file[g]
  BY FileSet, InitFilesAre

LEMMA MergePreserves ==
    ASSUME SetupIInv, NEW c \in Command, Merge(c) PROVE SetupIInv'
  <1>1. /\ cmd[c] \in Run /\ cmd[c].op = "init" /\ cmd[c].pc = "merge"
        /\ UNCHANGED <<file, installed, agents, observation, draft, sources, accepted, left>>
    BY DEF Merge, Doing, SetupIInv, SetupTypeOK
  <1>2. /\ agents' \in [own : Nat, block : BOOLEAN] /\ agents \in [own : Nat, block : BOOLEAN]
        /\ file' \in [Path -> FileState \union {Nil}] /\ SetupTypeOK
        /\ trouble \in 0..MaxTrouble /\ cmd \in [Command -> Run]
        /\ file["agents"] = Nil => agents.own = 0
    BY <1>1 DEF SetupIInv, SetupTypeOK, MergeIsCurrent, Present
  <1>3. CASE Present("agents") /\ agents.block /\ Succeeds(c) /\ UNCHANGED trouble
    BY <1>1, <1>2, <1>3, MergeSucceeds
  <1>4. CASE /\ cmd' = [cmd EXCEPT ![c].pc = IF Present("agents") THEN "staging" ELSE "creating",
                                  ![c].text = agents.own]
             /\ UNCHANGED trouble
    <2>1. PICK pc \in {"staging", "creating"} : pc = IF Present("agents") THEN "staging" ELSE "creating"
      OBVIOUS
    <2>2. PICK own \in Nat : own = agents.own
      BY <1>2
    <2>3. PICK r : r = [cmd[c] EXCEPT !.pc = pc, !.text = own]
      OBVIOUS
    <2>4. pc \in Step
      BY DEF Step, InitSteps, MergeSteps
    <2>5. r \in Run /\ r.pc = pc /\ r.text = own /\ SameBut(r, cmd[c])
      BY <1>1, <2>3, <2>4 DEF Run, SameBut
    <2>6. cmd' = [cmd EXCEPT ![c] = r]
      BY <1>4, <2>1, <2>2, <2>3
    <2>7. cmd' \in [Command -> Run] /\ cmd'[c] = r /\ OthersSame(c)
      BY <1>2, <2>5, <2>6, RunSet
    <2>8. MergeIsCurrent'
      BY <1>1, <1>2, <2>2, <2>5, <2>7, MergeCurrent DEF SetupIInv
    <2>9. pc \in MergeSteps \union {"remove"}
      BY DEF MergeSteps
    <2> QED
      BY <1>1, <1>2, <1>4, <2>5, <2>7, <2>8, <2>9, MergeGoesOn
  <1>5. CASE Troubled /\ Goes(c, "remove")
    <2>1. "remove" \in Step
      BY DEF Step, InitSteps, MergeSteps
    <2>2. /\ cmd' \in [Command -> Run] /\ cmd'[c].pc = "remove" /\ SameBut(cmd'[c], cmd[c])
          /\ OthersSame(c)
      BY <1>2, <1>5, <2>1, GoesFields
    <2>3. MergeIsCurrent'
      BY <1>1, <1>2, <2>2, MergeCurrent DEF SetupIInv, MergeSteps
    <2> QED
      BY <1>1, <1>2, <1>5, <2>2, <2>3, TroubledType, MergeGoesOn
  <1> QED
    BY <1>3, <1>4, <1>5 DEF Merge

LEMMA CreateMergePreserves ==
    ASSUME SetupIInv, NEW c \in Command, CreateMerge(c) PROVE SetupIInv'
  <1>1. /\ cmd[c].op = "init" /\ cmd[c].pc \in {"staging", "creating"} /\ cmd[c].pc \in MergeSteps
        /\ UNCHANGED <<installed, agents, observation, draft, sources, accepted, left>>
    BY DEF CreateMerge, MergeSteps
  <1>2. /\ agents \in [own : Nat, block : BOOLEAN] /\ file \in [Path -> FileState \union {Nil}]
        /\ SetupTypeOK /\ trouble \in 0..MaxTrouble
    BY DEF SetupIInv, SetupTypeOK
  <1>3. CASE Goes(c, "remove") /\ UNCHANGED file /\ (UNCHANGED trouble \/ Troubled)
    BY <1>1, <1>2, <1>3, TroubledType, MergeMoves
  <1>4. ASSUME NEW f \in {"agents", "staged"}, NEW pc \in {"stage", "new"},
               pc = "stage" => f = "staged", Create(c, f), Goes(c, pc), UNCHANGED trouble
        PROVE  SetupIInv'
    <2>1. PICK v : v = [by |-> c, whole |-> FALSE]
      OBVIOUS
    <2>2. v \in FileState /\ v # Nil
      BY <2>1, FileIs
    <2>3. file' = [file EXCEPT ![f] = v]
      BY <1>4, <2>1 DEF Create
    <2>4. /\ file' \in [Path -> FileState \union {Nil}]
          /\ \A g \in Path : g \notin {"agents", "staged"} => file'[g] = file[g]
      BY <1>2, <2>2, <2>3, MergeFiles
    <2>5. file'[f] = v /\ (file["agents"] # Nil => file'["agents"] # Nil)
      BY <1>2, <2>2, <2>3, InitFilesAre
    <2> QED
      BY <1>1, <1>2, <1>4, <2>2, <2>4, <2>5, MergeMoves
  <1>5. PICK f \in {"agents", "staged"} : f = IF cmd[c].pc = "staging" THEN "staged" ELSE "agents"
    OBVIOUS
  <1> QED
    BY <1>3, <1>4, <1>5 DEF CreateMerge

LEMMA WriteMergePreserves ==
    ASSUME SetupIInv, NEW c \in Command, WriteMerge(c) PROVE SetupIInv'
  <1>1. /\ cmd[c].op = "init" /\ cmd[c].pc \in {"stage", "new"} /\ cmd[c].pc \in MergeSteps
        /\ UNCHANGED <<installed, observation, draft, sources, accepted, left>>
    BY DEF WriteMerge, MergeSteps
  <1>2. /\ SetupTypeOK /\ file \in [Path -> FileState \union {Nil}]
        /\ agents \in [own : Nat, block : BOOLEAN] /\ trouble \in 0..MaxTrouble
        /\ file["agents"] = Nil => agents.own = 0
        /\ cmd[c].pc = "stage" => file["staged"] # Nil
    BY <1>1 DEF SetupIInv, SetupTypeOK, MergeIsCurrent, Present
  <1>3. CASE Troubled /\ Goes(c, "remove") /\ UNCHANGED <<file, agents>>
    BY <1>1, <1>2, <1>3, TroubledType, MergeMoves
  <1>4. CASE /\ Fill(IF cmd[c].pc = "stage" THEN "staged" ELSE "agents")
             /\ agents' = IF cmd[c].pc = "new" THEN [agents EXCEPT !.block = TRUE] ELSE agents
             /\ \/ /\ IF cmd[c].pc = "stage" THEN Goes(c, "replace") ELSE Succeeds(c)
                   /\ UNCHANGED trouble
                \/ Troubled /\ Goes(c, "remove")
    <2>1. PICK f \in {"agents", "staged"} : f = IF cmd[c].pc = "stage" THEN "staged" ELSE "agents"
      OBVIOUS
    <2>2. Fill(f) /\ f \in Path
      BY <1>4, <2>1, InitFilesAre
    <2>3. PICK v \in FileState \union {Nil} :
              /\ file' = [file EXCEPT ![f] = v]
              /\ file[f] = Nil <=> v = Nil
              /\ file[f] # Nil => v \in FileState /\ v.whole = TRUE /\ v.by = file[f].by
      BY <1>2, <2>2, FillIs
    <2>4. /\ file' \in [Path -> FileState \union {Nil}]
          /\ \A g \in Path : g \notin {"agents", "staged"} => file'[g] = file[g]
      BY <1>2, <2>1, <2>3, MergeFiles
    <2>5. /\ (file["agents"] = Nil) <=> (file'["agents"] = Nil)
          /\ (file["staged"] = Nil) <=> (file'["staged"] = Nil)
      BY <1>2, <2>1, <2>2, <2>3, InitFilesAre
    <2>6. /\ agents' \in [own : Nat, block : BOOLEAN] /\ agents'.own = agents.own
          /\ (agents.block => agents'.block) /\ (cmd[c].pc = "new" => agents'.block)
      BY <1>2, <1>4
    <2>7. CASE Troubled /\ Goes(c, "remove")
      BY <1>1, <1>2, <2>4, <2>5, <2>6, <2>7, TroubledType, MergeMoves
    <2>8. CASE cmd[c].pc = "stage" /\ Goes(c, "replace") /\ UNCHANGED trouble
      BY <1>1, <1>2, <2>4, <2>5, <2>6, <2>8, MergeMoves
    <2>9. CASE cmd[c].pc = "new" /\ Succeeds(c) /\ UNCHANGED trouble
      BY <1>1, <1>2, <2>4, <2>5, <2>6, <2>9, MergeSucceeds
    <2> QED
      BY <1>1, <1>4, <2>7, <2>8, <2>9
  <1> QED
    BY <1>3, <1>4 DEF WriteMerge

LEMMA ReplaceAgentsPreserves ==
    ASSUME SetupIInv, NEW c \in Command, ReplaceAgents(c) PROVE SetupIInv'
  <1>1. /\ cmd[c] \in Run /\ cmd[c].op = "init" /\ cmd[c].pc = "replace" /\ cmd[c].pc \in MergeSteps
        /\ UNCHANGED <<installed, observation, draft, sources, accepted, left>>
    BY DEF ReplaceAgents, Doing, MergeSteps, SetupIInv, SetupTypeOK
  <1>2. /\ SetupTypeOK /\ file \in [Path -> FileState \union {Nil}] /\ "agents" \in Path
        /\ "staged" \in Path /\ agents \in [own : Nat, block : BOOLEAN] /\ file["staged"] # Nil
    BY <1>1, InitFilesAre DEF SetupIInv, SetupTypeOK, MergeIsCurrent, Present
  <1>3. CASE /\ file' = [file EXCEPT !["agents"] = file["staged"], !["staged"] = Nil]
             /\ agents' = [own |-> cmd[c].text, block |-> TRUE]
             /\ Succeeds(c) /\ UNCHANGED trouble
    <2>1. /\ file' \in [Path -> FileState \union {Nil}] /\ file'["agents"] # Nil
          /\ \A g \in Path : g \notin {"agents", "staged"} => file'[g] = file[g]
      BY <1>2, <1>3
    <2>2. cmd[c].text \in Nat
      BY <1>1, RunFields
    <2>3. agents' \in [own : Nat, block : BOOLEAN] /\ agents'.block
      BY <1>3, <2>2
    <2> QED
      BY <1>1, <1>3, <2>1, <2>3, MergeSucceeds
  <1>4. CASE /\ Troubled
             /\ file' \in {file, [file EXCEPT !["staged"] = Nil]}
             /\ Goes(c, "remove") /\ UNCHANGED agents
    <2>1. /\ file' \in [Path -> FileState \union {Nil}] /\ file'["agents"] = file["agents"]
          /\ \A g \in Path : g \notin {"agents", "staged"} => file'[g] = file[g]
      BY <1>2, <1>4
    <2> QED
      BY <1>1, <1>2, <1>4, <2>1, TroubledType, MergeMoves
  <1> QED
    BY <1>3, <1>4 DEF ReplaceAgents

LEMMA RenamePreserves ==
    ASSUME SetupIInv, NEW c \in Command, Rename(c) PROVE SetupIInv'
  <1>1. /\ cmd[c] \in Run /\ cmd[c].op = "promote" /\ cmd[c].pc = "rename" /\ PromoAt(c)
        /\ UNCHANGED <<installed, agents, draft, sources, accepted, left, trouble>>
    BY RunIsWhere DEF Rename, Doing, SetupIInv, PromoInv
  <1>2. PICK d : d = cmd[c].draft
    OBVIOUS
  <1>3. /\ d \in DraftType /\ d.base \in Content /\ d.bindings \in Bindings
        /\ d.bindings.of = d.sources /\ d.sources \notin Unsupported /\ d.bindings.filled
        /\ "sources" \in cmd[c].late \/ d.sources = sources
        /\ "decisions" \in cmd[c].late \/ d.bindings.authority \in accepted
    <2>1. d \in DraftType
      BY <1>1, <1>2, RunFields DEF PromoAt
    <2>2. d.base \in Content /\ d.bindings \in Bindings
      BY <1>1, <1>2, <2>1 DEF PromoAt, DraftType
    <2> QED
      BY <1>1, <1>2, <2>1, <2>2
         DEF PromoAt, ArtifactsBound, ObservationsBound, Filled, Authorised
  <1>4. /\ observation' \in Content /\ observation'.bindings = d.bindings
        /\ d.bindings # Nil
    <2>1. observation' = [phase |-> d.base.phase, bindings |-> d.bindings]
      BY <1>2 DEF Rename, Promoted
    <2>2. d.base.phase \in {"pre-build", "post-build"}
      BY <1>3 DEF Content
    <2>3. d.bindings # Nil
      BY <1>3, SetupAssumption
    <2> QED
      BY <1>3, <2>1, <2>2, <2>3 DEF Content
  <1>5. PICK v : v = [by |-> Nil, whole |-> TRUE]
    OBVIOUS
  <1>6. v \in FileState /\ v # Nil
    BY <1>5, FileIs
  <1>7. /\ "observation" \in Path /\ "draft" \in Path /\ "change" \in Path
        /\ 3 \in InitFile /\ InitFiles[3] = "observation"
    BY InitFilesAre
  <1>8. /\ file' \in [Path -> FileState \union {Nil}] /\ file'["observation"] = v
        /\ \A g \in Path : g # "observation" => file'[g] = file[g]
    BY <1>5, <1>6, <1>7, FileSet DEF Rename, SetupIInv
  <1>9. OneFile(3, v)
    BY <1>7, <1>8, OneFileSet
  <1>10. PICK r : r = [Idle EXCEPT !.op = "promote", !.pc = "done", !.late = cmd[c].late]
    OBVIOUS
  <1>11. /\ r \in Run /\ r.op = "promote" /\ r.pc = "done" /\ r.at = 0 /\ r.gone = 0
         /\ r.late = cmd[c].late
    <2>1. cmd[c].late \in SUBSET (Thing \union {"agents"}) /\ "done" \in Step /\ "promote" \in DOMAIN Steps
      BY <1>1, RunFields, StepsAre DEF Step
    <2> QED
      BY <1>10, <2>1, IdleRun DEF Run
  <1>12. "observation" \in Thing
    BY DEF Thing
  <1>13. PICK m : m = Disturbed("observation")
    OBVIOUS
  <1>14. cmd' = [m EXCEPT ![c] = r] /\ m \in [Command -> Run]
    BY <1>10, <1>12, <1>13, DisturbedFields DEF Rename, SetupIInv, SetupTypeOK
  <1>15. /\ cmd' \in [Command -> Run] /\ cmd'[c] = r
         /\ \A e \in Command : e # c => cmd'[e] = Disturbed("observation")[e]
    BY <1>11, <1>13, <1>14
  <1>16. OthersKeep(c) /\ \A e \in Command : OutKept(e) /\ MergeKept(e)
    <2>1. \A e \in Command : e # c =>
             /\ cmd'[e].op = cmd[e].op /\ cmd'[e].pc = cmd[e].pc
             /\ cmd'[e].at = cmd[e].at /\ cmd'[e].gone = cmd[e].gone
             /\ cmd'[e].sources = cmd[e].sources
             /\ cmd[e].op = "init" => cmd'[e] = cmd[e]
      BY <1>12, <1>15, DisturbedFields DEF SetupIInv, SetupTypeOK
    <2>2. OutKept(c) /\ MergeKept(c)
      BY <1>11, <1>15 DEF OutKept, MergeKept
    <2> QED
      BY <2>1, <2>2 DEF OthersKeep, OutKept, MergeKept
  <1>17. InitInv'
    BY <1>1, <1>5, <1>9, <1>11, <1>15, <1>16, RenameInit DEF SetupIInv
  <1>18. PromoInv'
    <2>1. InForceWasReviewed'
      BY <1>3, <1>4 DEF InForceWasReviewed
    <2>2. PromoAt(c)'
      <3>1. cmd[c].late = {} => Report(TRUE)' = "valid"
        BY <1>1, <1>3, <1>4 DEF Report, BindingsReviewed, Filled, Authorised
      <3> QED
        BY <1>6, <1>8, <1>11, <1>15, <3>1 DEF PromoAt, Present
    <2>3. ASSUME NEW e \in Command, e # c PROVE PromoAt(e)'
      BY <1>1, <1>12, <1>15, <2>3, PromoDisturbed DEF SetupIInv
    <2> QED
      BY <2>1, <2>2, <2>3 DEF PromoInv
  <1>19. SetupTypeOK'
    <2>1. \A e \in Command : cmd'[e].pc \in Steps[cmd'[e].op]
      BY <1>11, <1>15, <1>16, StepsAre DEF OthersKeep, SetupIInv, SetupTypeOK
    <2> QED
      BY <1>1, <1>4, <1>8, <1>15, <2>1 DEF SetupIInv, SetupTypeOK
  <1>20. OutInv'
    BY <1>1, <1>7, <1>8, <1>16, OutQuiet DEF SetupIInv
  <1>21. MergeIsCurrent'
    BY <1>1, <1>8, <1>16, InitFilesAre, MergeQuiet DEF SetupIInv
  <1> QED
    BY <1>17, <1>18, <1>19, <1>20, <1>21 DEF SetupIInv

\* The user changes something the promotions look at.
LEMMA UserDisturbs ==
    ASSUME SetupIInv, NEW t \in Thing, cmd' = Disturbed(t), Troubled,
           UNCHANGED <<file, installed, agents, draft, left>>,
           sources' \in Source, accepted' \subseteq Decision, observation' \in Content,
           t # "sources" => sources' = sources,
           t # "decisions" => accepted' = accepted,
           t # "observation" => observation' = observation,
           observation'.bindings = observation.bindings
    PROVE  SetupIInv'
  <1>1. /\ cmd' \in [Command -> Run]
        /\ \A d \in Command :
              /\ cmd'[d].op = cmd[d].op /\ cmd'[d].pc = cmd[d].pc
              /\ cmd'[d].at = cmd[d].at /\ cmd'[d].gone = cmd[d].gone
              /\ cmd'[d].sources = cmd[d].sources
              /\ cmd[d].op = "init" => cmd'[d] = cmd[d]
    BY DisturbedFields DEF SetupIInv, SetupTypeOK
  <1>2. SetupTypeOK'
    BY <1>1, TroubledType DEF SetupIInv, SetupTypeOK
  <1>3. TargetsSame /\ Grows
    BY DEF TargetsSame, Grows
  <1>4. InitInv'
    BY <1>1, <1>3, InitElsewhere DEF SetupIInv
  <1>5. \A d \in Command : PromoAt(d)'
    BY PromoDisturbed DEF SetupIInv
  <1>6. PromoInv'
    BY <1>5 DEF SetupIInv, PromoInv, InForceWasReviewed
  <1>7. OutInv'
    BY <1>1, OutQuiet DEF SetupIInv, OutKept
  <1>8. MergeIsCurrent'
    BY <1>1, MergeQuiet DEF SetupIInv, MergeKept
  <1> QED
    BY <1>2, <1>4, <1>6, <1>7, <1>8 DEF SetupIInv

LEMMA UserPreserves ==
    ASSUME SetupIInv, EditSources \/ Decide \/ EditPhase \/ EditDraft \/ DiscardDraft \/ EditAgents
    PROVE  SetupIInv'
  <1>1. SetupTypeOK
    BY DEF SetupIInv
  <1>2. CASE EditSources
    <2>1. "sources" \in Thing
      BY DEF Thing
    <2> QED
      BY <1>1, <1>2, <2>1, UserDisturbs DEF EditSources, SetupTypeOK
  <1>3. CASE Decide
    <2>1. "decisions" \in Thing
      BY DEF Thing
    <2>2. accepted' \subseteq Decision
      BY <1>1, <1>3 DEF Decide, SetupTypeOK
    <2> QED
      BY <1>1, <1>3, <2>1, <2>2, UserDisturbs DEF Decide, SetupTypeOK
  <1>4. CASE EditPhase
    <2>1. "observation" \in Thing
      BY DEF Thing
    <2>2. observation' \in Content /\ observation'.bindings = observation.bindings
      BY <1>1, <1>4 DEF EditPhase, SetupTypeOK, Content
    <2> QED
      BY <1>1, <1>4, <2>1, <2>2, UserDisturbs DEF EditPhase, SetupTypeOK
  <1>5. CASE EditDraft
    <2>1. draft \in DraftType /\ UNCHANGED <<file, installed, agents, observation, sources, accepted, cmd, left>>
      BY <1>1, <1>5 DEF EditDraft, SetupIInv, OutInv, OutputsAreOwned, SetupTypeOK
    <2>2. PICK b \in [of : Source, filled : {TRUE}, authority : Decision] :
             draft' = [draft EXCEPT !.bindings = b]
      BY <1>5 DEF EditDraft
    <2>3. b \in Bindings
      BY DEF Bindings
    <2>4. draft' \in DraftType
      BY <2>1, <2>2, <2>3 DEF DraftType
    <2>5. draft' # Nil
      BY <2>4, SetupAssumption
    <2>6. SetupTypeOK'
      BY <1>1, <1>5, <2>1, <2>4, TroubledType DEF EditDraft, SetupTypeOK
    <2>7. TargetsSame /\ Grows /\ WorldSame
      BY <2>1 DEF TargetsSame, Grows, WorldSame, Whole, Present
    <2>8. InitInv'
      BY <2>1, <2>7, InitElsewhere DEF SetupIInv
    <2>9. PromoInv'
      BY <2>1, <2>7, PromoSame DEF SetupIInv
    <2>10. OutInv'
      BY <2>1, <2>5 DEF SetupIInv, OutInv, OutputsAreOwned, Doing, Whole, Present
    <2>11. MergeIsCurrent'
      BY <2>1, MergeQuiet DEF SetupIInv, MergeKept
    <2> QED
      BY <2>6, <2>8, <2>9, <2>10, <2>11 DEF SetupIInv
  <1>6. CASE DiscardDraft
    <2>1. /\ UNCHANGED <<installed, agents, observation, draft, sources, accepted, cmd, left>>
          /\ file' = [file EXCEPT !["draft"] = Nil] /\ Troubled
      BY <1>6 DEF DiscardDraft
    <2>2. "draft" \in Path /\ "draft" \notin Target /\ "change" \in Path
      BY InitFilesAre
    <2>3. /\ file' \in [Path -> FileState \union {Nil}] /\ file'["draft"] = Nil
          /\ \A g \in Path : g # "draft" => file'[g] = file[g]
      BY <1>1, <2>1, <2>2, FileSet
    <2>4. SetupTypeOK'
      BY <1>1, <2>1, <2>3, TroubledType DEF SetupTypeOK
    <2>5. TargetsSame /\ Grows /\ WorldSame
      BY <2>1, <2>2, <2>3, OutsideInit DEF Grows
    <2>6. InitInv'
      BY <2>1, <2>5, InitElsewhere DEF SetupIInv
    <2>7. PromoInv'
      BY <2>1, <2>5, PromoSame DEF SetupIInv
    <2>8. OutInv'
      BY <2>1, <2>2, <2>3 DEF SetupIInv, OutInv, OutputsAreOwned, Doing, Whole, Present
    <2>9. MergeIsCurrent'
      BY <2>1, <2>3, InitFilesAre, MergeQuiet DEF SetupIInv, MergeKept
    <2> QED
      BY <2>4, <2>6, <2>7, <2>8, <2>9 DEF SetupIInv
  <1>7. CASE EditAgents
    <2>1. /\ UNCHANGED <<installed, observation, draft, sources, accepted, left>>
          /\ Troubled /\ agents' = [agents EXCEPT !.own = @ + 1] /\ cmd' = Missed
      BY <1>7 DEF EditAgents
    <2>2. PICK v : v = [by |-> Nil, whole |-> TRUE]
      OBVIOUS
    <2>3. v \in FileState /\ v # Nil /\ "agents" \in Path /\ "agents" \notin Target
      BY <2>2, FileIs, InitFilesAre
    <2>4. /\ file' \in [Path -> FileState \union {Nil}] /\ file'["agents"] = v
          /\ \A g \in Path : g # "agents" => file'[g] = file[g]
      BY <1>1, <1>7, <2>2, <2>3, FileSet DEF EditAgents
    <2>5. /\ cmd' \in [Command -> Run]
          /\ \A d \in Command :
                /\ cmd'[d].op = cmd[d].op /\ cmd'[d].pc = cmd[d].pc
                /\ cmd'[d].at = cmd[d].at /\ cmd'[d].gone = cmd[d].gone
                /\ cmd'[d].sources = cmd[d].sources
                /\ IF cmd[d].op = "init" /\ cmd[d].pc \in MergeSteps
                   THEN "agents" \in cmd'[d].late ELSE cmd'[d] = cmd[d]
      BY <1>1, <2>1, MissedFields DEF SetupTypeOK
    <2>6. agents' \in [own : Nat, block : BOOLEAN] /\ agents'.block = agents.block
      BY <1>1, <2>1 DEF SetupTypeOK
    <2>7. SetupTypeOK'
      BY <1>1, <2>1, <2>4, <2>5, <2>6, TroubledType DEF SetupTypeOK
    <2>8. TargetsSame /\ Grows /\ WorldSame
      BY <2>1, <2>3, <2>4, <2>6, OutsideInit DEF Grows
    <2>9. InitInv'
      BY <2>5, <2>8, InitElsewhere DEF SetupIInv
    <2>10. PromoInv'
      <3>1. \A d \in Command : cmd'[d] = cmd[d] \/ cmd'[d].op # "promote"
        BY <2>5
      <3>2. \A d \in Command : PromoAt(d)'
        BY <2>8, <3>1, PromoKept DEF SetupIInv, PromoInv
      <3> QED
        BY <2>1, <3>2 DEF SetupIInv, PromoInv, InForceWasReviewed
    <2>11. OutInv'
      BY <2>1, <2>4, <2>5, InitFilesAre, OutQuiet DEF SetupIInv, OutKept
    <2>12. MergeIsCurrent'
      <3>1. file'["agents"] # Nil /\ file'["staged"] = file["staged"]
        BY <2>3, <2>4, InitFilesAre
      <3> QED
        BY <2>5, <3>1 DEF SetupIInv, MergeIsCurrent, Present
    <2> QED
      BY <2>7, <2>9, <2>10, <2>11, <2>12 DEF SetupIInv
  <1> QED
    BY <1>2, <1>3, <1>4, <1>5, <1>6, <1>7

LEMMA KilledPreserves ==
    ASSUME SetupIInv, NEW c \in Command, Killed(c) PROVE SetupIInv'
  <1>1. /\ Troubled /\ Fails(c) 
        /\ left' = left \union {InitFiles[i] : i \in cmd[c].gone + 1 .. cmd[c].at}
        /\ UNCHANGED <<file, installed, agents, observation, draft, sources, accepted>>
    BY DEF Killed
  <1>2. cmd' \in [Command -> Run] /\ cmd'[c] = Idle /\ OthersSame(c)
    BY <1>1, FailsFields DEF SetupIInv, SetupTypeOK
  <1>a. cmd[c].at \in 0..4 /\ cmd[c].gone \in 0..4
    BY RunFields DEF SetupIInv, SetupTypeOK
  <1>b. left \subseteq left' /\ \A i \in InitFile : Owns(c, i) => InitFiles[i] \in left'
    BY <1>1, <1>a, InitFilesFacts DEF Owns
  <1>c. left' \subseteq Target
    <2>1. \A i \in cmd[c].gone + 1 .. cmd[c].at : i \in InitFile
      BY <1>a, InitFilesAre
    <2> QED
      BY <1>1, <2>1, InitFilesFacts DEF SetupIInv, SetupTypeOK
  <1>3. SetupTypeOK'
    BY <1>1, <1>c, <1>2, IdleRun, StepsAre, StepsKept, TroubledType DEF SetupIInv, SetupTypeOK
  <1>4. TargetsSame /\ WorldSame
    BY <1>1 DEF TargetsSame, WorldSame, Whole, Present
  <1>5. InitInv'
    BY <1>1, <1>2, <1>4, <1>b, KillInit DEF SetupIInv
  <1>6. PromoInv'
    BY <1>2, <1>4, IdleRun, PromoOther DEF SetupIInv
  <1>7. OutInv'
    BY <1>1, <1>2, IdleRun, OutQuiet DEF SetupIInv, OutKept, OthersSame
  <1>8. MergeIsCurrent'
    BY <1>1, <1>2, IdleRun, MergeQuiet DEF SetupIInv, MergeKept, OthersSame
  <1> QED
    BY <1>3, <1>5, <1>6, <1>7, <1>8 DEF SetupIInv

------------------------------------------------------------------------------
LEMMA SetupInitIInv == SetupInit => SetupIInv
  <1> SUFFICES ASSUME SetupInit PROVE SetupIInv
    OBVIOUS
  <1>1. /\ \A c \in Command : cmd[c] = Idle
        /\ cmd \in [Command -> Run]
    BY IdleRun DEF SetupInit
  <1>2. /\ file \in [Path -> FileState \union {Nil}]
        /\ \A f \in Path : f # "agents" => file[f] = Nil
    BY FileIs DEF SetupInit
  <1>3. SetupTypeOK
    <2>1. EmptyObservation \in Content
      BY DEF EmptyObservation, Content
    <2>2. \A c \in Command : cmd[c].pc \in Steps[cmd[c].op]
      BY <1>1, IdleRun, StepsAre
    <2>3. agents \in [own : Nat, block : BOOLEAN] /\ trouble \in 0..MaxTrouble
      <3>1. agents \in [own : {0, 1}, block : {FALSE}] /\ trouble = 0
        BY DEF SetupInit
      <3>2. MaxTrouble \in Nat
        BY SetupAssumption
      <3>3. {0, 1} \subseteq Nat /\ {FALSE} \subseteq BOOLEAN
        OBVIOUS
      <3>4. agents \in [own : Nat, block : BOOLEAN]
        BY <3>1, <3>3
      <3> QED
        BY <3>1, <3>2, <3>4
    <2>4. installed \in BOOLEAN /\ left \subseteq Target /\ draft = Nil /\ sources \in Source
      BY DEF SetupInit
    <2>5. observation \in Content /\ accepted \subseteq Decision
      BY <2>1 DEF SetupInit
    <2> QED
      BY <1>1, <1>2, <2>2, <2>3, <2>4, <2>5 DEF SetupTypeOK
  <1>4. \A i \in InitFile : ~Whole(InitFiles[i]) /\ \A c \in Command : ~Owns(c, i)
    BY <1>1, <1>2, IdleRun, InitFilesFacts DEF Whole, Present, Owns
  <1>5. InitInv
    BY <1>1, <1>4, IdleRun
       DEF InitInv, InitIsWhere, Where, FilesHaveOneOwner, SettledIsComplete, InitAcknowledged, Doing, MergeSteps
  <1>6. PromoInv
    BY <1>1, IdleRun DEF SetupInit, EmptyObservation, PromoInv, InForceWasReviewed, PromoAt
  <1>7. OutInv
    <2>1. "draft" \in Path
      BY InitFilesAre
    <2> QED
      BY <1>1, <1>2, <2>1, IdleRun DEF OutInv, OutputsAreOwned, Doing, Whole, Present
  <1>8. MergeIsCurrent
    <2>1. agents.own \in {0, 1} /\ (file["agents"] = Nil => agents.own # 1)
      BY InitFilesAre, FileIs DEF SetupInit
    <2> QED
      BY <1>1, <2>1, IdleRun DEF MergeIsCurrent, Present
  <1> QED
    BY <1>3, <1>5, <1>6, <1>7, <1>8 DEF SetupIInv

LEMMA SetupStutters ==
    ASSUME SetupIInv, UNCHANGED setupVars PROVE SetupIInv'
  <1>1. UNCHANGED <<file, installed, agents, observation, draft, sources, accepted, cmd, left, trouble>>
    BY DEF setupVars
  <1>2. SetupTypeOK'
    BY <1>1 DEF SetupIInv, SetupTypeOK
  <1>3. TargetsSame /\ Grows /\ WorldSame
    BY <1>1 DEF TargetsSame, Grows, WorldSame, Whole, Present
  <1>4. InitInv'
    BY <1>1, <1>3, InitElsewhere DEF SetupIInv
  <1>5. PromoInv'
    BY <1>1, <1>3, PromoSame DEF SetupIInv
  <1>6. OutInv'
    BY <1>1, OutQuiet DEF SetupIInv, OutKept
  <1>7. MergeIsCurrent'
    BY <1>1, MergeQuiet DEF SetupIInv, MergeKept
  <1> QED
    BY <1>2, <1>4, <1>5, <1>6, <1>7 DEF SetupIInv

LEMMA SetupNextIInv == SetupIInv /\ [SetupNext]_setupVars => SetupIInv'
  <1> SUFFICES ASSUME SetupIInv, [SetupNext]_setupVars PROVE SetupIInv'
    OBVIOUS
  <1>1. ASSUME NEW c \in Command,
               \/ StartInit(c) \/ CreateFile(c) \/ WriteFile(c) \/ WriteFails(c)
               \/ InstallRelease(c) \/ RollBack(c)
        PROVE  SetupIInv'
    BY <1>1, StartInitPreserves, CreateFilePreserves, WriteFilePreserves, WriteFailsPreserves,
       InstallReleasePreserves, RollBackPreserves
  <1>2. ASSUME NEW c \in Command,
               Merge(c) \/ CreateMerge(c) \/ WriteMerge(c) \/ ReplaceAgents(c) \/ Killed(c)
        PROVE  SetupIInv'
    BY <1>2, MergePreserves, CreateMergePreserves, WriteMergePreserves, ReplaceAgentsPreserves, KilledPreserves
  <1>3. ASSUME NEW c \in Command,
               \/ StartChange(c) \/ StartObserve(c) \/ ObserveBase(c) \/ ObserveSources(c)
               \/ CreateOutput(c) \/ WriteOutput(c)
        PROVE  SetupIInv'
    BY <1>3, StartChangePreserves, StartObservePreserves, ObserveBasePreserves,
       ObserveSourcesPreserves, CreateOutputPreserves, WriteOutputPreserves
  <1>4. ASSUME NEW c \in Command,
               StartPromote(c) \/ Validate(c) \/ ReadBase(c) \/ Recheck(c) \/ Rename(c)
        PROVE  SetupIInv'
    BY <1>4, StartPromotePreserves, ValidatePreserves, ReadBasePreserves, RecheckPreserves,
       RenamePreserves
  <1> QED
    BY <1>1, <1>2, <1>3, <1>4, UserPreserves, SetupStutters DEF SetupNext

LEMMA SetupIInvHolds == SetupSpec => []SetupIInv
  BY SetupInitIInv, SetupNextIInv, PTL DEF SetupSpec

LEMMA SetupInvariantFollows == SetupIInv => SetupInvariant /\ PromotionIsCurrent
  <1> SUFFICES ASSUME SetupIInv PROVE SetupInvariant /\ PromotionIsCurrent
    OBVIOUS
  <1>1. InitFiles[1] \in Target /\ \A f \in Target : \E i \in InitFile : InitFiles[i] = f
    BY InitFilesAre
  <1>2. AllOrNothing
    <2> SUFFICES ASSUME \A c \in Command : cmd[c].pc \in Stopped, NEW f \in Target, f \notin left,
                        NEW g \in Target, Whole(f), file[f].by # Nil
                 PROVE  Whole(g)
      BY DEF AllOrNothing
    <2>1. PICK i \in InitFile : InitFiles[i] = f
      BY <1>1
    <2>2. PICK j \in InitFile : InitFiles[j] = g
      BY <1>1
    <2>3. \A c \in Command : ~Owns(c, i)
      BY NotOwning, InitFilesFacts DEF SetupIInv, Owns
    <2> QED
      BY <2>1, <2>2, <2>3 DEF SetupIInv, InitInv, SettledIsComplete
  <1>3. AcknowledgedIsWhole
    <2> SUFFICES ASSUME NEW c \in Command
                 PROVE  /\ Doing(c, "init", "done") =>
                              /\ \A f \in Target : Whole(f) /\ MadeBy(c, f)
                              /\ installed /\ agents.block
                        /\ Doing(c, "change", "done") => Whole("change") /\ file["change"].by = c
      BY DEF AcknowledgedIsWhole
    <2>1. Doing(c, "init", "done") =>
             /\ \A i \in InitFile : Whole(InitFiles[i]) /\ MadeBy(c, InitFiles[i])
             /\ installed /\ agents.block
      BY DEF SetupIInv, InitInv, InitAcknowledged
    <2> QED
      BY <1>1, <2>1 DEF SetupIInv, OutInv
  <1>4. PromotionsHold
    BY DEF SetupIInv, PromoInv, PromoAt, PromotionsHold
  <1>5. PromotedValidates
    BY DEF SetupIInv, PromoInv, PromoAt, PromotedValidates, Doing
  <1>6. PromotionIsCurrent
    BY DEF SetupIInv, PromoInv, PromoAt, PromotionIsCurrent, Doing, ArtifactsBound, ObservationsBound
  <1> QED
    BY <1>2, <1>3, <1>4, <1>5, <1>6 DEF SetupInvariant, SetupIInv, InitInv, PromoInv, OutInv

\* At every point of every command, however many run at once: project init is
\* whole or absent, no roll_back removes another run's file, and what promotion
\* put in force was reviewed and validates.
THEOREM SetupIsConsistent == SetupSpec => []SetupInvariant
  BY SetupIInvHolds, SetupInvariantFollows, PTL

\* A promotion about to rename has the Observation and the sources its Draft was
\* made from, in all that did not change after promote_observation_draft looked.
THEOREM PromotionsAreCurrent == SetupSpec => []PromotionIsCurrent
  BY SetupIInvHolds, SetupInvariantFollows, PTL

\* merge_agents_block changes the project's own instructions only when they were
\* saved after it read AGENTS.md and before it renames its merge over it.
THEOREM InstructionsAreKept == SetupSpec => InstructionsSurvive
  <1> DEFINE Lost == \E c \in Command : Doing(c, "init", "replace") /\ "agents" \in cmd[c].late
  <1>1. SetupIInv /\ [SetupNext]_setupVars =>
           [agents'.own # agents.own => EditAgents \/ Lost]_setupVars
    <2> SUFFICES ASSUME SetupIInv, SetupNext, ~EditAgents, ~Lost PROVE agents'.own = agents.own
      BY DEF setupVars
    <2>1. ASSUME NEW c \in Command, WriteMerge(c) PROVE agents'.own = agents.own
      <3>1. agents \in [own : Nat, block : BOOLEAN]
        BY DEF SetupIInv, SetupTypeOK
      <3>2. [agents EXCEPT !.block = TRUE].own = agents.own
        BY <3>1
      <3>3. agents' = agents \/ agents' = [agents EXCEPT !.block = TRUE]
        BY <2>1 DEF WriteMerge
      <3> QED
        BY <3>2, <3>3
    <2>2. ASSUME NEW c \in Command, ReplaceAgents(c) PROVE agents'.own = agents.own
      <3>1. cmd[c].op = "init" /\ cmd[c].pc \in MergeSteps /\ "agents" \notin cmd[c].late
        BY <2>2 DEF ReplaceAgents, Doing, MergeSteps
      <3>2. cmd[c].text = agents.own
        BY <3>1 DEF SetupIInv, MergeIsCurrent
      <3>3. agents' = agents \/ agents' = [own |-> cmd[c].text, block |-> TRUE]
        BY <2>2 DEF ReplaceAgents
      <3> QED
        BY <3>2, <3>3
    <2>3. (\A c \in Command : ~WriteMerge(c) /\ ~ReplaceAgents(c)) => agents' = agents
      BY DEF SetupNext, StartInit, CreateFile, WriteFile, WriteFails, InstallRelease, RollBack,
         Merge, CreateMerge, StartChange, StartObserve, ObserveBase, ObserveSources,
         CreateOutput, WriteOutput, StartPromote, Validate, ReadBase, Recheck, Rename, Killed,
         EditSources, Decide, EditPhase, EditDraft, DiscardDraft
    <2> QED
      BY <2>1, <2>2, <2>3
  <1> QED
    BY <1>1, SetupIInvHolds, PTL DEF SetupSpec, InstructionsSurvive

\* What a step may do to the Observation.
LEMMA ObservationSteps ==
    ASSUME SetupNext
    PROVE  \/ observation' = observation
           \/ ~Present("observation") \/ cmd' = Disturbed("observation")
           \/ \E e \in Command : Rename(e)
  <1>1. ASSUME NEW e \in Command,
               \/ StartInit(e) \/ WriteFile(e) \/ WriteFails(e) \/ InstallRelease(e) \/ RollBack(e)
               \/ Merge(e) \/ CreateMerge(e) \/ WriteMerge(e) \/ ReplaceAgents(e) \/ Killed(e)
        PROVE  observation' = observation
    BY <1>1 DEF StartInit, WriteFile, WriteFails, InstallRelease, RollBack, Merge, CreateMerge, WriteMerge,
       ReplaceAgents, Killed
  <1>2. ASSUME NEW e \in Command,
               \/ StartChange(e) \/ StartObserve(e) \/ ObserveBase(e) \/ ObserveSources(e)
               \/ CreateOutput(e) \/ WriteOutput(e) \/ StartPromote(e) \/ Validate(e)
               \/ ReadBase(e) \/ Recheck(e)
        PROVE  observation' = observation
    BY <1>2 DEF StartChange, StartObserve, ObserveBase, ObserveSources, CreateOutput, WriteOutput,
       StartPromote, Validate, ReadBase, Recheck
  <1>3. ASSUME NEW e \in Command, CreateFile(e)
        PROVE  observation' = observation \/ ~Present("observation")
    BY <1>3 DEF CreateFile
  <1>4. CASE EditSources \/ Decide \/ EditDraft \/ DiscardDraft \/ EditAgents
    BY <1>4 DEF EditSources, Decide, EditDraft, DiscardDraft, EditAgents
  <1>5. CASE EditPhase
    BY <1>5 DEF EditPhase
  <1> QED
    BY <1>1, <1>2, <1>3, <1>4, <1>5 DEF SetupNext

\* promote_observation_draft replaces the Observation its Draft was made from
\* and keeps its phase, unless that changed after the last comparison.
THEOREM NoReplacementIsBlind == SetupSpec => NoBlindReplacement
  <1> DEFINE Sighted ==
        \A c \in Command :
           Doing(c, "promote", "rename") /\ cmd'[c].pc = "done" =>
              \/ "observation" \in cmd[c].late
              \/ observation = cmd[c].draft.base /\ observation'.phase = observation.phase
  <1>1. SetupIInv /\ [SetupNext]_setupVars => [Sighted]_setupVars
    <2> SUFFICES ASSUME SetupIInv, SetupNext, NEW c \in Command,
                        Doing(c, "promote", "rename"), cmd'[c].pc = "done",
                        "observation" \notin cmd[c].late
                 PROVE  observation = cmd[c].draft.base /\ observation'.phase = observation.phase
      BY DEF setupVars
    <2>1. Present("observation") /\ observation = cmd[c].draft.base
      BY DEF SetupIInv, PromoInv, PromoAt, Doing, Whole
    <2>2. "observation" \in Thing /\ cmd[c].pc = "rename" /\ cmd \in [Command -> Run]
      BY DEF Thing, Doing, SetupIInv, SetupTypeOK
    <2>3. Disturbed("observation")[c].pc # "done"
      BY <2>2, DisturbedFields
    <2>4. ASSUME NEW e \in Command, Rename(e)
          PROVE  observation'.phase = observation.phase
      <3>1. CASE e = c
        BY <2>1, <2>4, <3>1 DEF Rename, Promoted
      <3>2. CASE e # c
        <4>1. cmd'[c] = Disturbed("observation")[c]
          <5>1. PICK m : m = Disturbed("observation")
            OBVIOUS
          <5>2. m \in [Command -> Run]
            BY <2>2, <5>1, DisturbedFields
          <5>3. cmd' = [m EXCEPT ![e] = [Idle EXCEPT !.op = "promote", !.pc = "done",
                                                     !.late = cmd[e].late]]
            BY <2>4, <5>1 DEF Rename
          <5> QED
            BY <3>2, <5>1, <5>2, <5>3
        <4> QED
          BY <2>3, <4>1
      <3> QED
        BY <3>1, <3>2
    <2> QED
      BY <2>1, <2>3, <2>4, ObservationSteps
  <1> QED
    BY <1>1, SetupIInvHolds, PTL DEF SetupSpec, NoBlindReplacement
=============================================================================
