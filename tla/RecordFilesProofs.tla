------------------------- MODULE RecordFilesProofs --------------------------
(***************************************************************************)
(* Proofs about the record files of a project: StorageMigration, for any   *)
(* set of paths, Records, sessions and any number of interruptions, and    *)
(* SourceCache, for any number of processes, files and contents.           *)
(***************************************************************************)
EXTENDS StorageMigration, SourceCache, TLAPS

------------------------------------------------------------------------------
(***************************************************************************)
(* StorageMigration.                                                       *)
(***************************************************************************)

IInv == TypeOK /\ StorageInvariant

(***************************************************************************)
(* Encoding and plans.                                                     *)
(***************************************************************************)
\* What conversion promises: bytes again, of the same Record, and never packed
\* on the way to plain.
LEMMA ConvertedFacts ==
    ASSUME NEW b \in Bytes, NEW t \in Policy
    PROVE  /\ Converted(b, t) \in Bytes
           /\ Converted(b, t).value = b.value
           /\ t = "plain" => Converted(b, t).form # "packed"
<1>1. b.value \in Value /\ b.form \in Form
  BY DEF Bytes
<1>2. /\ Encode(b.value, t) \in Bytes
      /\ Encode(b.value, t).value = b.value
      /\ t = "plain" => Encode(b.value, t).form # "packed"
  BY <1>1 DEF Encode, Bytes, Form, Policy
<1>3. QED BY <1>2 DEF Converted, Policy

\* What an ordinary operation writes is packed only under the adaptive policy.
LEMMA SerializeStoredFacts ==
    ASSUME NEW v \in Value, NEW t \in Policy
    PROVE  /\ SerializeStored(v, t) \in Bytes
           /\ SerializeStored(v, t).form = "packed" => t = "adaptive"
BY DEF SerializeStored, Encode, Bytes, Form, Policy

\* A scan plans a conversion for exactly the files there are.
LEMMA ScanFacts ==
    ASSUME TypeOK, NEW t \in Policy
    PROVE  /\ Scan(t) \in Plan
           /\ DOMAIN Scan(t) = Inventory
           /\ \A p \in Inventory : /\ Scan(t)[p].before = files[p]
                                   /\ Scan(t)[p].after = Converted(files[p], t)
<1>1. \A p \in Inventory : p \in Path /\ files[p] \in Bytes
  BY DEF Inventory, TypeOK
<1>2. \A p \in Inventory : Converted(files[p], t) \in Bytes
  BY <1>1, ConvertedFacts
<1>3. Scan(t) \in [Inventory -> Record]
  BY <1>1, <1>2 DEF Scan, Record
<1>4. Inventory \in SUBSET Path
  BY <1>1
<1>5. QED BY <1>3, <1>4 DEF Scan, Plan

\* A plan maps its paths to pairs of bytes.
LEMMA PlanFacts ==
    ASSUME NEW plan \in Plan
    PROVE  /\ DOMAIN plan \subseteq Path
           /\ \A p \in DOMAIN plan : plan[p].before \in Bytes /\ plan[p].after \in Bytes
BY DEF Plan, Record

LEMMA FirstOfFacts ==
    ASSUME NEW S, S # {}
    PROVE  FirstOf(S) \in S
BY DEF FirstOf

\* The test of validate_pending, without the plan: the journal fits the files.
JournalFits ==
    Pending => /\ Inventory = DOMAIN journal.entries
               /\ \A p \in Inventory :
                     /\ files[p] \in {journal.entries[p].before, journal.entries[p].after}
                     /\ files[p].value = journal.entries[p].before.value

LEMMA ValidatePendingMeansFits ==
    ASSUME TypeOK, NEW t \in Policy
    PROVE  ValidatePending(Scan(t)) <=> JournalFits
BY ScanFacts DEF ValidatePending, JournalFits

LEMMA ResumableMeansFits ==
    ASSUME TypeOK
    PROVE  PendingIsResumable <=> (~touched => JournalFits)
<1>1. Policy # {}
  BY DEF Policy
<1>2. QED BY <1>1, ValidatePendingMeansFits DEF PendingIsResumable

------------------------------------------------------------------------------
(***************************************************************************)
(* Types.                                                                  *)
(***************************************************************************)
LEMMA StoppedType == Stopped \in Migration /\ Stopped.pc = "idle"
BY DEF Stopped, Migration, Policy

LEMMA InitTypeOK == ASSUME Init PROVE TypeOK
<1>1. \A p \in Path : files[p] \in Bytes \cup {None}
  BY DEF Init
<1>2. files \in [Path -> Bytes \cup {None}]
  BY <1>1 DEF Init
<1>3. session \in [Session -> Policy \cup {None}]
  BY DEF Init
<1>4. touched \in BOOLEAN /\ interrupts \in Nat
  BY DEF Init
<1>5. QED BY <1>2, <1>3, <1>4, StoppedType DEF Init, TypeOK

LEMMA NextTypeOK ==
    ASSUME IInv, [Next]_vars
    PROVE  TypeOK'
<1> USE DEF IInv
<1>0. TypeOK /\ PlanConverts
  BY DEF StorageInvariant
<1>1. ASSUME NEW t \in Policy, MigrateStart(t) PROVE TypeOK'
  <2>1. Scan(t) \in Plan /\ Inventory \subseteq Path
    BY <1>0, ScanFacts DEF Inventory
  <2>2. mig' \in Migration
    BY <1>1, <2>1 DEF MigrateStart, Migration
  <2>3. QED BY <1>0, <1>1, <2>2 DEF MigrateStart, TypeOK
<1>2. CASE SaveJournal
  <2>1. mig' \in Migration /\ mig.target \in Policy
    BY <1>0, <1>2 DEF SaveJournal, TypeOK, Migration
  <2>2. journal' \in Journal
    BY <1>0, <1>2, <2>1 DEF SaveJournal, PlanConverts, Journal
  <2>3. QED BY <1>0, <1>2, <2>1, <2>2 DEF SaveJournal, TypeOK
<1>3. CASE EnableV2
  BY <1>0, <1>3 DEF EnableV2, EnabledVersion, TypeOK, Migration
<1>4. CASE ReadRecord
  <2>1. mig.todo \subseteq Path /\ FirstOf(mig.todo) \in mig.todo
    BY <1>0, <1>4, FirstOfFacts DEF ReadRecord, TypeOK, Migration
  <2>2. mig' \in Migration
    BY <1>0, <1>4, <2>1, StoppedType DEF ReadRecord, Fail, TypeOK, Migration
  <2>3. QED BY <1>0, <1>4, <2>2 DEF ReadRecord, TypeOK
<1>5. CASE ReplaceRecord
  <2>1. mig.raw \in Bytes /\ mig.target \in Policy
    BY <1>0, <1>5 DEF ReplaceRecord, TypeOK, Migration
  <2>2. Converted(mig.raw, mig.target) \in Bytes
    BY <2>1, ConvertedFacts
  <2>3. mig' \in Migration
    <3>1. CASE mig' = Stopped
      BY <3>1, StoppedType
    <3>2. CASE mig' = [mig EXCEPT !.todo = @ \ {FirstOf(mig.todo)}, !.raw = None]
      BY <1>0, <3>2 DEF TypeOK, Migration
    <3>3. QED BY <1>5, <3>1, <3>2 DEF ReplaceRecord, Fail
  <2>4. files' \in [Path -> Bytes \cup {None}]
    BY <1>0, <1>5, <2>2 DEF ReplaceRecord, TypeOK
  <2>5. QED BY <1>0, <1>5, <2>3, <2>4 DEF ReplaceRecord, TypeOK
<1>6. CASE StartVerify
  <2>1. DOMAIN mig.plan \subseteq Path
    BY <1>0, <1>6, PlanFacts DEF StartVerify, PlanConverts
  <2>2. QED BY <1>0, <1>6, <2>1 DEF StartVerify, TypeOK, Migration
<1>7. CASE VerifyRecord
  <2>1. mig' \in Migration
    BY <1>0, <1>7, StoppedType DEF VerifyRecord, Fail, TypeOK, Migration
  <2>2. QED BY <1>0, <1>7, <2>1 DEF VerifyRecord, TypeOK
<1>8. CASE VerifyInventory
  <2>1. mig' \in Migration
    BY <1>0, <1>8, StoppedType DEF VerifyInventory, Fail, TypeOK, Migration
  <2>2. QED BY <1>0, <1>8, <2>1 DEF VerifyInventory, TypeOK
<1>9. CASE SwitchConfig
  BY <1>0, <1>9 DEF SwitchConfig, TypeOK, Migration
<1>10. CASE Finish
  <2>1. journal' \in Journal
    BY <1>0, <1>10 DEF Finish, PlanConverts, TypeOK, Migration, Journal
  <2>2. QED BY <1>0, <1>10, <2>1, StoppedType DEF Finish, TypeOK
<1>11. CASE Interrupt
  BY <1>0, <1>11, StoppedType DEF Interrupt, Fail, TypeOK
<1>12. ASSUME NEW s \in Session, SessionOpen(s) \/ SessionClose(s) PROVE TypeOK'
  <2>1. PolicyOf(config) \in Policy
    BY DEF PolicyOf, Policy
  <2>2. QED BY <1>0, <1>12, <2>1 DEF SessionOpen, SessionClose, TypeOK
<1>13. ASSUME NEW s \in Session, NEW p \in Path, NEW v \in Value, SessionWrite(s, p, v)
       PROVE  TypeOK'
  <2>1. SerializeStored(v, session[s]) \in Bytes
    BY <1>0, <1>13, SerializeStoredFacts DEF SessionWrite, TypeOK
  <2>2. QED BY <1>0, <1>13, <2>1 DEF SessionWrite, TypeOK
<1>14. ASSUME NEW p \in Path, NEW b \in Bytes \cup {None}, Edit(p, b) PROVE TypeOK'
  BY <1>0, <1>14 DEF Edit, TypeOK
<1>15. CASE MoveJournalAside
  BY <1>0, <1>15 DEF MoveJournalAside, TypeOK
<1>16. CASE UNCHANGED vars
  BY <1>0, <1>16 DEF vars, TypeOK
<1>17. QED
  BY <1>1, <1>2, <1>3, <1>4, <1>5, <1>6, <1>7, <1>8, <1>9, <1>10, <1>11, <1>12,
     <1>13, <1>14, <1>15, <1>16 DEF Next, MigrateStep

------------------------------------------------------------------------------
(***************************************************************************)
(* Readers: no packed file under config v1.                                *)
(***************************************************************************)
Safety == PackedNeedsV2 /\ OpenSessionsAreCurrent /\ Exclusive /\ V2Throughout /\ PackedIsAhead

LEMMA InitStorageInvariant == ASSUME Init PROVE StorageInvariant
<1>1. mig.pc = "idle" /\ mig.raw = None
  BY DEF Init, Stopped
<1>2. PackedNeedsV2
  BY DEF Init, PackedNeedsV2, Packed
<1>3. OpenSessionsAreCurrent
  BY DEF Init, OpenSessionsAreCurrent
<1>4. PendingIsResumable
  BY DEF Init, PendingIsResumable, ValidatePending, Pending
<1>5. QED
  BY <1>1, <1>2, <1>3, <1>4
     DEF StorageInvariant, Exclusive, V2Throughout, PackedIsAhead, PlanConverts, FilesFollowPlan

\* A step that leaves files and config alone and sends the command home keeps
\* readers safe.
LEMMA FailKeepsSafety ==
    ASSUME Safety, Fail, UNCHANGED <<files, config, session>>
    PROVE  Safety'
BY StoppedType
   DEF Safety, Fail, PackedNeedsV2, Packed, OpenSessionsAreCurrent, Exclusive,
       V2Throughout, PackedIsAhead

LEMMA NextSafety ==
    ASSUME IInv, [Next]_vars
    PROVE  Safety'
<1>0. TypeOK /\ PlanConverts /\ Safety
  BY DEF IInv, StorageInvariant, Safety
<1> USE DEF PackedNeedsV2, Packed, OpenSessionsAreCurrent, Exclusive, V2Throughout, PackedIsAhead
<1>1. ASSUME NEW t \in Policy, MigrateStart(t) PROVE Safety'
  <2>1. DOMAIN Scan(t) = Inventory
    BY <1>0, ScanFacts
  <2>2. PackedIsAhead'
    BY <1>1, <2>1 DEF MigrateStart, Inventory
  <2>3. QED BY <1>0, <1>1, <2>2 DEF MigrateStart, ExclusiveGuard, Safety
<1>2. CASE SaveJournal
  BY <1>0, <1>2 DEF SaveJournal, Safety, TypeOK, Migration
<1>3. CASE EnableV2
  BY <1>0, <1>3 DEF EnableV2, EnabledVersion, Safety, TypeOK, Migration
<1>4. CASE ReadRecord
  <2>1. CASE Fail
    BY <1>0, <1>4, <2>1, FailKeepsSafety DEF ReadRecord
  <2>2. CASE mig' = [mig EXCEPT !.raw = files[FirstOf(mig.todo)]]
    BY <1>0, <1>4, <2>2 DEF ReadRecord, Safety, TypeOK, Migration
  <2>3. QED BY <1>4, <2>1, <2>2 DEF ReadRecord
<1>5. CASE ReplaceRecord
  <2> DEFINE p == FirstOf(mig.todo)
  <2>1. CASE Fail /\ UNCHANGED files
    BY <1>0, <1>5, <2>1, FailKeepsSafety DEF ReplaceRecord
  <2>2. CASE /\ files' = [files EXCEPT ![p] = Converted(mig.raw, mig.target)]
             /\ mig' = [mig EXCEPT !.todo = @ \ {p}, !.raw = None]
    <3>1. mig.raw \in Bytes /\ mig.target \in Policy /\ p \in DOMAIN mig.plan
      BY <1>0, <1>5, FirstOfFacts DEF ReplaceRecord, TypeOK, Migration, PlanConverts
    <3>2. config = "v2" /\ UNCHANGED <<config, session>>
      BY <1>0, <1>5 DEF ReplaceRecord, Safety
    <3>3. PackedIsAhead'
      BY <1>0, <1>5, <2>2, <3>1 DEF ReplaceRecord, Safety, TypeOK, Migration
    <3>4. QED BY <1>0, <1>5, <2>2, <3>2, <3>3 DEF ReplaceRecord, Safety, TypeOK, Migration
  <2>3. QED BY <1>5, <2>1, <2>2 DEF ReplaceRecord
<1>6. CASE StartVerify
  BY <1>0, <1>6 DEF StartVerify, Safety, TypeOK, Migration
<1>7. CASE VerifyRecord
  <2> DEFINE p == FirstOf(mig.todo)
  <2>1. CASE Fail
    BY <1>0, <1>7, <2>1, FailKeepsSafety DEF VerifyRecord
  <2>2. CASE Verified(p) /\ mig' = [mig EXCEPT !.todo = @ \ {p}]
    <3>1. p \in DOMAIN mig.plan /\ mig.target \in Policy
      BY <1>0, <1>7, FirstOfFacts DEF VerifyRecord, PlanConverts, TypeOK, Migration
    <3>2. mig.target = "plain" => ~Packed(p)
      BY <1>0, <1>7, <2>2, <3>1, PlanFacts, ConvertedFacts DEF VerifyRecord, Verified, PlanConverts
    <3>3. PackedIsAhead'
      BY <1>0, <1>7, <2>2, <3>2 DEF VerifyRecord, Safety, TypeOK, Migration
    <3>4. QED BY <1>0, <1>7, <2>2, <3>3 DEF VerifyRecord, Safety, TypeOK, Migration
  <2>3. QED BY <1>7, <2>1, <2>2 DEF VerifyRecord
<1>8. CASE VerifyInventory
  <2>1. CASE Fail
    BY <1>0, <1>8, <2>1, FailKeepsSafety DEF VerifyInventory
  <2>2. CASE mig' = [mig EXCEPT !.pc = "config"]
    BY <1>0, <1>8, <2>2 DEF VerifyInventory, Safety, TypeOK, Migration
  <2>3. QED BY <1>8, <2>1, <2>2 DEF VerifyInventory
<1>9. CASE SwitchConfig
  <2>1. mig.target = "plain" => \A p \in Path : ~Packed(p)
    BY <1>0, <1>9 DEF SwitchConfig, Safety, PlanConverts
  <2>2. QED BY <1>0, <1>9, <2>1 DEF SwitchConfig, Safety, TypeOK, Migration, Policy
<1>10. CASE Finish
  BY <1>0, <1>10, StoppedType DEF Finish, Safety
<1>11. CASE Interrupt
  BY <1>0, <1>11, FailKeepsSafety DEF Interrupt
<1>12. ASSUME NEW s \in Session, SessionOpen(s) \/ SessionClose(s) PROVE Safety'
  BY <1>0, <1>12 DEF SessionOpen, SessionClose, SharedGuard, Safety, TypeOK
<1>13. ASSUME NEW s \in Session, NEW p \in Path, NEW v \in Value, SessionWrite(s, p, v)
       PROVE  Safety'
  <2>1. session[s] \in Policy /\ session[s] = PolicyOf(config)
    BY <1>0, <1>13 DEF SessionWrite, TypeOK, Safety
  <2>2. SerializeStored(v, session[s]).form = "packed" => config = "v2"
    BY <2>1, SerializeStoredFacts DEF PolicyOf
  <2>3. mig.pc = "idle"
    BY <1>0, <1>13 DEF SessionWrite, Safety
  <2>4. QED BY <1>0, <1>13, <2>2, <2>3 DEF SessionWrite, Safety, TypeOK
<1>14. ASSUME NEW p \in Path, NEW b \in Bytes \cup {None}, Edit(p, b) PROVE Safety'
  BY <1>0, <1>14 DEF Edit, Safety, TypeOK
<1>15. CASE MoveJournalAside
  BY <1>0, <1>15 DEF MoveJournalAside, Safety
<1>16. CASE UNCHANGED vars
  BY <1>0, <1>16 DEF vars, Safety
<1>17. QED
  BY <1>1, <1>2, <1>3, <1>4, <1>5, <1>6, <1>7, <1>8, <1>9, <1>10, <1>11, <1>12,
     <1>13, <1>14, <1>15, <1>16 DEF Next, MigrateStep

------------------------------------------------------------------------------
(***************************************************************************)
(* The command follows its plan.                                           *)
(***************************************************************************)
LEMMA NextPlanConverts ==
    ASSUME IInv, [Next]_vars
    PROVE  PlanConverts'
<1>0. TypeOK /\ PlanConverts
  BY DEF IInv, StorageInvariant
<1>1. ASSUME NEW t \in Policy, MigrateStart(t) PROVE PlanConverts'
  BY <1>0, <1>1, ScanFacts DEF MigrateStart, PlanConverts
<1>2. ASSUME mig' = Stopped PROVE PlanConverts'
  BY <1>2, StoppedType DEF PlanConverts
<1>3. ASSUME UNCHANGED mig PROVE PlanConverts'
  BY <1>0, <1>3 DEF PlanConverts
<1>4. CASE SaveJournal \/ EnableV2 \/ SwitchConfig
  <2>1. mig' \in {[mig EXCEPT !.pc = "enable"], [mig EXCEPT !.pc = "replace"],
                  [mig EXCEPT !.pc = "finish"]}
    BY <1>4 DEF SaveJournal, EnableV2, SwitchConfig
  <2>2. /\ mig'.plan = mig.plan /\ mig'.target = mig.target /\ mig'.raw = mig.raw
        /\ mig'.todo = mig.todo
    BY <1>0, <2>1 DEF TypeOK, Migration
  <2>3. /\ mig.pc # "replace" /\ mig.pc # "idle"
        /\ mig'.pc = "enable" => mig.pc = "journal"
        /\ mig'.pc = "finish" => mig.pc = "config"
        /\ mig'.pc \in {"enable", "replace", "finish"}
    BY <1>0, <1>4 DEF SaveJournal, EnableV2, SwitchConfig, TypeOK, Migration
  <2>4. QED BY <1>0, <2>2, <2>3 DEF PlanConverts
<1>5. CASE ReadRecord
  <2>1. CASE mig' = [mig EXCEPT !.raw = files[FirstOf(mig.todo)]]
             /\ files[FirstOf(mig.todo)] = mig.plan[FirstOf(mig.todo)].before
    BY <1>0, <1>5, <2>1 DEF ReadRecord, PlanConverts, TypeOK, Migration
  <2>2. QED BY <1>2, <1>5, <2>1 DEF ReadRecord, Fail
<1>6. CASE ReplaceRecord
  <2>1. CASE mig' = [mig EXCEPT !.todo = @ \ {FirstOf(mig.todo)}, !.raw = None]
    BY <1>0, <1>6, <2>1 DEF ReplaceRecord, PlanConverts, TypeOK, Migration
  <2>2. QED BY <1>2, <1>6, <2>1 DEF ReplaceRecord, Fail
<1>7. CASE StartVerify
  BY <1>0, <1>7 DEF StartVerify, PlanConverts, TypeOK, Migration
<1>8. CASE VerifyRecord
  <2>1. CASE mig' = [mig EXCEPT !.todo = @ \ {FirstOf(mig.todo)}]
    BY <1>0, <1>8, <2>1 DEF VerifyRecord, PlanConverts, TypeOK, Migration
  <2>2. QED BY <1>2, <1>8, <2>1 DEF VerifyRecord, Fail
<1>9. CASE VerifyInventory
  <2>1. CASE mig' = [mig EXCEPT !.pc = "config"]
    BY <1>0, <1>9, <2>1 DEF VerifyInventory, PlanConverts, TypeOK, Migration
  <2>2. QED BY <1>2, <1>9, <2>1 DEF VerifyInventory, Fail
<1>10. CASE Finish \/ Interrupt
  BY <1>2, <1>10 DEF Finish, Interrupt, Fail
<1>11. QED
  BY <1>1, <1>3, <1>4, <1>5, <1>6, <1>7, <1>8, <1>9, <1>10
     DEF Next, MigrateStep, SessionOpen, SessionClose, SessionWrite, Edit, MoveJournalAside, vars

\* Nobody but the command moves an undisturbed migration.
LEMMA NextFilesFollowPlan ==
    ASSUME IInv, [Next]_vars
    PROVE  FilesFollowPlan'
<1>0. TypeOK /\ PlanConverts /\ FilesFollowPlan
  BY DEF IInv, StorageInvariant
<1> USE DEF Inventory
<1>1. ASSUME NEW t \in Policy, MigrateStart(t) PROVE FilesFollowPlan'
  <2>1. /\ DOMAIN Scan(t) = Inventory
        /\ \A p \in Inventory : Scan(t)[p].before = files[p]
    BY <1>0, ScanFacts
  <2>2. QED BY <1>1, <2>1 DEF MigrateStart, FilesFollowPlan, Unconverted
<1>2. ASSUME mig' = Stopped PROVE FilesFollowPlan'
  BY <1>2, StoppedType DEF FilesFollowPlan
<1>3. ASSUME UNCHANGED <<mig, files, journal, touched>> PROVE FilesFollowPlan'
  BY <1>0, <1>3 DEF FilesFollowPlan, Unconverted
<1>4. CASE SaveJournal
  BY <1>0, <1>4 DEF SaveJournal, FilesFollowPlan, Unconverted, TypeOK, Migration
<1>5. CASE EnableV2
  BY <1>0, <1>5 DEF EnableV2, FilesFollowPlan, Unconverted, PlanConverts, TypeOK, Migration
<1>6. CASE ReadRecord
  <2>1. CASE mig' = [mig EXCEPT !.raw = files[FirstOf(mig.todo)]]
    BY <1>0, <1>6, <2>1 DEF ReadRecord, FilesFollowPlan, Unconverted, TypeOK, Migration
  <2>2. QED BY <1>2, <1>6, <2>1 DEF ReadRecord, Fail
<1>7. CASE ReplaceRecord
  <2> DEFINE p == FirstOf(mig.todo)
  <2>1. CASE /\ files' = [files EXCEPT ![p] = Converted(mig.raw, mig.target)]
             /\ mig' = [mig EXCEPT !.todo = @ \ {p}, !.raw = None]
    <3>1. /\ mig.pc = "replace" /\ mig.todo # {}
          /\ mig.raw = mig.plan[p].before /\ mig.plan \in Plan
          /\ mig.todo \subseteq DOMAIN mig.plan
      BY <1>0, <1>7 DEF ReplaceRecord, PlanConverts
    <3>2. p \in mig.todo /\ p \in DOMAIN mig.plan /\ p \in Path
      BY <3>1, FirstOfFacts, PlanFacts
    <3>3. Converted(mig.raw, mig.target) = mig.plan[p].after /\ mig.plan[p].after \in Bytes
      BY <1>0, <3>1, <3>2, PlanFacts DEF PlanConverts
    <3>4. mig.plan[p].after # None
      BY <3>3, StorageAssumption
    <3>5. /\ mig'.pc = "replace" /\ mig'.plan = mig.plan /\ mig'.target = mig.target
          /\ mig'.todo = mig.todo \ {p}
      BY <1>0, <2>1, <3>1 DEF TypeOK, Migration
    <3>6. files' = [files EXCEPT ![p] = mig.plan[p].after] /\ files \in [Path -> Bytes \cup {None}]
      BY <1>0, <2>1, <3>3 DEF TypeOK
    <3>7. SUFFICES ASSUME ~touched PROVE FilesFollowPlan'
      BY <1>7 DEF ReplaceRecord, FilesFollowPlan
    <3>8. /\ Inventory = DOMAIN mig.plan
          /\ \A q \in Inventory : files[q] = IF q \in mig.todo THEN mig.plan[q].before
                                             ELSE mig.plan[q].after
          /\ journal = [target |-> mig.target, complete |-> FALSE, entries |-> mig.plan]
      BY <1>0, <3>1, <3>7 DEF FilesFollowPlan, Unconverted
    <3>9. Inventory' = Inventory
      BY <3>2, <3>4, <3>6, <3>8
    <3>10. \A q \in Inventory : files'[q] = IF q \in mig'.todo THEN mig'.plan[q].before
                                            ELSE mig'.plan[q].after
      BY <3>2, <3>5, <3>6, <3>8
    <3>11. QED BY <1>7, <3>5, <3>8, <3>9, <3>10 DEF ReplaceRecord, FilesFollowPlan, Unconverted
  <2>2. QED BY <1>2, <1>7, <2>1 DEF ReplaceRecord, Fail
<1>8. CASE StartVerify
  BY <1>0, <1>8 DEF StartVerify, FilesFollowPlan, Unconverted, TypeOK, Migration
<1>9. CASE VerifyRecord
  <2>1. CASE mig' = [mig EXCEPT !.todo = @ \ {FirstOf(mig.todo)}]
    BY <1>0, <1>9, <2>1 DEF VerifyRecord, FilesFollowPlan, Unconverted, TypeOK, Migration
  <2>2. QED BY <1>2, <1>9, <2>1 DEF VerifyRecord, Fail
<1>10. CASE VerifyInventory
  <2>1. CASE mig' = [mig EXCEPT !.pc = "config"]
    BY <1>0, <1>10, <2>1 DEF VerifyInventory, FilesFollowPlan, Unconverted, TypeOK, Migration
  <2>2. QED BY <1>2, <1>10, <2>1 DEF VerifyInventory, Fail
<1>11. CASE SwitchConfig
  BY <1>0, <1>11 DEF SwitchConfig, FilesFollowPlan, Unconverted, TypeOK, Migration
<1>12. CASE Finish \/ Interrupt
  BY <1>2, <1>12 DEF Finish, Interrupt, Fail
<1>13. ASSUME touched' = TRUE PROVE FilesFollowPlan'
  BY <1>13 DEF FilesFollowPlan
<1>14. CASE MoveJournalAside
  BY <1>14 DEF MoveJournalAside, FilesFollowPlan
<1>15. QED
  BY <1>1, <1>3, <1>4, <1>5, <1>6, <1>7, <1>8, <1>9, <1>10, <1>11, <1>12, <1>13, <1>14
     DEF Next, MigrateStep, SessionOpen, SessionClose, SessionWrite, Edit, vars

(***************************************************************************)
(* An interrupted command can be repeated.                                 *)
(***************************************************************************)
LEMMA NextResumable ==
    ASSUME IInv, [Next]_vars, TypeOK', PlanConverts', FilesFollowPlan'
    PROVE  PendingIsResumable'
<1>0. TypeOK /\ PlanConverts /\ FilesFollowPlan /\ (~touched => JournalFits)
  BY ResumableMeansFits DEF IInv, StorageInvariant
<1>1. SUFFICES (~touched => JournalFits)'
  <2>1. ASSUME NEW t \in Policy
        PROVE  ValidatePending(Scan(t))' <=> JournalFits'
    BY <2>1, ValidatePendingMeansFits, PTL
  <2>2. QED BY <2>1, <1>1 DEF PendingIsResumable
<1>2. ASSUME UNCHANGED <<files, journal>>, ~touched' => JournalFits PROVE (~touched => JournalFits)'
  BY <1>2 DEF JournalFits, Pending, Inventory
<1>3. ASSUME NEW t \in Policy, MigrateStart(t) PROVE (~touched => JournalFits)'
  BY <1>0, <1>2, <1>3, ValidatePendingMeansFits DEF MigrateStart
<1>4. ASSUME mig'.pc \notin {"idle", "journal"} PROVE (~touched => JournalFits)'
  <2>1. SUFFICES ASSUME ~touched' PROVE JournalFits'
    OBVIOUS
  <2>2. /\ Inventory' = DOMAIN mig'.plan
        /\ \A p \in Inventory' : files'[p] \in {mig'.plan[p].before, mig'.plan[p].after}
        /\ journal' = [target |-> mig'.target, complete |-> FALSE, entries |-> mig'.plan]
    BY <1>4, <2>1 DEF FilesFollowPlan
  <2>3. \A p \in DOMAIN mig'.plan : mig'.plan[p].after.value = mig'.plan[p].before.value
    <3>1. mig'.plan \in Plan /\ mig'.target \in Policy
      BY <1>4 DEF PlanConverts, TypeOK, Migration
    <3>2. QED BY <1>4, <3>1, PlanFacts, ConvertedFacts DEF PlanConverts
  <2>4. QED BY <2>2, <2>3 DEF JournalFits
<1>5. CASE SaveJournal \/ (ReplaceRecord /\ mig' # Stopped)
  <2>1. mig'.pc \notin {"idle", "journal"}
    BY <1>0, <1>5 DEF SaveJournal, ReplaceRecord, Fail, TypeOK, Migration
  <2>2. QED BY <1>4, <2>1
<1>6. CASE Finish
  BY <1>6 DEF Finish, JournalFits, Pending
<1>7. CASE MoveJournalAside
  BY <1>7 DEF MoveJournalAside, JournalFits, Pending
<1>8. ASSUME UNCHANGED <<files, journal, touched>> PROVE (~touched => JournalFits)'
  BY <1>0, <1>2, <1>8
<1>9. CASE \/ EnableV2 \/ ReadRecord \/ StartVerify \/ VerifyRecord \/ VerifyInventory
           \/ SwitchConfig \/ Interrupt \/ UNCHANGED vars
           \/ \E s \in Session : SessionOpen(s) \/ SessionClose(s)
  <2>1. UNCHANGED <<files, journal, touched>>
    BY <1>9 DEF EnableV2, ReadRecord, StartVerify, VerifyRecord, VerifyInventory, SwitchConfig,
                Interrupt, SessionOpen, SessionClose, vars
  <2>2. QED BY <1>8, <2>1
<1>10. CASE ReplaceRecord /\ mig' = Stopped
  <2>1. mig' # [mig EXCEPT !.todo = @ \ {FirstOf(mig.todo)}, !.raw = None]
    BY <1>0, <1>10, StoppedType DEF ReplaceRecord, TypeOK, Migration
  <2>2. UNCHANGED <<files, journal, touched>>
    BY <1>10, <2>1 DEF ReplaceRecord
  <2>3. QED BY <1>8, <2>2
<1>11. CASE \/ \E s \in Session, p \in Path, v \in Value : SessionWrite(s, p, v)
            \/ \E p \in Path, b \in Bytes \cup {None} : Edit(p, b)
  BY <1>11 DEF SessionWrite, Edit
<1>12. CASE SaveJournal \/ ReplaceRecord
  BY <1>5, <1>10, <1>12
<1>13. CASE MigrateStep
  BY <1>6, <1>9, <1>12, <1>13 DEF MigrateStep
<1>14. CASE \E t \in Policy : MigrateStart(t)
  BY <1>3, <1>14
<1>15. QED
  BY <1>7, <1>9, <1>11, <1>13, <1>14 DEF Next

------------------------------------------------------------------------------
(***************************************************************************)
(* Theorems.                                                               *)
(***************************************************************************)
\* The inductive invariant holds in every reachable state.
THEOREM IInvHolds == Spec => []IInv
<1>1. Init => IInv
  BY InitTypeOK, InitStorageInvariant DEF IInv
<1>2. IInv /\ [Next]_vars => IInv'
  <2>1. SUFFICES ASSUME IInv, [Next]_vars PROVE IInv'
    OBVIOUS
  <2>2. TypeOK' /\ PlanConverts' /\ FilesFollowPlan' /\ Safety'
    BY <2>1, NextTypeOK, NextPlanConverts, NextFilesFollowPlan, NextSafety
  <2>3. PendingIsResumable'
    BY <2>1, <2>2, NextResumable
  <2>4. QED BY <2>2, <2>3 DEF IInv, StorageInvariant, Safety
<1>3. QED BY <1>1, <1>2, PTL DEF Spec

\* Every variable keeps its type.
THEOREM StorageTypeCorrect == Spec => []TypeOK
<1>1. IInv => TypeOK
  BY DEF IInv
<1>2. QED BY <1>1, IInvHolds, PTL

\* Wherever a command stops, its plan, its journal and the files agree.
THEOREM StorageInvariantHolds == Spec => []StorageInvariant
<1>1. IInv => StorageInvariant
  BY DEF IInv
<1>2. QED BY <1>1, IInvHolds, PTL

\* No packed file is ever on disk under config v1, so older CLIs that accept
\* the config can read every Record (switch_config before and after the loop).
THEOREM OldReadersAreSafe == Spec => []PackedNeedsV2
<1>1. IInv => PackedNeedsV2
  BY DEF IInv, StorageInvariant
<1>2. QED BY <1>1, IInvHolds, PTL

\* The shared and exclusive storage guards keep every open session's policy
\* equal to the one in the config.
THEOREM SessionsAreCurrent == Spec => []OpenSessionsAreCurrent
<1>1. IInv => OpenSessionsAreCurrent
  BY DEF IInv, StorageInvariant
<1>2. QED BY <1>1, IInvHolds, PTL

\* validate_pending accepts the plan of either direction after an interruption
\* at any point, as long as nobody else changed a Record.
THEOREM InterruptedIsResumable == Spec => []PendingIsResumable
<1>1. IInv => PendingIsResumable
  BY DEF IInv, StorageInvariant
<1>2. QED BY <1>1, IInvHolds, PTL

\* The replacement loop of apply never changes what a Record says.
THEOREM RecordsAreKept == Spec => MigrationKeepsRecords
<1> DEFINE Kept == mig.pc # "idle" /\ mig' # mig =>
                      \A p \in Path : IF files[p] = None THEN files'[p] = None
                                      ELSE files'[p] # None /\ files'[p].value = files[p].value
<1>1. ASSUME IInv, [Next]_vars PROVE [Kept]_vars
  <2>0. TypeOK
    BY <1>1 DEF IInv
  <2>1. ASSUME files' = files PROVE Kept
    BY <2>1
  <2>2. CASE ReplaceRecord /\ files' # files
    <3> DEFINE p == FirstOf(mig.todo)
    <3>1. /\ files' = [files EXCEPT ![p] = Converted(mig.raw, mig.target)]
          /\ mig.raw = files[p] /\ mig.raw # None
      BY <2>2 DEF ReplaceRecord, UnchangedSinceRead
    <3>2. mig.raw \in Bytes /\ mig.target \in Policy
      BY <2>0, <3>1 DEF TypeOK, Migration
    <3>3. Converted(mig.raw, mig.target) \in Bytes
          /\ Converted(mig.raw, mig.target).value = mig.raw.value
      BY <3>2, ConvertedFacts
    <3>4. Converted(mig.raw, mig.target) # None
      BY <3>3, StorageAssumption
    <3>5. QED BY <2>0, <3>1, <3>3, <3>4 DEF TypeOK
  <2>3. ASSUME mig' = mig PROVE Kept
    BY <2>3
  <2>4. QED
    BY <1>1, <2>1, <2>2, <2>3
       DEF Next, MigrateStep, MigrateStart, SaveJournal, EnableV2, ReadRecord, StartVerify,
           VerifyRecord, VerifyInventory, SwitchConfig, Finish, Interrupt, SessionOpen,
           SessionClose, SessionWrite, Edit, MoveJournalAside, vars
<1>2. QED BY <1>1, IInvHolds, PTL DEF Spec, MigrationKeepsRecords

------------------------------------------------------------------------------
(***************************************************************************)
(* SourceCache.                                                            *)
(***************************************************************************)
CallFits(c) ==
    /\ Steady(c)
    /\ ~c.moved /\ ~c.health => FreshObservation(c)
    /\ ~c.moved /\ c.health => FreshIndex(c)

CacheIInv == CacheTypeOK /\ StoresAreConsistent /\ CallsAreConsistent

LEMMA RevType == CacheTypeOK => rev \in 0..MaxChanges
BY BoundAssumption DEF CacheTypeOK

LEMMA NoFilesType == NoFiles \in Files /\ NoFiles \in Ids /\ NoFiles \in Index
BY DEF NoFiles, Files, Ids, Index

LEMMA IdleCall ==
    /\ Idle \in Call /\ Idle.at = "idle" /\ ~Idle.health /\ ~Idle.clean /\ Idle.manifest = Nil
    /\ Idle.paths = {} /\ Idle.blobs = NoFiles /\ Idle.dirty = {} /\ Idle.ids = NoFiles
    /\ Idle.bytes = NoFiles /\ Idle.signature = Nil /\ Idle.rev = 0 /\ Idle.seen = NoFiles
    /\ Idle.kept = NoFiles /\ Idle.answer = Nil /\ ~Idle.raced /\ ~Idle.moved
<1>1. 0 \in 0..MaxChanges
  BY BoundAssumption
<1>2. QED BY <1>1, NoFilesType DEF Idle, Call, CallStage

LEMMA IdleFits == CallFits(Idle)
BY IdleCall DEF CallFits, Steady, FreshObservation

LEMMA Fields ==
    ASSUME NEW c \in Call
    PROVE  /\ c.at \in CallStage /\ c.health \in BOOLEAN /\ c.clean \in BOOLEAN
           /\ c.manifest \in Content \cup {Nil} /\ c.paths \subseteq File /\ c.blobs \in Files
           /\ c.dirty \subseteq File /\ c.ids \in Ids /\ c.bytes \in Files
           /\ c.signature \in Signed \cup {Nil} /\ c.rev \in 0..MaxChanges /\ c.seen \in Files
           /\ c.kept \in Index /\ c.answer \in Observed \cup {Nil} /\ c.raced \in BOOLEAN
           /\ c.moved \in BOOLEAN
BY DEF Call

\* What a call holds fits as long as Git and the files stay as they are.
LEMMA FitsUnchanged ==
    ASSUME UNCHANGED <<work, index, tree, rev, ignored>>, NEW CONSTANT c
    PROVE  CallFits(c)' <=> CallFits(c)
<1>1. Steady(c)' <=> Steady(c)
  BY DEF Steady, Describes, Genuine, Usable, Compact, NoFiles
<1>2. Targets' = Targets /\ Dirty' = Dirty /\ Results' = Results
  BY DEF Targets, Tracked, Dirty, Results
<1>3. Inputs' = Inputs /\ Repository' = Repository
  BY <1>2 DEF Inputs, Repository, Unbound
<1>4. \A ids, F : Identifies(ids, F)' <=> Identifies(ids, F)
  BY DEF Identifies
<1>5. FreshObservation(c)' <=> FreshObservation(c)
  BY <1>2, <1>3, <1>4 DEF FreshObservation
<1>6. FreshIndex(c)' <=> FreshIndex(c)
  BY <1>2, <1>4 DEF FreshIndex
<1>7. QED BY <1>1, <1>5, <1>6 DEF CallFits

LEMMA Fits ==
    ASSUME CacheIInv, NEW p \in Process
    PROVE  proc[p] \in Call /\ CallFits(proc[p])
BY DEF CacheIInv, CacheTypeOK, CallsAreConsistent, CallFits

\* A step of one call that leaves Git and the files alone.
LEMMA CallStepPreserves ==
    ASSUME CacheIInv, NEW p \in Process, NEW CONSTANT r \in Call, CallFits(r),
           proc' = [proc EXCEPT ![p] = r],
           UNCHANGED <<work, index, tree, rev, changes, ignored>>,
           calls' \in 0..MaxCalls,
           cache' \in Cached \cup {Nil}, entries' \in Index, StoresAreConsistent'
    PROVE  CacheIInv'
<1>1. CacheTypeOK'
  BY DEF CacheIInv, CacheTypeOK
<1>2. ASSUME NEW q \in Process PROVE CallFits(proc[q])'
  <2>1. PICK x : x = proc'[q]
    OBVIOUS
  <2>2. x = IF q = p THEN r ELSE proc[q]
    BY <2>1 DEF CacheIInv, CacheTypeOK
  <2>3. CallFits(x)
    <3>1. CASE q = p BY <3>1, <2>2
    <3>2. CASE q # p BY <3>2, <2>2, Fits
    <3>3. QED BY <3>1, <3>2
  <2>4. CallFits(x)'
    BY <2>3, FitsUnchanged
  <2>5. QED BY <2>1, <2>4
<1>3. CallsAreConsistent'
  BY <1>2 DEF CallsAreConsistent, CallFits
<1>4. QED BY <1>1, <1>3 DEF CacheIInv

LEMMA StoresUnchanged ==
    ASSUME CacheIInv, UNCHANGED <<cache, entries>>
    PROVE  cache' \in Cached \cup {Nil} /\ entries' \in Index /\ StoresAreConsistent'
<1>1. cache' \in Cached \cup {Nil} /\ entries' \in Index
  BY DEF CacheIInv, CacheTypeOK
<1>2. StoresAreConsistent'
  BY DEF CacheIInv, StoresAreConsistent, Describes, Genuine, Compact
<1>3. QED BY <1>1, <1>2

\* A call goes on and leaves the caches alone.
LEMMA CallGoesOn ==
    ASSUME CacheIInv, NEW p \in Process, NEW CONSTANT r \in Call, CallFits(r),
           Becomes(p, r), UNCHANGED <<git, stores>>
    PROVE  CacheIInv'
<1>1. UNCHANGED <<work, index, tree, rev, changes, ignored, cache, entries, calls>>
  BY DEF Becomes, git, stores
<1>2. proc' = [proc EXCEPT ![p] = r]
  BY DEF Becomes
<1>3. calls' \in 0..MaxCalls
  BY <1>1 DEF CacheIInv, CacheTypeOK
<1>4. cache' \in Cached \cup {Nil} /\ entries' \in Index /\ StoresAreConsistent'
  BY <1>1, StoresUnchanged
<1>5. QED BY <1>1, <1>2, <1>3, <1>4, CallStepPreserves

LEMMA FailsPreserves ==
    ASSUME CacheIInv, NEW p \in Process, Fails(p), UNCHANGED git
    PROVE  CacheIInv'
<1>1. Becomes(p, Idle) /\ UNCHANGED stores
  BY DEF Fails
<1>2. QED BY <1>1, IdleCall, IdleFits, CallGoesOn

(***************************************************************************)
(* A call begins.                                                          *)
(***************************************************************************)
LEMMA ObserveCallPreserves ==
    ASSUME CacheIInv, NEW p \in Process, NEW clean \in BOOLEAN, ObserveCall(p, clean)
    PROVE  CacheIInv'
<1>1. /\ UNCHANGED <<work, index, tree, rev, changes, ignored, cache, entries>>
      /\ calls' \in 0..MaxCalls
  BY BoundAssumption DEF ObserveCall, CacheIInv, CacheTypeOK, git, stores
<1>2. work[Observation] \in Content
  BY DEF CacheIInv, CacheTypeOK, Files, File, ObserveCall, Opens
<1>3. PICK stage, m :
         /\ stage \in {"blobs", "observe"} /\ stage = (IF ignored THEN "blobs" ELSE "observe")
         /\ m = work[Observation]
         /\ proc' = [proc EXCEPT ![p] = [Idle EXCEPT !.at = stage, !.clean = clean, !.manifest = m]]
  BY DEF ObserveCall
<1>4. PICK r : r = [Idle EXCEPT !.at = stage, !.clean = clean, !.manifest = m]
  OBVIOUS
<1>5. /\ r \in Call /\ r.at = stage /\ r.manifest = m /\ ~r.health /\ ~r.raced
      /\ r.seen = NoFiles /\ r.signature = Nil
  <2>1. stage \in CallStage /\ m \in Content \cup {Nil}
    BY <1>2, <1>3 DEF CallStage
  <2>2. r \in Call
    BY <1>4, <2>1, IdleCall DEF Call
  <2>3. QED BY <1>4, <2>2, IdleCall DEF Call
<1>6. Steady(r)
  BY <1>2, <1>3, <1>5, NilAssumption DEF Steady
<1>7. FreshObservation(r)
  BY <1>3, <1>5 DEF FreshObservation
<1>8. CallFits(r)
  BY <1>5, <1>6, <1>7 DEF CallFits
<1>9. cache' \in Cached \cup {Nil} /\ entries' \in Index /\ StoresAreConsistent'
  BY <1>1, StoresUnchanged
<1>10. QED BY <1>1, <1>3, <1>4, <1>5, <1>8, <1>9, CallStepPreserves

LEMMA HealthCallPreserves ==
    ASSUME CacheIInv, NEW p \in Process, HealthCall(p)
    PROVE  CacheIInv'
<1>1. /\ UNCHANGED <<work, index, tree, rev, changes, ignored, cache, entries>>
      /\ calls' \in 0..MaxCalls
  BY BoundAssumption DEF HealthCall, CacheIInv, CacheTypeOK, git, stores
<1>2. PICK kept : kept = IF ignored THEN entries ELSE NoFiles
  OBVIOUS
<1>3. PICK paths : paths = Results
  OBVIOUS
<1>4. PICK r : r = [Idle EXCEPT !.at = "blobs", !.health = TRUE, !.paths = paths, !.kept = kept]
  OBVIOUS
<1>5. proc' = [proc EXCEPT ![p] = r]
  BY <1>2, <1>3, <1>4 DEF HealthCall, Results
<1>6. kept \in Index /\ \A f \in File : Genuine(kept[f])
  BY <1>2, NoFilesType DEF CacheIInv, CacheTypeOK, StoresAreConsistent, Genuine, NoFiles
<1>7. paths \subseteq Result /\ paths \subseteq File
  BY <1>3 DEF Results, File
<1>8. /\ r \in Call /\ r.at = "blobs" /\ r.health /\ r.paths = paths /\ r.kept = kept
      /\ r.seen = NoFiles
  BY <1>4, <1>6, <1>7, IdleCall DEF Call, CallStage
<1>9. Steady(r)
  BY <1>6, <1>7, <1>8 DEF Steady
<1>10. FreshIndex(r)
  BY <1>3, <1>8 DEF FreshIndex
<1>11. CallFits(r)
  BY <1>8, <1>9, <1>10 DEF CallFits
<1>12. cache' \in Cached \cup {Nil} /\ entries' \in Index /\ StoresAreConsistent'
  BY <1>1, StoresUnchanged
<1>13. QED BY <1>1, <1>5, <1>8, <1>11, <1>12, CallStepPreserves

(***************************************************************************)
(* A call takes the identities.                                            *)
(***************************************************************************)
LEMMA ListBlobsPreserves ==
    ASSUME CacheIInv, NEW p \in Process, ListBlobs(p)
    PROVE  CacheIInv'
<1>1. PICK c : c = proc[p]
  OBVIOUS
<1>2. c \in Call /\ CallFits(c) /\ c.at = "blobs"
  BY <1>1, Fits DEF ListBlobs, At
<1>3. PICK fails \in MayFail(c) :
         Becomes(p, [c EXCEPT !.at = "dirty", !.blobs = BlobIds(fails),
                              !.paths = IF c.health THEN @ ELSE Targets \cup Declares[c.manifest]])
  BY <1>1 DEF ListBlobs
<1>4. PICK blobs, paths :
         /\ blobs = BlobIds(fails)
         /\ paths = IF c.health THEN c.paths ELSE Targets \cup Declares[c.manifest]
  OBVIOUS
<1>5. PICK r : r = [c EXCEPT !.at = "dirty", !.blobs = blobs, !.paths = paths]
  OBVIOUS
<1>6. Becomes(p, r)
  BY <1>3, <1>4, <1>5
<1>7. blobs \in Files /\ (blobs = index \/ (c.health /\ blobs = NoFiles))
  BY <1>3, <1>4, NoFilesType DEF BlobIds, MayFail, CacheIInv, CacheTypeOK
<1>8. paths \subseteq File
  <2>1. CASE c.health BY <1>2, <1>4, <2>1, Fields
  <2>2. CASE ~c.health
    <3>1. c.manifest \in Content
      BY <1>2, <2>2, Fields DEF CallFits, Steady
    <3>2. QED BY <1>4, <2>2, <3>1, FileAssumption DEF Targets, File
  <2>3. QED BY <2>1, <2>2
<1>9. /\ r \in Call /\ r.at = "dirty" /\ r.blobs = blobs /\ r.paths = paths
      /\ r.health = c.health /\ r.moved = c.moved /\ r.manifest = c.manifest
      /\ r.seen = c.seen /\ r.kept = c.kept
  BY <1>2, <1>5, <1>7, <1>8 DEF Call, CallStage
<1>10. Steady(r)
  BY <1>2, <1>4, <1>9 DEF CallFits, Steady
<1>11. ~r.moved /\ ~r.health => FreshObservation(r)
  BY <1>2, <1>4, <1>7, <1>9 DEF CallFits, FreshObservation, Inputs
<1>12. ~r.moved /\ r.health => FreshIndex(r)
  BY <1>2, <1>4, <1>7, <1>9 DEF CallFits, FreshIndex, NoFiles
<1>13. CallFits(r)
  BY <1>10, <1>11, <1>12 DEF CallFits
<1>14. UNCHANGED <<git, stores>>
  BY DEF ListBlobs
<1>15. QED BY <1>6, <1>9, <1>13, <1>14, CallGoesOn

LEMMA ListDirtyPreserves ==
    ASSUME CacheIInv, NEW p \in Process, ListDirty(p)
    PROVE  CacheIInv'
<1>1. PICK c : c = proc[p]
  OBVIOUS
<1>2. c \in Call /\ CallFits(c) /\ c.at = "dirty"
  BY <1>1, Fits DEF ListDirty, At
<1>3. PICK fails \in MayFail(c) :
         Becomes(p, [c EXCEPT !.at = "hash", !.dirty = DirtyPaths(c, fails)])
  BY <1>1 DEF ListDirty
<1>4. PICK dirty : dirty = DirtyPaths(c, fails)
  OBVIOUS
<1>5. PICK r : r = [c EXCEPT !.at = "hash", !.dirty = dirty]
  OBVIOUS
<1>6. Becomes(p, r)
  BY <1>3, <1>4, <1>5
<1>7. /\ dirty \subseteq File /\ Dirty \cap c.paths \subseteq dirty
      /\ ~c.health => dirty = Dirty \cap c.paths
  BY <1>2, <1>3, <1>4, Fields DEF DirtyPaths, MayFail
<1>9. /\ r \in Call /\ r.at = "hash" /\ r.dirty = dirty
      /\ r.blobs = c.blobs /\ r.paths = c.paths
      /\ r.health = c.health /\ r.moved = c.moved /\ r.manifest = c.manifest
      /\ r.seen = c.seen /\ r.kept = c.kept
  BY <1>2, <1>5, <1>7 DEF Call, CallStage
<1>10. Steady(r)
  BY <1>2, <1>9 DEF CallFits, Steady
<1>11. ~r.moved /\ ~r.health => FreshObservation(r)
  BY <1>2, <1>7, <1>9 DEF CallFits, FreshObservation
<1>12. ~r.moved /\ r.health => FreshIndex(r)
  BY <1>2, <1>7, <1>9 DEF CallFits, FreshIndex
<1>13. CallFits(r)
  BY <1>10, <1>11, <1>12 DEF CallFits
<1>14. UNCHANGED <<git, stores>>
  BY DEF ListDirty
<1>15. QED BY <1>6, <1>9, <1>13, <1>14, CallGoesOn

\* An identity names the content of its file, when the ids and the list of
\* dirty files are of the files as they are.
LEMMA IdentityOfFacts ==
    ASSUME NEW f \in File, NEW blobs \in Files, NEW dirty, work \in Files, index \in Files,
           NEW id, id = IdentityOf(f, blobs, dirty)
    PROVE  /\ id \in Identity \cup {Nil}
           /\ id # Nil /\ id[1] = "sha256" => id[2] = work[f] /\ work[f] # Nil
           /\ id # Nil /\ (f \in Dirty => f \in dirty) /\ blobs[f] \in {Nil, index[f]}
                 => id[2] = work[f]
<1>1. blobs[f] \in Content \cup {Nil} /\ work[f] \in Content \cup {Nil}
  BY DEF Files
<1>2. CASE f \notin dirty /\ blobs[f] # Nil
  <2>1. id = <<"git", blobs[f]>> /\ id[1] = "git" /\ id[2] = blobs[f] /\ id \in Identity
    BY <1>1, <1>2 DEF IdentityOf, Identity
  <2>2. f \notin Dirty => work[f] = index[f]
    BY DEF Dirty
  <2>3. QED BY <1>2, <2>1, <2>2
<1>3. CASE ~(f \notin dirty /\ blobs[f] # Nil) /\ work[f] # Nil
  <2>1. id = <<"sha256", work[f]>> /\ id[2] = work[f] /\ id \in Identity
    BY <1>1, <1>3 DEF IdentityOf, Identity
  <2>2. QED BY <1>3, <2>1
<1>4. CASE ~(f \notin dirty /\ blobs[f] # Nil) /\ work[f] = Nil
  BY <1>4 DEF IdentityOf
<1>5. QED BY <1>2, <1>3, <1>4

LEMMA HashPreserves ==
    ASSUME CacheIInv, NEW p \in Process, Hash(p)
    PROVE  CacheIInv'
<1>1. PICK c : c = proc[p]
  OBVIOUS
<1>2. c \in Call /\ CallFits(c) /\ c.at = "hash" /\ UNCHANGED git
  BY <1>1, Fits DEF Hash, At
<1>3. CASE ~Identified(c)
  <2>1. Fails(p)
    BY <1>1, <1>3 DEF Hash
  <2>2. QED BY <1>2, <2>1, FailsPreserves
<1>4. CASE Identified(c)
  <2>1. PICK ids : ids = Identities(c)
    OBVIOUS
  <2>2. PICK bytes : bytes = [f \in File |->
             IF f \in {g \in c.paths : ids[g] # Nil /\ ids[g][1] = "sha256"} THEN work[f] ELSE Nil]
    OBVIOUS
  <2>3. PICK stage : stage = IF c.health THEN "records" ELSE "lookup"
    OBVIOUS
  <2>4. PICK r : r = [c EXCEPT !.at = stage, !.ids = ids, !.bytes = bytes]
    OBVIOUS
  <2>5. Becomes(p, r) /\ UNCHANGED stores
    BY <1>1, <1>4, <2>1, <2>2, <2>3, <2>4 DEF Hash
  <2>6. /\ work \in Files /\ index \in Files /\ c.blobs \in Files /\ c.paths \subseteq File
    BY <1>2, Fields DEF CacheIInv, CacheTypeOK
  <2>7. \A f \in File : f \in c.paths => ids[f] = IdentityOf(f, c.blobs, c.dirty)
    BY <2>1 DEF Identities
  <2>8. \A f \in File : f \notin c.paths => ids[f] = Nil
    BY <2>1 DEF Identities
  <2>9. \A f \in File : ids[f] # Nil <=> f \in c.paths
    BY <1>4, <2>1, <2>6, <2>8 DEF Identified
  <2>10. \A f \in File : ids[f] \in Identity \cup {Nil}
    BY <2>6, <2>7, <2>8, IdentityOfFacts
  <2>11. ids \in Ids
    BY <2>1, <2>10 DEF Ids, Identities
  <2>12. \A f \in File : ids[f] # Nil /\ ids[f][1] = "sha256" => ids[f][2] = work[f] /\ work[f] # Nil
    BY <2>6, <2>7, <2>9, IdentityOfFacts
  <2>13. bytes \in Files
    BY <2>2, <2>6 DEF Files
  <2>14. \A f \in File : bytes[f] # Nil => ids[f] # Nil /\ ids[f][2] = bytes[f]
    BY <2>2, <2>9, <2>12
  <2>15. /\ r \in Call /\ r.at = stage /\ r.ids = ids /\ r.bytes = bytes /\ r.paths = c.paths
         /\ r.health = c.health /\ r.moved = c.moved /\ r.manifest = c.manifest
         /\ r.seen = c.seen /\ r.kept = c.kept
    BY <1>2, <2>3, <2>4, <2>11, <2>13 DEF Call, CallStage
  <2>16. Steady(r)
    BY <1>2, <2>3, <2>9, <2>14, <2>15 DEF CallFits, Steady
  <2>17. ASSUME ~c.moved, \A f \in File : c.blobs[f] \in {Nil, index[f]},
                Dirty \cap c.paths \subseteq c.dirty
         PROVE  \A f \in File : ids[f] # Nil => ids[f][2] = work[f]
    BY <2>6, <2>7, <2>9, <2>17, IdentityOfFacts
  <2>18. ~r.moved /\ ~r.health => FreshObservation(r)
    <3>1. SUFFICES ASSUME ~c.moved, ~c.health PROVE FreshObservation(r)
      BY <2>15
    <3>2. FreshObservation(c)
      BY <1>2, <3>1 DEF CallFits
    <3>3. c.manifest = work[Observation] /\ c.paths = Inputs /\ c.blobs = index
          /\ Dirty \cap c.paths \subseteq c.dirty
      BY <1>2, <3>2 DEF FreshObservation
    <3>4. \A f \in File : ids[f] # Nil => ids[f][2] = work[f]
      BY <2>17, <3>1, <3>3
    <3>5. Identifies(ids, Inputs)
      BY <2>9, <3>3, <3>4 DEF Identifies
    <3>6. QED BY <2>3, <2>15, <3>1, <3>3, <3>5 DEF FreshObservation
  <2>19. ~r.moved /\ r.health => FreshIndex(r)
    <3>1. SUFFICES ASSUME ~c.moved, c.health PROVE FreshIndex(r)
      BY <2>15
    <3>2. FreshIndex(c)
      BY <1>2, <3>1 DEF CallFits
    <3>3. /\ c.paths = Results /\ \A f \in File : c.blobs[f] \in {Nil, index[f]}
          /\ Dirty \cap c.paths \subseteq c.dirty
      BY <1>2, <3>2 DEF FreshIndex
    <3>4. \A f \in File : ids[f] # Nil => ids[f][2] = work[f]
      BY <2>17, <3>1, <3>3
    <3>5. Identifies(ids, Results)
      BY <2>9, <3>3, <3>4 DEF Identifies
    <3>6. QED BY <2>3, <2>15, <3>1, <3>5 DEF FreshIndex
  <2>20. CallFits(r)
    BY <2>16, <2>18, <2>19 DEF CallFits
  <2>21. UNCHANGED <<git, stores>>
    BY <1>2, <2>5
  <2>22. QED BY <2>5, <2>15, <2>20, <2>21, CallGoesOn
<1>5. QED BY <1>3, <1>4

(***************************************************************************)
(* The repository observation.                                             *)
(***************************************************************************)
\* What a signature of the project as it is was made from is the project.
LEMMA SignatureDetermines ==
    ASSUME CacheTypeOK, work[Observation] \in Content, NEW s,
           s.rev = rev, s.manifest = work[Observation], Identifies(s.ids, Inputs)
    PROVE  /\ [f \in File |-> IF f \in Declares[s.manifest] THEN s.ids[f][2] ELSE Nil]
                = [f \in File |-> IF f \in Declares[work[Observation]] THEN work[f] ELSE Nil]
           /\ {f \in Source : s.ids[f] # Nil} \ Declares[s.manifest]
                = Unbound(work[Observation])
<1>1. Inputs = Targets \cup Declares[work[Observation]] /\ Inputs \subseteq Source
  BY FileAssumption DEF Inputs, Targets
<1>2. Source \subseteq File
  BY DEF File
<1>3. \A f \in File : f \in Inputs => s.ids[f] # Nil /\ s.ids[f][2] = work[f]
  BY DEF Identifies
<1>4. \A f \in File : IF f \in Declares[s.manifest]
                      THEN s.ids[f][2] = work[f] ELSE TRUE
  BY <1>1, <1>3
<1>5. {f \in Source : s.ids[f] # Nil} = Inputs
  BY <1>1, <1>2 DEF Identifies
<1>6. QED BY <1>1, <1>4, <1>5 DEF Unbound

LEMMA RepositoryFields ==
    ASSUME CacheTypeOK, work[Observation] \in Content
    PROVE  /\ Repository \in Observed
           /\ Repository.manifest = work[Observation] /\ Repository.rev = rev
           /\ Repository.seen =
                 [f \in File |-> IF f \in Declares[work[Observation]] THEN work[f] ELSE Nil]
           /\ Repository.unbound = Unbound(work[Observation])
<1>1. rev \in 0..MaxChanges
  BY RevType
<1>2. Unbound(work[Observation]) \subseteq Source
  BY DEF Unbound, Targets
<1>3. [f \in File |-> IF f \in Declares[work[Observation]] THEN work[f] ELSE Nil] \in Files
  BY DEF CacheTypeOK, Files
<1>4. QED BY <1>1, <1>2, <1>3 DEF Repository, Observed, Files

LEMMA DescribedIsCurrent ==
    ASSUME CacheTypeOK, work[Observation] \in Content, NEW s, NEW o \in Observed,
           s.rev = rev, s.manifest = work[Observation], Identifies(s.ids, Inputs)
    PROVE  Describes(o, s) <=> o = Repository
<1>1. Describes(o, s) <=> /\ o.manifest = work[Observation] /\ o.rev = rev
                          /\ o.seen = Repository.seen /\ o.unbound = Repository.unbound
  BY SignatureDetermines, RepositoryFields DEF Describes
<1>2. \A x \in Observed : x = [manifest |-> x.manifest, rev |-> x.rev, seen |-> x.seen,
                               unbound |-> x.unbound]
  BY DEF Observed
<1>3. QED BY <1>1, <1>2, RepositoryFields

LEMMA ManifestThere ==
    ASSUME CacheIInv, NEW c \in Call, CallFits(c), ~c.moved, ~c.health,
           c.at \in {"lookup", "observe", "sources"}
    PROVE  c.manifest = work[Observation] /\ work[Observation] \in Content
<1>1. c.manifest = work[Observation] /\ c.manifest # Nil
  BY DEF CallFits, FreshObservation, Steady
<1>2. QED BY <1>1, Fields

LEMMA LookupPreserves ==
    ASSUME CacheIInv, NEW p \in Process, Lookup(p)
    PROVE  CacheIInv'
<1>1. PICK c : c = proc[p]
  OBVIOUS
<1>2. /\ c \in Call /\ CallFits(c) /\ c.at = "lookup" /\ ~c.health /\ ignored
      /\ c.manifest \in Content /\ CacheTypeOK
  BY <1>1, Fits, Fields DEF Lookup, At, CallFits, Steady, CacheIInv
<1>3. UNCHANGED <<git, stores>>
  BY DEF Lookup
<1>4. PICK s : s = Signature(c)
  OBVIOUS
<1>5. /\ s \in Signed /\ s.rev = rev /\ s.manifest = c.manifest /\ s.ids = c.ids
  BY <1>2, <1>4, Fields, RevType DEF Signature, Signed, Ids
<1>6. ASSUME ~c.moved
      PROVE  /\ s.manifest = work[Observation] /\ work[Observation] \in Content
             /\ Identifies(s.ids, Inputs)
  BY <1>2, <1>5, <1>6, ManifestThere DEF CallFits, FreshObservation
<1>7. CASE cache # Nil /\ cache.signature = s
  <2>1. PICK k : k = cache
    OBVIOUS
  <2>2. k \in Cached /\ k.repository \in Observed /\ k.raced \in BOOLEAN
    BY <1>2, <1>7, <2>1 DEF CacheTypeOK, Cached
  <2>3. PICK r : r = [c EXCEPT !.at = "answered", !.answer = k.repository, !.raced = k.raced]
    OBVIOUS
  <2>4. Becomes(p, r)
    BY <1>1, <1>4, <1>7, <2>1, <2>3 DEF Lookup
  <2>5. /\ r \in Call /\ r.at = "answered" /\ r.answer = k.repository /\ r.raced = k.raced
        /\ ~r.health /\ r.moved = c.moved /\ r.manifest = c.manifest
    BY <1>2, <2>2, <2>3 DEF Call, CallStage
  <2>6. Steady(r)
    BY <1>2, <2>5, NilAssumption DEF Steady
  <2>7. ~r.moved => FreshObservation(r)
    <3>1. SUFFICES ASSUME ~c.moved, ~k.raced PROVE k.repository = Repository
      BY <2>5 DEF FreshObservation
    <3>2. Describes(k.repository, s)
      BY <1>7, <2>1, <3>1 DEF CacheIInv, StoresAreConsistent
    <3>3. QED BY <1>2, <1>5, <1>6, <2>2, <3>1, <3>2, DescribedIsCurrent
  <2>8. CallFits(r)
    BY <2>5, <2>6, <2>7 DEF CallFits
  <2>9. QED BY <1>3, <2>4, <2>5, <2>8, CallGoesOn
<1>8. CASE ~(cache # Nil /\ cache.signature = s)
  <2>1. PICK r : r = [c EXCEPT !.at = "observe", !.signature = s]
    OBVIOUS
  <2>2. Becomes(p, r)
    BY <1>1, <1>4, <1>8, <2>1 DEF Lookup
  <2>3. /\ r \in Call /\ r.at = "observe" /\ r.signature = s /\ r.seen = c.seen
        /\ ~r.health /\ r.moved = c.moved /\ r.manifest = c.manifest
    BY <1>2, <1>5, <2>1 DEF Call, CallStage
  <2>4. Steady(r)
    BY <1>2, <1>5, <2>3, NilAssumption DEF CallFits, Steady
  <2>5. ~r.moved => FreshObservation(r)
    BY <1>5, <1>6, <2>3 DEF FreshObservation
  <2>6. CallFits(r)
    BY <2>3, <2>4, <2>5 DEF CallFits
  <2>7. QED BY <1>3, <2>2, <2>3, <2>6, CallGoesOn
<1>9. QED BY <1>7, <1>8

LEMMA ObserveStartPreserves ==
    ASSUME CacheIInv, NEW p \in Process, ObserveStart(p)
    PROVE  CacheIInv'
<1>1. PICK c : c = proc[p]
  OBVIOUS
<1>2. /\ c \in Call /\ CallFits(c) /\ c.at = "observe" /\ ~c.health /\ UNCHANGED git
      /\ CacheTypeOK
  BY <1>1, Fits DEF ObserveStart, At, CallFits, Steady, CacheIInv
<1>3. CASE ~Opens(c.clean)
  <2>1. Fails(p)
    BY <1>1, <1>3 DEF ObserveStart
  <2>2. QED BY <1>2, <2>1, FailsPreserves
<1>4. CASE Opens(c.clean)
  <2>1. PICK m, v : m = work[Observation] /\ v = rev
    OBVIOUS
  <2>2. PICK r : r = [c EXCEPT !.at = "sources", !.rev = v, !.manifest = m]
    OBVIOUS
  <2>3. Becomes(p, r) /\ UNCHANGED <<git, stores>>
    BY <1>1, <1>2, <1>4, <2>1, <2>2 DEF ObserveStart
  <2>4. m \in Content /\ v \in 0..MaxChanges
    BY <1>2, <1>4, <2>1, RevType DEF Opens, CacheTypeOK, Files, File
  <2>5. /\ r \in Call /\ r.at = "sources" /\ r.rev = v /\ r.manifest = m /\ r.seen = c.seen
        /\ ~r.health /\ r.moved = c.moved /\ r.signature = c.signature
    BY <1>2, <2>2, <2>4 DEF Call, CallStage
  <2>6. Steady(r)
    BY <1>2, <2>4, <2>5, NilAssumption DEF CallFits, Steady
  <2>7. ~r.moved => FreshObservation(r)
    <3>1. \A f \in File : c.seen[f] = Nil
      BY <1>2 DEF CallFits, Steady, NoFiles
    <3>2. QED BY <1>2, <2>1, <2>5, <3>1 DEF CallFits, FreshObservation
  <2>8. CallFits(r)
    BY <2>5, <2>6, <2>7 DEF CallFits
  <2>9. QED BY <2>3, <2>5, <2>8, CallGoesOn
<1>5. QED BY <1>3, <1>4

LEMMA ObserveSourcePreserves ==
    ASSUME CacheIInv, NEW p \in Process, NEW f \in Source, ObserveSource(p, f)
    PROVE  CacheIInv'
<1>1. PICK c : c = proc[p]
  OBVIOUS
<1>2. /\ c \in Call /\ CallFits(c) /\ c.at = "sources" /\ ~c.health /\ UNCHANGED git
      /\ CacheTypeOK /\ f \in Declares[c.manifest] /\ f \in File
  BY <1>1, Fits DEF ObserveSource, At, CallFits, Steady, CacheIInv, File
<1>3. CASE ~(Tracked(f) /\ work[f] # Nil)
  <2>1. Fails(p)
    BY <1>1, <1>3 DEF ObserveSource
  <2>2. QED BY <1>2, <2>1, FailsPreserves
<1>4. CASE Tracked(f) /\ work[f] # Nil
  <2>1. PICK seen : seen = [c.seen EXCEPT ![f] = work[f]]
    OBVIOUS
  <2>2. PICK r : r = [c EXCEPT !.seen = seen]
    OBVIOUS
  <2>3. Becomes(p, r) /\ UNCHANGED <<git, stores>>
    BY <1>1, <1>2, <1>4, <2>1, <2>2 DEF ObserveSource
  <2>4. seen \in Files /\ \A g \in File : seen[g] = IF g = f THEN work[f] ELSE c.seen[g]
    BY <1>2, <2>1, Fields DEF CacheTypeOK, Files
  <2>5. /\ r \in Call /\ r.at = "sources" /\ r.rev = c.rev /\ r.manifest = c.manifest
        /\ r.seen = seen /\ ~r.health /\ r.moved = c.moved /\ r.signature = c.signature
    BY <1>2, <2>2, <2>4 DEF Call
  <2>6. Steady(r)
    BY <1>2, <2>5 DEF CallFits, Steady
  <2>7. ~r.moved => FreshObservation(r)
    BY <1>2, <2>4, <2>5 DEF CallFits, FreshObservation
  <2>8. CallFits(r)
    BY <2>5, <2>6, <2>7 DEF CallFits
  <2>9. QED BY <2>3, <2>5, <2>8, CallGoesOn
<1>5. QED BY <1>3, <1>4

LEMMA ObserveEndPreserves ==
    ASSUME CacheIInv, NEW p \in Process, ObserveEnd(p)
    PROVE  CacheIInv'
<1>1. PICK c : c = proc[p]
  OBVIOUS
<1>2. /\ c \in Call /\ CallFits(c) /\ c.at = "sources" /\ ~c.health /\ c.manifest \in Content
      /\ CacheTypeOK /\ UNCHANGED <<git, stores>>
      /\ \A f \in Declares[c.manifest] : c.seen[f] # Nil
  BY <1>1, Fits, Fields DEF ObserveEnd, At, CallFits, Steady, CacheIInv
<1>3. PICK o : o = [manifest |-> c.manifest, rev |-> c.rev, seen |-> c.seen,
                    unbound |-> Unbound(c.manifest)]
  OBVIOUS
<1>4. PICK stage : stage = IF ignored THEN "store" ELSE "answered"
  OBVIOUS
<1>5. PICK r : r = [c EXCEPT !.at = stage, !.answer = o, !.raced = c.moved]
  OBVIOUS
<1>6. Becomes(p, r)
  BY <1>1, <1>3, <1>4, <1>5 DEF ObserveEnd
<1>7. o \in Observed
  BY <1>2, <1>3, Fields DEF Observed, Files, Unbound, Targets
<1>8. /\ r \in Call /\ r.at = stage /\ r.answer = o /\ r.raced = c.moved
      /\ r.manifest = c.manifest /\ ~r.health /\ r.moved = c.moved /\ r.signature = c.signature
  <2>1. stage \in CallStage /\ c.moved \in BOOLEAN
    BY <1>2, <1>4, Fields DEF CallStage
  <2>2. r \in Call
    BY <1>2, <1>5, <1>7, <2>1 DEF Call
  <2>3. QED BY <1>2, <1>5, <2>2 DEF Call
<1>9. ASSUME ~c.moved
      PROVE  /\ o = Repository /\ work[Observation] \in Content
             /\ ignored => /\ c.signature.rev = rev /\ c.signature.manifest = work[Observation]
                           /\ Identifies(c.signature.ids, Inputs)
  <2>1. c.manifest = work[Observation] /\ work[Observation] \in Content
    BY <1>2, <1>9, ManifestThere
  <2>2. c.rev = rev /\ \A f \in File : c.seen[f] # Nil =>
                                          f \in Declares[c.manifest] /\ c.seen[f] = work[f]
    BY <1>2, <1>9 DEF CallFits, FreshObservation
  <2>3. c.seen = [f \in File |-> IF f \in Declares[work[Observation]] THEN work[f] ELSE Nil]
    <3>1. \A f \in File : c.seen[f] = IF f \in Declares[work[Observation]] THEN work[f] ELSE Nil
      BY <1>2, <2>1, <2>2
    <3>2. c.seen \in Files
      BY <1>2, Fields
    <3>3. QED BY <3>1, <3>2 DEF Files
  <2>4. QED BY <1>2, <1>3, <1>9, <2>1, <2>2, <2>3 DEF Repository, CallFits, FreshObservation
<1>10. r.at = "store" /\ ~r.raced => Describes(r.answer, r.signature)
  BY <1>2, <1>4, <1>7, <1>8, <1>9, DescribedIsCurrent
<1>11. o # Nil => Steady(r)
  BY <1>2, <1>4, <1>8, <1>10 DEF CallFits, Steady
<1>12. ~r.moved => FreshObservation(r)
  BY <1>4, <1>8, <1>9 DEF FreshObservation
<1>13. o # Nil
  BY <1>7, NilAssumption
<1>14. CallFits(r)
  BY <1>8, <1>11, <1>12, <1>13 DEF CallFits
<1>15. QED BY <1>2, <1>6, <1>8, <1>14, CallGoesOn

LEMMA StoreObservationPreserves ==
    ASSUME CacheIInv, NEW p \in Process, StoreObservation(p)
    PROVE  CacheIInv'
<1>1. PICK c : c = proc[p]
  OBVIOUS
<1>2. /\ c \in Call /\ CallFits(c) /\ c.at = "store" /\ ~c.health /\ ignored
      /\ c.signature \in Signed /\ c.answer \in Observed /\ c.raced \in BOOLEAN
      /\ ~c.raced => Describes(c.answer, c.signature)
  BY <1>1, Fits, Fields DEF StoreObservation, At, CallFits, Steady
<1>3. /\ UNCHANGED <<work, index, tree, rev, changes, ignored, entries, calls>>
      /\ calls' \in 0..MaxCalls /\ entries' \in Index
  BY DEF StoreObservation, Becomes, git, CacheIInv, CacheTypeOK
<1>4. PICK r : r = [c EXCEPT !.at = "answered"]
  OBVIOUS
<1>5. proc' = [proc EXCEPT ![p] = r]
  BY <1>1, <1>4 DEF StoreObservation, Becomes
<1>6. /\ r \in Call /\ r.at = "answered" /\ r.answer = c.answer /\ r.raced = c.raced
      /\ r.manifest = c.manifest /\ ~r.health /\ r.moved = c.moved
  BY <1>2, <1>4 DEF Call, CallStage
<1>7. Steady(r)
  BY <1>2, <1>6 DEF CallFits, Steady
<1>8. ~r.moved => FreshObservation(r)
  BY <1>2, <1>6 DEF CallFits, FreshObservation
<1>9. CallFits(r)
  BY <1>6, <1>7, <1>8 DEF CallFits
<1>10. \A f \in File : Genuine(entries[f])'
  BY <1>3 DEF CacheIInv, StoresAreConsistent, Genuine, Compact
<1>11. PICK k : k = cache'
  OBVIOUS
<1>12. k \in Cached \cup {Nil} /\ (k # Nil /\ ~k.raced => Describes(k.repository, k.signature))
  <2>1. CASE k = cache
    BY <2>1 DEF CacheIInv, CacheTypeOK, StoresAreConsistent
  <2>2. CASE k = [signature |-> c.signature, repository |-> c.answer, raced |-> c.raced]
    BY <1>2, <2>2 DEF Cached
  <2>3. QED BY <1>1, <1>11, <2>1, <2>2 DEF StoreObservation
<1>13. StoresAreConsistent'
  BY <1>10, <1>11, <1>12 DEF StoresAreConsistent, Describes
<1>14. QED BY <1>3, <1>5, <1>6, <1>9, <1>11, <1>12, <1>13, CallStepPreserves

(***************************************************************************)
(* The index of Results.                                                   *)
(***************************************************************************)
LEMMA CompactType == \A c \in Content : Compact(c) \in ResultRefs
BY ContentAssumption DEF Compact, ResultRefs

\* The reader of an outcome gets back what compaction dropped.
LEMMA CompactKeepsRefs == \A c \in Content : RefsOf(Compact(c)) = RefsOf(c)
BY ContentAssumption, NilAssumption DEF Compact, RefsOf, ResultRefs

LEMMA LoadRecordPreserves ==
    ASSUME CacheIInv, NEW p \in Process, NEW f \in Result, LoadRecord(p, f)
    PROVE  CacheIInv'
<1>1. PICK c : c = proc[p]
  OBVIOUS
<1>2. /\ c \in Call /\ CallFits(c) /\ c.at = "records" /\ c.health /\ UNCHANGED git
      /\ CacheTypeOK /\ f \in File /\ f \in c.paths /\ Steady(c)
  BY <1>1, Fits DEF LoadRecord, At, CallFits, Steady, CacheIInv, File
<1>3. PICK source : source = IF c.bytes[f] # Nil THEN c.bytes[f] ELSE work[f]
  OBVIOUS
<1>4. c.ids[f] \in Identity /\ source \in Content \cup {Nil}
  BY <1>2, <1>3, Fields DEF Steady, Ids, Files, CacheTypeOK
<1>5. CASE Usable(c.kept[f], c.ids[f]) /\ Becomes(p, [c EXCEPT !.paths = @ \ {f}]) /\ UNCHANGED stores
  <2>1. PICK r : r = [c EXCEPT !.paths = @ \ {f}]
    OBVIOUS
  <2>2. /\ r \in Call /\ r.at = "records" /\ r.health /\ r.moved = c.moved /\ r.ids = c.ids
        /\ r.bytes = c.bytes /\ r.kept = c.kept /\ r.paths = c.paths \ {f}
    BY <1>2, <2>1 DEF Call
  <2>3. Steady(r)
    BY <1>2, <1>5, <2>2 DEF Steady
  <2>4. ~r.moved => FreshIndex(r)
    BY <1>2, <2>2 DEF CallFits, FreshIndex
  <2>5. CallFits(r)
    BY <2>2, <2>3, <2>4 DEF CallFits
  <2>6. Becomes(p, r) /\ UNCHANGED <<git, stores>>
    BY <1>2, <1>5, <2>1
  <2>7. QED BY <2>2, <2>5, <2>6, CallGoesOn
<1>6. CASE /\ source # Nil /\ UNCHANGED stores
           /\ Becomes(p, [c EXCEPT !.paths = @ \ {f},
                              !.kept[f] = [id |-> c.ids[f], digest |-> source,
                                           record |-> Compact(source),
                                           raced |-> c.moved /\ c.bytes[f] = Nil]])
  <2>1. PICK e : e = [id |-> c.ids[f], digest |-> source, record |-> Compact(source),
                      raced |-> c.moved /\ c.bytes[f] = Nil]
    OBVIOUS
  <2>2. /\ e \in Entry /\ e # Nil /\ e.id = c.ids[f] /\ e.digest = source
        /\ e.record = Compact(source) /\ (e.raced <=> c.moved /\ c.bytes[f] = Nil)
    <3>1. source \in Content /\ Compact(source) \in ResultRefs
      BY <1>4, <1>6, CompactType
    <3>2. (c.moved /\ c.bytes[f] = Nil) \in BOOLEAN
      BY <1>2, Fields
    <3>3. e \in Entry
      BY <1>4, <2>1, <3>1, <3>2 DEF Entry
    <3>4. QED BY <2>1, <3>3, NilAssumption
  <2>3. PICK kept : kept = [c.kept EXCEPT ![f] = e]
    OBVIOUS
  <2>4. kept \in Index /\ \A g \in File : kept[g] = IF g = f THEN e ELSE c.kept[g]
    BY <1>2, <2>2, <2>3, Fields DEF Index
  <2>5. PICK r : r = [c EXCEPT !.paths = @ \ {f}, !.kept = kept]
    OBVIOUS
  <2>6. /\ r \in Call /\ r.at = "records" /\ r.health /\ r.moved = c.moved /\ r.ids = c.ids
        /\ r.bytes = c.bytes /\ r.kept = kept /\ r.paths = c.paths \ {f}
    BY <1>2, <2>4, <2>5 DEF Call
  <2>7. Genuine(e)
    <3>1. SUFFICES ASSUME ~e.raced PROVE c.ids[f][2] = source
      BY <2>2 DEF Genuine
    <3>2. CASE c.bytes[f] # Nil
      BY <1>2, <1>3, <3>2 DEF Steady
    <3>3. CASE c.bytes[f] = Nil
      <4>1. ~c.moved
        BY <2>2, <3>1, <3>3
      <4>2. Identifies(c.ids, Results)
        BY <1>2, <4>1 DEF CallFits, FreshIndex
      <4>3. c.ids[f] # Nil
        BY <1>2 DEF Steady
      <4>4. QED BY <1>2, <1>3, <3>3, <4>2, <4>3 DEF Identifies
    <3>4. QED BY <3>2, <3>3
  <2>8. \A g \in File : Genuine(r.kept[g])
    <3>1. \A g \in File : Genuine(c.kept[g])
      BY <1>2 DEF Steady
    <3>2. QED BY <2>4, <2>6, <2>7, <3>1
  <2>9. Steady(r)
    BY <1>2, <2>2, <2>4, <2>6, <2>8 DEF Steady, Usable
  <2>10. ~r.moved => FreshIndex(r)
    BY <1>2, <2>6 DEF CallFits, FreshIndex
  <2>11. CallFits(r)
    BY <2>6, <2>9, <2>10 DEF CallFits
  <2>12. Becomes(p, r) /\ UNCHANGED <<git, stores>>
    BY <1>2, <1>6, <2>1, <2>3, <2>5
  <2>13. QED BY <2>6, <2>11, <2>12, CallGoesOn
<1>7. CASE Fails(p)
  BY <1>2, <1>7, FailsPreserves
<1>8. QED BY <1>1, <1>3, <1>5, <1>6, <1>7 DEF LoadRecord

LEMMA StoreIndexPreserves ==
    ASSUME CacheIInv, NEW p \in Process, StoreIndex(p)
    PROVE  CacheIInv'
<1>1. PICK c : c = proc[p]
  OBVIOUS
<1>2. /\ c \in Call /\ CallFits(c) /\ c.at = "records" /\ c.health /\ c.paths = {}
      /\ c.kept \in Index /\ Steady(c)
  BY <1>1, Fits, Fields DEF StoreIndex, At, CallFits, Steady
<1>3. /\ UNCHANGED <<work, index, tree, rev, changes, ignored, cache, calls>>
      /\ calls' \in 0..MaxCalls /\ cache' \in Cached \cup {Nil}
  BY DEF StoreIndex, Becomes, git, CacheIInv, CacheTypeOK
<1>4. PICK now : now = [f \in File |-> IF c.ids[f] # Nil THEN c.kept[f] ELSE Nil]
  OBVIOUS
<1>5. now \in Index /\ \A f \in File : now[f] = IF c.ids[f] # Nil THEN c.kept[f] ELSE Nil
  BY <1>2, <1>4 DEF Index
<1>6. PICK r : r = [Idle EXCEPT !.at = "answered", !.health = TRUE, !.kept = now,
                                !.moved = c.moved]
  OBVIOUS
<1>7. proc' = [proc EXCEPT ![p] = r]
  BY <1>1, <1>4, <1>6 DEF StoreIndex, Becomes
<1>8. /\ r \in Call /\ r.at = "answered" /\ r.health /\ r.kept = now /\ r.moved = c.moved
  BY <1>2, <1>5, <1>6, IdleCall, Fields DEF Call, CallStage
<1>9. \A f \in File : Genuine(now[f])
  BY <1>2, <1>5 DEF Steady, Genuine
<1>10. Steady(r)
  BY <1>8, <1>9 DEF Steady
<1>11. ~r.moved => FreshIndex(r)
  <2>1. SUFFICES ASSUME ~c.moved PROVE FreshIndex(r)
    BY <1>8
  <2>2. Identifies(c.ids, Results)
    BY <1>2, <2>1 DEF CallFits, FreshIndex
  <2>3. \A f \in File : c.ids[f] # Nil => c.kept[f] # Nil /\ c.kept[f].id = c.ids[f]
    BY <1>2 DEF Steady, Usable
  <2>4. QED BY <1>5, <1>8, <2>2, <2>3 DEF FreshIndex, Identifies
<1>12. CallFits(r)
  BY <1>8, <1>10, <1>11 DEF CallFits
<1>13. PICK k : k = entries'
  OBVIOUS
<1>14. k \in Index /\ \A f \in File : Genuine(k[f])
  <2>1. CASE k = entries
    BY <2>1 DEF CacheIInv, CacheTypeOK, StoresAreConsistent
  <2>2. CASE k = now
    BY <1>5, <1>9, <2>2
  <2>3. QED BY <1>1, <1>4, <1>13, <2>1, <2>2 DEF StoreIndex
<1>15. StoresAreConsistent'
  BY <1>3, <1>13, <1>14 DEF CacheIInv, StoresAreConsistent, Describes, Genuine, Compact
<1>16. QED BY <1>3, <1>7, <1>8, <1>12, <1>13, <1>14, <1>15, CallStepPreserves

(***************************************************************************)
(* People.                                                                 *)
(***************************************************************************)
\* A change of the project leaves every call with what does not depend on it.
LEMMA MovesPreserves ==
    ASSUME CacheIInv, Moves, work' \in Files, index' \in Files, tree' \in Files,
           rev' \in {rev, rev + 1}
    PROVE  CacheIInv'
<1>1. UNCHANGED <<ignored, cache, entries, calls>> /\ changes' = changes + 1
      /\ changes < MaxChanges
  BY DEF Moves, stores
<1>2. \A q \in Process : proc[q] \in Call /\ CallFits(proc[q])
  BY Fits
<1>3. \A q \in Process : proc'[q] = IF At(q, "idle") THEN proc[q]
                                    ELSE [proc[q] EXCEPT !.moved = TRUE]
  BY DEF Moves
<1>4. ASSUME NEW q \in Process PROVE proc'[q] \in Call /\ CallFits(proc[q])'
  <2>1. PICK c, r : c = proc[q] /\ r = proc'[q]
    OBVIOUS
  <2>2. c \in Call /\ CallFits(c)
    BY <1>2, <2>1
  <2>3. /\ r \in Call /\ r.at = c.at /\ r.health = c.health /\ r.manifest = c.manifest
        /\ r.paths = c.paths /\ r.ids = c.ids /\ r.bytes = c.bytes /\ r.signature = c.signature
        /\ r.seen = c.seen /\ r.kept = c.kept /\ r.answer = c.answer /\ r.raced = c.raced
        /\ r.moved \/ (r = c /\ r.at = "idle")
    <3>1. CASE c.at = "idle" BY <1>3, <2>1, <2>2, <3>1 DEF At
    <3>2. CASE c.at # "idle"
      <4>1. r = [c EXCEPT !.moved = TRUE]
        BY <1>3, <2>1, <3>2 DEF At
      <4>2. r \in Call /\ r.moved = TRUE
        BY <2>2, <4>1 DEF Call
      <4>3. /\ r.at = c.at /\ r.health = c.health /\ r.manifest = c.manifest
            /\ r.paths = c.paths /\ r.ids = c.ids /\ r.bytes = c.bytes
            /\ r.signature = c.signature /\ r.seen = c.seen /\ r.kept = c.kept
            /\ r.answer = c.answer /\ r.raced = c.raced
        BY <2>2, <4>1 DEF Call
      <4>4. QED BY <4>2, <4>3
    <3>3. QED BY <3>1, <3>2
  <2>4. Steady(r)
    BY <2>2, <2>3 DEF CallFits, Steady
  <2>5. Steady(r)'
    BY <1>1, <2>4 DEF Steady, Describes, Genuine, Usable, Compact, NoFiles
  <2>6. r.at = "idle" => FreshObservation(r)' /\ FreshIndex(r)'
    BY DEF FreshObservation, FreshIndex
  <2>7. CallFits(r)'
    BY <2>3, <2>5, <2>6 DEF CallFits
  <2>8. QED BY <2>1, <2>3, <2>7
<1>5. CallsAreConsistent'
  BY <1>4 DEF CallsAreConsistent, CallFits
<1>6. proc' \in [Process -> Call]
  BY <1>4 DEF Moves
<1>7. changes' \in 0..MaxChanges /\ rev' \in 0..changes'
  BY <1>1, BoundAssumption DEF CacheIInv, CacheTypeOK
<1>8. CacheTypeOK'
  BY <1>1, <1>6, <1>7 DEF CacheIInv, CacheTypeOK
<1>9. StoresAreConsistent'
  BY <1>1, StoresUnchanged
<1>10. QED BY <1>5, <1>8, <1>9 DEF CacheIInv

LEMMA PeoplePreserve ==
    ASSUME CacheIInv,
           \/ \E f \in File, c \in Content \cup {Nil} : EditFile(f, c)
           \/ \E f \in File : \E c \in {work[f], Nil} : Stage(f, c)
           \/ Commit
    PROVE  CacheIInv'
<1>0. work \in Files /\ index \in Files /\ tree \in Files
  BY DEF CacheIInv, CacheTypeOK
<1>1. CASE \E f \in File, c \in Content \cup {Nil} : EditFile(f, c)
  <2>1. Moves /\ work' \in Files /\ UNCHANGED <<index, tree, rev>>
    BY <1>0, <1>1 DEF EditFile, Files
  <2>2. QED BY <1>0, <2>1, MovesPreserves
<1>2. CASE \E f \in File : \E c \in {work[f], Nil} : Stage(f, c)
  <2>1. Moves /\ index' \in Files /\ UNCHANGED <<work, tree, rev>>
    BY <1>0, <1>2 DEF Stage, Files
  <2>2. QED BY <1>0, <2>1, MovesPreserves
<1>3. CASE Commit
  <2>1. Moves /\ tree' \in Files /\ UNCHANGED <<work, index>> /\ rev' = rev + 1
    BY <1>0, <1>3 DEF Commit
  <2>2. QED BY <1>0, <2>1, MovesPreserves
<1>4. QED BY <1>1, <1>2, <1>3

------------------------------------------------------------------------------
LEMMA CacheInitIInv == CacheInit => CacheIInv
<1>1. SUFFICES ASSUME CacheInit PROVE CacheIInv
  OBVIOUS
<1>2. CacheTypeOK
  BY <1>1, FileAssumption, BoundAssumption, IdleCall, NoFilesType DEF CacheInit, CacheTypeOK, Files
<1>3. StoresAreConsistent
  BY <1>1 DEF CacheInit, StoresAreConsistent, NoFiles, Genuine
<1>4. CallsAreConsistent
  BY <1>1, IdleFits DEF CacheInit, CallsAreConsistent, CallFits
<1>5. QED BY <1>2, <1>3, <1>4 DEF CacheIInv

LEMMA CacheNextIInv == CacheIInv /\ [CacheNext]_cacheVars => CacheIInv'
<1>1. SUFFICES ASSUME CacheIInv, [CacheNext]_cacheVars PROVE CacheIInv'
  OBVIOUS
<1>2. ASSUME NEW p \in Process, NEW clean \in BOOLEAN, ObserveCall(p, clean) PROVE CacheIInv'
  BY <1>1, <1>2, ObserveCallPreserves
<1>3. ASSUME NEW p \in Process, HealthCall(p) \/ ListBlobs(p) \/ ListDirty(p) \/ Hash(p)
      PROVE  CacheIInv'
  BY <1>1, <1>3, HealthCallPreserves, ListBlobsPreserves, ListDirtyPreserves, HashPreserves
<1>4. ASSUME NEW p \in Process,
             Lookup(p) \/ ObserveStart(p) \/ ObserveEnd(p) \/ StoreObservation(p)
      PROVE  CacheIInv'
  BY <1>1, <1>4, LookupPreserves, ObserveStartPreserves, ObserveEndPreserves,
     StoreObservationPreserves
<1>5. ASSUME NEW p \in Process, NEW f \in Source, ObserveSource(p, f) PROVE CacheIInv'
  BY <1>1, <1>5, ObserveSourcePreserves
<1>6. ASSUME NEW p \in Process, NEW f \in Result, LoadRecord(p, f) PROVE CacheIInv'
  BY <1>1, <1>6, LoadRecordPreserves
<1>7. ASSUME NEW p \in Process, StoreIndex(p) PROVE CacheIInv'
  BY <1>1, <1>7, StoreIndexPreserves
<1>8. ASSUME NEW p \in Process, Return(p) PROVE CacheIInv'
  BY <1>1, <1>8, FailsPreserves DEF Return
<1>9. ASSUME \/ \E f \in File, c \in Content \cup {Nil} : EditFile(f, c)
             \/ \E f \in File : \E c \in {work[f], Nil} : Stage(f, c)
             \/ Commit
      PROVE  CacheIInv'
  BY <1>1, <1>9, PeoplePreserve
<1>10. CASE UNCHANGED cacheVars
  <2>1. UNCHANGED <<work, index, tree, rev, ignored, cache, entries, proc, changes, calls>>
    BY <1>10 DEF cacheVars
  <2>2. ASSUME NEW q \in Process PROVE CallFits(proc[q])'
    <3>1. PICK x : x = proc[q] /\ x = proc'[q]
      BY <2>1
    <3>2. CallFits(x)
      BY <1>1, <3>1, Fits
    <3>3. CallFits(x)'
      BY <2>1, <3>2, FitsUnchanged
    <3>4. QED BY <3>1, <3>3
  <2>3. CallsAreConsistent'
    BY <2>2 DEF CallsAreConsistent, CallFits
  <2>4. StoresAreConsistent'
    BY <1>1, <2>1, StoresUnchanged
  <2>5. CacheTypeOK'
    BY <1>1, <2>1 DEF CacheIInv, CacheTypeOK
  <2>6. QED BY <2>3, <2>4, <2>5 DEF CacheIInv
<1>11. QED BY <1>1, <1>2, <1>3, <1>4, <1>5, <1>6, <1>7, <1>8, <1>9, <1>10 DEF CacheNext

LEMMA CacheIInvHolds == CacheSpec => []CacheIInv
<1>1. CacheInit => CacheIInv
  BY CacheInitIInv
<1>2. CacheIInv /\ [CacheNext]_cacheVars => CacheIInv'
  BY CacheNextIInv
<1>3. QED BY <1>1, <1>2, PTL DEF CacheSpec

\* An answer of a call nobody disturbed is the project as it is.
LEMMA CurrentFollows == CacheIInv => ObservationsAreCurrent
<1>1. SUFFICES ASSUME CacheIInv, NEW p \in Process, At(p, "answered"), ~proc[p].health,
                      ~proc[p].moved, ~proc[p].raced
               PROVE  proc[p].answer = Repository
  BY DEF ObservationsAreCurrent
<1>2. FreshObservation(proc[p])
  BY <1>1 DEF CacheIInv, CallsAreConsistent
<1>3. QED BY <1>1, <1>2 DEF FreshObservation, At

LEMMA IndexFollows == CacheIInv => IndexedRecordsAreCurrent
<1>1. SUFFICES ASSUME CacheIInv, NEW p \in Process, At(p, "answered"), proc[p].health,
                      ~proc[p].moved, NEW f \in Result, NEW e, e = proc[p].kept[f]
               PROVE  /\ e = Nil <=> work[f] = Nil
                      /\ e # Nil /\ ~e.raced
                           => e.digest = work[f] /\ RefsOf(e.record) = RefsOf(work[f])
  BY DEF IndexedRecordsAreCurrent
<1>2. FreshIndex(proc[p]) /\ Steady(proc[p]) /\ f \in File
  BY <1>1 DEF CacheIInv, CallsAreConsistent, File
<1>3. Genuine(e) /\ (e # Nil <=> f \in Results) /\ (e # Nil => e.id[2] = work[f])
  BY <1>1, <1>2 DEF Steady, FreshIndex, At
<1>4. work[f] \in Content \cup {Nil}
  BY <1>1, <1>2 DEF CacheIInv, CacheTypeOK, Files
<1>5. e # Nil => work[f] \in Content
  BY <1>3, <1>4 DEF Results
<1>6. QED BY <1>1, <1>3, <1>5, CompactKeepsRefs DEF Genuine, Results

\* The caches and the calls of the observation and of the index hold what their
\* identities stand for, and an observation that observe_cached serves to a
\* call nobody disturbed describes the project (git_repository.rs:303).
THEOREM CachesAreConsistent == CacheSpec => []CacheInvariant
<1>1. CacheIInv => CacheInvariant
  BY CurrentFollows DEF CacheIInv, CacheInvariant
<1>2. QED BY <1>1, CacheIInvHolds, PTL

\* The Results a health report is built from are those of the project, though
\* most were never read again (filesystem_project.rs:1093).
THEOREM IndexIsCurrent == CacheSpec => []IndexedRecordsAreCurrent
<1>1. CacheIInv => IndexedRecordsAreCurrent
  BY IndexFollows
<1>2. QED BY <1>1, CacheIInvHolds, PTL
=============================================================================
