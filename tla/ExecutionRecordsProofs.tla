------------------------ MODULE ExecutionRecordsProofs ------------------------
(***************************************************************************)
(* Proofs about ExecutionRecords, for any number of runners, operators,    *)
(* executions and Results: what was acknowledged is recorded, a success is *)
(* bound to its Result, and only a process that stopped or failed while it *)
(* wrote leaves an event file unreadable.                                  *)
(***************************************************************************)
EXTENDS ExecutionRecords, TLAPS

\* The inductive part of ExecutionInvariant, with the two properties that keep
\* it going.
IInv ==
    /\ TypeOK /\ ExecutionsAreDistinct /\ RunnerIsWhereItSays /\ OneResult /\ ChecksStillHold
    /\ OneWriter
    /\ SuccessIsBound /\ AcknowledgedIsRecorded /\ UnreadableOnlyByTrouble

LEMMA Callers == Runner \subseteq Caller /\ Operator \subseteq Caller /\ Runner \cap Operator = {}
BY ExecutionAssumption DEF Caller, Runner

LEMMA Events ==
    /\ \A q \in Request : q # None /\ q # Empty
    /\ \A e \in Started : e # None /\ e # Empty
    /\ None # Empty /\ None \notin Execution /\ None \notin Work
BY ExecutionAssumption

LEMMA InitIInv == ASSUME Init PROVE IInv
<1>1. TypeOK
  <2>1. runner \in [Runner -> RunnerState]
    BY DEF Init, RunnerState
  <2>2. call \in [Caller -> CallState]
    BY DEF Init, NoCall, CallState
  <2>3. QED BY <2>1, <2>2 DEF Init, TypeOK
<1>2. /\ \A r \in Runner : runner[r].pc = "idle" /\ runner[r].exec = None
      /\ \A c \in Caller : call[c].pc = "none" /\ call[c].exec = None
      /\ \A x \in Execution : started[x] = None /\ completed[x] = None
  BY DEF Init, NoCall
<1>3. ExecutionsAreDistinct /\ OneWriter /\ SuccessIsBound /\ AcknowledgedIsRecorded
  BY <1>2 DEF ExecutionsAreDistinct, OneWriter, SuccessIsBound, AcknowledgedIsRecorded, Written
<1>4. RunnerIsWhereItSays /\ ChecksStillHold
  BY <1>2, Callers DEF RunnerIsWhereItSays, ChecksStillHold
<1>5. UnreadableOnlyByTrouble
  BY <1>2, Events DEF UnreadableOnlyByTrouble
<1>6. OneResult
  BY DEF Init, OneResult
<1>7. QED BY <1>1, <1>3, <1>4, <1>5, <1>6 DEF IInv

\* The log and the failures follow from what runners and calls hold.
LEMMA ReportedFollows == ASSUME IInv PROVE ReportedIsLogged
<1> SUFFICES ASSUME NEW r \in Runner, runner[r].pc = "reported"
             PROVE  \E e \in RunnerEntries :
                       /\ e.exec = runner[r].exec /\ e.work = runner[r].work
                       /\ e.status = "succeeded"
                       /\ results[e.result] = runner[r].work
                       /\ \A i \in ResultEntries :
                             results[i] = runner[r].work => e.result \in corrected
  BY DEF ReportedIsLogged
<1> DEFINE x == runner[r].exec
           e == [exec |-> x, work |-> started[x].work,
                 status |-> IF completed[x] = None THEN None ELSE completed[x].status,
                 result |-> IF completed[x] = None THEN None ELSE completed[x].result]
<1>1. /\ x \in Execution /\ started[x] = [work |-> runner[r].work, by |-> r]
      /\ call[r].exec = x /\ call[r].pc \in {"stored", "same"}
      /\ call[r].request.status = "succeeded"
  BY DEF IInv, RunnerIsWhereItSays
<1>2. completed[x] = call[r].request /\ call[r].request \in Request
  BY <1>1, Callers DEF IInv, AcknowledgedIsRecorded, ChecksStillHold
<1>3. completed[x] # None /\ Written(completed[x]) /\ started[x] # None
  BY <1>1, <1>2, Events DEF Written, IInv, ExecutionsAreDistinct
<1>4. e \in RunnerEntries
  BY <1>1, <1>3 DEF RunnerEntries
<1>5. /\ e.exec = x /\ e.work = runner[r].work /\ e.status = "succeeded"
      /\ e.result = completed[x].result
  BY <1>1, <1>2, <1>3
<1>6. e.result # None /\ results[e.result] = runner[r].work
  BY <1>1, <1>2, <1>3, <1>5 DEF IInv, SuccessIsBound
<1> HIDE DEF e
<1>7. ASSUME NEW i \in ResultEntries, results[i] = runner[r].work PROVE e.result \in corrected
  <2>1. i \in ResultId /\ results[i] # None /\ i \notin corrected /\ i # e.result
    BY <1>4, <1>5, ExecutionAssumption DEF ResultEntries
  <2>2. e.result \in ResultId
    BY <1>2, <1>5, <1>6 DEF Request
  <2>3. QED BY <1>6, <1>7, <2>1, <2>2 DEF IInv, OneResult
<1>8. QED BY <1>4, <1>5, <1>6, <1>7

LEMMA FailureFollows == ASSUME IInv PROVE FailureIsRecorded
<1> SUFFICES ASSUME NEW r \in Runner, runner[r].pc = "failed", call[r].pc # "refused"
             PROVE  completed[runner[r].exec] # None
  BY DEF FailureIsRecorded
<1>1. call[r].exec = runner[r].exec /\ call[r].pc \in {"stored", "same"}
  BY DEF IInv, RunnerIsWhereItSays
<1>2. completed[call[r].exec] = call[r].request /\ call[r].request \in Request
  BY <1>1, Callers DEF IInv, AcknowledgedIsRecorded, ChecksStillHold
<1>3. QED BY <1>1, <1>2, Events

------------------------------------------------------------------------------
(***************************************************************************)
(* What the small actions do to one runner and to one call.                *)
(***************************************************************************)
LEMMA RunnerGoes ==
    ASSUME TypeOK, NEW r \in Runner, NEW pc, Goes(r, pc),
           pc \in {"idle", "next", "begin", "writing", "waiting", "completing",
                   "refused", "reported", "failed", "crashed"}
    PROVE  /\ runner' \in [Runner -> RunnerState]
           /\ runner'[r].pc = pc /\ runner'[r].work = runner[r].work
           /\ runner'[r].exec = runner[r].exec
           /\ \A s \in Runner : s # r => runner'[s] = runner[s]
<1>1. runner[r] \in RunnerState
  BY DEF TypeOK
<1> DEFINE v == [runner[r] EXCEPT !.pc = pc]
<1>2. v \in RunnerState /\ v.pc = pc /\ v.work = runner[r].work /\ v.exec = runner[r].exec
  BY <1>1 DEF RunnerState
<1>3. runner' = [runner EXCEPT ![r] = v]
  BY DEF Goes
<1> HIDE DEF v
<1>4. QED BY <1>2, <1>3 DEF TypeOK

LEMMA CallGoesFields ==
    ASSUME TypeOK, NEW c \in Caller, NEW pc, CallGoes(c, pc),
           pc \in {"none", "sent", "checked", "writing", "stored", "same", "refused", "crashed"}
    PROVE  /\ call' \in [Caller -> CallState]
           /\ call'[c].pc = pc /\ call'[c].exec = call[c].exec
           /\ call'[c].request = call[c].request
           /\ \A d \in Caller : d # c => call'[d] = call[d]
<1>1. call[c] \in CallState
  BY DEF TypeOK
<1> DEFINE v == [call[c] EXCEPT !.pc = pc]
<1>2. v \in CallState /\ v.pc = pc /\ v.exec = call[c].exec /\ v.request = call[c].request
  BY <1>1 DEF CallState
<1>3. call' = [call EXCEPT ![c] = v]
  BY DEF CallGoes
<1> HIDE DEF v
<1>4. QED BY <1>2, <1>3 DEF TypeOK

LEMMA NewCallFields ==
    ASSUME TypeOK, NEW c \in Caller, NEW x \in Execution, NEW q \in Request,
           call' = [call EXCEPT ![c] = [pc |-> "sent", exec |-> x, request |-> q]]
    PROVE  /\ call' \in [Caller -> CallState]
           /\ call'[c].pc = "sent" /\ call'[c].exec = x /\ call'[c].request = q
           /\ \A d \in Caller : d # c => call'[d] = call[d]
<1> DEFINE v == [pc |-> "sent", exec |-> x, request |-> q]
<1>1. v \in CallState /\ v.pc = "sent" /\ v.exec = x /\ v.request = q
  BY DEF CallState
<1> HIDE DEF v
<1>2. call' = [call EXCEPT ![c] = v]
  BY DEF v
<1>3. QED BY <1>1, <1>2 DEF TypeOK

LEMMA Reported ==
    ASSUME NEW c \in Caller
    PROVE  /\ \A s \in Status, i \in ResultId \cup {None} : Report(s, i, c) \in Request
           /\ ProcessFailed(c) \in Request
BY DEF Report, Request, ProcessFailed, Status

LEMMA CompletionsAreRequests ==
    ASSUME NEW r \in Runner, NEW q \in Completions(r)
    PROVE  q \in Request
<1>1. \A s \in Status, i \in ResultId \cup {None} : Report(s, i, r) \in Request
  BY Callers, Reported
<1>2. ProcessFailed(r) \in Request
  BY Callers, Reported
<1>3. PICK e \in Ending : q = IF r \in Codex THEN CodexCompletion(e, r) ELSE ClaudeCompletion(e, r)
  BY DEF Completions
<1>4. OutcomeStatus(e) \in Status /\ e.result \in ResultId \cup {None}
  BY DEF OutcomeStatus, Status, Ending
<1>5. CodexCompletion(e, r) \in Request
  BY <1>1, <1>2, <1>4 DEF CodexCompletion
<1>6. ClaudeCompletion(e, r) \in Request
  BY <1>1, <1>2, <1>4 DEF ClaudeCompletion, Status
<1>7. QED BY <1>2, <1>3, <1>5, <1>6

------------------------------------------------------------------------------
(***************************************************************************)
(* Steps that change only runners, agents and the project.                 *)
(***************************************************************************)
\* What RunnerIsWhereItSays asks of one runner.
RunnerFits(r) ==
    /\ runner[r].pc \in {"idle", "next", "begin"} => runner[r].exec = None
    /\ runner[r].pc \notin {"idle", "refused", "crashed"} => runner[r].work \in Work
    /\ runner[r].pc = "writing" =>
          runner[r].exec \in Execution /\ started[runner[r].exec] = Empty
    /\ runner[r].pc \in {"waiting", "completing", "reported", "failed"} =>
          /\ runner[r].exec \in Execution
          /\ started[runner[r].exec] = [work |-> runner[r].work, by |-> r]
    /\ runner[r].pc \in {"completing", "reported", "failed"} => call[r].exec = runner[r].exec
    /\ runner[r].pc \notin {"completing", "reported", "failed", "crashed"} => call[r].pc = "none"
    /\ runner[r].pc = "reported" =>
          call[r].pc \in {"stored", "same"} /\ call[r].request.status = "succeeded"
    /\ runner[r].pc = "failed" => call[r].pc \in {"stored", "same", "refused"}

\* What ChecksStillHold asks of one call.
CallFits(c) ==
    /\ call[c].pc = "none" => call[c].exec = None
    /\ call[c].pc # "none" => call[c].exec \in Execution /\ call[c].request \in Request
    /\ call[c].pc \in {"checked", "writing", "stored", "same"} =>
          LET q == call[c].request
              x == call[c].exec
          IN  /\ Written(started[x])
              /\ q.result # None => results[q.result] = started[x].work
              /\ q.status = "succeeded" => q.result # None

LEMMA RunnerMoves ==
    ASSUME IInv, NEW r \in Runner, runner' \in [Runner -> RunnerState],
           \A s \in Runner : s # r => runner'[s] = runner[s],
           runner'[r].exec = runner[r].exec, RunnerFits(r)', runner[r].pc # "writing",
           UNCHANGED <<current, results, corrected, started, completed, agent, call, broken>>
    PROVE  IInv'
<1>1. TypeOK'
  BY DEF IInv, TypeOK
<1>2. ExecutionsAreDistinct'
  BY DEF IInv, ExecutionsAreDistinct, Written
<1>3. RunnerIsWhereItSays'
  <2>1. ASSUME NEW s \in Runner, s # r PROVE RunnerFits(s)'
    BY <2>1 DEF IInv, RunnerIsWhereItSays, RunnerFits
  <2>2. \A s \in Runner : RunnerFits(s)'
    BY <2>1
  <2>3. QED BY <2>2 DEF RunnerIsWhereItSays, RunnerFits
<1>4. ChecksStillHold' /\ OneWriter' /\ SuccessIsBound' /\ AcknowledgedIsRecorded'
  BY DEF IInv, ChecksStillHold, OneWriter, SuccessIsBound, AcknowledgedIsRecorded, Written
<1>5. UnreadableOnlyByTrouble' /\ OneResult'
  BY DEF IInv, UnreadableOnlyByTrouble, OneResult
<1>6. QED BY <1>1, <1>2, <1>3, <1>4, <1>5 DEF IInv

LEMMA LaunchPreserves ==
    ASSUME IInv, NEW r \in Runner, NEW w \in Work, Launch(r, w)
    PROVE  IInv'
<1> DEFINE pc == IF ValidNext(w) THEN "next" ELSE "refused"
           v == [runner[r] EXCEPT !.work = w, !.pc = pc]
<1>1. runner[r] \in RunnerState /\ runner[r].pc = "idle" /\ RunnerFits(r)
  BY DEF IInv, TypeOK, Launch, RunnerIsWhereItSays, RunnerFits
<1>2. pc \in {"next", "refused"}
  OBVIOUS
<1> HIDE DEF pc
<1>3. v \in RunnerState /\ v.pc = pc /\ v.work = w /\ v.exec = runner[r].exec
  BY <1>1, <1>2 DEF RunnerState
<1>4. runner' = [runner EXCEPT ![r] = v]
  BY DEF Launch, pc, IInv, TypeOK
<1> HIDE DEF v
<1>5. /\ runner' \in [Runner -> RunnerState] /\ runner'[r] = v
      /\ \A s \in Runner : s # r => runner'[s] = runner[s]
  BY <1>3, <1>4 DEF IInv, TypeOK
<1>6. RunnerFits(r)'
  BY <1>1, <1>2, <1>3, <1>5 DEF Launch, RunnerFits
<1>7. QED BY <1>1, <1>3, <1>5, <1>6, RunnerMoves DEF Launch

LEMMA BeginCheckPreserves ==
    ASSUME IInv, NEW r \in Runner, BeginCheck(r)
    PROVE  IInv'
<1> DEFINE pc == IF current = runner[r].work THEN "begin" ELSE "refused"
<1>1. runner[r].pc = "next" /\ RunnerFits(r) /\ Goes(r, pc)
  BY DEF IInv, BeginCheck, RunnerIsWhereItSays, RunnerFits
<1>2. pc \in {"begin", "refused"}
  OBVIOUS
<1> HIDE DEF pc
<1>3. /\ runner' \in [Runner -> RunnerState]
      /\ runner'[r].pc = pc /\ runner'[r].work = runner[r].work
      /\ runner'[r].exec = runner[r].exec
      /\ \A s \in Runner : s # r => runner'[s] = runner[s]
  BY <1>1, <1>2, RunnerGoes DEF IInv
<1>4. RunnerFits(r)'
  BY <1>1, <1>2, <1>3 DEF BeginCheck, RunnerFits
<1>5. QED BY <1>1, <1>3, <1>4, RunnerMoves DEF BeginCheck

LEMMA ReturnsPreserves ==
    ASSUME IInv, NEW r \in Runner, Returns(r)
    PROVE  IInv'
<1> DEFINE pc == IF call[r].pc # "refused" /\ call[r].request.status = "succeeded"
                 THEN "reported" ELSE "failed"
<1>1. /\ runner[r].pc = "completing" /\ RunnerFits(r) /\ Goes(r, pc)
      /\ call[r].pc \in {"stored", "same", "refused"}
  BY DEF IInv, Returns, RunnerIsWhereItSays, RunnerFits
<1>2. /\ pc \in {"reported", "failed"}
      /\ pc = "reported" => call[r].pc # "refused" /\ call[r].request.status = "succeeded"
  OBVIOUS
<1> HIDE DEF pc
<1>3. /\ runner' \in [Runner -> RunnerState]
      /\ runner'[r].pc = pc /\ runner'[r].work = runner[r].work
      /\ runner'[r].exec = runner[r].exec
      /\ \A s \in Runner : s # r => runner'[s] = runner[s]
  BY <1>1, <1>2, RunnerGoes DEF IInv
<1>4. RunnerFits(r)'
  BY <1>1, <1>2, <1>3 DEF Returns, RunnerFits
<1>5. QED BY <1>1, <1>3, <1>4, RunnerMoves DEF Returns

\* Agents and the project move on; what a Result was stored for stays.
LEMMA ProjectPreserves ==
    ASSUME IInv, current' \in Work, agent' \in [Runner -> {"none", "running", "ended"}],
           results' \in [ResultId -> Work \cup {None}], corrected' \subseteq ResultId, OneResult',
           \A i \in ResultId : results[i] # None => results'[i] = results[i],
           UNCHANGED <<started, completed, runner, call, broken>>
    PROVE  IInv'
<1>1. TypeOK'
  BY DEF IInv, TypeOK
<1>2. ExecutionsAreDistinct' /\ RunnerIsWhereItSays' /\ OneWriter' /\ AcknowledgedIsRecorded'
  BY DEF IInv, ExecutionsAreDistinct, RunnerIsWhereItSays, OneWriter, AcknowledgedIsRecorded, Written
<1>3. ChecksStillHold'
  <2> SUFFICES ASSUME NEW c \in Caller PROVE CallFits(c)'
    BY DEF ChecksStillHold, CallFits
  <2>1. CallFits(c)
    BY DEF IInv, ChecksStillHold, CallFits
  <2>2. ASSUME call[c].pc \in {"checked", "writing", "stored", "same"}, call[c].request.result # None
        PROVE  results'[call[c].request.result] = started[call[c].exec].work
    <3>1. call[c].request \in Request /\ call[c].exec \in Execution /\ Written(started[call[c].exec])
      BY <2>1, <2>2 DEF CallFits
    <3>2. started[call[c].exec] \in Started
      BY <3>1 DEF IInv, TypeOK, Written
    <3>3. started[call[c].exec].work # None /\ call[c].request.result \in ResultId
      BY <2>2, <3>1, <3>2, Events DEF Started, Request
    <3>4. QED BY <2>1, <2>2, <3>3 DEF CallFits
  <2>3. QED BY <2>1, <2>2 DEF CallFits, Written
<1>4. SuccessIsBound'
  <2> SUFFICES ASSUME NEW x \in Execution, Written(completed[x])
               PROVE  /\ completed[x].status = "succeeded" => completed[x].result # None
                      /\ completed[x].result # None => results'[completed[x].result] = started[x].work
    BY DEF SuccessIsBound, Written
  <2>1. completed[x] \in Request /\ Written(started[x])
    BY Events DEF IInv, TypeOK, Written, ExecutionsAreDistinct
  <2>2. started[x] \in Started
    BY <2>1 DEF IInv, TypeOK, Written
  <2>3. started[x].work # None
    BY <2>2, Events DEF Started
  <2>4. QED BY <2>1, <2>3 DEF IInv, SuccessIsBound, Request
<1>5. UnreadableOnlyByTrouble'
  BY DEF IInv, UnreadableOnlyByTrouble
<1>6. QED BY <1>1, <1>2, <1>3, <1>4, <1>5 DEF IInv

LEMMA StoreFields ==
    ASSUME IInv, NEW i \in ResultId, NEW w \in Work, Store(i, w)
    PROVE  /\ results' \in [ResultId -> Work \cup {None}] /\ corrected' \subseteq ResultId
           /\ \A j \in ResultId : results[j] # None => results'[j] = results[j]
           /\ OneResult'
<1>1. /\ results' \in [ResultId -> Work \cup {None}] /\ results'[i] = w
      /\ \A j \in ResultId : j # i => results'[j] = results[j]
  BY DEF Store, IInv, TypeOK
<1>2. corrected' \subseteq ResultId
  BY DEF Store, StoredFor, IInv, TypeOK
<1>3. \A j \in ResultId : results[j] # None => results'[j] = results[j]
  BY <1>1 DEF Store
<1>4. ASSUME NEW j \in ResultId \ corrected', j # i
      PROVE  j \notin corrected /\ results[j] # w
  BY <1>4 DEF Store, StoredFor
<1>5. \A j \in corrected' : results'[j] # None
  BY <1>1, <1>2, Events DEF Store, StoredFor, IInv, OneResult
<1>6. \A j, k \in ResultId \ corrected' : results'[j] # None /\ results'[j] = results'[k] => j = k
  BY <1>1, <1>4 DEF IInv, OneResult
<1>7. QED BY <1>1, <1>2, <1>3, <1>5, <1>6 DEF OneResult

LEMMA AgentSubmitsPreserves ==
    ASSUME IInv, NEW r \in Runner, NEW i \in ResultId, AgentSubmits(r, i)
    PROVE  IInv'
<1>1. current \in Work /\ Store(i, current)
  BY DEF AgentSubmits, IInv, TypeOK
<1>2. QED BY <1>1, StoreFields, ProjectPreserves DEF AgentSubmits, IInv, TypeOK

LEMMA SessionCorrectsPreserves ==
    ASSUME IInv, NEW i \in ResultId, NEW w \in Work, SessionCorrects(i, w)
    PROVE  IInv'
BY StoreFields, ProjectPreserves DEF SessionCorrects, IInv, TypeOK

------------------------------------------------------------------------------
(***************************************************************************)
(* The started event.                                                      *)
(***************************************************************************)
LEMMA BeginCreatePreserves ==
    ASSUME IInv, NEW r \in Runner, BeginCreate(r)
    PROVE  IInv'
<1>1. PICK x \in Unused : /\ started' = [started EXCEPT ![x] = Empty]
                          /\ runner' = [runner EXCEPT ![r].pc = "writing", ![r].exec = x]
  BY DEF BeginCreate
<1>2. /\ x \in Execution /\ started[x] = None /\ runner[r].pc = "begin" /\ RunnerFits(r)
      /\ completed[x] = None
  BY DEF Unused, BeginCreate, IInv, RunnerIsWhereItSays, RunnerFits, ExecutionsAreDistinct, Written
<1> DEFINE v == [runner[r] EXCEPT !.pc = "writing", !.exec = x]
<1>3. v \in RunnerState /\ v.pc = "writing" /\ v.work = runner[r].work /\ v.exec = x
  BY <1>2 DEF IInv, TypeOK, RunnerState
<1>4. /\ runner'[r] = v /\ \A s \in Runner : s # r => runner'[s] = runner[s]
  BY <1>1 DEF IInv, TypeOK
<1> HIDE DEF v
<1>5. runner' \in [Runner -> RunnerState]
  BY <1>1, <1>3, <1>4 DEF IInv, TypeOK
<1>6. /\ started' \in [Execution -> Started \cup {None, Empty}] /\ started'[x] = Empty
      /\ \A y \in Execution : y # x => started'[y] = started[y]
  BY <1>1, <1>2 DEF IInv, TypeOK
<1>7. UNCHANGED <<current, results, corrected, completed, agent, call, broken>>
  BY DEF BeginCreate
<1>8. \A s \in Runner : runner[s].exec # x
  BY <1>2, Events DEF IInv, ExecutionsAreDistinct
<1>9. TypeOK'
  BY <1>5, <1>6, <1>7 DEF IInv, TypeOK
<1>10. ExecutionsAreDistinct'
  <2>1. \A y \in Execution : completed'[y] # None => Written(started'[y])
    BY <1>2, <1>6, <1>7 DEF IInv, ExecutionsAreDistinct
  <2>2. \A s \in Runner : runner'[s].exec # None => started'[runner'[s].exec] # None
    BY <1>3, <1>4, <1>6, <1>8, Events DEF IInv, ExecutionsAreDistinct, TypeOK, RunnerState
  <2>3. \A s \in Runner, t \in Runner :
           runner'[s].exec # None /\ runner'[s].exec = runner'[t].exec => s = t
    BY <1>3, <1>4, <1>8 DEF IInv, ExecutionsAreDistinct
  <2>4. QED BY <2>1, <2>2, <2>3 DEF ExecutionsAreDistinct, Written
<1>11. RunnerIsWhereItSays'
  <2>1. RunnerFits(r)'
    BY <1>2, <1>3, <1>4, <1>6, <1>7 DEF RunnerFits
  <2>2. ASSUME NEW s \in Runner, s # r PROVE RunnerFits(s)'
    BY <1>4, <1>6, <1>7, <1>8, <2>2 DEF IInv, RunnerIsWhereItSays, RunnerFits
  <2>3. QED BY <2>1, <2>2 DEF RunnerIsWhereItSays, RunnerFits
<1>12. ChecksStillHold'
  BY <1>2, <1>6, <1>7 DEF IInv, ChecksStillHold, Written
<1>13. SuccessIsBound'
  BY <1>2, <1>6, <1>7 DEF IInv, SuccessIsBound, Written
<1>14. OneWriter' /\ AcknowledgedIsRecorded' /\ OneResult'
  BY <1>7 DEF IInv, OneWriter, AcknowledgedIsRecorded, OneResult
<1>15. UnreadableOnlyByTrouble'
  <2> SUFFICES ASSUME NEW y \in Execution, started'[y] = Empty
               PROVE  \E s \in Runner : /\ runner'[s].exec = y
                                        /\ runner'[s].pc = "writing" \/ s \in broken
    BY <1>7 DEF IInv, UnreadableOnlyByTrouble
  <2>1. CASE y = x
    BY <1>3, <1>4, <2>1
  <2>2. CASE y # x
    <3>1. PICK s \in Runner : /\ runner[s].exec = y
                              /\ runner[s].pc = "writing" \/ s \in broken
      BY <1>6, <2>2 DEF IInv, UnreadableOnlyByTrouble
    <3>2. s # r
      BY <1>2, <3>1, Events DEF RunnerFits
    <3>3. QED BY <1>4, <3>1, <3>2
  <2>3. QED BY <2>1, <2>2
<1>16. QED BY <1>9, <1>10, <1>11, <1>12, <1>13, <1>14, <1>15 DEF IInv

\* The started event is written; the runner goes on, or ends and is broken.
LEMMA StartedWritten ==
    ASSUME IInv, NEW r \in Runner, runner[r].pc = "writing", NEW pc \in {"waiting", "refused"},
           Goes(r, pc), broken \subseteq broken', broken' \subseteq Caller,
           started' = [started EXCEPT ![runner[r].exec] = [work |-> runner[r].work, by |-> r]],
           agent' \in [Runner -> {"none", "running", "ended"}],
           UNCHANGED <<current, results, corrected, completed, call>>
    PROVE  IInv'
<1> DEFINE x == runner[r].exec
           event == [work |-> runner[r].work, by |-> r]
<1>1. /\ x \in Execution /\ started[x] = Empty /\ runner[r].pc = "writing" /\ RunnerFits(r)
      /\ event \in Started /\ event # None /\ event # Empty
      /\ completed[x] = None
  BY Events DEF IInv, RunnerIsWhereItSays, RunnerFits, Started, ExecutionsAreDistinct,
     Written
<1>2. /\ runner' \in [Runner -> RunnerState]
      /\ runner'[r].pc = pc /\ runner'[r].work = runner[r].work
      /\ runner'[r].exec = x
      /\ \A s \in Runner : s # r => runner'[s] = runner[s]
  BY RunnerGoes DEF IInv
<1>3. /\ started' \in [Execution -> Started \cup {None, Empty}] /\ started'[x] = event
      /\ \A y \in Execution : y # x => started'[y] = started[y]
  BY <1>1 DEF IInv, TypeOK
<1>4. UNCHANGED <<current, results, corrected, completed, call>>
  OBVIOUS
<1>5. agent' \in [Runner -> {"none", "running", "ended"}]
  OBVIOUS
<1>6. \A s \in Runner : s # r => runner[s].exec # x
  BY <1>1, Events DEF IInv, ExecutionsAreDistinct
<1>7. TypeOK'
  BY <1>2, <1>3, <1>4, <1>5 DEF IInv, TypeOK
<1>8. ExecutionsAreDistinct'
  <2>1. \A y \in Execution : completed'[y] # None => Written(started'[y])
    BY <1>1, <1>3, <1>4 DEF IInv, ExecutionsAreDistinct
  <2>2. ASSUME NEW s \in Runner PROVE runner'[s].exec = runner[s].exec
    BY <1>2
  <2>3. \A s \in Runner : runner'[s].exec # None => started'[runner'[s].exec] # None
    BY <1>1, <1>3, <2>2 DEF IInv, ExecutionsAreDistinct, TypeOK, RunnerState
  <2>4. QED BY <2>1, <2>2, <2>3 DEF IInv, ExecutionsAreDistinct, Written
<1>9. RunnerIsWhereItSays'
  <2>1. RunnerFits(r)'
    BY <1>1, <1>2, <1>3, <1>4 DEF RunnerFits
  <2>2. ASSUME NEW s \in Runner, s # r PROVE RunnerFits(s)'
    BY <1>2, <1>3, <1>4, <1>6, <2>2 DEF IInv, RunnerIsWhereItSays, RunnerFits
  <2>3. QED BY <2>1, <2>2 DEF RunnerIsWhereItSays, RunnerFits
<1>10. ChecksStillHold'
  BY <1>1, <1>3, <1>4 DEF IInv, ChecksStillHold, Written
<1>11. SuccessIsBound'
  BY <1>1, <1>3, <1>4 DEF IInv, SuccessIsBound, Written
<1>12. OneWriter' /\ AcknowledgedIsRecorded' /\ OneResult'
  BY <1>4 DEF IInv, OneWriter, AcknowledgedIsRecorded, OneResult
<1>13. UnreadableOnlyByTrouble'
  <2> SUFFICES ASSUME NEW y \in Execution, started'[y] = Empty
               PROVE  \E s \in Runner : /\ runner'[s].exec = y
                                        /\ runner'[s].pc = "writing" \/ s \in broken'
    BY <1>4 DEF IInv, UnreadableOnlyByTrouble
  <2>1. y # x
    BY <1>1, <1>3
  <2>2. PICK s \in Runner : /\ runner[s].exec = y
                            /\ runner[s].pc = "writing" \/ s \in broken
    BY <1>3, <2>1 DEF IInv, UnreadableOnlyByTrouble
  <2>3. s # r
    BY <2>1, <2>2
  <2>4. QED BY <1>2, <2>2, <2>3
<1>14. QED BY <1>7, <1>8, <1>9, <1>10, <1>11, <1>12, <1>13 DEF IInv

LEMMA BeginWritePreserves ==
    ASSUME IInv, NEW r \in Runner, BeginWrite(r)
    PROVE  IInv'
<1>1. agent' \in [Runner -> {"none", "running", "ended"}] /\ broken' \subseteq Caller
  BY DEF BeginWrite, IInv, TypeOK
<1>2. QED BY <1>1, StartedWritten DEF BeginWrite

------------------------------------------------------------------------------
(***************************************************************************)
(* Calls of execution complete.                                            *)
(***************************************************************************)
\* A step of one call, or of a runner that sends it, that leaves the event
\* files alone.
LEMMA CallMoves ==
    ASSUME IInv, NEW c \in Caller, call' \in [Caller -> CallState],
           \A d \in Caller : d # c => call'[d] = call[d],
           CallFits(c)', call'[c].pc # "writing",
           call'[c].pc \in {"stored", "same"} => completed[call'[c].exec] = call'[c].request,
           call[c].pc = "writing" => c \in broken',
           call'[c].exec = call[c].exec \/ call[c].pc = "none",
           broken \subseteq broken', broken' \subseteq Caller,
           runner' \in [Runner -> RunnerState], RunnerIsWhereItSays',
           \A s \in Runner : /\ runner'[s].exec = runner[s].exec
                             /\ runner[s].pc = "writing" => \/ runner'[s].pc = "writing"
                                                            \/ s \in broken',
           agent' \in [Runner -> {"none", "running", "ended"}],
           UNCHANGED <<current, results, corrected, started, completed>>
    PROVE  IInv'
<1>1. TypeOK'
  BY DEF IInv, TypeOK
<1>2. ExecutionsAreDistinct'
  BY DEF IInv, ExecutionsAreDistinct, Written
<1>3. ChecksStillHold'
  <2>1. ASSUME NEW d \in Caller, d # c PROVE CallFits(d)'
    BY <2>1 DEF IInv, ChecksStillHold, CallFits, Written
  <2>2. QED BY <2>1 DEF ChecksStillHold, CallFits
<1>4. OneWriter'
  BY DEF IInv, OneWriter
<1>5. SuccessIsBound' /\ OneResult'
  BY DEF IInv, SuccessIsBound, Written, OneResult
<1>6. AcknowledgedIsRecorded'
  BY DEF IInv, AcknowledgedIsRecorded
<1>7. UnreadableOnlyByTrouble'
  <2>1. ASSUME NEW x \in Execution, started[x] = Empty
        PROVE  \E r \in Runner : /\ runner'[r].exec = x
                                 /\ runner'[r].pc = "writing" \/ r \in broken'
    BY <2>1 DEF IInv, UnreadableOnlyByTrouble
  <2>2. ASSUME NEW x \in Execution, completed[x] = Empty
        PROVE  \E d \in Caller : /\ call'[d].exec = x
                                 /\ call'[d].pc = "writing" \/ d \in broken'
    <3>1. PICK d \in Caller : /\ call[d].exec = x
                              /\ call[d].pc = "writing" \/ d \in broken
      BY <2>2 DEF IInv, UnreadableOnlyByTrouble
    <3>2. CASE d = c
      <4>1. call[c].pc # "none"
        BY <3>1, <3>2, Events DEF IInv, ChecksStillHold
      <4>2. QED BY <3>1, <3>2, <4>1
    <3>3. CASE d # c
      BY <3>1, <3>3
    <3>4. QED BY <3>2, <3>3
  <2>3. QED BY <2>1, <2>2 DEF UnreadableOnlyByTrouble
<1>8. QED BY <1>1, <1>2, <1>3, <1>4, <1>5, <1>6, <1>7 DEF IInv

LEMMA BeginWriteFailsPreserves ==
    ASSUME IInv, NEW r \in Runner, BeginWriteFails(r)
    PROVE  IInv'
<1>1. /\ runner[r].pc = "writing" /\ Goes(r, "refused") /\ broken' = broken \cup {r}
      /\ UNCHANGED <<current, results, corrected, completed, agent, call>>
  BY DEF BeginWriteFails
<1>2. broken' \subseteq Caller /\ agent' \in [Runner -> {"none", "running", "ended"}]
  BY <1>1, Callers DEF IInv, TypeOK
<1>3. CASE started' = started
  <2>1. /\ runner' \in [Runner -> RunnerState]
        /\ runner'[r].pc = "refused" /\ runner'[r].exec = runner[r].exec
        /\ \A s \in Runner : s # r => runner'[s] = runner[s]
    BY <1>1, RunnerGoes DEF IInv
  <2>2. RunnerIsWhereItSays'
    <3>1. RunnerFits(r)'
      BY <1>1, <2>1 DEF IInv, RunnerIsWhereItSays, RunnerFits
    <3>2. ASSUME NEW s \in Runner, s # r PROVE RunnerFits(s)'
      BY <1>1, <1>3, <2>1, <3>2 DEF IInv, RunnerIsWhereItSays, RunnerFits
    <3>3. QED BY <3>1, <3>2 DEF RunnerIsWhereItSays, RunnerFits
  <2>3. call[r].pc = "none" /\ r \in Caller
    BY <1>1, Callers DEF IInv, RunnerIsWhereItSays
  <2>4. CallFits(r)'
    BY <1>1, <1>3, <2>3 DEF IInv, ChecksStillHold, CallFits
  <2>5. QED BY <1>1, <1>2, <1>3, <2>1, <2>2, <2>3, <2>4, CallMoves DEF IInv, TypeOK
<1>4. CASE started' = [started EXCEPT ![runner[r].exec] = [work |-> runner[r].work, by |-> r]]
  BY <1>1, <1>2, <1>4, StartedWritten
<1>5. QED BY <1>3, <1>4 DEF BeginWriteFails

LEMMA ReportsPreserves ==
    ASSUME IInv, NEW r \in Runner, runner[r].pc = "waiting", NEW q \in Request, Reports(r, q),
           agent' \in [Runner -> {"none", "running", "ended"}],
           UNCHANGED <<current, results, corrected, started, completed, broken>>
    PROVE  IInv'
<1> DEFINE x == runner[r].exec
<1>1. x \in Execution /\ call[r].pc = "none" /\ r \in Caller /\ RunnerFits(r)
  BY Callers DEF IInv, RunnerIsWhereItSays, RunnerFits
<1>2. /\ runner' \in [Runner -> RunnerState]
      /\ runner'[r].pc = "completing" /\ runner'[r].work = runner[r].work
      /\ runner'[r].exec = x
      /\ \A s \in Runner : s # r => runner'[s] = runner[s]
  BY RunnerGoes DEF Reports, IInv
<1>3. /\ call' \in [Caller -> CallState]
      /\ call'[r].pc = "sent" /\ call'[r].exec = x /\ call'[r].request = q
      /\ \A d \in Caller : d # r => call'[d] = call[d]
  BY <1>1, NewCallFields DEF Reports, IInv
<1>4. RunnerIsWhereItSays'
  <2>1. RunnerFits(r)'
    BY <1>1, <1>2, <1>3 DEF RunnerFits
  <2>2. ASSUME NEW s \in Runner, s # r PROVE RunnerFits(s)'
    BY <1>2, <1>3, <2>2, Callers DEF IInv, RunnerIsWhereItSays, RunnerFits
  <2>3. QED BY <2>1, <2>2 DEF RunnerIsWhereItSays, RunnerFits
<1>5. CallFits(r)'
  BY <1>1, <1>3 DEF CallFits
<1>6. broken \subseteq Caller
  BY DEF IInv, TypeOK
<1>7. QED BY <1>1, <1>2, <1>3, <1>4, <1>5, <1>6, CallMoves

LEMMA GivesUpPreserves ==
    ASSUME IInv, NEW r \in Runner, GivesUp(r)
    PROVE  IInv'
<1>1. ProcessFailed(r) \in Request
  BY Callers, Reported
<1>2. QED BY <1>1, ReportsPreserves DEF GivesUp, IInv, TypeOK

LEMMA AgentEndsPreserves ==
    ASSUME IInv, NEW r \in Runner, AgentEnds(r)
    PROVE  IInv'
<1>1. agent' \in [Runner -> {"none", "running", "ended"}]
  BY DEF AgentEnds, IInv, TypeOK
<1>2. CASE runner[r].pc = "waiting"
  <2>1. PICK q \in Completions(r) : Reports(r, q)
    BY <1>2 DEF AgentEnds
  <2>2. q \in Request
    BY CompletionsAreRequests
  <2>3. QED BY <1>1, <1>2, <2>1, <2>2, ReportsPreserves DEF AgentEnds
<1>3. CASE runner[r].pc # "waiting"
  <2>1. OneResult'
    BY DEF AgentEnds, IInv, OneResult
  <2>2. QED BY <1>1, <1>3, <2>1, ProjectPreserves DEF AgentEnds, IInv, TypeOK
<1>4. QED BY <1>2, <1>3

\* A call of a runner moves only while the runner completes; one of an operator
\* is no runner's.
LEMMA OthersCall ==
    ASSUME IInv, NEW c \in Caller, UNCHANGED <<runner, started>>,
           \A d \in Caller : d # c => call'[d] = call[d],
           call'[c].exec = call[c].exec \/ c \in Operator,
           c \in Operator \/ (call[c].pc \in {"sent", "checked", "writing"} /\ call'[c].pc # "none")
    PROVE  RunnerIsWhereItSays'
<1> SUFFICES ASSUME NEW s \in Runner PROVE RunnerFits(s)'
  BY DEF RunnerIsWhereItSays, RunnerFits
<1>1. RunnerFits(s) /\ s \in Caller
  BY Callers DEF IInv, RunnerIsWhereItSays, RunnerFits
<1>2. CASE s # c
  BY <1>1, <1>2 DEF RunnerFits
<1>3. CASE s = c
  <2>1. runner[s].pc \in {"completing", "crashed"} /\ call'[s].exec = call[s].exec
    BY <1>1, <1>3, Callers DEF RunnerFits, IInv, TypeOK, RunnerState
  <2>2. QED BY <1>1, <2>1 DEF RunnerFits
<1>4. QED BY <1>2, <1>3

LEMMA OperatorReportsPreserves ==
    ASSUME IInv, NEW o \in Operator, OperatorReports(o)
    PROVE  IInv'
<1>0. o \in Caller
  BY Callers
<1>1. UNCHANGED <<current, results, corrected, started, completed, runner, agent, broken>>
  BY DEF OperatorReports
<1>2. /\ call' \in [Caller -> CallState] /\ call'[o].pc = "sent"
      /\ call'[o].exec \in Execution /\ call'[o].request \in Request
      /\ call'[o].exec = call[o].exec \/ call[o].pc = "none"
      /\ \A d \in Caller : d # o => call'[d] = call[d]
      /\ call[o].pc # "writing"
  <2>1. CASE call[o].pc = "none"
    <3>1. PICK x \in Execution, q \in Reportable :
             call' = [call EXCEPT ![o] = [pc |-> "sent", exec |-> x, request |-> Report(q[1], q[2], o)]]
      BY <2>1 DEF OperatorReports
    <3>2. q[1] \in Status /\ q[2] \in ResultId \cup {None}
      BY ExecutionAssumption
    <3>3. Report(q[1], q[2], o) \in Request
      BY <1>0, <3>2, Reported
    <3>4. QED BY <1>0, <2>1, <3>1, <3>3, NewCallFields DEF IInv
  <2>2. CASE call[o].pc \in {"stored", "refused", "crashed"} /\ CallGoes(o, "sent")
    <3>1. call[o].exec \in Execution /\ call[o].request \in Request
      BY <1>0, <2>2 DEF IInv, ChecksStillHold
    <3>2. QED BY <1>0, <2>2, <3>1, CallGoesFields DEF IInv
  <2>3. QED BY <2>1, <2>2 DEF OperatorReports
<1>3. RunnerIsWhereItSays'
  BY <1>0, <1>1, <1>2, OthersCall
<1>4. CallFits(o)'
  BY <1>2 DEF CallFits
<1>5. QED BY <1>0, <1>1, <1>2, <1>3, <1>4, CallMoves DEF IInv, TypeOK

LEMMA CompleteCheckPreserves ==
    ASSUME IInv, NEW c \in Caller, CompleteCheck(c)
    PROVE  IInv'
<1> DEFINE q == call[c].request
           x == call[c].exec
           good == /\ Written(started[x])
                   /\ q.result # None => Bound(q.result, x)
                   /\ q.status = "succeeded" => q.result # None
<1>1. UNCHANGED <<current, results, corrected, started, completed, runner, agent, broken>>
  BY DEF CompleteCheck
<1>2. call[c].pc = "sent" /\ x \in Execution /\ q \in Request
  BY DEF CompleteCheck, IInv, ChecksStillHold
<1>3. PICK pc \in {"checked", "refused"} : CallGoes(c, pc) /\ (pc = "checked" => good)
  BY DEF CompleteCheck
<1>4. /\ call' \in [Caller -> CallState]
      /\ call'[c].pc = pc /\ call'[c].exec = x /\ call'[c].request = q
      /\ \A d \in Caller : d # c => call'[d] = call[d]
  BY <1>3, CallGoesFields DEF IInv
<1>5. CallFits(c)'
  BY <1>1, <1>2, <1>3, <1>4 DEF CallFits, Bound, StoredFor
<1>6. RunnerIsWhereItSays'
  BY <1>1, <1>2, <1>3, <1>4, OthersCall
<1>7. QED BY <1>1, <1>2, <1>3, <1>4, <1>5, <1>6, CallMoves DEF IInv, TypeOK

\* The event file of one execution changes, and the call that changes it moves.
LEMMA FileMoves ==
    ASSUME IInv, NEW c \in Caller, NEW x \in Execution, x = call[c].exec,
           call[c].pc \in {"checked", "writing"}, call'[c].pc \in {"writing", "stored", "refused"},
           broken \subseteq broken', broken' \subseteq Caller,
           call' \in [Caller -> CallState],
           call'[c].exec = x, call'[c].request = call[c].request,
           \A d \in Caller : d # c => call'[d] = call[d],
           completed' \in [Execution -> Request \cup {None, Empty}],
           \A y \in Execution : y # x => completed'[y] = completed[y],
           completed[x] \in {None, Empty}, completed'[x] \in {Empty, call[c].request},
           \A d \in Caller : d # c /\ call[d].pc = "writing" => call[d].exec # x,
           call'[c].pc = "writing" => completed'[x] = Empty,
           call'[c].pc = "stored" => completed'[x] = call[c].request,
           call'[c].pc = "refused" => c \in broken',
           UNCHANGED <<current, results, corrected, started, runner, agent>>
    PROVE  IInv'
<1>0. CallFits(c) /\ call[c].request \in Request
  BY DEF IInv, ChecksStillHold, CallFits
<1>1. TypeOK'
  BY DEF IInv, TypeOK
<1>2. ExecutionsAreDistinct'
  <2>1. Written(started[x])
    BY <1>0 DEF CallFits
  <2>2. QED BY <2>1 DEF IInv, ExecutionsAreDistinct, Written
<1>3. RunnerIsWhereItSays'
  BY OthersCall
<1>4. ChecksStillHold'
  <2>1. CallFits(c)'
    BY <1>0 DEF CallFits, Written
  <2>2. ASSUME NEW d \in Caller, d # c PROVE CallFits(d)'
    BY <2>2 DEF IInv, ChecksStillHold, CallFits, Written
  <2>3. QED BY <2>1, <2>2 DEF ChecksStillHold, CallFits
<1>5. OneWriter'
  <2> SUFFICES ASSUME NEW d \in Caller, call'[d].pc = "writing"
               PROVE  /\ completed'[call'[d].exec] = Empty
                      /\ \A e \in Caller :
                            call'[e].pc = "writing" /\ call'[e].exec = call'[d].exec => d = e
    BY DEF OneWriter
  <2>1. CASE d = c
    BY <2>1
  <2>2. CASE d # c
    <3>1. call[d].pc = "writing" /\ call'[d].exec = call[d].exec /\ call[d].exec \in Execution
      BY <2>2 DEF IInv, ChecksStillHold
    <3>2. QED BY <2>2, <3>1 DEF IInv, OneWriter
  <2>3. QED BY <2>1, <2>2
<1>6. SuccessIsBound'
  <2> SUFFICES ASSUME NEW y \in Execution, Written(completed'[y])
               PROVE  /\ completed'[y].status = "succeeded" => completed'[y].result # None
                      /\ completed'[y].result # None =>
                            results[completed'[y].result] = started[y].work
    BY DEF SuccessIsBound, Written
  <2>1. CASE y = x
    BY <1>0, <2>1 DEF CallFits, Written
  <2>2. CASE y # x
    BY <2>2 DEF IInv, SuccessIsBound
  <2>3. QED BY <2>1, <2>2
<1>7. AcknowledgedIsRecorded'
  <2> SUFFICES ASSUME NEW d \in Caller, call'[d].pc \in {"stored", "same"}
               PROVE  completed'[call'[d].exec] = call'[d].request
    BY DEF AcknowledgedIsRecorded
  <2>1. CASE d = c
    BY <2>1
  <2>2. CASE d # c
    <3>1. /\ completed[call[d].exec] = call[d].request /\ call[d].request \in Request
          /\ call[d].exec \in Execution
      BY <2>2 DEF IInv, AcknowledgedIsRecorded, ChecksStillHold
    <3>2. call[d].exec # x
      BY <3>1, Events
    <3>3. QED BY <2>2, <3>1, <3>2
  <2>3. QED BY <2>1, <2>2
<1>8. UnreadableOnlyByTrouble'
  <2>1. ASSUME NEW y \in Execution, completed'[y] = Empty
        PROVE  \E d \in Caller : /\ call'[d].exec = y
                                 /\ call'[d].pc = "writing" \/ d \in broken'
    <3>1. CASE y = x
      <4>1. call'[c].pc # "stored"
        BY <1>0, <2>1, <3>1, Events
      <4>2. QED BY <3>1, <4>1
    <3>2. CASE y # x
      <4>1. PICK d \in Caller : call[d].exec = y /\ (call[d].pc = "writing" \/ d \in broken)
        BY <2>1, <3>2 DEF IInv, UnreadableOnlyByTrouble
      <4>2. QED BY <3>2, <4>1
    <3>3. QED BY <3>1, <3>2
  <2>2. QED BY <2>1 DEF IInv, UnreadableOnlyByTrouble
<1>9. OneResult'
  BY DEF IInv, OneResult
<1>10. QED BY <1>1, <1>2, <1>3, <1>4, <1>5, <1>6, <1>7, <1>8, <1>9 DEF IInv

LEMMA CompleteCreatePreserves ==
    ASSUME IInv, NEW c \in Caller, CompleteCreate(c)
    PROVE  IInv'
<1> DEFINE q == call[c].request
           x == call[c].exec
<1>1. UNCHANGED <<current, results, corrected, started, runner, agent, broken>>
  BY DEF CompleteCreate
<1>2. call[c].pc = "checked" /\ x \in Execution /\ q \in Request /\ CallFits(c)
  BY DEF CompleteCreate, IInv, ChecksStillHold, CallFits
<1>3. CASE completed[x] = None
  <2>1. completed' = [completed EXCEPT ![x] = Empty] /\ CallGoes(c, "writing")
    BY <1>3 DEF CompleteCreate
  <2>2. /\ call' \in [Caller -> CallState]
        /\ call'[c].pc = "writing" /\ call'[c].exec = x /\ call'[c].request = q
        /\ \A d \in Caller : d # c => call'[d] = call[d]
    BY <2>1, CallGoesFields DEF IInv
  <2>3. /\ completed' \in [Execution -> Request \cup {None, Empty}] /\ completed'[x] = Empty
        /\ \A y \in Execution : y # x => completed'[y] = completed[y]
    BY <1>2, <2>1 DEF IInv, TypeOK
  <2>4. \A d \in Caller : d # c /\ call[d].pc = "writing" => call[d].exec # x
    BY <1>3, Events DEF IInv, OneWriter
  <2>5. broken' \subseteq Caller
    BY <1>1 DEF IInv, TypeOK
  <2>6. QED BY <1>1, <1>2, <1>3, <2>2, <2>3, <2>4, <2>5, FileMoves
<1>4. CASE completed[x] # None
  <2>1. completed' = completed
    BY <1>4 DEF CompleteCreate
  <2>2. PICK pc \in {"same", "refused"} : CallGoes(c, pc) /\ (pc = "same" => completed[x] = q)
    BY <1>4 DEF CompleteCreate
  <2>3. /\ call' \in [Caller -> CallState]
        /\ call'[c].pc = pc /\ call'[c].exec = x /\ call'[c].request = q
        /\ \A d \in Caller : d # c => call'[d] = call[d]
    BY <2>2, CallGoesFields DEF IInv
  <2>4. CallFits(c)'
    BY <1>1, <1>2, <2>2, <2>3 DEF CallFits, Written
  <2>5. RunnerIsWhereItSays'
    BY <1>1, <1>2, <2>2, <2>3, OthersCall
  <2>6. QED BY <1>1, <1>2, <2>1, <2>2, <2>3, <2>4, <2>5, CallMoves DEF IInv, TypeOK
<1>5. QED BY <1>3, <1>4

LEMMA CompleteWritePreserves ==
    ASSUME IInv, NEW c \in Caller, CompleteWrite(c)
    PROVE  IInv'
<1> DEFINE q == call[c].request
           x == call[c].exec
<1>1. UNCHANGED <<current, results, corrected, started, runner, agent, broken>>
  BY DEF CompleteWrite
<1>2. call[c].pc = "writing" /\ x \in Execution /\ q \in Request /\ completed[x] = Empty
  BY DEF CompleteWrite, IInv, ChecksStillHold, OneWriter
<1>3. /\ call' \in [Caller -> CallState]
      /\ call'[c].pc = "stored" /\ call'[c].exec = x /\ call'[c].request = q
      /\ \A d \in Caller : d # c => call'[d] = call[d]
  BY CallGoesFields DEF CompleteWrite, IInv
<1>4. /\ completed' \in [Execution -> Request \cup {None, Empty}] /\ completed'[x] = q
      /\ \A y \in Execution : y # x => completed'[y] = completed[y]
  BY <1>2 DEF CompleteWrite, IInv, TypeOK
<1>5. \A d \in Caller : d # c /\ call[d].pc = "writing" => call[d].exec # x
  BY <1>2 DEF IInv, OneWriter
<1>6. broken' \subseteq Caller
  BY <1>1 DEF IInv, TypeOK
<1>7. QED BY <1>1, <1>2, <1>3, <1>4, <1>5, <1>6, FileMoves

LEMMA CompleteWriteFailsPreserves ==
    ASSUME IInv, NEW c \in Caller, CompleteWriteFails(c)
    PROVE  IInv'
<1> DEFINE q == call[c].request
           x == call[c].exec
<1>1. /\ UNCHANGED <<current, results, corrected, started, runner, agent>>
      /\ broken' = broken \cup {c}
  BY DEF CompleteWriteFails
<1>2. call[c].pc = "writing" /\ x \in Execution /\ q \in Request /\ completed[x] = Empty
  BY DEF CompleteWriteFails, IInv, ChecksStillHold, OneWriter
<1>3. /\ call' \in [Caller -> CallState]
      /\ call'[c].pc = "refused" /\ call'[c].exec = x /\ call'[c].request = q
      /\ \A d \in Caller : d # c => call'[d] = call[d]
  BY CallGoesFields DEF CompleteWriteFails, IInv
<1>4. /\ completed' \in [Execution -> Request \cup {None, Empty}] /\ completed'[x] \in {Empty, q}
      /\ \A y \in Execution : y # x => completed'[y] = completed[y]
  BY <1>2 DEF CompleteWriteFails, IInv, TypeOK
<1>5. \A d \in Caller : d # c /\ call[d].pc = "writing" => call[d].exec # x
  BY <1>2 DEF IInv, OneWriter
<1>6. broken' \subseteq Caller
  BY <1>1 DEF IInv, TypeOK
<1>7. QED BY <1>1, <1>2, <1>3, <1>4, <1>5, <1>6, FileMoves

LEMMA CrashFields ==
    ASSUME IInv, NEW c \in Caller, Crash(c)
    PROVE  /\ broken' = broken \cup {c} /\ broken' \subseteq Caller
           /\ call' \in [Caller -> CallState] /\ call'[c].pc # "writing"
           /\ call'[c].pc = call[c].pc \/ call'[c].pc = "crashed"
           /\ call'[c].exec = call[c].exec /\ call'[c].request = call[c].request
           /\ call[c].pc \in {"sent", "checked", "writing"} => call'[c].pc = "crashed"
           /\ call[c].pc \notin {"sent", "checked", "writing"} => call'[c].pc = call[c].pc
           /\ \A d \in Caller : d # c => call'[d] = call[d]
           /\ UNCHANGED <<current, results, corrected, started, completed, agent>>
<1> DEFINE pc == IF call[c].pc \in {"sent", "checked", "writing"} THEN "crashed" ELSE call[c].pc
<1>1. CallGoes(c, pc)
  BY DEF Crash, CallGoes, IInv, TypeOK
<1>2. call[c] \in CallState
  BY DEF IInv, TypeOK
<1>3. /\ pc \in {"none", "sent", "checked", "writing", "stored", "same", "refused", "crashed"}
      /\ pc # "writing" /\ (pc = call[c].pc \/ pc = "crashed")
      /\ call[c].pc \in {"sent", "checked", "writing"} => pc = "crashed"
      /\ call[c].pc \notin {"sent", "checked", "writing"} => pc = call[c].pc
  BY <1>2 DEF CallState
<1> HIDE DEF pc
<1>4. broken' = broken \cup {c} /\ UNCHANGED <<current, results, corrected, started, completed, agent>>
  BY DEF Crash
<1>5. broken' \subseteq Caller
  BY <1>4 DEF IInv, TypeOK
<1>6. QED BY <1>1, <1>3, <1>4, <1>5, CallGoesFields DEF IInv

LEMMA CrashFits ==
    ASSUME IInv, NEW c \in Caller, Crash(c)
    PROVE  /\ CallFits(c)'
           /\ call'[c].pc \in {"stored", "same"} => completed[call'[c].exec] = call'[c].request
<1>1. CallFits(c)
  BY DEF IInv, ChecksStillHold, CallFits
<1>2. CallFits(c)'
  BY <1>1, CrashFields DEF CallFits, Written
<1>3. QED BY <1>2, CrashFields DEF IInv, AcknowledgedIsRecorded

LEMMA CrashRunnerPreserves ==
    ASSUME IInv, NEW r \in Runner, CrashRunner(r)
    PROVE  IInv'
<1>0. r \in Caller /\ Crash(r) /\ Goes(r, "crashed")
  BY Callers DEF CrashRunner
<1>1. /\ runner' \in [Runner -> RunnerState]
      /\ runner'[r].pc = "crashed" /\ runner'[r].work = runner[r].work
      /\ runner'[r].exec = runner[r].exec
      /\ \A s \in Runner : s # r => runner'[s] = runner[s]
  BY <1>0, RunnerGoes DEF IInv
<1>2. RunnerIsWhereItSays'
  <2>1. RunnerFits(r)'
    BY <1>1 DEF RunnerFits
  <2>2. ASSUME NEW s \in Runner, s # r PROVE RunnerFits(s)'
    BY <1>0, <1>1, <2>2, Callers, CrashFields DEF IInv, RunnerIsWhereItSays, RunnerFits
  <2>3. QED BY <2>1, <2>2 DEF RunnerIsWhereItSays, RunnerFits
<1>3. \A s \in Runner : /\ runner'[s].exec = runner[s].exec
                        /\ runner[s].pc = "writing" => runner'[s].pc = "writing" \/ s \in broken'
  BY <1>0, <1>1, CrashFields
<1>4. QED BY <1>0, <1>1, <1>2, <1>3, CrashFields, CrashFits, CallMoves DEF IInv, TypeOK

LEMMA CrashServerPreserves ==
    ASSUME IInv, NEW o \in Operator, CrashServer(o)
    PROVE  IInv'
<1>0. o \in Caller /\ Crash(o) /\ runner' = runner
  BY Callers DEF CrashServer
<1>1. RunnerIsWhereItSays'
  BY <1>0, CrashFields, OthersCall
<1>2. QED BY <1>0, <1>1, CrashFields, CrashFits, CallMoves DEF IInv, TypeOK

LEMMA NextIInv ==
    ASSUME IInv, [Next]_vars
    PROVE  IInv'
<1>1. ASSUME NEW r \in Runner, NEW w \in Work, Launch(r, w) PROVE IInv'
  BY <1>1, LaunchPreserves
<1>2. ASSUME NEW r \in Runner, RunnerStep(r) PROVE IInv'
  BY <1>2, BeginCheckPreserves, BeginCreatePreserves, BeginWritePreserves, AgentEndsPreserves,
     ReturnsPreserves DEF RunnerStep
<1>3. ASSUME NEW r \in Runner, GivesUp(r) \/ BeginWriteFails(r) \/ CrashRunner(r) PROVE IInv'
  BY <1>3, GivesUpPreserves, BeginWriteFailsPreserves, CrashRunnerPreserves
<1>4. ASSUME NEW r \in Runner, NEW i \in ResultId, AgentSubmits(r, i) PROVE IInv'
  BY <1>4, AgentSubmitsPreserves
<1>5. ASSUME NEW c \in Caller, CallStep(c) \/ CompleteWriteFails(c) PROVE IInv'
  BY <1>5, CompleteCheckPreserves, CompleteCreatePreserves, CompleteWritePreserves,
     CompleteWriteFailsPreserves DEF CallStep
<1>6. ASSUME NEW o \in Operator, OperatorReports(o) \/ CrashServer(o) PROVE IInv'
  BY <1>6, OperatorReportsPreserves, CrashServerPreserves
<1>7. ASSUME NEW i \in ResultId, NEW w \in Work, SessionCorrects(i, w) PROVE IInv'
  BY <1>7, SessionCorrectsPreserves
<1>8. CASE ProjectChanges \/ UNCHANGED vars
  <2>1. OneResult' /\ UNCHANGED <<results, corrected>>
    BY <1>8 DEF ProjectChanges, vars, IInv, OneResult
  <2>2. QED BY <1>8, <2>1, ProjectPreserves DEF ProjectChanges, vars, IInv, TypeOK
<1>9. QED BY <1>1, <1>2, <1>3, <1>4, <1>5, <1>6, <1>7, <1>8 DEF Next

LEMMA IInvHolds == Spec => []IInv
<1>1. Init => IInv
  BY InitIInv
<1>2. IInv /\ [Next]_vars => IInv'
  BY NextIInv
<1>3. QED BY <1>1, <1>2, PTL DEF Spec

------------------------------------------------------------------------------
(***************************************************************************)
(* Theorems.                                                               *)
(***************************************************************************)
\* A success is bound to its Result, a success that a runner printed is in the
\* log, and a failure left a completion behind, whatever is corrected and
\* whichever write fails meanwhile (execution_record.rs:169,
\* codex_runner.rs:68, claude_runner.rs:69).
THEOREM ExecutionsAreSafe == Spec => []ExecutionInvariant
<1>1. IInv => ExecutionInvariant
  BY ReportedFollows, FailureFollows DEF IInv, ExecutionInvariant
<1>2. QED BY <1>1, IInvHolds, PTL

\* Of two different completions of one execution at most one is acknowledged,
\* and it is the one in the file (execution_record.rs:216).
THEOREM AcknowledgementsAreTrue == Spec => []AcknowledgedIsRecorded
<1>1. IInv => AcknowledgedIsRecorded
  BY DEF IInv
<1>2. QED BY <1>1, IInvHolds, PTL

\* Only a process that is writing an event file, or that stopped or failed while
\* it was, leaves one that makes the log unreadable (execution_record.rs:367).
THEOREM OnlyTroubleIsUnreadable == Spec => []UnreadableOnlyByTrouble
<1>1. IInv => UnreadableOnlyByTrouble
  BY DEF IInv
<1>2. QED BY <1>1, IInvHolds, PTL

\* An event file that holds an event keeps it: no later report, retry or crash
\* changes what the log of a Change says of an attempt (execution_record.rs:216).
THEOREM EventsAreFinal ==
    Spec => [][\A x \in Execution : /\ Written(started[x]) => started'[x] = started[x]
                                    /\ Written(completed[x]) => completed'[x] = completed[x]]_vars
<1> DEFINE Kept(x) == /\ Written(started[x]) => started'[x] = started[x]
                      /\ Written(completed[x]) => completed'[x] = completed[x]
<1>1. ASSUME IInv, [Next]_vars PROVE [\A x \in Execution : Kept(x)]_vars
  <2> SUFFICES ASSUME NEW x \in Execution PROVE Kept(x)
    OBVIOUS
  <2>1. ASSUME NEW r \in Runner, BeginCreate(r) PROVE Kept(x)
    <3>1. PICK y \in Unused : started' = [started EXCEPT ![y] = Empty]
      BY <2>1 DEF BeginCreate
    <3>2. QED BY <1>1, <2>1, <3>1 DEF BeginCreate, Unused, Written, IInv, TypeOK
  <2>2. ASSUME NEW r \in Runner, BeginWrite(r) PROVE Kept(x)
    <3>1. started[runner[r].exec] = Empty
      BY <1>1, <2>2 DEF BeginWrite, IInv, RunnerIsWhereItSays
    <3>2. QED BY <1>1, <2>2, <3>1 DEF BeginWrite, Written, IInv, TypeOK
  <2>3. ASSUME NEW c \in Caller, CompleteCreate(c) PROVE Kept(x)
    <3>1. CASE completed[call[c].exec] = None
      BY <1>1, <2>3, <3>1 DEF CompleteCreate, Written, IInv, TypeOK
    <3>2. CASE completed[call[c].exec] # None
      BY <2>3, <3>2 DEF CompleteCreate
    <3>3. QED BY <3>1, <3>2
  <2>4. ASSUME NEW c \in Caller, CompleteWrite(c) PROVE Kept(x)
    <3>1. completed[call[c].exec] = Empty
      BY <1>1, <2>4 DEF CompleteWrite, IInv, OneWriter
    <3>2. QED BY <1>1, <2>4, <3>1 DEF CompleteWrite, Written, IInv, TypeOK
  <2>5. CASE started' = started /\ completed' = completed
    BY <2>5
  <2>51. ASSUME NEW r \in Runner, BeginWriteFails(r) PROVE Kept(x)
    <3>1. started[runner[r].exec] = Empty
      BY <1>1, <2>51 DEF BeginWriteFails, IInv, RunnerIsWhereItSays
    <3>2. QED BY <1>1, <2>51, <3>1 DEF BeginWriteFails, Written, IInv, TypeOK
  <2>52. ASSUME NEW c \in Caller, CompleteWriteFails(c) PROVE Kept(x)
    <3>1. completed[call[c].exec] = Empty
      BY <1>1, <2>52 DEF CompleteWriteFails, IInv, OneWriter
    <3>2. QED BY <1>1, <2>52, <3>1 DEF CompleteWriteFails, Written, IInv, TypeOK
  <2>6. ASSUME NEW r \in Runner, RunnerStep(r) PROVE Kept(x)
    BY <2>1, <2>2, <2>5, <2>6 DEF RunnerStep, BeginCheck, AgentEnds, Returns
  <2>7. ASSUME NEW c \in Caller, CallStep(c) PROVE Kept(x)
    BY <2>3, <2>4, <2>5, <2>7 DEF CallStep, CompleteCheck
  <2>8. ASSUME NEW r \in Runner,
               \/ \E w \in Work : Launch(r, w)
               \/ GivesUp(r) \/ CrashRunner(r)
               \/ \E i \in ResultId : AgentSubmits(r, i)
        PROVE  Kept(x)
    BY <2>5, <2>8 DEF Launch, GivesUp, CrashRunner, Crash, AgentSubmits
  <2>9. ASSUME NEW o \in Operator, OperatorReports(o) \/ CrashServer(o) PROVE Kept(x)
    BY <2>5, <2>9 DEF OperatorReports, CrashServer, Crash
  <2>10. CASE \/ \E i \in ResultId, w \in Work : SessionCorrects(i, w)
              \/ ProjectChanges \/ UNCHANGED vars
    BY <2>5, <2>10 DEF SessionCorrects, ProjectChanges, vars
  <2>11. QED BY <1>1, <2>51, <2>52, <2>6, <2>7, <2>8, <2>9, <2>10 DEF Next
<1>2. QED BY <1>1, IInvHolds, PTL DEF Spec
=============================================================================
