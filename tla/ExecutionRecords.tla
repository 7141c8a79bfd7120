--------------------------- MODULE ExecutionRecords ---------------------------
(***************************************************************************)
(* Attempts of external runners at the current Action: the codex and the   *)
(* claude runner bracket one agent process each with a started and a       *)
(* completed event, one file per event, and the execution log is built     *)
(* from those files and from the Results.                                  *)
(*                                                                         *)
(* An event file is created exclusively and then written, two steps of a   *)
(* process that may stop between them and whose writing may fail.  An      *)
(* agent is a process of its own that outlives a runner which gave up on   *)
(* it.  An operator reports completions through the MCP server and may     *)
(* send a report again.  A correction replaces a stored Result.            *)
(***************************************************************************)
EXTENDS Naturals, FiniteSets

CONSTANTS
    Work,         \* an Action id with the digest of its Context
    Role,         \* [Work -> the Action's role]
    ResultId,     \* ids of Results
    Measured,     \* Results submitted with measurements of their own
    Execution,    \* execution ids
    Codex,        \* codex runners
    Claude,       \* claude runners
    Operator,     \* clients that complete executions through the MCP server
    Reportable,   \* <<status, result>>: what they may report
    MaxTrouble,   \* bound: processes that stop in the middle or fail to write
    Empty,        \* an event file without an event
    None

Runner == Codex \cup Claude
Caller == Runner \cup Operator

Status == {"succeeded", "failed", "interrupted", "stale"}
\* A request with who wrote it and so its times and measurements.
Request == [status : Status, result : ResultId \cup {None}, by : Caller]
Started == [work : Work, by : Runner]

ASSUME ExecutionAssumption ==
    /\ Role \in [Work -> {"Analyst", "Builder", "Challenger"}]
    /\ Measured \subseteq ResultId
    /\ Codex \cap Claude = {} /\ Operator \cap (Codex \cup Claude) = {}
    /\ Reportable \subseteq Status \X (ResultId \cup {None})
    /\ MaxTrouble \in Nat
    /\ None # Empty /\ {None, Empty} \cap (Request \cup Started) = {}
    /\ None \notin Execution \cup Work

VARIABLES
    current,     \* what adf next answers now; work nobody launches stands for none
    results,     \* [ResultId -> the work a Result was stored for]
    corrected,   \* Results that a correction replaced: they are not stored now
    started,     \* [Execution -> started event: None, Empty or the event]
    completed,   \* [Execution -> completed event: None, Empty or the event]
    runner,      \* [Runner -> where its process is, what it works on and as what]
    agent,       \* [Runner -> the agent process it launched]
    call,        \* [Caller -> its call of execution complete]
    broken       \* callers whose process stopped in the middle, or that failed to write

vars == <<current, results, corrected, started, completed, runner, agent, call, broken>>

Written(event) == event \notin {None, Empty}

NoCall == [pc |-> "none", exec |-> None, request |-> None]

Init ==
    /\ current \in Work
    /\ results = [i \in ResultId |-> None] /\ corrected = {}
    /\ started = [x \in Execution |-> None] /\ completed = [x \in Execution |-> None]
    /\ runner = [r \in Runner |-> [pc |-> "idle", work |-> None, exec |-> None]]
    /\ agent = [r \in Runner |-> "none"]
    /\ call = [c \in Caller |-> NoCall] /\ broken = {}

(***************************************************************************)
(* The agent's outcome and the completion a runner makes of it.            *)
(***************************************************************************)
\* How an agent process ends: what it printed could be read, held an outcome,
\* the outcome says the expected work is submitted, or that it was stale,
\* under which Result id; exit code 0 and no failed turn; usage was reported.
Ending == [read : BOOLEAN, outcome : BOOLEAN, submitted : BOOLEAN, stale : BOOLEAN,
           result : ResultId \cup {None}, clean : BOOLEAN, usage : BOOLEAN]

\* validate_outcome
Accepted(e) == e.submitted /\ ~e.stale /\ e.result # None

Report(status, result, r) == [status |-> status, result |-> result, by |-> r]

ProcessFailed(r) == Report("failed", None, r)

OutcomeStatus(e) ==
    IF Accepted(e) THEN IF e.clean /\ e.usage THEN "succeeded" ELSE "failed"
    ELSE IF e.stale THEN "stale" ELSE "failed"

\* No final message is a failure of the process.
CodexCompletion(e, r) ==
    IF e.read /\ e.outcome THEN Report(OutcomeStatus(e), e.result, r)
    ELSE ProcessFailed(r)

\* No structured output is an invalid outcome.
ClaudeCompletion(e, r) ==
    IF ~e.read THEN ProcessFailed(r)
    ELSE IF e.outcome THEN Report(OutcomeStatus(e), e.result, r)
    ELSE Report("failed", None, r)

Completions(r) ==
    {IF r \in Codex THEN CodexCompletion(e, r) ELSE ClaudeCompletion(e, r) : e \in Ending}

(***************************************************************************)
(* Runners.                                                                *)
(***************************************************************************)
Goes(r, pc) == runner' = [runner EXCEPT ![r].pc = pc]

\* adf next, and validate_next: the expected Action, a Challenger's.
ValidNext(w) == current = w /\ Role[w] = "Challenger"

\* Execution ids hash the time, the process and a counter.
Unused == {x \in Execution : started[x] = None}

Launch(r, w) ==
    /\ runner[r].pc = "idle"
    /\ runner' = [runner EXCEPT ![r].work = w,
                                ![r].pc = IF ValidNext(w) THEN "next" ELSE "refused"]
    /\ UNCHANGED <<current, results, corrected, started, completed, agent, call, broken>>

\* The event file of an execution that is then refused.
BeginCreatesFirst(r) ==
    /\ runner[r].pc = "next"
    /\ Unused # {}
    /\ LET x == CHOOSE x \in Unused : TRUE IN
          /\ started' = [started EXCEPT ![x] = Empty]
          /\ runner' = [runner EXCEPT ![r].exec = x,
                              ![r].pc = IF current = runner[r].work THEN "writing" ELSE "refused"]
    /\ UNCHANGED <<current, results, corrected, completed, agent, call, broken>>

\* adf execution begin evaluates again: the Action must still be current.
BeginCheck(r) ==
    /\ runner[r].pc = "next"
    /\ Goes(r, IF current = runner[r].work THEN "begin" ELSE "refused")
    /\ UNCHANGED <<current, results, corrected, started, completed, agent, call, broken>>

\* A new execution id, and its file ...
BeginCreate(r) ==
    /\ runner[r].pc = "begin"
    /\ Unused # {}
    /\ LET x == CHOOSE x \in Unused : TRUE IN
          /\ started' = [started EXCEPT ![x] = Empty]
          /\ runner' = [runner EXCEPT ![r].pc = "writing", ![r].exec = x]
    /\ UNCHANGED <<current, results, corrected, completed, agent, call, broken>>

\* ... which is written; the runner launches its agent.
BeginWrite(r) ==
    /\ runner[r].pc = "writing"
    /\ started' = [started EXCEPT ![runner[r].exec] = [work |-> runner[r].work, by |-> r]]
    /\ Goes(r, "waiting")
    /\ agent' = [agent EXCEPT ![r] = "running"]
    /\ UNCHANGED <<current, results, corrected, completed, call, broken>>

\* Writing or syncing the started event fails: the file holds no event, or all
\* of it, and the runner ends without an agent.
BeginWriteFails(r) ==
    /\ runner[r].pc = "writing"
    /\ Cardinality(broken) < MaxTrouble
    /\ broken' = broken \cup {r}
    /\ \/ UNCHANGED started
       \/ started' = [started EXCEPT ![runner[r].exec] = [work |-> runner[r].work, by |-> r]]
    /\ Goes(r, "refused")
    /\ UNCHANGED <<current, results, corrected, completed, agent, call>>

\* The runner goes on to report a completion of its execution.
Reports(r, request) ==
    /\ Goes(r, "completing")
    /\ call' = [call EXCEPT ![r] = [pc |-> "sent", exec |-> runner[r].exec, request |-> request]]

\* A line that is not JSON, or a closed stdin, ends the codex runner's wait;
\* nothing ends the codex process.
GivesUp(r) ==
    /\ r \in Codex /\ runner[r].pc = "waiting" /\ agent[r] = "running"
    /\ Reports(r, ProcessFailed(r))
    /\ UNCHANGED <<current, results, corrected, started, completed, agent, broken>>

\* The agent process ends; the runner that still waits for it reports.
AgentEnds(r) ==
    /\ agent[r] = "running"
    /\ agent' = [agent EXCEPT ![r] = "ended"]
    /\ IF runner[r].pc = "waiting"
       THEN \E q \in Completions(r) : Reports(r, q)
       ELSE UNCHANGED <<runner, call>>
    /\ UNCHANGED <<current, results, corrected, started, completed, broken>>

\* The runner prints its report, or the error.
Returns(r) ==
    /\ runner[r].pc = "completing" /\ call[r].pc \in {"stored", "same", "refused"}
    /\ Goes(r, IF call[r].pc # "refused" /\ call[r].request.status = "succeeded"
               THEN "reported" ELSE "failed")
    /\ UNCHANGED <<current, results, corrected, started, completed, agent, call, broken>>

(***************************************************************************)
(* The project: an agent submits the current Action, a Result is           *)
(* corrected, or the project changes.                                      *)
(***************************************************************************)
StoredFor(w) == {i \in ResultId : results[i] = w} \ corrected

\* The one Result file of an Action and Context is created or replaced.  An id
\* is made from the Action, the Context and the payload: a correction may bring
\* an earlier Result back.
Store(i, w) ==
    /\ results[i] \in {None, w} /\ i \notin StoredFor(w)
    /\ results' = [results EXCEPT ![i] = w]
    /\ corrected' = (corrected \cup StoredFor(w)) \ {i}

AgentSubmits(r, i) ==
    /\ agent[r] = "running"
    /\ Store(i, current)
    /\ current' \in Work \ {current}
    /\ UNCHANGED <<started, completed, runner, agent, call, broken>>

\* A session that was given the Action before submits it once more.
SessionCorrects(i, w) ==
    /\ StoredFor(w) # {}
    /\ Store(i, w)
    /\ UNCHANGED <<current, started, completed, runner, agent, call, broken>>

ProjectChanges ==
    /\ current' \in Work \ {current}
    /\ UNCHANGED <<results, corrected, started, completed, runner, agent, call, broken>>

(***************************************************************************)
(* execution complete.                                                     *)
(***************************************************************************)
CallGoes(c, pc) == call' = [call EXCEPT ![c].pc = pc]

\* validate_result_binding: a stored Result for the Action and Context that
\* the started event names.
Bound(i, x) == i \in StoredFor(started[x].work)

\* An operator reports on any execution, or reports the same thing again.
OperatorReports(o) ==
    /\ \/ /\ call[o].pc = "none"
          /\ \E x \in Execution, q \in Reportable :
                call' = [call EXCEPT ![o] = [pc |-> "sent", exec |-> x,
                                             request |-> Report(q[1], q[2], o)]]
       \/ call[o].pc \in {"stored", "refused", "crashed"} /\ CallGoes(o, "sent")
    /\ UNCHANGED <<current, results, corrected, started, completed, runner, agent, broken>>

\* Any stored Result will do.
CompleteUnbound(c) ==
    /\ call[c].pc = "sent"
    /\ LET q == call[c].request
           x == call[c].exec
       IN  CallGoes(c, IF /\ Written(started[x])
                          /\ q.result # None => results[q.result] # None /\ q.result \notin corrected
                          /\ q.status = "succeeded" => q.result # None
                       THEN "checked" ELSE "refused")
    /\ UNCHANGED <<current, results, corrected, started, completed, runner, agent, broken>>

\* complete_bound: the started event, the Result it names and the request.
CompleteCheck(c) ==
    /\ call[c].pc = "sent"
    /\ LET q == call[c].request
           x == call[c].exec
       IN  CallGoes(c, IF /\ Written(started[x])
                          /\ q.result # None => Bound(q.result, x)
                          /\ q.status = "succeeded" => q.result # None
                       THEN "checked" ELSE "refused")
    /\ UNCHANGED <<current, results, corrected, started, completed, runner, agent, broken>>

\* An existing completion is taken for the same one.
CompleteFirstWins(c) ==
    /\ call[c].pc = "checked"
    /\ LET x == call[c].exec IN
       IF completed[x] = None
       THEN completed' = [completed EXCEPT ![x] = Empty] /\ CallGoes(c, "writing")
       ELSE CallGoes(c, "same") /\ UNCHANGED completed
    /\ UNCHANGED <<current, results, corrected, started, runner, agent, broken>>

\* Wait until the other completion can be read.
CompleteWaits(c) ==
    /\ call[c].pc = "checked"
    /\ LET x == call[c].exec IN
       /\ completed[x] # Empty
       /\ IF completed[x] = None
          THEN completed' = [completed EXCEPT ![x] = Empty] /\ CallGoes(c, "writing")
          ELSE /\ CallGoes(c, IF completed[x] = call[c].request THEN "same" ELSE "refused")
               /\ UNCHANGED completed
    /\ UNCHANGED <<current, results, corrected, started, runner, agent, broken>>

\* write_new creates the file; when it is there, the same event is accepted
\* and another one, or one that cannot be read, refused.
CompleteCreate(c) ==
    /\ call[c].pc = "checked"
    /\ LET x == call[c].exec IN
       IF completed[x] = None
       THEN completed' = [completed EXCEPT ![x] = Empty] /\ CallGoes(c, "writing")
       ELSE /\ CallGoes(c, IF completed[x] = call[c].request THEN "same" ELSE "refused")
            /\ UNCHANGED completed
    /\ UNCHANGED <<current, results, corrected, started, runner, agent, broken>>

CompleteWrite(c) ==
    /\ call[c].pc = "writing"
    /\ completed' = [completed EXCEPT ![call[c].exec] = call[c].request]
    /\ CallGoes(c, "stored")
    /\ UNCHANGED <<current, results, corrected, started, runner, agent, broken>>

\* Writing or syncing the completed event fails; the file stays.
CompleteWriteFails(c) ==
    /\ call[c].pc = "writing"
    /\ Cardinality(broken) < MaxTrouble
    /\ broken' = broken \cup {c}
    /\ \/ UNCHANGED completed
       \/ completed' = [completed EXCEPT ![call[c].exec] = call[c].request]
    /\ CallGoes(c, "refused")
    /\ UNCHANGED <<current, results, corrected, started, runner, agent>>

(***************************************************************************)
(* Crashes.                                                                *)
(***************************************************************************)
Crash(c) ==
    /\ Cardinality(broken) < MaxTrouble
    /\ broken' = broken \cup {c}
    /\ call' = [call EXCEPT ![c].pc = IF @ \in {"sent", "checked", "writing"} THEN "crashed" ELSE @]
    /\ UNCHANGED <<current, results, corrected, started, completed, agent>>

CrashRunner(r) ==
    /\ runner[r].pc \notin {"idle", "refused", "reported", "failed", "crashed"}
    /\ Crash(r)
    /\ Goes(r, "crashed")

CrashServer(o) ==
    /\ call[o].pc \in {"sent", "checked", "writing"}
    /\ Crash(o)
    /\ UNCHANGED runner

RunnerStep(r) ==
    \/ BeginCheck(r) \/ BeginCreate(r) \/ BeginWrite(r)
    \/ AgentEnds(r) \/ Returns(r)

CallStep(c) == CompleteCheck(c) \/ CompleteCreate(c) \/ CompleteWrite(c)

Next ==
    \/ \E r \in Runner : \/ \E w \in Work : Launch(r, w)
                         \/ RunnerStep(r) \/ GivesUp(r)
                         \/ BeginWriteFails(r) \/ CrashRunner(r)
                         \/ \E i \in ResultId : AgentSubmits(r, i)
    \/ \E c \in Caller : CallStep(c) \/ CompleteWriteFails(c)
    \/ \E o \in Operator : OperatorReports(o) \/ CrashServer(o)
    \/ \E i \in ResultId, w \in Work : SessionCorrects(i, w)
    \/ ProjectChanges

Spec == Init /\ [][Next]_vars

\* A launched runner runs, its agent and its own calls included; agents end by
\* themselves, nothing stops them.  Nothing is assumed of the operators.
FairSpec == Spec /\ \A r \in Runner : WF_vars(RunnerStep(r) \/ CallStep(r))

(***************************************************************************)
(* The execution log.                                                      *)
(***************************************************************************)
Readable == \A x \in Execution : started[x] # Empty /\ completed[x] # Empty

RunnerEntries ==
    {[exec |-> x, work |-> started[x].work,
      status |-> IF completed[x] = None THEN None ELSE completed[x].status,
      result |-> IF completed[x] = None THEN None ELSE completed[x].result] :
        x \in {x \in Execution : started[x] # None}}

\* Results with measurements of their own that no succeeded execution measured.
ResultEntries ==
    {i \in Measured : /\ results[i] # None /\ i \notin corrected
                      /\ ~ \E e \in RunnerEntries : e.status = "succeeded" /\ e.result = i}

(***************************************************************************)
(* Properties.                                                             *)
(***************************************************************************)
RunnerState == [pc : {"idle", "next", "begin", "writing", "waiting", "completing",
                      "refused", "reported", "failed", "crashed"},
                work : Work \cup {None}, exec : Execution \cup {None}]
CallState == [pc : {"none", "sent", "checked", "writing", "stored", "same", "refused", "crashed"},
              exec : Execution \cup {None}, request : Request \cup {None}]

TypeOK ==
    /\ current \in Work
    /\ results \in [ResultId -> Work \cup {None}] /\ corrected \subseteq ResultId
    /\ started \in [Execution -> Started \cup {None, Empty}]
    /\ completed \in [Execution -> Request \cup {None, Empty}]
    /\ runner \in [Runner -> RunnerState]
    /\ agent \in [Runner -> {"none", "running", "ended"}]
    /\ call \in [Caller -> CallState]
    /\ broken \subseteq Caller

\* A completion that names a Result was made for the Action and the Context
\* for which that very Result was stored, and every success names one, whoever
\* reports it, however the Action moved on and whatever a correction put in the
\* Result's place meanwhile (execution_record.rs:232, 282).
SuccessIsBound ==
    \A x \in Execution : Written(completed[x]) =>
        /\ completed[x].status = "succeeded" => completed[x].result # None
        /\ completed[x].result # None => results[completed[x].result] = started[x].work

\* Whoever was told that a completion is stored, newly or already, finds
\* exactly that completion in the file: of two different reports on one
\* execution at most one is acknowledged (execution_record.rs:216).
AcknowledgedIsRecorded ==
    \A c \in Caller : call[c].pc \in {"stored", "same"} =>
        completed[call[c].exec] = call[c].request

\* One event file that is no event makes the log of the whole Change
\* unreadable.  Only a process that is writing it, or that stopped or failed
\* while it was, leaves one: no refused, repeated or outrun report does
\* (execution_record.rs:367).
UnreadableOnlyByTrouble ==
    \A x \in Execution :
        /\ started[x] = Empty =>
              \E r \in Runner : /\ runner[r].exec = x
                                /\ runner[r].pc = "writing" \/ r \in broken
        /\ completed[x] = Empty =>
              \E c \in Caller : /\ call[c].exec = x
                                /\ call[c].pc = "writing" \/ c \in broken

\* A success a runner printed stays in the log as the execution of its Action,
\* with a Result of that Action.  The log counts the measurements of a Result of
\* the same Action and Context beside it only when a correction has replaced
\* the one the runner named (execution_log.rs:55, codex_runner.rs:118,
\* claude_runner.rs:149).
ReportedIsLogged ==
    Readable => \A r \in Runner : runner[r].pc = "reported" =>
        \E e \in RunnerEntries :
            /\ e.exec = runner[r].exec /\ e.work = runner[r].work /\ e.status = "succeeded"
            /\ results[e.result] = runner[r].work
            /\ \A i \in ResultEntries : results[i] = runner[r].work => e.result \in corrected

\* A runner that came back with an error left a completion behind, its own or
\* one reported for it, unless the completion it tried to report was refused
\* (codex_runner.rs:199, claude_runner.rs:137).
FailureIsRecorded ==
    \A r \in Runner : runner[r].pc = "failed" =>
        completed[runner[r].exec] # None \/ call[r].pc = "refused"

\* Every launched runner comes back: no completion waits for another one, not
\* even for one that a crash left unreadable (execution_record.rs:216).
EveryRunnerReturns ==
    \A r \in Runner : (runner[r].pc # "idle") ~>
        (runner[r].pc \in {"refused", "reported", "failed", "crashed"})

------------------------------------------------------------------------------
(***************************************************************************)
(* The inductive invariant.                                                *)
(***************************************************************************)
\* Runners have executions of their own, and an execution is completed only
\* when its started event is whole.
ExecutionsAreDistinct ==
    /\ \A x \in Execution : completed[x] # None => Written(started[x])
    /\ \A r \in Runner : runner[r].exec # None => started[runner[r].exec] # None
    /\ \A r \in Runner, s \in Runner :
          runner[r].exec # None /\ runner[r].exec = runner[s].exec => r = s

\* What a runner that got so far has done.
RunnerIsWhereItSays ==
    \A r \in Runner :
        /\ runner[r].pc \in {"idle", "next", "begin"} => runner[r].exec = None
        /\ runner[r].pc \notin {"idle", "refused", "crashed"} => runner[r].work \in Work
        /\ runner[r].pc = "writing" =>
              runner[r].exec \in Execution /\ started[runner[r].exec] = Empty
        /\ runner[r].pc \in {"waiting", "completing", "reported", "failed"} =>
              /\ runner[r].exec \in Execution
              /\ started[runner[r].exec] = [work |-> runner[r].work, by |-> r]
        /\ runner[r].pc \in {"completing", "reported", "failed"} => call[r].exec = runner[r].exec
        /\ runner[r].pc \notin {"completing", "reported", "failed", "crashed"} => call[r].pc = "none"
        /\ runner[r].pc = "reported" =>
              call[r].pc \in {"stored", "same"} /\ call[r].request.status = "succeeded"
        /\ runner[r].pc = "failed" => call[r].pc \in {"stored", "same", "refused"}

\* An Action and a Context have one Result file.
OneResult ==
    /\ \A i \in corrected : results[i] # None
    /\ \A i, j \in ResultId \ corrected : results[i] # None /\ results[i] = results[j] => i = j

\* A completion that passed its checks still names a started execution, and a
\* Result that was stored for its work.
ChecksStillHold ==
    \A c \in Caller :
        /\ call[c].pc = "none" => call[c].exec = None
        /\ call[c].pc # "none" => call[c].exec \in Execution /\ call[c].request \in Request
        /\ call[c].pc \in {"checked", "writing", "stored", "same"} =>
              LET q == call[c].request
                  x == call[c].exec
              IN  /\ Written(started[x])
                  /\ q.result # None => results[q.result] = started[x].work
                  /\ q.status = "succeeded" => q.result # None

\* Whoever created an event file is the only one that writes it.
OneWriter ==
    \A c \in Caller : call[c].pc = "writing" =>
        /\ completed[call[c].exec] = Empty
        /\ \A d \in Caller : call[d].pc = "writing" /\ call[d].exec = call[c].exec => c = d

\* At every point of every report, correction and failing write: a success is
\* bound to its Result, a printed success is in the log and a failure left a
\* completion behind; runners and calls are where they say
\* (execution_record.rs:169, codex_runner.rs:68, claude_runner.rs:69).
ExecutionInvariant ==
    /\ TypeOK /\ SuccessIsBound /\ ReportedIsLogged /\ FailureIsRecorded
    /\ ExecutionsAreDistinct /\ RunnerIsWhereItSays /\ OneResult /\ ChecksStillHold /\ OneWriter
=============================================================================
