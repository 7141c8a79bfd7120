---------------------------- MODULE ProjectSetup ----------------------------
(***************************************************************************)
(* adf project init, adf change init, adf project observe and              *)
(* adf project promote-bindings on one working tree.                       *)
(*                                                                         *)
(* No lock orders these commands among each other: initialization relies   *)
(* on exclusive creation of every file and on removing what it created,    *)
(* promotion on comparing digests before it renames.  The user edits       *)
(* sources, Decisions, the Draft, the Observation and AGENTS.md at any     *)
(* time.                                                                   *)
(***************************************************************************)
EXTENDS Naturals, Sequences, FiniteSets

CONSTANTS
    Command,      \* runs of the adf program
    Source,       \* states of the analysed sources
    Unsupported,  \* those with a file no detector understands
    Decision,     \* Decisions a binding may name as its authority
    MaxTrouble,   \* bound: steps of the user, crashes and failing file operations
    Nil

VARIABLES
    file,         \* [Path -> who created it and whether it is fully written]
    installed,    \* the Framework Release is in the project's cache
    agents,       \* AGENTS.md: which text of the project's own, 0 for none; the ADF block
    observation,  \* what the Repository Observation says
    draft,        \* what the Observation Draft says
    sources,      \* the sources now
    accepted,     \* the Decisions with status accepted
    cmd,          \* [Command -> its step and what it holds in memory]
    left,         \* files of project init that no command takes back any more
    trouble

setupVars == <<file, installed, agents, observation, draft, sources, accepted, cmd,
              left, trouble>>

\* The files of project init, in the order they are written.  framework.lock
\* goes with the config, and the last stands for cache/.gitignore and the
\* planned assets.
InitFiles == <<"trust", "config", "observation", "asset">>
Target == {InitFiles[i] : i \in 1..Len(InitFiles)}
Path == Target \union {"agents", "staged", "draft", "change"}

\* Who created a file, unless a rename put it there, and whether all of it
\* is written.
FileState == [by : Command \union {Nil}, whole : BOOLEAN]

\* binding_artifacts: the sources they were written for, whether every
\* placeholder is filled, and the Decision they name.
Bindings == [of : Source, filled : BOOLEAN, authority : Decision \union {Nil}]
\* A content stands for its digest as well.
Content == [phase : {"pre-build", "post-build"}, bindings : Bindings \union {Nil}]
DraftType == [base : Content \union {Nil}, sources : Source, bindings : Bindings]
EmptyObservation == [phase |-> "pre-build", bindings |-> Nil]

ASSUME SetupAssumption ==
    /\ Unsupported \subseteq Source
    /\ MaxTrouble \in Nat
    /\ Nil \notin Command /\ Nil \notin Decision /\ Nil \notin Source
    /\ Nil \notin FileState /\ Nil \notin Bindings
    /\ Nil \notin Content /\ Nil \notin DraftType

Thing == {"observation", "sources", "decisions"}
\* merge_agents_block after it read AGENTS.md.
MergeSteps == {"staging", "stage", "replace", "creating", "new"}
InitSteps == {"next", "write", "install", "merge", "remove"} \union MergeSteps
\* The steps of a command, by what it does.
Steps == [none |-> {"idle"}, init |-> InitSteps \union {"done"},
          change |-> {"create", "fill", "done"},
          observe |-> {"base", "sources", "create", "fill", "done"},
          promote |-> {"base", "sources", "validate", "read", "recheck", "rename", "done"}]
Step == InitSteps \union {"idle", "done", "create", "fill", "base", "sources",
                          "validate", "read", "recheck", "rename"}
Run == [op : DOMAIN Steps, pc : Step,
        at : 0..Len(InitFiles), gone : 0..Len(InitFiles),
        draft : DraftType \union {Nil}, base : Content \union {Nil},
        sources : Source \union {Nil}, text : Nat, late : SUBSET (Thing \union {"agents"})]
\* text: the project's own text it read in AGENTS.md.
\* late: what changed after the command's last look at it.
Idle == [op |-> "none", pc |-> "idle", at |-> 0, gone |-> 0, draft |-> Nil,
         base |-> Nil, sources |-> Nil, text |-> 0, late |-> {}]
Stopped == {"idle", "done"}

SetupInit ==
    /\ agents \in [own : {0, 1}, block : {FALSE}]
    /\ file = [f \in Path |-> IF f = "agents" /\ agents.own = 1
                              THEN [by |-> Nil, whole |-> TRUE] ELSE Nil]
    /\ installed = FALSE
    /\ observation = EmptyObservation
    /\ draft = Nil
    /\ sources \in Source
    /\ accepted = Decision
    /\ cmd = [c \in Command |-> Idle]
    /\ left = {} /\ trouble = 0

Present(f) == file[f] # Nil
Whole(f) == Present(f) /\ file[f].whole

Doing(c, op, pc) == cmd[c].op = op /\ cmd[c].pc = pc
Goes(c, pc) == cmd' = [cmd EXCEPT ![c].pc = pc]
\* The command returns an error or is killed.
Fails(c) == cmd' = [cmd EXCEPT ![c] = Idle]
Succeeds(c) == cmd' = [cmd EXCEPT ![c] = [Idle EXCEPT !.op = cmd[c].op, !.pc = "done"]]
\* A new run begins, when ok holds; otherwise it fails at once.
Starts(c, op, pc, ok) ==
    /\ cmd[c].pc \in Stopped
    /\ IF ok THEN cmd' = [cmd EXCEPT ![c] = [Idle EXCEPT !.op = op, !.pc = pc]]
             ELSE Fails(c)

\* The steps after a promotion's last look at something.
Looked(t) ==
    [observation |-> {"rename", "done"},
     sources     |-> {"validate", "read", "recheck", "rename", "done"},
     decisions   |-> {"read", "recheck", "rename", "done"}][t]

\* The promotions that have not seen the change of t learn nothing of it.
Disturbed(t) ==
    [c \in Command |-> IF cmd[c].op = "promote" /\ cmd[c].pc \in Looked(t)
                       THEN [cmd[c] EXCEPT !.late = @ \union {t}] ELSE cmd[c]]

\* A run of project init past reading AGENTS.md learns nothing of a save.
Missed ==
    [c \in Command |-> IF cmd[c].op = "init" /\ cmd[c].pc \in MergeSteps
                       THEN [cmd[c] EXCEPT !.late = @ \union {"agents"}] ELSE cmd[c]]

Troubled == trouble < MaxTrouble /\ trouble' = trouble + 1

(***************************************************************************)
(* write_new: exclusive creation of a file, then its bytes.                *)
(***************************************************************************)
Create(c, f) == file' = [file EXCEPT ![f] = [by |-> c, whole |-> FALSE]]
\* A file that was removed meanwhile stays removed.
Fill(f) == file' = [file EXCEPT ![f] = IF @ = Nil THEN Nil ELSE [@ EXCEPT !.whole = TRUE]]

(***************************************************************************)
(* initialize_project.  at: how many files it created, the one being       *)
(* written included; gone: how many of them roll_back has removed.         *)
(***************************************************************************)
\* An unusable candidate, or a target that exists, ends it before it writes.
StartInit(c) ==
    /\ \E usable \in BOOLEAN :
          Starts(c, "init", "next", usable /\ \A f \in Target : ~Present(f))
    /\ UNCHANGED <<file, installed, agents, observation, draft, sources, accepted,
                   left, trouble>>

\* A target that is there by now, or cannot be created, ends it.
CreateFile(c) ==
    /\ Doing(c, "init", "next")
    /\ LET f == InitFiles[cmd[c].at + 1]
       IN  \/ /\ \/ Present(f) /\ UNCHANGED trouble
                 \/ Troubled
              /\ IF cmd[c].at = 0 THEN Fails(c) ELSE Goes(c, "remove")
              /\ UNCHANGED <<file, observation>>
          \/ /\ ~Present(f) /\ UNCHANGED trouble
             /\ Create(c, f)
             /\ observation' = IF f = "observation" THEN EmptyObservation ELSE observation
             /\ cmd' = [cmd EXCEPT ![c].pc = "write", ![c].at = @ + 1]
    /\ UNCHANGED <<installed, agents, draft, sources, accepted, left>>

\* After the Trust Store the Release is installed, after the last asset
\* AGENTS.md is merged.
WriteFile(c) ==
    /\ Doing(c, "init", "write")
    /\ Fill(InitFiles[cmd[c].at])
    /\ Goes(c, CASE cmd[c].at = 1 -> "install"
                 [] cmd[c].at = Len(InitFiles) -> "merge"
                 [] OTHER -> "next")
    /\ UNCHANGED <<installed, agents, observation, draft, sources, accepted, left, trouble>>

\* The file whose write failed is not among the created ones: it stays, and it
\* is complete when only syncing it failed.
WriteFails(c) ==
    /\ Doing(c, "init", "write") /\ Troubled
    /\ \/ UNCHANGED file
       \/ Fill(InitFiles[cmd[c].at])
    /\ left' = left \union {InitFiles[cmd[c].at]}
    /\ IF cmd[c].at = 1 THEN Fails(c)
       ELSE cmd' = [cmd EXCEPT ![c].pc = "remove", ![c].at = @ - 1]
    /\ UNCHANGED <<installed, agents, observation, draft, sources, accepted>>

\* install_release_archive; on an error only the Trust Store is removed, if that
\* succeeds.  When the candidate's lock can no longer be read after it, nothing
\* is taken back.
InstallRelease(c) ==
    /\ Doing(c, "init", "install")
    /\ \/ installed' = TRUE /\ Goes(c, "next") /\ UNCHANGED <<file, left, trouble>>
       \/ /\ Troubled /\ Fails(c)
          /\ \/ /\ file' = [file EXCEPT !["trust"] = Nil]
                /\ UNCHANGED <<installed, left>>
             \/ /\ left' = left \union {"trust"} /\ UNCHANGED file
                /\ installed' \in {installed, TRUE}
    /\ UNCHANGED <<agents, observation, draft, sources, accepted>>

\* The last created file is forgotten.
RollBackShort(c) ==
    /\ Doing(c, "init", "remove")
    /\ file' = [file EXCEPT ![InitFiles[cmd[c].gone + 1]] = Nil]
    /\ IF cmd[c].gone + 2 < cmd[c].at THEN cmd' = [cmd EXCEPT ![c].gone = @ + 1] ELSE Fails(c)
    /\ UNCHANGED <<installed, agents, observation, draft, sources, accepted, left, trouble>>

\* roll_back removes by path, in the order of creation; a file it cannot remove
\* stays.
RollBack(c) ==
    /\ Doing(c, "init", "remove")
    /\ LET f == InitFiles[cmd[c].gone + 1]
           next == IF cmd[c].gone + 1 < cmd[c].at THEN [cmd[c] EXCEPT !.gone = @ + 1] ELSE Idle
       IN  \/ /\ file' = [file EXCEPT ![f] = Nil]
              /\ cmd' = [(IF f = "observation" THEN Disturbed("observation") ELSE cmd) EXCEPT
                             ![c] = next]
              /\ UNCHANGED <<left, trouble>>
          \/ /\ Troubled
             /\ left' = left \union {f}
             /\ cmd' = [cmd EXCEPT ![c] = next]
             /\ UNCHANGED file
    /\ UNCHANGED <<installed, agents, observation, draft, sources, accepted>>

(***************************************************************************)
(* merge_agents_block.                                                     *)
(***************************************************************************)
\* A marker in it: left alone.  A file without, or none: its text is read.
\* One that cannot be read, or is no text, ends the initialization.
Merge(c) ==
    /\ Doing(c, "init", "merge")
    /\ \/ /\ Present("agents") /\ agents.block
          /\ Succeeds(c) /\ UNCHANGED trouble
       \/ /\ ~(Present("agents") /\ agents.block)
          /\ cmd' = [cmd EXCEPT ![c].pc = IF Present("agents") THEN "staging" ELSE "creating",
                                ![c].text = agents.own]
          /\ UNCHANGED trouble
       \/ Troubled /\ Goes(c, "remove")
    /\ UNCHANGED <<file, installed, agents, observation, draft, sources, accepted, left>>

\* The new AGENTS.md is opened whether or not there is one by now.
CreateMergeOver(c) ==
    /\ cmd[c].op = "init" /\ cmd[c].pc \in {"staging", "creating"}
    /\ LET f == IF cmd[c].pc = "staging" THEN "staged" ELSE "agents"
       IN  /\ Create(c, f) /\ Goes(c, IF f = "staged" THEN "stage" ELSE "new")
           /\ agents' = IF f = "agents" THEN [agents EXCEPT !.own = 0] ELSE agents
    /\ UNCHANGED <<installed, observation, draft, sources, accepted, left, trouble>>

\* The merged text goes to a staged file, that of a project without AGENTS.md
\* to AGENTS.md itself; either is created exclusively.
CreateMerge(c) ==
    /\ cmd[c].op = "init" /\ cmd[c].pc \in {"staging", "creating"}
    /\ LET f == IF cmd[c].pc = "staging" THEN "staged" ELSE "agents"
       IN  \/ /\ ~Present(f) /\ UNCHANGED trouble
              /\ Create(c, f) /\ Goes(c, IF f = "staged" THEN "stage" ELSE "new")
          \/ /\ \/ Present(f) /\ UNCHANGED trouble
                \/ Troubled
             /\ Goes(c, "remove") /\ UNCHANGED file
    /\ UNCHANGED <<installed, agents, observation, draft, sources, accepted, left>>

\* The staged or the new text is written; a failure leaves that file behind,
\* complete when only syncing it failed.
WriteMerge(c) ==
    /\ cmd[c].op = "init" /\ cmd[c].pc \in {"stage", "new"}
    /\ \/ /\ Fill(IF cmd[c].pc = "stage" THEN "staged" ELSE "agents")
          /\ agents' = IF cmd[c].pc = "new" THEN [agents EXCEPT !.block = TRUE] ELSE agents
          /\ \/ /\ IF cmd[c].pc = "stage" THEN Goes(c, "replace") ELSE Succeeds(c)
                /\ UNCHANGED trouble
             \/ Troubled /\ Goes(c, "remove")
       \/ Troubled /\ Goes(c, "remove") /\ UNCHANGED <<file, agents>>
    /\ UNCHANGED <<installed, observation, draft, sources, accepted, left>>

\* replace_file: the text that was read is renamed over whatever is there; when
\* the rename fails the staged file is removed.
ReplaceAgents(c) ==
    /\ Doing(c, "init", "replace")
    /\ \/ /\ file' = [file EXCEPT !["agents"] = file["staged"], !["staged"] = Nil]
          /\ agents' = [own |-> cmd[c].text, block |-> TRUE]
          /\ Succeeds(c) /\ UNCHANGED trouble
       \/ /\ Troubled
          /\ file' \in {file, [file EXCEPT !["staged"] = Nil]}
          /\ Goes(c, "remove") /\ UNCHANGED agents
    /\ UNCHANGED <<installed, observation, draft, sources, accepted, left>>

(***************************************************************************)
(* initialize_change, and observation_draft with write_observation_draft.  *)
(***************************************************************************)
StartChange(c) ==
    /\ Starts(c, "change", "create", Present("config"))
    /\ UNCHANGED <<file, installed, agents, observation, draft, sources, accepted,
                   left, trouble>>

StartObserve(c) ==
    /\ Starts(c, "observe", "base", TRUE)
    /\ UNCHANGED <<file, installed, agents, observation, draft, sources, accepted,
                   left, trouble>>

\* A file that was created and not written has the digest of no bytes, which
\* is also the base of a Draft made before the project was initialized.
Digest == IF Whole("observation") THEN observation ELSE Nil

\* observation_base_digest
ObserveBase(c) ==
    /\ cmd[c].pc = "base"
    /\ IF Present("config") /\ ~(Whole("config") /\ Present("observation"))
       THEN Fails(c)
       ELSE cmd' = [cmd EXCEPT ![c].pc = "sources",
                               ![c].base = IF Present("config") THEN Digest ELSE Nil]
    /\ UNCHANGED <<file, installed, agents, observation, draft, sources, accepted,
                   left, trouble>>

\* The tracked and untracked sources under the analysis roots.
ObserveSources(c) ==
    /\ cmd[c].pc = "sources"
    /\ cmd' = [cmd EXCEPT ![c].sources = sources,
                          ![c].pc = IF cmd[c].op = "observe" THEN "create" ELSE "validate"]
    /\ UNCHANGED <<file, installed, agents, observation, draft, sources, accepted,
                   left, trouble>>

Output(c) == IF cmd[c].op = "observe" THEN "draft" ELSE "change"

CreateOutput(c) ==
    /\ cmd[c].pc = "create"
    /\ IF Present(Output(c)) THEN Fails(c) /\ UNCHANGED file
                             ELSE Create(c, Output(c)) /\ Goes(c, "fill")
    /\ UNCHANGED <<installed, agents, observation, draft, sources, accepted, left, trouble>>

\* A Draft starts with open placeholders for what was observed.  A file that is
\* complete and cannot be synced is reported as failed too.
WriteOutput(c) ==
    /\ cmd[c].pc = "fill"
    /\ \/ /\ Fill(Output(c))
          /\ \/ Succeeds(c) /\ UNCHANGED trouble
             \/ Troubled /\ Fails(c)
          /\ draft' = IF cmd[c].op = "observe"
                      THEN [base |-> cmd[c].base, sources |-> cmd[c].sources,
                            bindings |-> [of |-> cmd[c].sources, filled |-> FALSE,
                                          authority |-> Nil]]
                      ELSE draft
       \/ Troubled /\ Fails(c) /\ UNCHANGED <<file, draft>>
    /\ UNCHANGED <<installed, agents, observation, sources, accepted, left>>

(***************************************************************************)
(* promote-bindings: BindingDraftValidationReport, then                    *)
(* promote_observation_draft.                                              *)
(***************************************************************************)
Loadable == installed /\ \A f \in {"trust", "config", "observation"} : Whole(f)

\* The Draft is read once; what follows works on that copy.
StartPromote(c) ==
    /\ cmd[c].pc \in Stopped
    /\ IF Loadable /\ Whole("draft")
       THEN cmd' = [cmd EXCEPT ![c] = [Idle EXCEPT !.op = "promote", !.pc = "base",
                                                   !.draft = draft]]
       ELSE Fails(c)
    /\ UNCHANGED <<file, installed, agents, observation, draft, sources, accepted,
                   left, trouble>>

\* validate_freshness
DraftFresh(d, base, s) == d.base = base /\ d.sources = s
\* Every observed call has its bindings and no binding is left over.
ObservationsBound(d) == d.bindings.of = d.sources
\* ... in a language with a detector.
ArtifactsBound(d) == ObservationsBound(d) /\ d.sources \notin Unsupported
\* The symbols, resources and methods have no placeholder left,
Filled(b) == b.filled
\* and their authority is an accepted Decision.
Authorised(b) == b.authority \in accepted
BindingsReviewed(b) == Filled(b) /\ Authorised(b)

DraftValid(d, base, s) ==
    DraftFresh(d, base, s) /\ ArtifactsBound(d) /\ BindingsReviewed(d.bindings)

Validate(c) ==
    /\ Doing(c, "promote", "validate")
    /\ IF DraftValid(cmd[c].draft, cmd[c].base, cmd[c].sources)
       THEN cmd' = [cmd EXCEPT ![c].pc = "read"]
       ELSE Fails(c)
    /\ UNCHANGED <<file, installed, agents, observation, draft, sources, accepted,
                   left, trouble>>

\* The Observation is still the Draft's base; its phase is kept.
ReadBase(c) ==
    /\ Doing(c, "promote", "read")
    /\ IF Whole("observation") /\ cmd[c].draft.base = observation
       THEN cmd' = [cmd EXCEPT ![c].pc = "recheck"]
       ELSE Fails(c)
    /\ UNCHANGED <<file, installed, agents, observation, draft, sources, accepted,
                   left, trouble>>

\* The temporary file is complete and nothing is compared again.
RecheckNothing(c) ==
    /\ Doing(c, "promote", "recheck")
    /\ cmd' = [cmd EXCEPT ![c].pc = "rename"]
    /\ UNCHANGED <<file, installed, agents, observation, draft, sources, accepted,
                   left, trouble>>

\* atomic_replace_if_digest: a temporary file is written, then the digest is
\* compared once more ...
Recheck(c) ==
    /\ Doing(c, "promote", "recheck")
    /\ IF Present("observation") /\ Digest = cmd[c].draft.base
       THEN cmd' = [cmd EXCEPT ![c].pc = "rename"]
       ELSE Fails(c)
    /\ UNCHANGED <<file, installed, agents, observation, draft, sources, accepted,
                   left, trouble>>

\* A promoted Observation starts its phase again.
PromotedAnew(c) == [phase |-> "pre-build", bindings |-> cmd[c].draft.bindings]
Promoted(c) == [phase |-> cmd[c].draft.base.phase, bindings |-> cmd[c].draft.bindings]

\* ... and the file is renamed over the Observation, there or not, whatever
\* project init is writing to the file it replaces.
Rename(c) ==
    /\ Doing(c, "promote", "rename")
    /\ observation' = Promoted(c)
    /\ file' = [file EXCEPT !["observation"] = [by |-> Nil, whole |-> TRUE]]
    /\ cmd' = [Disturbed("observation") EXCEPT
                   ![c] = [Idle EXCEPT !.op = "promote", !.pc = "done", !.late = cmd[c].late]]
    /\ UNCHANGED <<installed, agents, draft, sources, accepted, left, trouble>>

(***************************************************************************)
(* validate-bindings without a Draft: BindingValidationReport, of a        *)
(* repository that Git observes.                                           *)
(***************************************************************************)
\* tracked: Git knows every source that the Observation declares.
Report(tracked) ==
    IF observation.bindings # Nil /\ ~tracked THEN "refused"
    ELSE IF observation.bindings = Nil \/ observation.bindings.of # sources
       \/ ~BindingsReviewed(observation.bindings) THEN "invalid"
    ELSE IF sources \in Unsupported THEN "blocked" ELSE "valid"

(***************************************************************************)
(* The user, and crashes.                                                  *)
(***************************************************************************)
EditSources ==
    /\ Troubled
    /\ \E s \in Source \ {sources} : sources' = s
    /\ cmd' = Disturbed("sources")
    /\ UNCHANGED <<file, installed, agents, observation, draft, accepted, left>>

Decide ==
    /\ Troubled
    /\ \E d \in Decision :
          accepted' = IF d \in accepted THEN accepted \ {d} ELSE accepted \union {d}
    /\ cmd' = Disturbed("decisions")
    /\ UNCHANGED <<file, installed, agents, observation, draft, sources, left>>

EditPhase ==
    /\ Troubled /\ Whole("observation")
    /\ observation' = [observation EXCEPT !.phase =
          IF @ = "pre-build" THEN "post-build" ELSE "pre-build"]
    /\ cmd' = Disturbed("observation")
    /\ UNCHANGED <<file, installed, agents, draft, sources, accepted, left>>

\* The reviewer completes the Draft, not always for what was observed.
EditDraft ==
    /\ Troubled /\ Whole("draft")
    /\ \E b \in [of : Source, filled : {TRUE}, authority : Decision] :
          draft.bindings # b /\ draft' = [draft EXCEPT !.bindings = b]
    /\ UNCHANGED <<file, installed, agents, observation, sources, accepted, cmd, left>>

\* Not while a command is writing it.
DiscardDraft ==
    /\ Troubled /\ Present("draft") /\ \A c \in Command : ~Doing(c, "observe", "fill")
    /\ file' = [file EXCEPT !["draft"] = Nil]
    /\ UNCHANGED <<installed, agents, observation, draft, sources, accepted, cmd, left>>

\* A save, or the first AGENTS.md of the project; not while a command fills it.
EditAgents ==
    /\ Troubled /\ \A c \in Command : ~Doing(c, "init", "new")
    /\ agents' = [agents EXCEPT !.own = @ + 1]
    /\ file' = [file EXCEPT !["agents"] = [by |-> Nil, whole |-> TRUE]]
    /\ cmd' = Missed
    /\ UNCHANGED <<installed, observation, draft, sources, accepted, left>>

Killed(c) ==
    /\ cmd[c].pc \notin Stopped /\ Troubled
    /\ Fails(c)
    /\ left' = left \union {InitFiles[i] : i \in cmd[c].gone + 1 .. cmd[c].at}
    /\ UNCHANGED <<file, installed, agents, observation, draft, sources, accepted>>

SetupNext ==
    \/ \E c \in Command :
          \/ StartInit(c) \/ CreateFile(c) \/ WriteFile(c) \/ WriteFails(c)
          \/ InstallRelease(c) \/ RollBack(c)
          \/ Merge(c) \/ CreateMerge(c) \/ WriteMerge(c) \/ ReplaceAgents(c)
          \/ StartChange(c) \/ StartObserve(c) \/ ObserveBase(c) \/ ObserveSources(c)
          \/ CreateOutput(c) \/ WriteOutput(c)
          \/ StartPromote(c) \/ Validate(c) \/ ReadBase(c) \/ Recheck(c) \/ Rename(c)
          \/ Killed(c)
    \/ EditSources \/ Decide \/ EditPhase \/ EditDraft \/ DiscardDraft \/ EditAgents

SetupSpec == SetupInit /\ [][SetupNext]_setupVars

(***************************************************************************)
(* Properties.                                                             *)
(***************************************************************************)
\* What the files, the documents and the commands may hold.
SetupTypeOK ==
    /\ file \in [Path -> FileState \union {Nil}]
    /\ installed \in BOOLEAN /\ agents \in [own : Nat, block : BOOLEAN]
    /\ observation \in Content /\ draft \in DraftType \union {Nil}
    /\ sources \in Source /\ accepted \subseteq Decision
    /\ cmd \in [Command -> Run]
    /\ \A c \in Command : cmd[c].pc \in Steps[cmd[c].op]
    /\ left \subseteq Target /\ trouble \in 0..MaxTrouble

\* The file is c's, or a promotion has renamed its own over c's Observation.
MadeBy(c, f) ==
    /\ Present(f)
    /\ file[f].by = c \/ (f = "observation" /\ file[f] = [by |-> Nil, whole |-> TRUE])

\* A command that reported success has its files, complete and its own, and
\* no other command's rollback or creation has touched them since: all of
\* initialize_project's with the Release and the AGENTS.md block, the
\* change.yaml of initialize_change.
AcknowledgedIsWhole ==
    \A c \in Command :
       /\ Doing(c, "init", "done") =>
             /\ \A f \in Target : Whole(f) /\ MadeBy(c, f)
             /\ installed /\ agents.block
       /\ Doing(c, "change", "done") => Whole("change") /\ file["change"].by = c

\* While no command runs, the complete files of project init are all there or
\* none is.  What may lie around beside them was left behind by a command that
\* was killed, by a write, a sync or a removal that failed, or by the return
\* after the Release was installed that takes nothing back.
AllOrNothing ==
    (\A c \in Command : cmd[c].pc \in Stopped) =>
       \A f, g \in Target : Whole(f) /\ file[f].by # Nil /\ f \notin left => Whole(g)

\* The instructions a project keeps in AGENTS.md survive every step of every
\* project init, of its failures and of a crash in it, and those it gets while
\* one merges are lost only when they are saved after it read the file and
\* before it renames its own over it.
InstructionsSurvive ==
    [][agents'.own # agents.own =>
          EditAgents \/ \E c \in Command : Doing(c, "init", "replace") /\ "agents" \in cmd[c].late
      ]_setupVars

\* A promotion that is about to rename still has, in everything that did not
\* change since it last looked, what its Draft was made from: the Observation
\* it replaces and the sources it binds.
PromotionIsCurrent ==
    \A c \in Command : Doing(c, "promote", "rename") =>
       LET d == cmd[c].draft
       IN  /\ "observation" \notin cmd[c].late => Whole("observation") /\ observation = d.base
           /\ "sources" \notin cmd[c].late => d.bindings.of = sources

\* No placeholder of a Draft template reaches the Observation in force,
\* whatever happens to the Draft file between its validation and the rename.
InForceWasReviewed ==
    observation.bindings # Nil => observation.bindings.filled

\* A promotion replaces the Observation its Draft was made from and keeps its
\* phase, unless that changed in the window between the last comparison of
\* digests and the rename.
NoBlindReplacement ==
    [][\A c \in Command :
          Doing(c, "promote", "rename") /\ cmd'[c].pc = "done" =>
             \/ "observation" \in cmd[c].late
             \/ observation = cmd[c].draft.base /\ observation'.phase = observation.phase]_setupVars

\* After a promotion, and as long as nothing changes, validate-bindings
\* accepts the Observation the promotion wrote as soon as Git tracks its
\* sources: nothing else of it is refused.
PromotedValidates ==
    \A c \in Command :
       Doing(c, "promote", "done") /\ cmd[c].late = {} => Report(TRUE) = "valid"

\* Where project init is: how many files it has created and taken back, and
\* that the Release is installed before its second file.
Where(r) ==
    IF r.op # "init" \/ r.pc = "done" THEN r.at = 0 /\ r.gone = 0
    ELSE /\ r.pc # "remove" => r.gone = 0
         /\ r.pc = "next" => r.at < Len(InitFiles)
         /\ r.pc = "install" => r.at = 1
         /\ r.pc \in {"merge"} \union MergeSteps => r.at = Len(InitFiles)
         /\ r.pc = "write" => r.at > 0
         /\ r.pc = "remove" => r.gone < r.at
         /\ r.at > 1 \/ (r.at = 1 /\ r.pc \in {"next", "remove"}) => installed
InitIsWhere == \A c \in Command : Where(cmd[c])

\* The i-th file is one c's roll_back would remove, or is still writing.
InitFile == 1..Len(InitFiles)
Owns(c, i) == cmd[c].gone < i /\ i <= cmd[c].at

\* roll_back removes by path, and yet only what its own command wrote: no
\* other run of project init counts the file as its own or has reported it.
FilesHaveOneOwner ==
    \A c \in Command, i \in InitFile : Owns(c, i) =>
       LET f == InitFiles[i]
           writing == cmd[c].pc = "write" /\ i = cmd[c].at
       IN  /\ MadeBy(c, f)
           /\ IF writing THEN Whole(f) => file[f].by = Nil ELSE Whole(f)
           /\ \A d \in Command : (d # c => ~Owns(d, i)) /\ ~Doing(d, "init", "done")

\* A complete file that no run would remove and none left behind belongs to a
\* complete project.
SettledIsComplete ==
    \A i \in InitFile :
       Whole(InitFiles[i]) /\ file[InitFiles[i]].by # Nil /\ InitFiles[i] \notin left
       /\ (\A c \in Command : ~Owns(c, i)) =>
          \A j \in InitFile : Whole(InitFiles[j]) /\ \A c \in Command : ~Owns(c, j)

\* A run that read AGENTS.md still knows the text that is there, but for a save
\* it missed, and what it renames over it is its staged file.
MergeIsCurrent ==
    /\ ~Present("agents") => agents.own = 0
    /\ \A c \in Command :
          /\ cmd[c].op = "init" /\ cmd[c].pc \in MergeSteps /\ "agents" \notin cmd[c].late =>
                cmd[c].text = agents.own
          /\ cmd[c].op = "init" /\ cmd[c].pc \in {"stage", "replace"} => Present("staged")

\* What initialize_change and the observe command are writing is theirs.
OutputsAreOwned ==
    /\ Whole("draft") => draft # Nil
    /\ \A c \in Command :
          /\ cmd[c].op = "observe" /\ cmd[c].pc \in {"create", "fill"} => cmd[c].sources # Nil
          /\ Doing(c, "change", "fill") => Present("change") /\ file["change"].by = c

\* What a promotion has established, step by step, in all that has not
\* changed since it looked.
PromotionsHold ==
    \A c \in Command : cmd[c].op = "promote" =>
       LET r == cmd[c]
           d == cmd[c].draft
       IN  /\ r.pc # "done" => d # Nil
           /\ r.pc = "validate" => r.sources # Nil /\ ("sources" \in r.late \/ r.sources = sources)
           /\ r.pc \in {"read", "recheck", "rename"} =>
                 /\ ArtifactsBound(d) /\ Filled(d.bindings)
                 /\ "sources" \in r.late \/ d.sources = sources
                 /\ "decisions" \in r.late \/ Authorised(d.bindings)
           /\ r.pc \in {"recheck", "rename"} => d.base # Nil
           /\ r.pc = "done" /\ "observation" \notin r.late => Present("observation")

\* At every point of every command: project init is whole or absent, and what
\* promotion put in force was reviewed and validates (project_setup.rs:53, 456).
SetupInvariant ==
    /\ SetupTypeOK
    /\ AllOrNothing /\ AcknowledgedIsWhole
    /\ InitIsWhere /\ FilesHaveOneOwner /\ SettledIsComplete /\ MergeIsCurrent
    /\ InForceWasReviewed /\ PromotedValidates
    /\ OutputsAreOwned /\ PromotionsHold
=============================================================================
