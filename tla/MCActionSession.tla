--------------------------- MODULE MCActionSession ---------------------------
(***************************************************************************)
(* Instances of ActionSession for TLC.                                     *)
(***************************************************************************)
EXTENDS ActionSession, TLC

\* "code" < "contract" < "decision" < "evidence" < "repository".
StringOrder == <<"code.a", "contract.c", "decision.d", "decision.e", "evidence.e",
                 "evidence.f", "repository.revision">>
StringRank == [r \in Ref |-> CHOOSE i \in DOMAIN StringOrder : StringOrder[i] = r]

\* Two work items over one source file: corrections, replays, restarts.
OneFile == [a \in Action |-> {"code.a"}]
NoRecords == [a \in Action |-> {}]
NoAuthority == [c \in Contract |-> {}]

NothingCited == [p \in Payload |-> {}]

\* An impact assessment on a commit, then an analysis that asks a Human, then
\* the answer, and the analysis again, which makes it a Decision and a Contract.
DecisionReads ==
    [a \in Action |-> CASE a = 1 -> {"repository.revision"}
                       [] a = 2 -> {"contract.c", "contracts.index"}
                       [] a = 3 -> {}]
DecisionWrites ==
    [a \in Action |-> IF a = 2 THEN Contract \cup Decision ELSE {}]
\* The assessment rests on a Contract its Context only indexed.
ContractCited == [p \in Payload |-> {"contract.c", "repository.revision"}]
\* People commit; what the Records hold matters only by being there.
OneVersion == [r \in Ref |-> Digest]
CommitVersions ==
    [r \in Ref |-> IF r = "repository.revision" THEN Digest ELSE {CHOOSE d \in Digest : TRUE}]
DecisionAuthority == [c \in Contract |-> {"decision.d"}]
HumanIsThird == [d \in Decision |-> {3}]
NoAnswers == [d \in Decision |-> {}]
==============================================================================
