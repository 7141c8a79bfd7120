CONSTANTS
    Session = {s1}
    NumActions = 3
    Code = {"repository.revision"}
    Revision = "repository.revision"
    Contract = {"contract.c"}
    Decision = {"decision.d"}
    Evidence = {}
    Shared = {"contract.c"}
    Digest = {d1, d2}
    Versions <- CommitVersions
    Payload = {good}
    Completing = {good}
    Basis <- ContractCited
    Framework = {f1}
    Reads <- DecisionReads
    Writes <- DecisionWrites
    Implements = {}
    Assessments = {1}
    Lasting = {2}
    HumanAnswer <- HumanIsThird
    Authority <- DecisionAuthority
    Rank <- StringRank
    MaxOutputs = 1
    Editable = {"repository.revision", "contract.c"}
    None = None
SPECIFICATION Spec
INVARIANTS OnlyIssuedWorkIsStored FreshOnShownInputs HumanBehindEveryDecision
PROPERTY AcknowledgedIsStored
