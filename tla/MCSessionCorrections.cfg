CONSTANTS
    Session = {s1, s2}
    NumActions = 1
    Code = {"code.a"}
    Revision = "code.a"
    Contract = {}
    Decision = {}
    Evidence = {}
    Shared = {}
    Digest = {d1}
    Versions <- OneVersion
    Payload = {good, poor}
    Completing = {good}
    Basis <- NothingCited
    Framework = {f1, f2}
    Reads <- OneFile
    Writes <- NoRecords
    Implements = {1}
    Assessments = {}
    Lasting = {1}
    HumanAnswer <- NoAnswers
    Authority <- NoAuthority
    Rank <- StringRank
    MaxOutputs = 1
    Editable = {}
    None = None
SPECIFICATION FairSpec
INVARIANT ProtocolInvariant
PROPERTIES NoLostCorrection EveryCallEnds ImplementsLedger
