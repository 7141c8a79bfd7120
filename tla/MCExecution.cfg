SPECIFICATION FairSpec
CONSTANTS
    challenge = challenge
    build = build
    None = None
    i1 = i1
    i2 = i2
    Empty = Empty
    Work = {challenge, build}
    Role <- MCRole
    ResultId = {i1, i2}
    Measured = {i1, i2}
    Execution = {x1}
    Codex = {codex}
    Claude = {}
    Operator = {o1, o2}
    Reportable <- MCReportable
    MaxTrouble = 1
CHECK_DEADLOCK FALSE
INVARIANTS
    ExecutionInvariant
    AcknowledgedIsRecorded
    UnreadableOnlyByTrouble
PROPERTIES
    EveryRunnerReturns
