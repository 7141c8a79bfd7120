SPECIFICATION FairSpec
CONSTANTS
    handler = handler
    rule = rule
    operation = operation
    writes = writes
    analysed = analysed
    tested = tested
    challenged = challenged
    question = question
    None = None
    Code = {handler}
    Clause = {rule}
    Subject = {operation}
    Signal = {writes}
    Question = {question}
    Requirement = {analysed, tested, challenged}
    Rule <- MCRule
    AppliesTo <- MCAppliesTo
    BindsTo <- MCBindsTo
    SeenIn <- MCSeenIn
    Mode <- MCMode
    Scoped = FALSE
    Explicit = {}
    Intended = {{writes}}
    Content = {1, 2}
    First = 1
    MaxBuilds = 1
    MaxHeld = 2
    Kept = {"assess", "work"}
    MaxTrouble = 1
CHECK_DEADLOCK FALSE
INVARIANTS
    WorkflowInvariant
    DismissalIsIndependent
    ReadyIsVerified
PROPERTIES
    EventuallyReady
