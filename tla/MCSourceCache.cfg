CONSTANTS
    Process = {p1, p2}
    Source = {"source"}
    Result = {"result"}
    Observation = "observation"
    Refs = {"r1", "r2"}
    Content <- Contents
    Declares <- DeclaresBySame
    First <- Committed
    Nil = Nil
    MaxChanges = 2
    MaxCalls = 2
SPECIFICATION CacheSpec
SYMMETRY Symmetry
CHECK_DEADLOCK FALSE
INVARIANTS IndexedRecordsAreCurrent CacheInvariant
