SPECIFICATION SetupSpec
CONSTANTS
    c1 = c1
    c2 = c2
    s1 = s1
    s2 = s2
    d1 = d1
    Nil = Nil
    Command = {c1, c2}
    Source = {s1, s2}
    Unsupported = {s2}
    Decision = {d1}
    MaxTrouble = 2
SYMMETRY Symmetry
CHECK_DEADLOCK FALSE
INVARIANTS
    
    PromotionIsCurrent
PROPERTIES
    InstructionsSurvive
    NoBlindReplacement
