CONSTANTS
    Session = {s1, s2}
    Clause = {c1, c2}
    a = a
    b = b
    m1 = m1
    m2 = m2
    First <- Original
    Text = {a, b}
    Meta = {m1, m2}
    MaxTurns = 2
    MaxCrashes = 1
    None = None
SPECIFICATION FairSpec
CHECK_DEADLOCK FALSE
INVARIANTS
    StoreInvariant
PROPERTIES
    NoBlindOverwrite
    EveryUpdateEnds
