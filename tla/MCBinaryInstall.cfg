SPECIFICATION FairSpec
CONSTANTS
    t1 = t1
    t2 = t2
    r1 = r1
    r2 = r2
    None = None
    Tag = {t1, t2}
    Revision = {r1, r2}
    Bundle <- MCBundle
    Process = {p1, p2}
    Reader = {q1}
    MaxTrouble = 1
CHECK_DEADLOCK FALSE
INVARIANTS
    InstallInvariant
    ReadersFindTheirRelease
PROPERTIES
    RollbackPointIsLastActive
    LockIsFreed
