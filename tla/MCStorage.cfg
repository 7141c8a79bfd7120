SPECIFICATION FairSpec
CONSTANTS
    v1 = v1
    v2 = v2
    s1 = s1
    None = None
    Path = {p1, p2}
    Value <- MCValue
    Compressible <- MCCompressible
    Session <- OneSession
    MaxInterrupts = 2
INVARIANTS
    StorageInvariant
PROPERTIES
    MigrationKeepsRecords
    RepeatingCompletes
