SPECIFICATION Spec
CONSTANTS
    r1 = r1
    r2 = r2
    old = old
    new = new
    k1 = k1
    p1 = p1
    p2 = p2
    f1 = f1
    f2 = f2
    Unsigned = Unsigned
    None = None
    Process = {p1, p2}
    Release = {r1, r2}
    Rules = {old, new}
    Key = {k1}
    Form = {f1, f2}
    Bundle <- Bundles
    Candidate <- Candidates
    ValidLock <- Locks
SYMMETRY Symmetry
INVARIANTS
    DeliveryInvariant
    ReplacedLocksAreBackedUp
    OnlyAuthorisedLocksAreActive
    ActivatedReleasesStayUsable
