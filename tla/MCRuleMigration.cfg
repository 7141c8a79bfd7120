SPECIFICATION FairSpec
CONSTANTS
    legacy = legacy
    oldDecisions = oldDecisions
    decisions = decisions
    lockfile = lockfile
    newDecision = newDecision
    stored = stored
    release = release
    b1 = b1
    b2 = b2
    p1 = p1
    p2 = p2
    Config = config
    Torn = Torn
    None = None
    Source = {legacy, oldDecisions}
    LegacyConfig = legacy
    Legacy <- MCLegacy
    Artifact = {lockfile, newDecision, stored}
    Marker = {lockfile}
    ReleaseFile = {stored}
    Signed = {stored}
    Action = {release, decisions}
    Allowed <- MCAllowed
    Covers <- MCCovers
    History <- MCHistory
    Inside <- MCInside
    Rank <- MCRank
    Byte = {b1, b2}
    ConfigBytes = b1
    Good = {b1}
    Process = {p1, p2}
    MaxRevision = 1
    MaxClaim = 1
    MaxEdits = 1
    MaxFaults = 1
CHECK_DEADLOCK FALSE
INVARIANTS
    ApplicationInvariant
    LegacyIsNeverLost
PROPERTIES
    InstalledWasReviewed
    ApplyEnds
