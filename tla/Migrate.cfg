SPECIFICATION Spec
CONSTANTS
    p1 = p1
    p2 = p2
    h1 = h1
    h2 = h2
    other = other
    None = None
    Conns = {p1, p2}
    Handles = {h1, h2}
    Other = other
    Releases <- MCReleases
    MaxStarts = 3
CHECK_DEADLOCK FALSE
INVARIANTS
    TypeOK
    RecordedIffApplied
    NeverReapplied
    SuccessMatches
    NoTransactionLeft
PROPERTIES
    OnlySuccessCommits
