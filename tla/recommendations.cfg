SPECIFICATION FairSpec
CONSTANTS
    Passes = {"p1", "p2"}
    f1 = f1
    f2 = f2
    Findings = {f1, f2}
    m1 = m1
    m2 = m2
    Messages = {m1, m2}
    Scopes <- SmallScopes
    Null = Null
INVARIANTS
    DownvotesCovered
PROPERTIES
    DecidedStays
    LinksStay
    RunsEnd
