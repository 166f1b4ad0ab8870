SPECIFICATION Spec
CONSTANTS
    Orgs = {acme}
    Ops = {o1, o2}
    OrgOf <- OneOrg
    Credits = {p1}
    CreditAmount = 3
    Subjects = {u1, u2}
    GrantAmount = 1
    MaxGrants = 1
    Reservations = {2}
    Charges = {0, 1, 2}
    Granters = {q1, q2}
    Sweepers = {s1, s2}
    MaxFaults = 2
    Null = Null
SYMMETRY Symmetry
INVARIANTS
    SettledOrReleased
    LimitsKept
    BooksBalance
CHECK_DEADLOCK FALSE
