SPECIFICATION MSpec
CONSTANTS
    Orgs = {acme}
    Ops = {o1}
    OrgOf <- OneOrg
    Credits = {p1}
    CreditAmount = 4
    Subjects = {}
    GrantAmount = 1
    MaxGrants = 1
    Reservations = {2, 3}
    Charges = {0, 1, 2, 3}
    Granters = {}
    Sweepers = {s1, s2}
    MaxFaults = 2
    MaxChars = 2
    Null = Null
INVARIANTS
    ChargedAsEnded
PROPERTIES
    CallsSettle
CHECK_DEADLOCK FALSE
