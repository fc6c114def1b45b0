CONSTANTS
    p1 = p1
    p2 = p2
    op = op
    lead = lead
    g1 = g1
    Member = Member
    NoRow = NoRow
    NoGrant = NoGrant
    Procs = {p1, p2}
    Actors = {op, lead}
    Authorities = {lead}
    SupportStaff = {op}
    Grants = {g1}
    GrantCaps <- HoldCaps
    Ttls = {1}
    MaxTime = 2
SPECIFICATION Spec
CHECK_DEADLOCK FALSE
PROPERTIES
    LegalHoldTakesPrecedence
