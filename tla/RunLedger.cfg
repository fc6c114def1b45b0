SPECIFICATION FairSpec
CONSTANTS
    s = s
    c1 = c1
    c2 = c2
    b1 = b1
    b2 = b2
    x1 = x1
    ta = ta
    tb = tb
    p = p
    q = q
    Requests = {s, c1, c2, b1, x1}
    KindOf <- Kind
    TenantOf <- Tenant
    StatusOf <- Status
    SpecOf <- Bound
    Tenants = {ta, tb}
    Statuses = {"succeeded", "failed"}
    Specs = {p, q}
    None = None
CHECK_DEADLOCK FALSE
INVARIANTS
    ChainIsSound
    CompletionIsAudited
PROPERTIES
    RequestsEnd
