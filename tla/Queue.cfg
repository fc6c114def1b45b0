SPECIFICATION FairSpec
CONSTANTS
    w1 = w1
    w2 = w2
    i1 = i1
    i2 = i2
    i3 = i3
    i4 = i4
    ta = ta
    tb = tb
    ka = ka
    kb = kb
    kc = kc
    Items = {i1, i2, i3, i4}
    Identities = {ka, kb, kc}
    IdentityOf <- SharedIdentity
    Tenants = {ta, tb}
    TenantOf <- TwoTenants
    MaxAttempts <- Mixed
    MaxQueueDepth = 2
    Workers = {w1, w2}
    None = None
CHECK_DEADLOCK FALSE
INVARIANTS
    AtMostOneLiveWorker
    AcknowledgedOnce
    DepthIsBounded
PROPERTIES
    KeepsPromise
    AdmittedWorkIsSettled
