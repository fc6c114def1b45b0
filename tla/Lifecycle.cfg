CONSTANTS
    acme = acme
    beta = beta
    q1 = q1
    q2 = q2
    q3 = q3
    q4 = q4
    Requests = {q1, q2, q3, q4}
    Tenants = {acme, beta}
    TenantOf <- MostlyAcme
    MaxInFlight = 3
    MaxPerTenant = 2
SPECIFICATION FairSpec
CHECK_DEADLOCK FALSE
INVARIANTS
    CountersAreExact
    DrainedIsEmpty
PROPERTIES
    ShutdownEnds
