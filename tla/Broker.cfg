CONSTANTS
    b1 = b1
    b2 = b2
    b3 = b3
    x = x
    k1 = k1
    k2 = k2
    r1 = r1
    r2 = r2
    c1 = c1
    c2 = c2
    None = None
    Calls = {c1, c2}
    Bodies = {b1, b2, b3}
    Artifacts = {x}
    Keys = {k1, k2}
    KeyOf <- TwoKeys
    Revisions = {r1, r2}
    PolicyOf <- Gating
    Expirable = {b2}
    Decisions <- GivenApproval
    Unsupported = {b3}
    UseAttempts = TRUE
    UseLeases = TRUE
SPECIFICATION FairSpec
CHECK_DEADLOCK FALSE
INVARIANTS
    AtMostOneDispatch
    DispatchIsJournaled
    DispatchWasAuthorized
    PublishedResultIsFinal
    UncertaintyIsRecorded
PROPERTIES
    ImplementsContract
    CallsEnd
