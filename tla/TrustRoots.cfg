CONSTANTS
    ann = ann
    annCi = annCi
    bob = bob
    res = res
    res2 = res2
    rootA = rootA
    rootB = rootB
    rootC = rootC
    key1 = key1
    key2 = key2
    h1 = h1
    good = good
    bad = bad
    bun1 = bun1
    bun2 = bun2
    r1 = r1
    r2 = r2
    r3 = r3
    t1 = t1
    Forever = Forever
    NoRequest = NoRequest
    NoHold = NoHold
    NoDigest = NoDigest
    NoLock = NoLock
    NoResource = NoResource
    NoTransfer = NoTransfer
    Actors = {ann}
    PrincipalOf <- TwoPeople
    Requests = {r1, r2, r3}
    Proposals <- RootProposals
    RetentionPolicies = {}
    Holds = {}
    HoldScopes = {}
    Resources = {}
    Created <- CreatedFirst
    Executions = {}
    TrustPolicies = {rootA, rootB, rootC}
    TrustedKeys <- RootKeys
    Keys = {key1, key2}
    Transfers = {t1}
    Packages = {good, bad}
    Bundles = {bun1}
    BundleOf <- BundleOne
    Sound = {good}
    SchemaVersions = {1, 2}
    MinSchema = 1
    CurrentSchema = 1
    MaxTime = 3
SPECIFICATION Spec
SYMMETRY CallSymmetry
CHECK_DEADLOCK FALSE
INVARIANTS
    RevisionsChain
    TrustHasNoGap
    ReceiptsBindTheirReports
PROPERTIES
    RotationKeepsHistory
