CONSTANTS
    ann = ann
    annCi = annCi
    bob = bob
    res = res
    res2 = res2
    rootA = rootA
    rootB = rootB
    rootC = rootC
    key1 = key1
    key2 = key2
    h1 = h1
    good = good
    bad = bad
    bun1 = bun1
    bun2 = bun2
    r1 = r1
    r2 = r2
    e1 = e1
    e2 = e2
    Forever = Forever
    NoRequest = NoRequest
    NoHold = NoHold
    NoDigest = NoDigest
    NoLock = NoLock
    NoResource = NoResource
    NoTransfer = NoTransfer
    Actors = {ann, annCi, bob}
    PrincipalOf <- TwoPeople
    Requests = {r1, r2}
    Proposals <- RetentionProposals
    RetentionPolicies <- SmallPolicies
    Holds = {h1}
    HoldScopes = {{res}}
    Resources = {res, res2}
    Created <- CreatedFirst
    Executions = {e1, e2}
    TrustPolicies = {}
    TrustedKeys <- RootKeys
    Keys = {}
    Transfers = {}
    Packages = {}
    Bundles = {}
    BundleOf <- BundleOne
    Sound = {}
    SchemaVersions = {1}
    MinSchema = 1
    CurrentSchema = 1
    MaxTime = 3
SPECIFICATION Spec
SYMMETRY CallSymmetry
CHECK_DEADLOCK FALSE
INVARIANTS
    FourEyes
    HoldWinsOverDeletion
    DeletionIsGoverned
    DeletionLeavesEvidence
