CONSTANTS
    ann = ann
    bob = bob
    objectStore = objectStore
    g1 = g1
    x1 = x1
    b1 = b1
    a1 = a1
    a2 = a2
    c1 = c1
    c2 = c2
    Never = Never
    NoBackup = NoBackup
    NoGrant = NoGrant
    NoPlan = NoPlan
    NoGap = NoGap
    NoResult = NoResult
    NoCall = NoCall
    Actors = {ann, bob}
    Profiles <- TwoProfiles
    Components = {objectStore}
    ObjectStore = objectStore
    Backups = {b1}
    Manifests <- OneManifest
    Grants = {g1}
    GrantScopes <- OneScope
    GrantTimes = {2}
    DirectUses = {"restore"}
    Restores = {x1}
    Observations <- TwoSites
    Attempts = {a1}
    Dispositions = {"matched_success", "unverifiable"}
    Calls = {c1, c2}
    ReportedResults <- ReportedElsewhere
    MaxTime = 3
SPECIFICATION Spec
SYMMETRY CallSymmetry
CHECK_DEADLOCK FALSE
INVARIANTS
    PromotionMeetsItsProfile
    PromotionReconciledUncertainty
PROPERTIES
    StagesAreLive
