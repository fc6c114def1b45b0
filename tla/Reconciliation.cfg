CONSTANTS
    a1 = a1
    o1 = o1
    o2 = o2
    d1 = d1
    d2 = d2
    e1 = e1
    e2 = e2
    s1 = s1
    s2 = s2
    c1 = c1
    c2 = c2
    NoDigest = NoDigest
    NoAction = NoAction
    NoTime = NoTime
    NoCursor = NoCursor
    NoPoll = NoPoll
    NoProfile = NoProfile
    NoAssessment = NoAssessment
    Ended = Ended
    Sources = {s1}
    Actions = {a1}
    SourceOf <- AtSource
    ExpectedDigest <- WantD1
    Digests = {d1, d2}
    ObservationIds = {o1, o2}
    Events = {e2}
    EventAction <- Attribution
    MaxTime = 3
    Pollers = {c1, c2}
    Plans <- Planned
    Snapshots <- Answers
    Reports = {"healthy", "conflicting"}
    OwnMarks = {NoTime}
    PollInterval = 1
    StaleAfter = 1
    BaseBackoff = 1
    MaxBackoff = 2
    Profiles <- Strict
SPECIFICATION Spec
SYMMETRY PollerSymmetry
CHECK_DEADLOCK FALSE
INVARIANTS
    TypeOK
    EvidenceBeforeCursor
    MatchesAreSupported
    CompleteIsEarned
