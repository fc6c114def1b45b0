------------------------ MODULE ReconciliationProofs ------------------------
(***************************************************************************)
(* Theorems about Reconciliation, for any sources, actions, pollers, plans *)
(* and provider answers, and for every schedule.                           *)
(***************************************************************************)
EXTENDS Reconciliation, FiniteSetTheorems, WellFoundedInduction, TLAPS

-----------------------------------------------------------------------------
(* Facts about the operators *)

\* A nonempty set of times has a latest one.
LEMMA Latest ==
  ASSUME NEW S \in SUBSET Time, S # {}
  PROVE  Max(S) \in S /\ \A y \in S : y <= Max(S)
<1> USE EngineAssumption DEF Time
<1> DEFINE from(x) == x..MaxTime
           R == StrictSubsetOrdering(Time)
           T == {from(x) : x \in S}
<1>1. T \in SUBSET SUBSET Time /\ T # {}
  <2>1. ASSUME NEW x \in S PROVE from(x) \subseteq Time
    OBVIOUS
  <2>2. T \subseteq SUBSET Time
    BY <2>1, Zenon
  <2>3. PICK x \in S : TRUE
    OBVIOUS
  <2>4. from(x) \in T
    OBVIOUS
  <2> QED BY <2>2, <2>4, Zenon
<1>2. IsWellFoundedOn(R, SUBSET Time)
  <2>1. IsFiniteSet(Time)
    BY FS_Interval
  <2>2. FiniteSubsetsOf(Time) = SUBSET Time
    BY <2>1, FS_FiniteSubsetsOfFinite
  <2>3. IsWellFoundedOn(R, FiniteSubsetsOf(Time))
    BY FS_StrictSubsetOrderingWellFounded
  <2> QED BY <2>2, <2>3
<1>3. PICK U \in T : \A V \in T : ~ (<<V, U>> \in R)
  <2> HIDE DEF T, R
  <2> QED BY <1>1, <1>2, WFMin
<1>4. PICK x \in S : U = from(x)
  BY <1>3
<1>5. ASSUME NEW y \in S, x < y PROVE FALSE
  <2>1. from(y) \subseteq from(x) /\ from(y) # from(x)
    BY <1>5
  <2>2. <<from(y), U>> \in R
    BY <2>1, <1>4 DEF StrictSubsetOrdering
  <2> QED BY <2>2, <1>3
<1>6. \A y \in S : x >= y
  BY <1>5
<1> QED BY <1>6 DEF Max

\* The high-water mark is the time of a record, or null when there is none.
LEMMA WatermarkTyped ==
  ASSUME NEW O \in SUBSET ExternalStateObservation, NEW E \in SUBSET ExternalAuditEvent
  PROVE  HighWatermark(O, E) \in Time \cup {NoTime}
<1> DEFINE times == {r.at : r \in O \cup E}
<1>1. times \in SUBSET Time
  BY DEF ExternalStateObservation, ExternalAuditEvent
<1>2. times # {} => Max(times) \in Time
  BY <1>1, Latest
<1> QED BY <1>2 DEF HighWatermark

\* backoff_for doubles at most thirty times.
LEMMA Doublings == \A k \in 0..30 : 2 ^ k \in Nat
<1> SUFFICES ASSUME NEW k \in 0..30 PROVE 2 ^ k \in Nat
  OBVIOUS
<1>1. \/ k = 0 \/ k = 1 \/ k = 2 \/ k = 3 \/ k = 4 \/ k = 5 \/ k = 6 \/ k = 7
      \/ k = 8 \/ k = 9 \/ k = 10 \/ k = 11 \/ k = 12 \/ k = 13 \/ k = 14 \/ k = 15
      \/ k = 16 \/ k = 17 \/ k = 18 \/ k = 19 \/ k = 20 \/ k = 21 \/ k = 22 \/ k = 23
      \/ k = 24 \/ k = 25 \/ k = 26 \/ k = 27 \/ k = 28 \/ k = 29 \/ k = 30
  OBVIOUS
<1>2. /\ 2^0 \in Nat /\ 2^1 \in Nat /\ 2^2 \in Nat /\ 2^3 \in Nat /\ 2^4 \in Nat
      /\ 2^5 \in Nat /\ 2^6 \in Nat /\ 2^7 \in Nat /\ 2^8 \in Nat /\ 2^9 \in Nat
      /\ 2^10 \in Nat /\ 2^11 \in Nat /\ 2^12 \in Nat /\ 2^13 \in Nat /\ 2^14 \in Nat
      /\ 2^15 \in Nat /\ 2^16 \in Nat /\ 2^17 \in Nat /\ 2^18 \in Nat /\ 2^19 \in Nat
      /\ 2^20 \in Nat /\ 2^21 \in Nat /\ 2^22 \in Nat /\ 2^23 \in Nat /\ 2^24 \in Nat
      /\ 2^25 \in Nat /\ 2^26 \in Nat /\ 2^27 \in Nat /\ 2^28 \in Nat /\ 2^29 \in Nat
      /\ 2^30 \in Nat
  OBVIOUS
<1> QED BY <1>1, <1>2, Zenon

LEMMA BackoffTyped == \A n \in Nat : BackoffFor(n) \in Nat
<1> SUFFICES ASSUME NEW n \in Nat PROVE BackoffFor(n) \in Nat
  OBVIOUS
<1> DEFINE k == IF n - 1 < 30 THEN n - 1 ELSE 30
<1>1. CASE n = 0
  BY <1>1, CoordinatorAssumption DEF BackoffFor
<1>2. CASE n # 0
  <2>1. k \in 0..30
    BY <1>2
  <2>2. 2 ^ k \in Nat
    BY <2>1, Doublings
  <2> DEFINE doubled == BaseBackoff * 2 ^ k
  <2>3. doubled \in Nat
    <3> HIDE DEF k
    <3> QED BY <2>2, CoordinatorAssumption
  <2>4. BackoffFor(n) = IF doubled < MaxBackoff THEN doubled ELSE MaxBackoff
    BY <1>2 DEF BackoffFor
  <2> HIDE DEF doubled
  <2> QED BY <2>3, <2>4, CoordinatorAssumption
<1> QED BY <1>1, <1>2

\* what reconcile is given of a batch
Compared ==
    [health: Health, observations: SUBSET ExternalStateObservation,
     events: SUBSET ExternalAuditEvent]

LEMMA LastObservedTyped ==
  ASSUME NEW b \in Compared, NEW a, Observed(a, b) # {}
  PROVE  LastObserved(a, b) \in Time
<1> DEFINE times == {o.at : o \in Observed(a, b)}
<1>1. times \in SUBSET Time /\ times # {}
  BY DEF Compared, Observed, ExternalStateObservation
<1> HIDE DEF times
<1>2. Max(times) \in Time
  BY <1>1, Latest
<1> QED BY <1>2 DEF times, LastObserved

LEMMA DigestsTyped ==
  ASSUME NEW b \in Compared, NEW a
  PROVE  /\ ObservedDigests(a, b) \in SUBSET Digests
         /\ Disagreeing(a, b) => Observed(a, b) # {}
<1>1. ObservedDigests(a, b) \in SUBSET Digests
  BY DEF Compared, Observed, ObservedDigests, ExternalStateObservation
<1>2. ASSUME Observed(a, b) = {} PROVE ~Disagreeing(a, b)
  <2>1. ObservedDigests(a, b) = {}
    BY <1>2 DEF ObservedDigests
  <2> QED BY <2>1, FS_EmptySet DEF Disagreeing
<1> QED BY <1>1, <1>2

LEMMA FindingTyped ==
  ASSUME NEW s \in Sources, NEW outcome \in ReconciliationOutcome,
         NEW a \in Actions \cup {NoAction}, NEW at \in Time,
         NEW ev \in SUBSET (Digests \cup ObservationIds \cup Events \cup ReconciliationSourceHealth)
  PROVE  Finding(s, outcome, a, ev, at) \in ReconciliationFinding
BY DEF Finding, ReconciliationFinding, FindingId

\* The comparison yields findings of its own source.
LEMMA ReconcileTyped ==
  ASSUME NEW s \in Sources, NEW A \in SUBSET Actions, NEW b \in Compared, NEW at \in Time
  PROVE  Reconcile(s, A, b, at) \subseteq ReconciliationFinding
<1> DEFINE E == ExpectedIn(A, s)
           F == ReconciliationFinding
<1>0. E \in SUBSET Actions
  BY DEF ExpectedIn
<1> HIDE DEF E
<1>1. HealthFindings(s, b, at) \subseteq F
  <2>1. b.health \in ReconciliationSourceHealth
    BY DEF Compared, Health
  <2> QED BY <2>1, FindingTyped DEF HealthFindings, ReconciliationOutcome
<1>2. UnexpectedObservations(s, E, b) \subseteq F
  <2> SUFFICES ASSUME NEW o \in b.observations
               PROVE  Finding(s, "unexpected_external_action", o.action, {o.id}, o.at) \in F
    BY DEF UnexpectedObservations
  <2>1. /\ o.action \in Actions \cup {NoAction} /\ o.at \in Time /\ o.id \in ObservationIds
    BY DEF Compared, ExternalStateObservation
  <2> QED BY <2>1, FindingTyped DEF ReconciliationOutcome
<1>3. UnexpectedEvents(s, E, b) \subseteq F
  <2> SUFFICES ASSUME NEW e \in b.events
               PROVE  Finding(s, "unexpected_external_action", EventAction[e.id], {e.id}, e.at) \in F
    BY DEF UnexpectedEvents
  <2>1. e.id \in Events /\ e.at \in Time
    BY DEF Compared, ExternalAuditEvent
  <2>2. EventAction[e.id] \in Actions \cup {NoAction}
    BY <2>1, EngineAssumption
  <2> QED BY <2>1, <2>2, FindingTyped DEF ReconciliationOutcome
<1>4. MissingFindings(s, E, b, at) \subseteq F
  BY <1>0, FindingTyped DEF MissingFindings, ReconciliationOutcome
<1>5. ASSUME NEW a \in E, Observed(a, b) # {},
             NEW outcome \in {"conflicting_evidence", "state_mismatch", "matched"}
      PROVE  Finding(s, outcome, a, ObservedDigests(a, b), LastObserved(a, b)) \in F
  <2>1. LastObserved(a, b) \in Time
    BY <1>5, LastObservedTyped
  <2>2. ObservedDigests(a, b) \in SUBSET Digests
    BY DigestsTyped
  <2> QED BY <1>0, <2>1, <2>2, FindingTyped DEF ReconciliationOutcome
<1>6. ConflictFindings(s, E, b) \subseteq F
  BY <1>5, DigestsTyped DEF ConflictFindings
<1>7. MismatchFindings(s, E, b) \subseteq F
  BY <1>5 DEF MismatchFindings, Settled
<1>8. MatchFindings(s, E, b) \subseteq F
  BY <1>5 DEF MatchFindings, Settled
<1> QED BY <1>1, <1>2, <1>3, <1>4, <1>6, <1>7, <1>8 DEF Reconcile, E

-----------------------------------------------------------------------------
(* What the comparison promises of a single batch *)

\* A finding about an expected action is one of the four kinds reconcile
\* raises in its loop over the expected actions.
LEMMA FindingsAboutExpected ==
  ASSUME NEW s \in Sources, NEW A \in SUBSET Actions, NEW b \in Compared, NEW at \in Time,
         NEW a \in ExpectedIn(A, s), NEW f \in Reconcile(s, A, b, at), f.id.action = a
  PROVE  \/ /\ Observed(a, b) = {}
            /\ f = Finding(s, IF b.health = "healthy" THEN "missing_external_evidence"
                              ELSE "unverifiable", a, {}, at)
         \/ /\ Disagreeing(a, b)
            /\ f = Finding(s, "conflicting_evidence", a, ObservedDigests(a, b), LastObserved(a, b))
         \/ /\ Observed(a, b) # {} /\ ~Disagreeing(a, b) /\ Deviates(a, b)
            /\ f = Finding(s, "state_mismatch", a, ObservedDigests(a, b), LastObserved(a, b))
         \/ /\ b.health = "healthy"
            /\ Observed(a, b) # {} /\ ~Disagreeing(a, b) /\ ~Deviates(a, b)
            /\ f = Finding(s, "matched", a, ObservedDigests(a, b), LastObserved(a, b))
<1>1. PICK E : E = ExpectedIn(A, s)
  OBVIOUS
<1>2. a \in E /\ a # NoAction
  BY <1>1, EngineAssumption DEF ExpectedIn
<1>3. f \notin HealthFindings(s, b, at)
  BY <1>2 DEF HealthFindings, Finding
<1>4. f \notin UnexpectedObservations(s, E, b) /\ f \notin UnexpectedEvents(s, E, b)
  BY <1>2 DEF UnexpectedObservations, UnexpectedEvents, Finding
<1>5. \/ f \in MissingFindings(s, E, b, at) \/ f \in ConflictFindings(s, E, b)
      \/ f \in MismatchFindings(s, E, b) \/ f \in MatchFindings(s, E, b)
  BY <1>1, <1>3, <1>4 DEF Reconcile
<1>6. \A c, outcome, ev, t : f = Finding(s, outcome, c, ev, t) => c = a
  BY DEF Finding
<1>7. CASE f \in MissingFindings(s, E, b, at)
  <2>1. PICK c \in E : /\ Observed(c, b) = {}
                       /\ f = Finding(s, IF b.health = "healthy" THEN "missing_external_evidence"
                                         ELSE "unverifiable", c, {}, at)
    BY <1>7 DEF MissingFindings
  <2> QED BY <1>6, <2>1
<1>8. CASE f \in ConflictFindings(s, E, b)
  <2>1. PICK c \in E : /\ Disagreeing(c, b)
                       /\ f = Finding(s, "conflicting_evidence", c, ObservedDigests(c, b),
                                      LastObserved(c, b))
    BY <1>8 DEF ConflictFindings
  <2> QED BY <1>6, <2>1
<1>9. CASE f \in MismatchFindings(s, E, b)
  <2>1. PICK c \in E : /\ Observed(c, b) # {} /\ ~Disagreeing(c, b) /\ Deviates(c, b)
                       /\ f = Finding(s, "state_mismatch", c, ObservedDigests(c, b),
                                      LastObserved(c, b))
    BY <1>9 DEF MismatchFindings, Settled
  <2> QED BY <1>6, <2>1
<1>10. CASE f \in MatchFindings(s, E, b)
  <2>1. b.health = "healthy"
    BY <1>10 DEF MatchFindings
  <2>2. PICK c \in E : /\ Observed(c, b) # {} /\ ~Disagreeing(c, b) /\ ~Deviates(c, b)
                       /\ f = Finding(s, "matched", c, ObservedDigests(c, b), LastObserved(c, b))
    BY <1>10, <2>1 DEF MatchFindings, Settled
  <2> QED BY <1>6, <2>1, <2>2
<1> QED BY <1>5, <1>7, <1>8, <1>9, <1>10

\* Every expected action of a source gets at most one finding of a batch, and
\* exactly one when the source is healthy: reconcile never both matches and
\* reports an action, and never passes over one in silence.
THEOREM OneFindingPerAction ==
  ASSUME NEW s \in Sources, NEW A \in SUBSET Actions, NEW b \in Compared, NEW at \in Time,
         NEW a \in ExpectedIn(A, s)
  PROVE  /\ \A f, g \in Reconcile(s, A, b, at) :
               f.id.action = a /\ g.id.action = a => f = g
         /\ b.health = "healthy" => \E f \in Reconcile(s, A, b, at) : f.id.action = a
<1>1. ASSUME NEW f \in Reconcile(s, A, b, at), NEW g \in Reconcile(s, A, b, at),
             f.id.action = a, g.id.action = a
      PROVE  f = g
  <2>1. Disagreeing(a, b) => Observed(a, b) # {}
    BY DigestsTyped
  <2>2. CASE Observed(a, b) = {}
    <3>1. PICK x : x = Finding(s, IF b.health = "healthy" THEN "missing_external_evidence"
                                  ELSE "unverifiable", a, {}, at)
      OBVIOUS
    <3>2. f = x /\ g = x
      BY <1>1, <2>1, <2>2, <3>1, FindingsAboutExpected
    <3> QED BY <3>2
  <2>3. CASE Disagreeing(a, b)
    <3>1. PICK x : x = Finding(s, "conflicting_evidence", a, ObservedDigests(a, b),
                               LastObserved(a, b))
      OBVIOUS
    <3>2. f = x /\ g = x
      BY <1>1, <2>1, <2>3, <3>1, FindingsAboutExpected
    <3> QED BY <3>2
  <2>4. CASE Observed(a, b) # {} /\ ~Disagreeing(a, b) /\ Deviates(a, b)
    <3>1. PICK x : x = Finding(s, "state_mismatch", a, ObservedDigests(a, b), LastObserved(a, b))
      OBVIOUS
    <3>2. f = x /\ g = x
      BY <1>1, <2>4, <3>1, FindingsAboutExpected
    <3> QED BY <3>2
  <2>5. CASE Observed(a, b) # {} /\ ~Disagreeing(a, b) /\ ~Deviates(a, b)
    <3>1. PICK x : x = Finding(s, "matched", a, ObservedDigests(a, b), LastObserved(a, b))
      OBVIOUS
    <3>2. f = x /\ g = x
      BY <1>1, <2>5, <3>1, FindingsAboutExpected
    <3> QED BY <3>2
  <2> QED BY <2>2, <2>3, <2>4, <2>5
<1>2. ASSUME b.health = "healthy"
      PROVE  \E f \in Reconcile(s, A, b, at) : f.id.action = a
  <2>1. PICK E : E = ExpectedIn(A, s)
    OBVIOUS
  <2>2. \A outcome, ev, t : Finding(s, outcome, a, ev, t).id.action = a
    BY DEF Finding
  <2>3. CASE Observed(a, b) = {}
    <3>1. Finding(s, "missing_external_evidence", a, {}, at) \in MissingFindings(s, E, b, at)
      BY <1>2, <2>1, <2>3 DEF MissingFindings
    <3> QED BY <2>1, <2>2, <3>1 DEF Reconcile
  <2>4. CASE Disagreeing(a, b)
    <3>1. Finding(s, "conflicting_evidence", a, ObservedDigests(a, b), LastObserved(a, b))
            \in ConflictFindings(s, E, b)
      BY <2>1, <2>4 DEF ConflictFindings
    <3> QED BY <2>1, <2>2, <3>1 DEF Reconcile
  <2>5. CASE Observed(a, b) # {} /\ ~Disagreeing(a, b) /\ Deviates(a, b)
    <3>1. Finding(s, "state_mismatch", a, ObservedDigests(a, b), LastObserved(a, b))
            \in MismatchFindings(s, E, b)
      BY <2>1, <2>5 DEF MismatchFindings, Settled
    <3> QED BY <2>1, <2>2, <3>1 DEF Reconcile
  <2>6. CASE Observed(a, b) # {} /\ ~Disagreeing(a, b) /\ ~Deviates(a, b)
    <3>1. Finding(s, "matched", a, ObservedDigests(a, b), LastObserved(a, b))
            \in MatchFindings(s, E, b)
      BY <1>2, <2>1, <2>6 DEF MatchFindings, Settled
    <3> QED BY <2>1, <2>2, <3>1 DEF Reconcile
  <2> QED BY <2>3, <2>4, <2>5, <2>6
<1> QED BY <1>1, <1>2

\* A match is agreement: the source was healthy, it observed the action, all
\* its observations of it show one digest, and that is the expected digest
\* wherever the plan names one.
THEOREM MatchMeansAgreement ==
  ASSUME NEW s \in Sources, NEW A \in SUBSET Actions, NEW b \in Compared, NEW at \in Time,
         IsFiniteSet(b.observations),
         NEW f \in Reconcile(s, A, b, at), f.id.outcome = "matched"
  PROVE  /\ b.health = "healthy"
         /\ f.id.action \in ExpectedIn(A, s)
         /\ \E d \in Digests :
               /\ Observed(f.id.action, b) # {}
               /\ \A o \in Observed(f.id.action, b) : o.digest = d
               /\ ExpectedDigest[f.id.action] \in {NoDigest, d}
<1>1. PICK E : E = ExpectedIn(A, s)
  OBVIOUS
<1>2. f \in MatchFindings(s, E, b)
  BY <1>1 DEF Reconcile, HealthFindings, UnexpectedObservations, UnexpectedEvents,
              MissingFindings, ConflictFindings, MismatchFindings, Finding
<1>3. b.health = "healthy"
  BY <1>2 DEF MatchFindings
<1>4. PICK a \in E : /\ Observed(a, b) # {} /\ ~Disagreeing(a, b) /\ ~Deviates(a, b)
                     /\ f.id.action = a
  BY <1>2, <1>3 DEF MatchFindings, Settled, Finding
<1>5. ObservedDigests(a, b) # {} /\ ObservedDigests(a, b) \subseteq Digests
  BY <1>4, DigestsTyped DEF ObservedDigests
<1>6. IsFiniteSet(ObservedDigests(a, b))
  <2>1. Observed(a, b) \subseteq b.observations
    BY DEF Observed
  <2>2. IsFiniteSet(Observed(a, b))
    BY <2>1, FS_Subset
  <2>3. PICK O : O = Observed(a, b)
    OBVIOUS
  <2>4. [o \in O |-> o.digest] \in Surjection(O, {o.digest : o \in O})
    BY DEF Surjection
  <2>5. IsFiniteSet({o.digest : o \in O})
    BY <2>2, <2>3, <2>4, FS_Surjection
  <2> QED BY <2>3, <2>5 DEF ObservedDigests
<1>7. PICK d : ObservedDigests(a, b) = {d}
  <2>1. Cardinality(ObservedDigests(a, b)) \in Nat
    BY <1>6, FS_CardinalityType
  <2>2. Cardinality(ObservedDigests(a, b)) # 0
    BY <1>5, <1>6, FS_EmptySet
  <2>3. Cardinality(ObservedDigests(a, b)) = 1
    BY <1>4, <2>1, <2>2 DEF Disagreeing
  <2> QED BY <1>6, <2>3, FS_Singleton
<1>8. \A o \in Observed(a, b) : o.digest = d
  BY <1>7 DEF ObservedDigests
<1>9. ExpectedDigest[a] \in {NoDigest, d}
  BY <1>4, <1>7 DEF Deviates
<1> QED BY <1>1, <1>3, <1>4, <1>5, <1>7, <1>8, <1>9

-----------------------------------------------------------------------------
(* Types *)

LEMMA HealthTyped == \A p \in Poll : EffectiveHealth(p) \in Health
BY DEF EffectiveHealth, Poll, ReconciliationBatch, Health, ReconciliationSourceHealth

LEMMA ReconciledTyped ==
  ASSUME NEW p \in Poll
  PROVE  Reconciled(p) \subseteq ReconciliationFinding
<1> DEFINE b == [health |-> EffectiveHealth(p), observations |-> p.batch.observations,
                 events |-> p.batch.events]
<1>1. b \in Compared
  BY HealthTyped DEF Compared, Poll, ReconciliationBatch
<1>2. p.source \in Sources /\ p.actions \in SUBSET Actions /\ p.at \in Time
  BY CoordinatorAssumption DEF Poll
<1> HIDE DEF b
<1>3. Reconcile(p.source, p.actions, b, p.at) \subseteq ReconciliationFinding
  BY <1>1, <1>2, ReconcileTyped
<1> QED BY <1>3 DEF Reconciled, b

LEMMA UnavailableTyped == Unavailable \in ReconciliationBatch
BY DEF Unavailable, ReconciliationBatch, Health, ReconciliationSourceHealth

LEMMA FailureFindingsTyped ==
  ASSUME NEW p \in Poll
  PROVE  FailureFindings(p) \subseteq ReconciliationFinding
<1>1. [p EXCEPT !.batch = Unavailable] \in Poll
  BY UnavailableTyped DEF Poll
<1>2. Reconciled([p EXCEPT !.batch = Unavailable]) \subseteq ReconciliationFinding
  BY <1>1, ReconciledTyped
<1> QED BY <1>2 DEF FailureFindings, ReconciliationFinding

LEMMA ResultTyped ==
  ASSUME NEW p \in Poll, NEW found \in SUBSET ReconciliationFinding
  PROVE  ResultOf(p, found) \in ReconciliationRunResult
<1>1. p.source \in Sources /\ p.at \in Time /\ p.batch.watermark \in Int \cup {NoTime}
  BY DEF Poll, ReconciliationBatch
<1>2. {f.id : f \in found} \in SUBSET FindingId
  BY DEF ReconciliationFinding
<1> QED BY <1>1, <1>2, HealthTyped DEF ResultOf, ReconciliationRunResult

LEMMA CursorsTyped ==
  ASSUME NEW p \in Poll
  PROVE  NextCursor(p) \in ReconciliationCursor /\ FailureCursor(p) \in ReconciliationCursor
<1>1. p.at \in Nat /\ p.batch.position \in Nat /\ p.batch.watermark \in Int \cup {NoTime}
  BY EngineAssumption DEF Poll, ReconciliationBatch, Time
<1>2. NextCursor(p) \in ReconciliationCursor
  <2>1. p.at + BackoffFor(0) \in Nat
    BY <1>1, BackoffTyped
  <2> QED BY <1>1, <2>1, HealthTyped DEF NextCursor, ReconciliationCursor
<1>3. FailureCursor(p) \in ReconciliationCursor
  <2> DEFINE n == 1 + (IF p.cursor = NoCursor THEN 0 ELSE p.cursor.failures)
             w == IF p.cursor = NoCursor THEN NoTime ELSE p.cursor.watermark
  <2>1. n \in Nat /\ PositionOf(p.cursor) \in Nat /\ w \in Int \cup {NoTime}
    BY DEF Poll, ReconciliationCursor, PositionOf
  <2>2. "unavailable" \in Health
    BY DEF Health, ReconciliationSourceHealth
  <2>3. FailureCursor(p) = [position |-> PositionOf(p.cursor), watermark |-> w,
                            health |-> "unavailable", failures |-> n,
                            next |-> p.at + BackoffFor(n)]
    BY DEF FailureCursor
  <2> HIDE DEF n, w
  <2>4. p.at + BackoffFor(n) \in Nat
    BY <1>1, <2>1, BackoffTyped
  <2> QED BY <2>1, <2>2, <2>3, <2>4 DEF ReconciliationCursor
<1> QED BY <1>2, <1>3

LEMMA FailureResultTyped ==
  ASSUME NEW p \in Poll, NEW found \in SUBSET ReconciliationFinding
  PROVE  FailureResult(p, found) \in ReconciliationRunResult
<1>1. p.source \in Sources /\ p.at \in Time
  BY DEF Poll
<1>2. FailureCursor(p).watermark \in Int \cup {NoTime}
  BY CursorsTyped DEF ReconciliationCursor
<1>3. {f.id : f \in found} \in SUBSET FindingId
  BY DEF ReconciliationFinding
<1> QED BY <1>1, <1>2, <1>3
        DEF FailureResult, ReconciliationRunResult, Health, ReconciliationSourceHealth

\* A provider's answer is a batch, whatever its mark.
LEMMA AnswerTyped ==
  ASSUME TypeOK, NEW p \in Poll, NEW O \in Snapshots, NEW h \in Reports, NEW w \in Marks(p, O)
  PROVE  Answer(p, O, h, w) \in ReconciliationBatch
<1> DEFINE trail == log[p.source]
           E == EventsAfter(p)
<1>1. trail \in Seq(ExternalAuditEvent) /\ PositionOf(p.cursor) \in Nat
  BY DEF TypeOK, Poll, PositionOf, ReconciliationCursor
<1>2. E \in SUBSET ExternalAuditEvent
  BY <1>1 DEF EventsAfter
<1>3. O \in SUBSET ExternalStateObservation /\ h \in Health
  BY CoordinatorAssumption
<1>4. Len(trail) \in Nat
  BY <1>1
<1>5. Answer(p, O, h, w) = [health |-> h, watermark |-> w, position |-> Len(trail),
                            observations |-> O, events |-> E]
  BY DEF Answer
<1>6. w \in Int \cup {NoTime}
  <2>1. HighWatermark(O, E) \in Int \cup {NoTime}
    BY <1>2, <1>3, WatermarkTyped DEF Time
  <2> QED BY <2>1, CoordinatorAssumption DEF Marks
<1> HIDE DEF trail, E
<1> QED BY <1>2, <1>3, <1>4, <1>5, <1>6 DEF ReconciliationBatch

\* A running call's locals.
LEMMA RunningTyped ==
  ASSUME TypeOK, NEW c \in Pollers, Running(c)
  PROVE  polls[c] \in Poll
BY DEF TypeOK, Running

\* Findings are only added.
LEMMA InsertTyped ==
  ASSUME TypeOK, NEW found \in SUBSET ReconciliationFinding
  PROVE  Insert(found) \subseteq ReconciliationFinding /\ findings \subseteq Insert(found)
BY DEF TypeOK, Insert

LEMMA StandaloneTyped ==
  ASSUME TypeOK, NEW r \in ReconciliationRunResult, NEW found \in SUBSET ReconciliationFinding,
         StandaloneSaveResult(r, found)
  PROVE  /\ results' \subseteq ReconciliationRunResult /\ findings' \subseteq ReconciliationFinding
         /\ results \subseteq results' /\ findings \subseteq findings'
<1>1. findings' = findings \cup found \/ \E S \in SUBSET found : findings' = findings \cup S
  BY DEF StandaloneSaveResult
<1> QED BY <1>1 DEF StandaloneSaveResult, TypeOK

LEMMA TypingInit == Init => TypeOK
BY EngineAssumption DEF Init, TypeOK, Time

LEMMA TypingPoll ==
  ASSUME TypeOK, NEW c \in Pollers, PollNext(c)
  PROVE  TypeOK'
<1>1. ASSUME NEW s \in Sources, NEW A \in Plans, BeginPoll(c, s, A) PROVE TypeOK'
  <2>1. [pc |-> "collecting", source |-> s, at |-> now, actions |-> A,
         cursor |-> cursors[s], batch |-> Unavailable, todo |-> {}] \in Poll
    BY UnavailableTyped DEF Poll, TypeOK
  <2> QED BY <1>1, <2>1 DEF BeginPoll, evidenceVars, assessVars, TypeOK
<1>2. ASSUME NEW O \in Snapshots, NEW h \in Reports, NEW w \in Marks(polls[c], O),
             Collect(c, O, h, w)
      PROVE  TypeOK'
  <2> DEFINE b == Answer(polls[c], O, h, w)
  <2>1. polls[c] \in Poll
    BY <1>2, RunningTyped DEF Collect
  <2>2. b \in ReconciliationBatch
    BY <2>1, AnswerTyped
  <2>3. polls' = [polls EXCEPT ![c] = [polls[c] EXCEPT !.pc = "ingesting", !.batch = b,
                                                       !.todo = b.events]]
    BY <1>2 DEF Collect
  <2>4. UNCHANGED <<store, now, log, cursors, results, findings, ingested, profile, assess>>
    BY <1>2 DEF Collect, evidenceVars, assessVars
  <2> HIDE DEF b
  <2>5. [polls[c] EXCEPT !.pc = "ingesting", !.batch = b, !.todo = b.events] \in Poll
    BY <2>1, <2>2 DEF Poll, ReconciliationBatch
  <2> QED BY <2>3, <2>4, <2>5 DEF TypeOK
<1>3. ASSUME NEW event \in polls[c].todo, IngestAuditEvent(c, event) PROVE TypeOK'
  <2>1. polls[c] \in Poll
    BY <1>3, RunningTyped DEF IngestAuditEvent
  <2>2. polls[c].source \in Sources /\ event.id \in Events
    BY <2>1 DEF Poll, ExternalAuditEvent
  <2>3. ingested' \subseteq [source: Sources, id: Events]
    BY <1>3, <2>2 DEF IngestAuditEvent, Ingest, TypeOK
  <2>4. [polls[c] EXCEPT !.todo = polls[c].todo \ {event}] \in Poll
    BY <2>1 DEF Poll
  <2> QED BY <1>3, <2>3, <2>4 DEF IngestAuditEvent, assessVars, TypeOK
<1>4. ASSUME SaveResult(c) PROVE TypeOK'
  <2>1. polls[c] \in Poll
    BY <1>4, RunningTyped DEF SaveResult
  <2>2. Reconciled(polls[c]) \subseteq ReconciliationFinding
    BY <2>1, ReconciledTyped
  <2>3. [polls[c] EXCEPT !.pc = "saving"] \in Poll
    BY <2>1 DEF Poll
  <2>4. /\ ResultOf(polls[c], Reconciled(polls[c])) \in ReconciliationRunResult
        /\ Insert(Reconciled(polls[c])) \subseteq ReconciliationFinding
    BY <2>1, <2>2, ResultTyped, InsertTyped
  <2> QED BY <1>4, <2>3, <2>4 DEF SaveResult, assessVars, TypeOK
<1>5. ASSUME SaveCursor(c) PROVE TypeOK'
  <2>1. polls[c] \in Poll
    BY <1>5, RunningTyped DEF SaveCursor
  <2>2. NextCursor(polls[c]) \in ReconciliationCursor
    BY <2>1, CursorsTyped
  <2> QED BY <1>5, <2>2 DEF SaveCursor, assessVars, TypeOK
<1>6. ASSUME CollectFails(c) PROVE TypeOK'
  <2>1. polls[c] \in Poll
    BY <1>6, RunningTyped DEF CollectFails
  <2>2. FailureCursor(polls[c]) \in ReconciliationCursor
    BY <2>1, CursorsTyped
  <2>3. [polls[c] EXCEPT !.pc = "reporting", !.batch = Unavailable] \in Poll
    BY <2>1, UnavailableTyped DEF Poll
  <2> QED BY <1>6, <2>2, <2>3 DEF CollectFails, assessVars, TypeOK
<1>7. ASSUME ReportFailure(c) PROVE TypeOK'
  <2>1. polls[c] \in Poll
    BY <1>7, RunningTyped DEF ReportFailure
  <2>2. FailureFindings(polls[c]) \subseteq ReconciliationFinding
    BY <2>1, FailureFindingsTyped
  <2>3. /\ FailureResult(polls[c], FailureFindings(polls[c])) \in ReconciliationRunResult
        /\ Insert(FailureFindings(polls[c])) \subseteq ReconciliationFinding
    BY <2>1, <2>2, FailureResultTyped, InsertTyped
  <2> QED BY <1>7, <2>3 DEF ReportFailure, assessVars, TypeOK
<1>8. ASSUME Crash(c) PROVE TypeOK'
  BY <1>8 DEF Crash, evidenceVars, assessVars, TypeOK
<1>9. ASSUME NEW O \in Snapshots, NEW h \in Reports, NEW w \in Marks(polls[c], O),
             StandalonePoll(c, O, h, w)
      PROVE  TypeOK'
  <2> DEFINE b == Answer(polls[c], O, h, w)
             p == [polls[c] EXCEPT !.batch = b]
  <2>1. polls[c] \in Poll
    BY <1>9, RunningTyped DEF StandalonePoll
  <2>2. b \in ReconciliationBatch
    BY <2>1, AnswerTyped
  <2>3. /\ ingested' = ingested \cup {[source |-> p.source, id |-> e.id] : e \in b.events}
        /\ StandaloneSaveResult(ResultOf(p, Reconciled(p)), Reconciled(p))
        /\ cursors' \in {cursors, [cursors EXCEPT ![p.source] = NextCursor(p)]}
        /\ polls' = [polls EXCEPT ![c] = Ended]
        /\ UNCHANGED <<store, now, log, profile, assess>>
    BY <1>9 DEF StandalonePoll, assessVars
  <2> HIDE DEF b
  <2>4. p \in Poll /\ b.events \in SUBSET ExternalAuditEvent
    BY <2>1, <2>2 DEF Poll, ReconciliationBatch
  <2> HIDE DEF p
  <2>5. Reconciled(p) \subseteq ReconciliationFinding /\ NextCursor(p) \in ReconciliationCursor
    BY <2>4, ReconciledTyped, CursorsTyped
  <2>6. results' \subseteq ReconciliationRunResult /\ findings' \subseteq ReconciliationFinding
    BY <2>3, <2>4, <2>5, ResultTyped, StandaloneTyped
  <2>7. ingested' \subseteq [source: Sources, id: Events]
    BY <2>3, <2>4 DEF TypeOK, Poll, ExternalAuditEvent
  <2> QED BY <2>3, <2>5, <2>6, <2>7 DEF TypeOK
<1>10. ASSUME StandaloneFails(c) PROVE TypeOK'
  <2>1. polls[c] \in Poll
    BY <1>10, RunningTyped DEF StandaloneFails
  <2>2. /\ FailureFindings(polls[c]) \subseteq ReconciliationFinding
        /\ FailureCursor(polls[c]) \in ReconciliationCursor
    BY <2>1, FailureFindingsTyped, CursorsTyped
  <2>3. results' \subseteq ReconciliationRunResult /\ findings' \subseteq ReconciliationFinding
    BY <1>10, <2>1, <2>2, FailureResultTyped, StandaloneTyped DEF StandaloneFails
  <2> QED BY <1>10, <2>2, <2>3 DEF StandaloneFails, assessVars, TypeOK
<1> QED BY <1>1, <1>2, <1>3, <1>4, <1>5, <1>6, <1>7, <1>8, <1>9, <1>10 DEF PollNext

LEMMA TypingAssess ==
  ASSUME TypeOK, AssessNext
  PROVE  TypeOK'
<1> USE DEF TypeOK
<1>1. ASSUME NEW p \in Profiles, SaveProfile(p) PROVE TypeOK'
  BY <1>1 DEF SaveProfile, evidenceVars
<1>2. ASSUME NEW p \in Profiles, BeginAssess(p) PROVE TypeOK'
  <2>1. Failed \in SUBSET Sources /\ p.required \in SUBSET Sources
    BY CoordinatorAssumption DEF Failed, ReconciliationRunResult, ProductionCompletenessProfile
  <2>2. assess' \in Assessment
    BY <1>2, <2>1 DEF BeginAssess, Assessment
  <2> QED BY <1>2, <2>2 DEF BeginAssess, evidenceVars
<1>3. ASSUME NEW s \in Sources, ReadCursor(s) PROVE TypeOK'
  <2>1. PositionOf(cursors[s]) \in Nat /\ assess \in Assessment
    BY <1>3 DEF ReadCursor, PositionOf, ReconciliationCursor
  <2>2. assess' \in Assessment
    BY <1>3, <2>1 DEF ReadCursor, Assessment
  <2> QED BY <1>3, <2>2 DEF ReadCursor, evidenceVars
<1>4. ASSUME FinishAssess PROVE TypeOK'
  <2>1. assess' \in Assessment
    BY <1>4 DEF FinishAssess, Assessment
  <2> QED BY <1>4, <2>1 DEF FinishAssess, evidenceVars
<1> QED BY <1>1, <1>2, <1>3, <1>4 DEF AssessNext

LEMMA TypingNext == TypeOK /\ [Next]_vars => TypeOK'
<1> SUFFICES ASSUME TypeOK, [Next]_vars PROVE TypeOK'
  OBVIOUS
<1>1. ASSUME NEW s \in Sources, NEW e \in Events, Happen(s, e) PROVE TypeOK'
  <2>1. [id |-> e, at |-> now] \in ExternalAuditEvent
    BY DEF TypeOK, ExternalAuditEvent
  <2>2. Append(log[s], [id |-> e, at |-> now]) \in Seq(ExternalAuditEvent)
    BY <2>1 DEF TypeOK
  <2> QED BY <1>1, <2>2 DEF Happen, evidenceVars, assessVars, TypeOK
<1>2. CASE Tick
  BY <1>2, EngineAssumption DEF Tick, evidenceVars, assessVars, TypeOK, Time
<1>3. CASE UNCHANGED vars
  BY <1>3 DEF vars, TypeOK
<1> QED BY <1>1, <1>2, <1>3, TypingPoll, TypingAssess DEF Next

\* Every row and every local of a call keeps its type.
THEOREM ReconciliationTyping == Spec => []TypeOK
BY TypingInit, TypingNext, PTL DEF Spec

-----------------------------------------------------------------------------
(* The inductive invariant *)

\* the audit event is in the store, and reported if it bypassed control
OnRecord(s, e) ==
    /\ [source |-> s, id |-> e] \in ingested
    /\ Bypass(s, e) => Reported(s, e)

\* the trail of s reaches position n, and everything up to there is on record
Accounted(s, n) == n <= Len(log[s]) /\ \A i \in 1..n : OnRecord(s, log[s][i].id)

\* a finding that keeps every assessment of s from being complete
Blocked(s) == \E f \in findings : f.id.source = s /\ f.id.outcome # "matched"

\* a healthy result with this high-water mark is stored
Polled(s, w) == \E r \in results : r.source = s /\ r.health = "healthy" /\ r.watermark = w

\* A cursor points at what is on record, and a healthy one has its result.
CursorInv(s, k) ==
    /\ Accounted(s, k.position)
    /\ k.health = "healthy" => Polled(s, k.watermark)

CursorsInv == \A s \in Sources : cursors[s] # NoCursor => CursorInv(s, cursors[s])

\* the batch holds everything between the cursor read and its own position,
\* and its events are stored or still to do
Carries(p) ==
    /\ p.batch.position <= Len(log[p.source])
    /\ \A i \in 1..p.batch.position :
          PositionOf(p.cursor) < i => log[p.source][i] \in p.batch.events
    /\ \A e \in p.batch.events : e \in p.todo \/ [source |-> p.source, id |-> e.id] \in ingested

\* What a call read at its start stays on record; what it will write as its
\* cursor is on record by the time it writes it.
PollInv(p) ==
    /\ Accounted(p.source, PositionOf(p.cursor))
    /\ p.pc = "ingesting" => Carries(p)
    /\ p.pc = "saving" =>
          /\ Accounted(p.source, p.batch.position)
          /\ EffectiveHealth(p) = "healthy" => Polled(p.source, p.batch.watermark)

PollsInv == \A c \in Pollers : Running(c) => PollInv(polls[c])

\* An unhealthy result has left a blocking finding, even one whose findings
\* the standalone store refused.
Admitted(r) == r.health # "healthy" => Blocked(r.source)

ResultsInv == \A r \in results : Admitted(r)

\* What an assessment has seen so far holds for good, and so does its verdict.
SeenFresh(s, a) ==
    \E r \in results : /\ r.source = s /\ r.health = "healthy"
                       /\ r.watermark # NoTime /\ a.at - r.watermark <= a.profile.maxAge

NoBypass(s, n) == \A i \in 1..n : ~Bypass(s, log[s][i].id)

AssessmentInv(a) ==
    /\ \A s \in a.failed : Blocked(s)
    /\ \A s \in Sources : Accounted(s, a.covered[s])
    /\ \A s \in a.fresh : SeenFresh(s, a)
    /\ a.verdict # "open" => a.left = {}
    /\ a.verdict = "complete" =>
          /\ a.fresh = a.profile.required
          /\ \A s \in a.profile.required : s \notin a.failed /\ NoBypass(s, a.covered[s])

AssessInv == assess # NoAssessment => AssessmentInv(assess)

IInv == TypeOK /\ CursorsInv /\ PollsInv /\ ResultsInv /\ MatchesAreSupported /\ AssessInv

-----------------------------------------------------------------------------
(* Evidence is only added *)

Grows ==
    /\ ingested \subseteq ingested' /\ findings \subseteq findings' /\ results \subseteq results'
    /\ \A s \in Sources : /\ Len(log[s]) <= Len(log'[s])
                          /\ \A i \in 1..Len(log[s]) : log'[s][i] = log[s][i]

LEMMA MoreEvidence ==
  ASSUME TypeOK, log' = log,
         ingested \subseteq ingested', findings \subseteq findings', results \subseteq results'
  PROVE  Grows
<1>1. \A s \in Sources : Len(log[s]) \in Nat
  BY DEF TypeOK
<1> QED BY <1>1 DEF Grows

\* What is on record stays on record.
LEMMA Kept ==
  ASSUME TypeOK, TypeOK', Grows, NEW s \in Sources
  PROVE  /\ \A n \in Nat : Accounted(s, n) => Accounted(s, n)'
         /\ Blocked(s) => Blocked(s)'
         /\ \A w : Polled(s, w) => Polled(s, w)'
<1>1. Len(log[s]) \in Nat /\ Len(log'[s]) \in Nat /\ Len(log[s]) <= Len(log'[s])
  BY DEF TypeOK, Grows
<1>2. \A e : Reported(s, e) => Reported(s, e)'
  BY DEF Grows, Reported
<1>3. ASSUME NEW e, OnRecord(s, e) PROVE OnRecord(s, e)'
  BY <1>2, <1>3 DEF Grows, OnRecord, Bypass
<1>4. ASSUME NEW n \in Nat, Accounted(s, n) PROVE Accounted(s, n)'
  <2>1. n <= Len(log[s]) /\ n <= Len(log'[s])
    BY <1>1, <1>4 DEF Accounted
  <2>2. ASSUME NEW i \in 1..n PROVE OnRecord(s, log[s][i].id)'
    <3>1. PICK e : e = log[s][i].id
      OBVIOUS
    <3>2. e = log'[s][i].id /\ OnRecord(s, e)
      BY <1>1, <1>4, <2>1, <3>1 DEF Accounted, Grows
    <3> QED BY <1>3, <3>2 DEF OnRecord, Reported, Bypass
  <2> QED BY <2>1, <2>2 DEF Accounted
<1>5. Blocked(s) => Blocked(s)'
  BY DEF Grows, Blocked
<1>6. \A w : Polled(s, w) => Polled(s, w)'
  BY DEF Grows, Polled
<1> QED BY <1>4, <1>5, <1>6

LEMMA PollKept ==
  ASSUME TypeOK, TypeOK', Grows, NEW p \in Poll, PollInv(p)
  PROVE  PollInv(p)'
<1>1. /\ p.source \in Sources /\ PositionOf(p.cursor) \in Nat /\ p.batch.position \in Nat
  BY DEF Poll, ReconciliationBatch, PositionOf, ReconciliationCursor
<1>2. Carries(p) => Carries(p)'
  <2>1. Len(log[p.source]) \in Nat /\ Len(log'[p.source]) \in Nat
    BY <1>1 DEF TypeOK
  <2> QED BY <1>1, <2>1 DEF Carries, Grows
<1>3. /\ Accounted(p.source, PositionOf(p.cursor)) => Accounted(p.source, PositionOf(p.cursor))'
      /\ Accounted(p.source, p.batch.position) => Accounted(p.source, p.batch.position)'
      /\ Polled(p.source, p.batch.watermark) => Polled(p.source, p.batch.watermark)'
  BY <1>1, Kept
<1> QED BY <1>2, <1>3 DEF PollInv, EffectiveHealth

\* A step that changes one call's locals.
LEMMA PollsStep ==
  ASSUME TypeOK, TypeOK', Grows, PollsInv, NEW c \in Pollers, NEW q \in Poll \cup {Ended},
         polls' = [polls EXCEPT ![c] = q], q \in Poll => PollInv(q)'
  PROVE  PollsInv'
<1> SUFFICES ASSUME NEW d \in Pollers, Running(d)' PROVE PollInv(polls[d])'
  BY DEF PollsInv
<1>1. polls'[d] \in Poll /\ polls'[d] # Ended
  BY DEF TypeOK, Running
<1>2. PICK p : p = polls'[d]
  OBVIOUS
<1>3. PollInv(p)'
  <2>1. CASE d = c
    BY <1>1, <1>2, <2>1 DEF TypeOK
  <2>2. CASE d # c
    <3>1. p = polls[d] /\ Running(d)
      BY <1>1, <1>2, <2>2 DEF TypeOK, Running
    <3>2. PollInv(p)
      BY <3>1 DEF PollsInv
    <3> QED BY <1>1, <1>2, <3>2, PollKept
  <2> QED BY <2>1, <2>2
<1> QED BY <1>2, <1>3 DEF PollInv, Carries, EffectiveHealth, PositionOf

LEMMA PollsStay ==
  ASSUME TypeOK, TypeOK', Grows, PollsInv, polls' = polls
  PROVE  PollsInv'
<1> SUFFICES ASSUME NEW d \in Pollers, Running(d)' PROVE PollInv(polls[d])'
  BY DEF PollsInv
<1>1. PICK p : p = polls[d]
  OBVIOUS
<1>2. p \in Poll /\ PollInv(p)
  BY <1>1 DEF TypeOK, Running, PollsInv
<1>3. PollInv(p)'
  BY <1>2, PollKept
<1> QED BY <1>1, <1>3 DEF PollInv, Carries, EffectiveHealth, PositionOf

\* A step that writes one cursor.
LEMMA CursorsStep ==
  ASSUME TypeOK, TypeOK', Grows, CursorsInv, NEW s \in Sources, NEW k \in ReconciliationCursor,
         cursors' = [cursors EXCEPT ![s] = k], CursorInv(s, k)'
  PROVE  CursorsInv'
<1> SUFFICES ASSUME NEW t \in Sources, cursors'[t] # NoCursor PROVE CursorInv(t, cursors[t])'
  BY DEF CursorsInv
<1>1. CASE t = s
  BY <1>1 DEF TypeOK, CursorInv
<1>2. CASE t # s
  <2>1. PICK j : j = cursors[t]
    OBVIOUS
  <2>2. j \in ReconciliationCursor /\ CursorInv(t, j) /\ j = cursors'[t]
    BY <1>2, <2>1 DEF TypeOK, CursorsInv
  <2>3. CursorInv(t, j)'
    BY <2>2, Kept DEF CursorInv, ReconciliationCursor
  <2> QED BY <2>2, <2>3 DEF CursorInv
<1> QED BY <1>1, <1>2

LEMMA CursorsStay ==
  ASSUME TypeOK, TypeOK', Grows, CursorsInv, cursors' = cursors
  PROVE  CursorsInv'
<1> SUFFICES ASSUME NEW t \in Sources, cursors'[t] # NoCursor PROVE CursorInv(t, cursors[t])'
  BY DEF CursorsInv
<1>1. PICK j : j = cursors[t]
  OBVIOUS
<1>2. j \in ReconciliationCursor /\ CursorInv(t, j) /\ j = cursors'[t]
  BY <1>1 DEF TypeOK, CursorsInv
<1>3. CursorInv(t, j)'
  BY <1>2, Kept DEF CursorInv, ReconciliationCursor
<1> QED BY <1>2, <1>3 DEF CursorInv

\* a result that concludes a match supports it
SupportsMatch(r) == (\E id \in r.ids : id.outcome = "matched") => Supports(r)

\* A step that adds one result, with findings of it.
LEMMA ResultsStep ==
  ASSUME TypeOK, TypeOK', Grows, ResultsInv, MatchesAreSupported, NEW r,
         results' = results \cup {r}, \A f \in findings' : f \in findings \/ f.id \in r.ids,
         Admitted(r)', SupportsMatch(r)
  PROVE  ResultsInv' /\ MatchesAreSupported'
<1>1. ASSUME NEW q \in results' PROVE Admitted(q)'
  <2>1. CASE q = r
    BY <2>1
  <2>2. CASE q \in results
    <3>1. q.source \in Sources /\ Admitted(q)
      BY <2>2 DEF TypeOK, ReconciliationRunResult, ResultsInv
    <3> QED BY <3>1, Kept DEF Admitted
  <2> QED BY <2>1, <2>2
<1>2. ResultsInv'
  BY <1>1 DEF ResultsInv
<1>3. MatchesAreSupported'
  BY DEF MatchesAreSupported, SupportsMatch, Supports
<1> QED BY <1>2, <1>3

LEMMA ResultsStay ==
  ASSUME TypeOK, TypeOK', Grows, ResultsInv, MatchesAreSupported,
         results' = results, findings' = findings
  PROVE  ResultsInv' /\ MatchesAreSupported'
<1>1. ASSUME NEW q \in results' PROVE Admitted(q)'
  <2>1. q.source \in Sources /\ Admitted(q)
    BY DEF TypeOK, ReconciliationRunResult, ResultsInv
  <2> QED BY <2>1, Kept DEF Admitted
<1> QED BY <1>1 DEF ResultsInv, MatchesAreSupported, Supports

LEMMA AssessStay ==
  ASSUME TypeOK, TypeOK', Grows, AssessInv, assess' = assess
  PROVE  AssessInv'
<1> SUFFICES ASSUME assess' # NoAssessment PROVE AssessmentInv(assess)'
  BY DEF AssessInv
<1>1. PICK a : a = assess
  OBVIOUS
<1>2. a \in Assessment /\ AssessmentInv(a)
  BY <1>1 DEF TypeOK, AssessInv
<1>3. /\ a.failed \subseteq Sources /\ a.fresh \subseteq Sources /\ a.profile.required \subseteq Sources
      /\ \A s \in Sources : a.covered[s] \in Nat
  BY <1>2, CoordinatorAssumption DEF Assessment, ProductionCompletenessProfile
<1>4. \A s \in a.failed : Blocked(s)'
  BY <1>2, <1>3, Kept DEF AssessmentInv
<1>5. \A s \in Sources : Accounted(s, a.covered[s])'
  BY <1>2, <1>3, Kept DEF AssessmentInv
<1>6. \A s \in a.fresh : SeenFresh(s, a)'
  BY <1>2 DEF AssessmentInv, SeenFresh, Grows
<1>7. ASSUME NEW s \in Sources, NoBypass(s, a.covered[s]) PROVE NoBypass(s, a.covered[s])'
  <2>1. a.covered[s] <= Len(log[s]) /\ Len(log[s]) \in Nat
    BY <1>2 DEF AssessmentInv, Accounted, TypeOK
  <2> QED BY <1>3, <1>7, <2>1 DEF NoBypass, Bypass, Grows
<1>8. AssessmentInv(a)'
  BY <1>2, <1>3, <1>4, <1>5, <1>6, <1>7 DEF AssessmentInv
<1> QED BY <1>1, <1>8 DEF AssessmentInv, SeenFresh, NoBypass, Accounted

-----------------------------------------------------------------------------
(* What the comparison always reports *)

\* Every finding is about the source that was polled.
LEMMA FoundAtSource ==
  ASSUME NEW p, NEW f \in Reconciled(p)
  PROVE  f.id.source = p.source
BY DEF Reconciled, Reconcile, Finding, HealthFindings, UnexpectedObservations, UnexpectedEvents,
       MissingFindings, ConflictFindings, MismatchFindings, MatchFindings

\* An unhealthy source leaves a finding that is not a match.
LEMMA UnhealthyIsFound ==
  ASSUME NEW p, EffectiveHealth(p) # "healthy"
  PROVE  \E f \in Reconciled(p) : f.id.source = p.source /\ f.id.outcome # "matched"
<1> DEFINE h == EffectiveHealth(p)
           f == Finding(p.source, IF h = "conflicting" THEN "conflicting_evidence"
                                  ELSE "unverifiable", NoAction, {h}, p.at)
<1>1. f \in Reconciled(p)
  BY DEF Reconciled, Reconcile, HealthFindings
<1>2. f.id.source = p.source /\ f.id.outcome # "matched"
  BY DEF Finding
<1> QED BY <1>1, <1>2

\* A match needs a healthy source and an observation.
LEMMA MatchIsObserved ==
  ASSUME NEW p, NEW f \in Reconciled(p), f.id.outcome = "matched"
  PROVE  EffectiveHealth(p) = "healthy" /\ p.batch.observations # {}
<1> DEFINE b == [health |-> EffectiveHealth(p), observations |-> p.batch.observations,
                 events |-> p.batch.events]
           E == ExpectedIn(p.actions, p.source)
<1>1. f \in MatchFindings(p.source, E, b)
  BY DEF Reconciled, Reconcile, Finding, HealthFindings, UnexpectedObservations,
         UnexpectedEvents, MissingFindings, ConflictFindings, MismatchFindings
<1>2. b.health = "healthy" /\ \E a \in E : Observed(a, b) # {}
  BY <1>1 DEF MatchFindings, Settled
<1> QED BY <1>2 DEF Observed

\* A bypass in the batch is found, whatever the caller's plan.
LEMMA BypassIsFound ==
  ASSUME NEW p \in Poll, NEW e \in p.batch.events, Bypass(p.source, e.id)
  PROVE  \E f \in Reconciled(p) :
            /\ f.id.source = p.source /\ f.id.outcome = "unexpected_external_action"
            /\ f.id.action = EventAction[e.id] /\ f.id.evidence = {e.id}
<1> DEFINE f == Finding(p.source, "unexpected_external_action", EventAction[e.id], {e.id}, e.at)
           b == [health |-> EffectiveHealth(p), observations |-> p.batch.observations,
                 events |-> p.batch.events]
           E == ExpectedIn(p.actions, p.source)
<1>1. EventAction[e.id] \notin E
  BY DEF Bypass, Poll
<1>2. f \in UnexpectedEvents(p.source, E, b)
  BY <1>1 DEF UnexpectedEvents
<1>3. f \in Reconciled(p)
  BY <1>2 DEF Reconciled, Reconcile
<1> QED BY <1>3 DEF Finding

\* After a failed collection: an error, and no match.
LEMMA FailureIsFound ==
  ASSUME NEW p \in Poll
  PROVE  /\ \E f \in FailureFindings(p) : f.id.source = p.source /\ f.id.outcome # "matched"
         /\ \A f \in FailureFindings(p) : f.id.source = p.source /\ f.id.outcome # "matched"
<1> DEFINE q == [p EXCEPT !.batch = Unavailable]
<1>1. q \in Poll /\ q.source = p.source /\ q.batch = Unavailable
  BY UnavailableTyped DEF Poll
<1> HIDE DEF q
<1>2. EffectiveHealth(q) # "healthy"
  BY <1>1 DEF EffectiveHealth, Unavailable
<1>3. \A f \in Reconciled(q) : f.id.source = p.source /\ f.id.outcome # "matched"
  BY <1>1, <1>2, FoundAtSource, MatchIsObserved
<1>4. \E f \in Reconciled(q) : TRUE
  BY <1>2, UnhealthyIsFound
<1>5. Reconciled(q) \subseteq ReconciliationFinding
  BY <1>1, ReconciledTyped
<1>6. \A f \in ReconciliationFinding : [f EXCEPT !.raised = TRUE].id = f.id
  BY DEF ReconciliationFinding
<1>7. FailureFindings(p) = {[f EXCEPT !.raised = TRUE] : f \in Reconciled(q)}
  BY DEF FailureFindings, q
<1>8. ASSUME NEW g \in FailureFindings(p)
      PROVE  g.id.source = p.source /\ g.id.outcome # "matched"
  <2>1. PICK f \in Reconciled(q) : g = [f EXCEPT !.raised = TRUE]
    BY <1>7
  <2>2. g.id = f.id
    BY <1>5, <1>6, <2>1
  <2> QED BY <1>3, <2>2
<1>9. FailureFindings(p) # {}
  BY <1>4, <1>7
<1> QED BY <1>8, <1>9

\* A finding is stored, or one with its identity already is.
LEMMA InsertKeepsIds ==
  ASSUME NEW found, NEW f \in found
  PROVE  \E g \in Insert(found) : g.id = f.id
BY DEF Insert

\* The standalone store keeps a blocking finding of a result it refuses: what
\* it would have rewritten, or what it stored before.
LEMMA RefusalBlocks ==
  ASSUME NEW s, NEW r, NEW found, NEW h \in found, h.id.outcome # "matched",
         \A f \in found : f.id.source = s,
         StandaloneSaveResult(r, found)
  PROVE  Blocked(s)'
<1>1. CASE \A f \in found : ~Rewrites(f)
  <2>1. findings' = findings \cup found
    BY <1>1 DEF StandaloneSaveResult
  <2> QED BY <2>1 DEF Blocked
<1>2. CASE \E f \in found : Rewrites(f)
  <2>1. PICK S \in SUBSET found : StoredBefore(found, S) /\ findings' = findings \cup S
    BY <1>2 DEF StandaloneSaveResult
  <2>2. PICK f \in found \ S : /\ Rewrites(f)
                               /\ \A g \in found : Severity(g) > Severity(f) => g \in S
    BY <2>1 DEF StoredBefore
  <2>3. CASE f.id.outcome = "matched"
    <3>1. Severity(f) = 0 /\ Severity(h) \in {2, 3}
      BY <2>3 DEF Severity
    <3>2. h \in S
      BY <2>2, <3>1
    <3> QED BY <2>1, <3>2 DEF Blocked
  <2>4. CASE f.id.outcome # "matched"
    <3>1. PICK g \in findings : g.id = f.id
      BY <2>2 DEF Rewrites
    <3> QED BY <2>1, <2>4, <3>1 DEF Blocked
  <2> QED BY <2>3, <2>4
<1> QED BY <1>1, <1>2

\* Once its events are stored and its findings on record, a batch accounts for
\* the trail up to its own position.
LEMMA Advances ==
  ASSUME TypeOK, TypeOK', Grows, NEW p \in Poll, Accounted(p.source, PositionOf(p.cursor)),
         p.batch.position <= Len(log[p.source]),
         \A i \in 1..p.batch.position :
            PositionOf(p.cursor) < i => log[p.source][i] \in p.batch.events,
         \A e \in p.batch.events : [source |-> p.source, id |-> e.id] \in ingested',
         \A f \in Reconciled(p) : \E g \in findings' : g.id = f.id
  PROVE  Accounted(p.source, p.batch.position)'
<1> DEFINE s == p.source
           n == p.batch.position
           m == PositionOf(p.cursor)
<1>1. s \in Sources /\ n \in Nat /\ m \in Nat
  BY DEF Poll, ReconciliationBatch, PositionOf, ReconciliationCursor
<1>2. Accounted(s, m)'
  BY <1>1, Kept
<1>3. /\ Len(log[s]) \in Nat /\ Len(log'[s]) \in Nat /\ Len(log[s]) <= Len(log'[s])
      /\ \A i \in 1..Len(log[s]) : log'[s][i] = log[s][i]
  BY <1>1 DEF TypeOK, Grows
<1> HIDE DEF s, n, m
<1>4. ASSUME NEW i \in 1..n PROVE OnRecord(s, log[s][i].id)'
  <2>1. CASE i <= m
    BY <1>1, <1>2, <2>1 DEF Accounted
  <2>2. CASE m < i
    <3>1. PICK e : e = log[s][i]
      OBVIOUS
    <3>2. e = log'[s][i] /\ e \in p.batch.events
      <4>1. n <= Len(log[s])
        BY DEF s, n
      <4>2. i \in 1..Len(log[s])
        BY <1>1, <1>3, <4>1
      <4>3. e = log'[s][i]
        BY <1>3, <3>1, <4>2
      <4>4. e \in p.batch.events
        BY <2>2, <3>1 DEF s, n, m
      <4> QED BY <4>3, <4>4
    <3>3. [source |-> s, id |-> e.id] \in ingested'
      BY <3>2 DEF s
    <3>4. ASSUME Bypass(s, e.id) PROVE Reported(s, e.id)'
      <4>1. PICK f \in Reconciled(p) :
               /\ f.id.source = s /\ f.id.outcome = "unexpected_external_action"
               /\ f.id.action = EventAction[e.id] /\ f.id.evidence = {e.id}
        BY <3>2, <3>4, BypassIsFound DEF s
      <4>2. PICK g \in findings' : g.id = f.id
        OBVIOUS
      <4> QED BY <4>1, <4>2 DEF Reported
    <3> QED BY <3>2, <3>3, <3>4 DEF OnRecord, Reported, Bypass
  <2> QED BY <1>1, <2>1, <2>2
<1>5. n <= Len(log'[s])
  BY <1>1, <1>3 DEF s, n
<1> QED BY <1>4, <1>5 DEF Accounted, s, n

\* A match of a batch is supported, or the batch would have been stale.
LEMMA MatchIsSupported ==
  ASSUME NEW p \in Poll
  PROVE  SupportsMatch(ResultOf(p, Reconciled(p)))
<1> SUFFICES ASSUME NEW f \in Reconciled(p), f.id.outcome = "matched"
             PROVE  /\ EffectiveHealth(p) = "healthy"
                    /\ p.batch.watermark # NoTime => p.at - p.batch.watermark <= StaleAfter
  BY DEF SupportsMatch, Supports, ResultOf
<1>1. EffectiveHealth(p) = "healthy"
  BY MatchIsObserved
<1>2. p.at \in Int /\ (p.batch.watermark # NoTime => p.batch.watermark \in Int)
  BY DEF Poll, ReconciliationBatch, Time
<1>3. p.batch.watermark # NoTime => ~ (p.at - p.batch.watermark > StaleAfter)
  BY <1>1 DEF EffectiveHealth
<1> QED BY <1>1, <1>2, <1>3, CoordinatorAssumption

LEMMA FailureIsNoMatch ==
  ASSUME NEW p \in Poll
  PROVE  SupportsMatch(FailureResult(p, FailureFindings(p)))
BY FailureIsFound DEF SupportsMatch, FailureResult

LEMMA FailureCursorInv ==
  ASSUME NEW p \in Poll, PollInv(p)'
  PROVE  CursorInv(p.source, FailureCursor(p))'
BY DEF PollInv, CursorInv, FailureCursor, PositionOf

-----------------------------------------------------------------------------
(* Preservation *)

\* A step that leaves evidence and assessments alone and moves one call.
LEMMA MoveStep ==
  ASSUME IInv, TypeOK', Grows, UNCHANGED <<cursors, results, findings, assess>>,
         NEW c \in Pollers, NEW q \in Poll \cup {Ended},
         polls' = [polls EXCEPT ![c] = q], q \in Poll => PollInv(q)'
  PROVE  IInv'
<1> USE DEF IInv
<1>1. PollsInv'
  BY PollsStep
<1>2. CursorsInv' /\ ResultsInv' /\ MatchesAreSupported' /\ AssessInv'
  BY CursorsStay, ResultsStay, AssessStay
<1> QED BY <1>1, <1>2

LEMMA BeginPollInv ==
  ASSUME IInv, TypeOK', NEW c \in Pollers, NEW s \in Sources, NEW A \in Plans, BeginPoll(c, s, A)
  PROVE  IInv'
<1>1. PICK q : q = [pc |-> "collecting", source |-> s, at |-> now, actions |-> A,
                    cursor |-> cursors[s], batch |-> Unavailable, todo |-> {}]
  OBVIOUS
<1>2. q \in Poll
  BY <1>1, UnavailableTyped DEF Poll, IInv, TypeOK
<1>3. /\ UNCHANGED <<log, cursors, results, findings, ingested, assess>>
      /\ polls' = [polls EXCEPT ![c] = q]
  BY <1>1 DEF BeginPoll, evidenceVars, assessVars
<1>4. Grows
  BY <1>3, MoreEvidence DEF IInv
<1>5. PollInv(q)
  <2>1. Accounted(s, PositionOf(cursors[s]))
    <3>1. Len(log[s]) \in Nat
      BY DEF IInv, TypeOK
    <3> QED BY <3>1 DEF IInv, CursorsInv, CursorInv, PositionOf, Accounted
  <2> QED BY <1>1, <2>1 DEF PollInv, Unavailable
<1>6. PollInv(q)'
  BY <1>2, <1>4, <1>5, PollKept DEF IInv
<1> QED BY <1>2, <1>3, <1>4, <1>6, MoveStep

LEMMA CollectInv ==
  ASSUME IInv, TypeOK', NEW c \in Pollers, NEW O \in Snapshots, NEW h \in Reports,
         NEW w \in Marks(polls[c], O), Collect(c, O, h, w)
  PROVE  IInv'
<1> DEFINE b == Answer(polls[c], O, h, w)
<1>1. polls[c] \in Poll /\ PollInv(polls[c])
  BY RunningTyped DEF Collect, IInv, PollsInv
<1>2. b \in ReconciliationBatch
  BY <1>1, AnswerTyped DEF IInv
<1>3. PICK q : q = [polls[c] EXCEPT !.pc = "ingesting", !.batch = b, !.todo = b.events]
  OBVIOUS
<1>4. /\ UNCHANGED <<log, cursors, results, findings, ingested, assess>>
      /\ polls' = [polls EXCEPT ![c] = q]
  BY <1>3 DEF Collect, evidenceVars, assessVars
<1>5. /\ b.position = Len(log[polls[c].source])
      /\ b.events = {log[polls[c].source][i] :
                        i \in (PositionOf(polls[c].cursor) + 1)..Len(log[polls[c].source])}
  BY DEF Answer, EventsAfter
<1> HIDE DEF b
<1>6. q \in Poll
  BY <1>1, <1>2, <1>3 DEF Poll, ReconciliationBatch
<1>7. /\ q.pc = "ingesting" /\ q.source = polls[c].source /\ q.cursor = polls[c].cursor
      /\ q.batch = b /\ q.todo = b.events
  BY <1>1, <1>3 DEF Poll
<1>8. PollInv(q)
  <2>1. Len(log[q.source]) \in Nat /\ PositionOf(q.cursor) \in Nat
    BY <1>6 DEF IInv, TypeOK, Poll, PositionOf, ReconciliationCursor
  <2>2. Carries(q)
    BY <1>5, <1>7, <2>1 DEF Carries
  <2> QED BY <1>1, <1>2, <1>7, <2>2 DEF PollInv
<1>9. Grows
  BY <1>4, MoreEvidence DEF IInv
<1>10. PollInv(q)'
  BY <1>6, <1>8, <1>9, PollKept DEF IInv
<1> QED BY <1>4, <1>6, <1>9, <1>10, MoveStep

LEMMA IngestInv ==
  ASSUME IInv, TypeOK', NEW c \in Pollers, NEW event, IngestAuditEvent(c, event)
  PROVE  IInv'
<1>1. polls[c] \in Poll /\ PollInv(polls[c])
  BY RunningTyped DEF IngestAuditEvent, IInv, PollsInv
<1>2. PICK q : q = [polls[c] EXCEPT !.todo = polls[c].todo \ {event}]
  OBVIOUS
<1>3. /\ UNCHANGED <<log, cursors, results, findings, assess>>
      /\ polls' = [polls EXCEPT ![c] = q]
      /\ ingested \subseteq ingested'
      /\ [source |-> polls[c].source, id |-> event.id] \in ingested'
      /\ polls[c].pc = "ingesting"
  <2>1. \A n \in ingested : n.source = polls[c].source /\ n.id = event.id =>
            n = [source |-> polls[c].source, id |-> event.id]
    BY DEF IInv, TypeOK
  <2> QED BY <1>2, <2>1 DEF IngestAuditEvent, Ingest, assessVars
<1>4. q \in Poll /\ q.source = polls[c].source /\ q.cursor = polls[c].cursor
      /\ q.batch = polls[c].batch /\ q.todo = polls[c].todo \ {event} /\ q.pc = "ingesting"
  BY <1>1, <1>2, <1>3 DEF Poll
<1>5. Grows
  BY <1>3, MoreEvidence DEF IInv
<1>6. PollInv(q)'
  <2>1. PICK p : p = polls[c]
    OBVIOUS
  <2>2. PollInv(p)'
    BY <1>1, <1>5, <2>1, PollKept DEF IInv
  <2>3. Carries(q)'
    BY <1>3, <1>4, <2>1, <2>2 DEF PollInv, Carries
  <2> QED BY <1>4, <2>1, <2>2, <2>3 DEF PollInv
<1> QED BY <1>3, <1>4, <1>5, <1>6, MoveStep

LEMMA CrashInv ==
  ASSUME IInv, TypeOK', NEW c \in Pollers, Crash(c)
  PROVE  IInv'
<1>1. /\ UNCHANGED <<log, cursors, results, findings, ingested, assess>>
      /\ polls' = [polls EXCEPT ![c] = Ended]
  BY DEF Crash, evidenceVars, assessVars
<1>2. Grows
  BY <1>1, MoreEvidence DEF IInv
<1> QED BY <1>1, <1>2, MoveStep, CoordinatorAssumption

LEMMA SaveResultInv ==
  ASSUME IInv, TypeOK', NEW c \in Pollers, SaveResult(c)
  PROVE  IInv'
<1>1. PICK p : p = polls[c]
  OBVIOUS
<1>2. p \in Poll /\ PollInv(p) /\ p.pc = "ingesting" /\ p.todo = {}
  BY <1>1, RunningTyped DEF SaveResult, IInv, PollsInv
<1>3. PICK found : found = Reconciled(p)
  OBVIOUS
<1>4. found \subseteq ReconciliationFinding
  BY <1>2, <1>3, ReconciledTyped
<1>5. PICK r : r = ResultOf(p, found)
  OBVIOUS
<1>6. PICK q : q = [p EXCEPT !.pc = "saving"]
  OBVIOUS
<1>7. /\ UNCHANGED <<log, cursors, ingested, assess>>
      /\ results' = results \cup {r} /\ findings' = Insert(found)
      /\ polls' = [polls EXCEPT ![c] = q]
  BY <1>1, <1>3, <1>5, <1>6 DEF SaveResult, assessVars
<1>8. findings \subseteq findings' /\ \A f \in found : \E g \in findings' : g.id = f.id
  BY <1>4, <1>7, InsertTyped, InsertKeepsIds DEF IInv
<1>9. Grows
  BY <1>7, <1>8, MoreEvidence DEF IInv
<1>10. /\ q \in Poll /\ q.source = p.source /\ q.cursor = p.cursor /\ q.batch = p.batch
       /\ q.at = p.at /\ q.pc = "saving"
  BY <1>2, <1>6 DEF Poll
<1>11. Admitted(r)' /\ SupportsMatch(r)
  <2>1. r.health = EffectiveHealth(p) /\ r.source = p.source
    BY <1>5 DEF ResultOf
  <2>2. Admitted(r)'
    <3> SUFFICES ASSUME EffectiveHealth(p) # "healthy" PROVE Blocked(p.source)'
      BY <2>1 DEF Admitted
    <3>1. PICK f \in found : f.id.source = p.source /\ f.id.outcome # "matched"
      BY <1>3, UnhealthyIsFound
    <3>2. PICK g \in findings' : g.id = f.id
      BY <1>8
    <3> QED BY <3>1, <3>2 DEF Blocked
  <2>3. SupportsMatch(r)
    BY <1>2, <1>3, <1>5, MatchIsSupported
  <2> QED BY <2>2, <2>3
<1>12. ResultsInv' /\ MatchesAreSupported'
  <2>1. \A f \in findings' : f \in findings \/ f.id \in r.ids
    BY <1>5, <1>7 DEF Insert, ResultOf
  <2> QED BY <1>7, <1>9, <1>11, <2>1, ResultsStep DEF IInv
<1>13. PollInv(q)'
  <2>1. PollInv(p)'
    BY <1>2, <1>9, PollKept DEF IInv
  <2>2. Accounted(p.source, p.batch.position)'
    BY <1>2, <1>3, <1>7, <1>8, <1>9, Advances DEF IInv, PollInv, Carries
  <2>3. EffectiveHealth(p) = "healthy" => Polled(p.source, p.batch.watermark)'
    BY <1>5, <1>7 DEF ResultOf, Polled
  <2>4. EffectiveHealth(q) = EffectiveHealth(p)
    BY <1>10 DEF EffectiveHealth
  <2> QED BY <1>10, <2>1, <2>2, <2>3, <2>4 DEF PollInv, EffectiveHealth
<1>14. PollsInv'
  BY <1>7, <1>9, <1>10, <1>13, PollsStep DEF IInv
<1>15. CursorsInv' /\ AssessInv'
  BY <1>7, <1>9, CursorsStay, AssessStay DEF IInv
<1> QED BY <1>12, <1>14, <1>15 DEF IInv

LEMMA SaveCursorInv ==
  ASSUME IInv, TypeOK', NEW c \in Pollers, SaveCursor(c)
  PROVE  IInv'
<1>1. PICK p : p = polls[c]
  OBVIOUS
<1>2. p \in Poll /\ PollInv(p) /\ p.pc = "saving"
  BY <1>1, RunningTyped DEF SaveCursor, IInv, PollsInv
<1>3. PICK k : k = NextCursor(p)
  OBVIOUS
<1>4. /\ UNCHANGED <<log, results, findings, ingested, assess>>
      /\ cursors' = [cursors EXCEPT ![p.source] = k]
      /\ polls' = [polls EXCEPT ![c] = Ended]
  BY <1>1, <1>3 DEF SaveCursor, assessVars
<1>5. Grows
  BY <1>4, MoreEvidence DEF IInv
<1>6. p.source \in Sources /\ k \in ReconciliationCursor
  BY <1>2, <1>3, CursorsTyped DEF Poll
<1>7. CursorInv(p.source, k)'
  <2>1. PollInv(p)'
    BY <1>2, <1>5, PollKept DEF IInv
  <2>2. k.position = p.batch.position /\ k.watermark = p.batch.watermark
        /\ k.health = EffectiveHealth(p)
    BY <1>3 DEF NextCursor
  <2> QED BY <1>2, <2>1, <2>2 DEF PollInv, CursorInv, EffectiveHealth
<1>8. CursorsInv'
  BY <1>4, <1>5, <1>6, <1>7, CursorsStep DEF IInv
<1>9. PollsInv'
  BY <1>4, <1>5, PollsStep, CoordinatorAssumption DEF IInv
<1>10. ResultsInv' /\ MatchesAreSupported' /\ AssessInv'
  BY <1>4, <1>5, ResultsStay, AssessStay DEF IInv
<1> QED BY <1>8, <1>9, <1>10 DEF IInv

LEMMA CollectFailsInv ==
  ASSUME IInv, TypeOK', NEW c \in Pollers, CollectFails(c)
  PROVE  IInv'
<1>1. PICK p : p = polls[c]
  OBVIOUS
<1>2. p \in Poll /\ PollInv(p)
  BY <1>1, RunningTyped DEF CollectFails, IInv, PollsInv
<1>3. PICK k : k = FailureCursor(p)
  OBVIOUS
<1>4. PICK q : q = [p EXCEPT !.pc = "reporting", !.batch = Unavailable]
  OBVIOUS
<1>5. /\ UNCHANGED <<log, results, findings, ingested, assess>>
      /\ cursors' = [cursors EXCEPT ![p.source] = k]
      /\ polls' = [polls EXCEPT ![c] = q]
  BY <1>1, <1>3, <1>4 DEF CollectFails, assessVars
<1>6. Grows
  BY <1>5, MoreEvidence DEF IInv
<1>7. PollInv(p)'
  BY <1>2, <1>6, PollKept DEF IInv
<1>8. p.source \in Sources /\ k \in ReconciliationCursor
  BY <1>2, <1>3, CursorsTyped DEF Poll
<1>9. CursorInv(p.source, k)'
  BY <1>2, <1>3, <1>7, FailureCursorInv
<1>10. CursorsInv'
  BY <1>5, <1>6, <1>8, <1>9, CursorsStep DEF IInv
<1>11. /\ q \in Poll /\ q.source = p.source /\ q.cursor = p.cursor
       /\ q.batch = Unavailable /\ q.pc = "reporting"
  BY <1>2, <1>4, UnavailableTyped DEF Poll
<1>12. PollInv(q)'
  BY <1>7, <1>11 DEF PollInv, Unavailable
<1>13. PollsInv'
  BY <1>5, <1>6, <1>11, <1>12, PollsStep DEF IInv
<1>14. ResultsInv' /\ MatchesAreSupported' /\ AssessInv'
  BY <1>5, <1>6, ResultsStay, AssessStay DEF IInv
<1> QED BY <1>10, <1>13, <1>14 DEF IInv

LEMMA ReportFailureInv ==
  ASSUME IInv, TypeOK', NEW c \in Pollers, ReportFailure(c)
  PROVE  IInv'
<1>1. PICK p : p = polls[c]
  OBVIOUS
<1>2. p \in Poll
  BY <1>1, RunningTyped DEF ReportFailure, IInv
<1>3. PICK found : found = FailureFindings(p)
  OBVIOUS
<1>4. found \subseteq ReconciliationFinding
  BY <1>2, <1>3, FailureFindingsTyped
<1>5. PICK r : r = FailureResult(p, found)
  OBVIOUS
<1>6. /\ UNCHANGED <<log, cursors, ingested, assess>>
      /\ results' = results \cup {r} /\ findings' = Insert(found)
      /\ polls' = [polls EXCEPT ![c] = Ended]
  BY <1>1, <1>3, <1>5 DEF ReportFailure, assessVars
<1>7. findings \subseteq findings' /\ \A f \in found : \E g \in findings' : g.id = f.id
  BY <1>4, <1>6, InsertTyped, InsertKeepsIds DEF IInv
<1>8. Grows
  BY <1>6, <1>7, MoreEvidence DEF IInv
<1>9. Admitted(r)' /\ SupportsMatch(r)
  <2>1. PICK f \in found : f.id.source = p.source /\ f.id.outcome # "matched"
    BY <1>2, <1>3, FailureIsFound
  <2>2. PICK g \in findings' : g.id = f.id
    BY <1>7
  <2>3. Blocked(p.source)'
    BY <2>1, <2>2 DEF Blocked
  <2>4. r.source = p.source
    BY <1>5 DEF FailureResult
  <2> QED BY <1>2, <1>3, <1>5, <2>3, <2>4, FailureIsNoMatch DEF Admitted
<1>10. ResultsInv' /\ MatchesAreSupported'
  <2>1. \A f \in findings' : f \in findings \/ f.id \in r.ids
    BY <1>5, <1>6 DEF Insert, FailureResult
  <2> QED BY <1>6, <1>8, <1>9, <2>1, ResultsStep DEF IInv
<1>11. PollsInv'
  BY <1>6, <1>8, PollsStep, CoordinatorAssumption DEF IInv
<1>12. CursorsInv' /\ AssessInv'
  BY <1>6, <1>8, CursorsStay, AssessStay DEF IInv
<1> QED BY <1>10, <1>11, <1>12 DEF IInv

LEMMA StandalonePollInv ==
  ASSUME IInv, TypeOK', NEW c \in Pollers, NEW O \in Snapshots, NEW h \in Reports,
         NEW w \in Marks(polls[c], O), StandalonePoll(c, O, h, w)
  PROVE  IInv'
<1> DEFINE b == Answer(polls[c], O, h, w)
<1>1. polls[c] \in Poll /\ PollInv(polls[c])
  BY RunningTyped DEF StandalonePoll, IInv, PollsInv
<1>2. b \in ReconciliationBatch
  BY <1>1, AnswerTyped DEF IInv
<1>3. /\ b.position = Len(log[polls[c].source])
      /\ b.events = {log[polls[c].source][i] :
                        i \in (PositionOf(polls[c].cursor) + 1)..Len(log[polls[c].source])}
  BY DEF Answer, EventsAfter
<1>4. PICK p : p = [polls[c] EXCEPT !.batch = b]
  OBVIOUS
<1>5. PICK found : found = Reconciled(p)
  OBVIOUS
<1>6. /\ UNCHANGED <<log, assess>>
      /\ ingested' = ingested \cup {[source |-> p.source, id |-> e.id] : e \in b.events}
      /\ StandaloneSaveResult(ResultOf(p, found), found)
      /\ cursors' = IF \E f \in found : Rewrites(f) THEN cursors
                    ELSE [cursors EXCEPT ![p.source] = NextCursor(p)]
      /\ polls' = [polls EXCEPT ![c] = Ended]
  BY <1>4, <1>5 DEF StandalonePoll, assessVars
<1> HIDE DEF b
<1>7. p \in Poll /\ p.source = polls[c].source /\ p.cursor = polls[c].cursor /\ p.batch = b
  BY <1>1, <1>2, <1>4 DEF Poll
<1>8. found \subseteq ReconciliationFinding
  BY <1>5, <1>7, ReconciledTyped
<1>9. results \subseteq results' /\ findings \subseteq findings'
  BY <1>6, <1>7, <1>8, ResultTyped, StandaloneTyped DEF IInv
<1>10. Grows
  BY <1>6, <1>9, MoreEvidence DEF IInv
<1>11. PICK r : r = ResultOf(p, found)
  OBVIOUS
<1>12. results' = results \cup {r}
  BY <1>6, <1>11 DEF StandaloneSaveResult
<1>13. Admitted(r)' /\ SupportsMatch(r)
  <2>1. r.health = EffectiveHealth(p) /\ r.source = p.source
    BY <1>11 DEF ResultOf
  <2>2. Admitted(r)'
    <3> SUFFICES ASSUME EffectiveHealth(p) # "healthy" PROVE Blocked(p.source)'
      BY <2>1 DEF Admitted
    <3>1. PICK f \in found : f.id.source = p.source /\ f.id.outcome # "matched"
      BY <1>5, UnhealthyIsFound
    <3>2. \A g \in found : g.id.source = p.source
      BY <1>5, FoundAtSource
    <3> QED BY <1>6, <3>1, <3>2, RefusalBlocks
  <2>3. SupportsMatch(r)
    BY <1>5, <1>7, <1>11, MatchIsSupported
  <2> QED BY <2>2, <2>3
<1>14. ResultsInv' /\ MatchesAreSupported'
  <2>1. \A f \in findings' : f \in findings \/ f.id \in r.ids
    BY <1>6, <1>11 DEF StandaloneSaveResult, ResultOf
  <2> QED BY <1>10, <1>12, <1>13, <2>1, ResultsStep DEF IInv
<1>15. CursorsInv'
  <2>1. CASE \E f \in found : Rewrites(f)
    BY <1>6, <1>10, <2>1, CursorsStay DEF IInv
  <2>2. CASE \A f \in found : ~Rewrites(f)
    <3>1. PICK k : k = NextCursor(p)
      OBVIOUS
    <3>2. cursors' = [cursors EXCEPT ![p.source] = k]
      BY <1>6, <2>2, <3>1
    <3>3. p.source \in Sources /\ k \in ReconciliationCursor
      BY <1>7, <3>1, CursorsTyped DEF Poll
    <3>4. \A f \in found : \E g \in findings' : g.id = f.id
      BY <1>6, <2>2 DEF StandaloneSaveResult
    <3>5. Accounted(p.source, PositionOf(p.cursor))
      BY <1>1, <1>7 DEF PollInv
    <3>6. Len(log[p.source]) \in Nat /\ PositionOf(p.cursor) \in Nat
      BY <1>7 DEF IInv, TypeOK, Poll, PositionOf, ReconciliationCursor
    <3>7. /\ p.batch.position <= Len(log[p.source])
          /\ \A i \in 1..p.batch.position :
                PositionOf(p.cursor) < i => log[p.source][i] \in p.batch.events
          /\ \A e \in p.batch.events : [source |-> p.source, id |-> e.id] \in ingested'
      BY <1>3, <1>6, <1>7, <3>6
    <3>8. Accounted(p.source, p.batch.position)'
      BY <1>5, <1>7, <1>10, <3>4, <3>5, <3>7, Advances DEF IInv
    <3>9. EffectiveHealth(p) = "healthy" => Polled(p.source, p.batch.watermark)'
      BY <1>11, <1>12 DEF ResultOf, Polled
    <3>10. CursorInv(p.source, k)'
      BY <3>1, <3>8, <3>9 DEF NextCursor, CursorInv
    <3> QED BY <1>10, <3>2, <3>3, <3>10, CursorsStep DEF IInv
  <2> QED BY <2>1, <2>2
<1>16. PollsInv'
  BY <1>6, <1>10, PollsStep, CoordinatorAssumption DEF IInv
<1>17. AssessInv'
  BY <1>6, <1>10, AssessStay DEF IInv
<1> QED BY <1>14, <1>15, <1>16, <1>17 DEF IInv

LEMMA StandaloneFailsInv ==
  ASSUME IInv, TypeOK', NEW c \in Pollers, StandaloneFails(c)
  PROVE  IInv'
<1>1. PICK p : p = polls[c]
  OBVIOUS
<1>2. p \in Poll /\ PollInv(p)
  BY <1>1, RunningTyped DEF StandaloneFails, IInv, PollsInv
<1>3. PICK k : k = FailureCursor(p)
  OBVIOUS
<1>4. PICK found : found = FailureFindings(p)
  OBVIOUS
<1>5. /\ UNCHANGED <<log, ingested, assess>>
      /\ StandaloneSaveResult(FailureResult(p, found), found)
      /\ cursors' = [cursors EXCEPT ![p.source] = k]
      /\ polls' = [polls EXCEPT ![c] = Ended]
  BY <1>1, <1>3, <1>4 DEF StandaloneFails, assessVars
<1>6. found \subseteq ReconciliationFinding
  BY <1>2, <1>4, FailureFindingsTyped
<1>7. results \subseteq results' /\ findings \subseteq findings'
  BY <1>2, <1>5, <1>6, FailureResultTyped, StandaloneTyped DEF IInv
<1>8. Grows
  BY <1>5, <1>7, MoreEvidence DEF IInv
<1>9. PollInv(p)'
  BY <1>2, <1>8, PollKept DEF IInv
<1>10. p.source \in Sources /\ k \in ReconciliationCursor /\ CursorInv(p.source, k)'
  BY <1>2, <1>3, <1>9, CursorsTyped, FailureCursorInv DEF Poll
<1>11. CursorsInv'
  BY <1>5, <1>8, <1>10, CursorsStep DEF IInv
<1>12. PICK r : r = FailureResult(p, found)
  OBVIOUS
<1>13. results' = results \cup {r}
  BY <1>5, <1>12 DEF StandaloneSaveResult
<1>14. Admitted(r)' /\ SupportsMatch(r)
  <2>1. PICK f \in found : f.id.outcome # "matched"
    BY <1>2, <1>4, FailureIsFound
  <2>2. \A g \in found : g.id.source = p.source
    BY <1>2, <1>4, FailureIsFound
  <2>3. Blocked(p.source)'
    BY <1>5, <2>1, <2>2, RefusalBlocks
  <2>4. r.source = p.source
    BY <1>12 DEF FailureResult
  <2> QED BY <1>2, <1>4, <1>12, <2>3, <2>4, FailureIsNoMatch DEF Admitted
<1>15. ResultsInv' /\ MatchesAreSupported'
  <2>1. \A f \in findings' : f \in findings \/ f.id \in r.ids
    BY <1>5, <1>12 DEF StandaloneSaveResult, FailureResult
  <2> QED BY <1>8, <1>13, <1>14, <2>1, ResultsStep DEF IInv
<1>16. PollsInv'
  BY <1>5, <1>8, PollsStep, CoordinatorAssumption DEF IInv
<1>17. AssessInv'
  BY <1>5, <1>8, AssessStay DEF IInv
<1> QED BY <1>11, <1>15, <1>16, <1>17 DEF IInv

\* A step of an assessment leaves everything else alone.
LEMMA AssessStep ==
  ASSUME IInv, TypeOK', UNCHANGED <<log, cursors, results, findings, ingested, polls>>,
         NEW a, assess' = a, a # NoAssessment => AssessmentInv(a)
  PROVE  IInv'
<1>1. Grows
  BY MoreEvidence DEF IInv
<1>2. CursorsInv' /\ PollsInv' /\ ResultsInv' /\ MatchesAreSupported'
  BY <1>1, CursorsStay, PollsStay, ResultsStay DEF IInv
<1>3. AssessInv'
  <2> SUFFICES ASSUME a # NoAssessment PROVE AssessmentInv(a)'
    BY DEF AssessInv, AssessmentInv, SeenFresh, NoBypass, Accounted
  <2>1. \A s : /\ Blocked(s)' = Blocked(s) /\ SeenFresh(s, a)' = SeenFresh(s, a)
               /\ \A n : Accounted(s, n)' = Accounted(s, n) /\ NoBypass(s, n)' = NoBypass(s, n)
    BY DEF Blocked, SeenFresh, Accounted, OnRecord, Reported, Bypass, NoBypass
  <2> QED BY <2>1 DEF AssessmentInv
<1> QED BY <1>2, <1>3 DEF IInv

LEMMA BeginAssessInv ==
  ASSUME IInv, TypeOK', NEW p \in Profiles, BeginAssess(p)
  PROVE  IInv'
<1>1. PICK a : a = [at |-> now, profile |-> p, left |-> p.required, fresh |-> {},
                    covered |-> [s \in Sources |-> 0], failed |-> Failed, verdict |-> "open"]
  OBVIOUS
<1>2. assess' = a /\ UNCHANGED <<log, cursors, results, findings, ingested, polls>>
  BY <1>1 DEF BeginAssess, evidenceVars
<1>3. \A s \in a.failed : Blocked(s)
  BY <1>1 DEF Failed, IInv, ResultsInv, Admitted
<1>4. \A s \in Sources : Accounted(s, a.covered[s])
  <2>1. \A s \in Sources : Len(log[s]) \in Nat /\ a.covered[s] = 0
    BY <1>1 DEF IInv, TypeOK
  <2> QED BY <2>1 DEF Accounted
<1>5. AssessmentInv(a)
  BY <1>1, <1>3, <1>4 DEF AssessmentInv
<1> QED BY <1>2, <1>5, AssessStep

LEMMA ReadCursorInv ==
  ASSUME IInv, TypeOK', NEW s \in Sources, ReadCursor(s)
  PROVE  IInv'
<1>1. PICK a : a = assess
  OBVIOUS
<1>2. a \in Assessment /\ AssessmentInv(a) /\ s \in a.left
  BY <1>1 DEF ReadCursor, IInv, TypeOK, AssessInv
<1>3. PICK b : b = [a EXCEPT
          !.left = a.left \ {s},
          !.fresh = IF IsFresh(s, a) THEN a.fresh \cup {s} ELSE a.fresh,
          !.covered = [a.covered EXCEPT ![s] = PositionOf(cursors[s])]]
  OBVIOUS
<1>4. assess' = b /\ UNCHANGED <<log, cursors, results, findings, ingested, polls>>
  BY <1>1, <1>3 DEF ReadCursor, evidenceVars
<1>5. /\ b.failed = a.failed /\ b.verdict = a.verdict /\ b.at = a.at /\ b.profile = a.profile
      /\ b.fresh = IF IsFresh(s, a) THEN a.fresh \cup {s} ELSE a.fresh
      /\ \A t \in Sources : b.covered[t] = IF t = s THEN PositionOf(cursors[s]) ELSE a.covered[t]
  BY <1>2, <1>3 DEF Assessment
<1>6. a.verdict = "open"
  BY <1>2 DEF AssessmentInv
<1>7. Accounted(s, PositionOf(cursors[s]))
  <2>1. Len(log[s]) \in Nat
    BY DEF IInv, TypeOK
  <2> QED BY <2>1 DEF IInv, CursorsInv, CursorInv, PositionOf, Accounted
<1>8. ASSUME NEW t \in b.fresh PROVE SeenFresh(t, b)
  <2>1. CASE t \in a.fresh
    BY <1>2, <1>5, <2>1 DEF AssessmentInv, SeenFresh
  <2>2. CASE t \notin a.fresh
    <3>1. t = s /\ IsFresh(s, a)
      BY <1>5, <1>8, <2>2
    <3>2. Polled(s, cursors[s].watermark)
      BY <3>1 DEF IsFresh, FreshAndHealthy, IInv, CursorsInv, CursorInv
    <3> QED BY <1>5, <3>1, <3>2 DEF Polled, SeenFresh, IsFresh, FreshAndHealthy
  <2> QED BY <2>1, <2>2
<1>9. AssessmentInv(b)
  BY <1>2, <1>5, <1>6, <1>7, <1>8 DEF AssessmentInv
<1> QED BY <1>4, <1>9, AssessStep

LEMMA FinishAssessInv ==
  ASSUME IInv, TypeOK', FinishAssess
  PROVE  IInv'
<1>1. PICK a : a = assess
  OBVIOUS
<1>2. a \in Assessment /\ AssessmentInv(a) /\ a.left = {}
  BY <1>1 DEF FinishAssess, IInv, TypeOK, AssessInv
<1>3. PICK b : b = [a EXCEPT !.verdict = IF Complete(a) THEN "complete" ELSE "incomplete"]
  OBVIOUS
<1>4. assess' = b /\ UNCHANGED <<log, cursors, results, findings, ingested, polls>>
  BY <1>1, <1>3 DEF FinishAssess, evidenceVars
<1>5. /\ b.failed = a.failed /\ b.at = a.at /\ b.profile = a.profile /\ b.fresh = a.fresh
      /\ b.covered = a.covered /\ b.left = a.left
      /\ b.verdict = IF Complete(a) THEN "complete" ELSE "incomplete"
  BY <1>2, <1>3 DEF Assessment
<1>6. a.profile.required \subseteq Sources
  BY <1>2, CoordinatorAssumption DEF Assessment, ProductionCompletenessProfile
<1>7. ASSUME Complete(a), NEW s \in a.profile.required
      PROVE  s \notin a.failed /\ NoBypass(s, a.covered[s])
  <2>1. ~Blocked(s)
    BY <1>7 DEF Complete, Blocking, Blocked
  <2>2. \A e : ~Reported(s, e)
    BY <2>1 DEF Reported, Blocked
  <2>3. Accounted(s, a.covered[s])
    BY <1>2, <1>6 DEF AssessmentInv
  <2> QED BY <1>2, <2>1, <2>2, <2>3 DEF AssessmentInv, Accounted, OnRecord, NoBypass
<1>8. Complete(a) => a.fresh = a.profile.required
  BY DEF Complete
<1>9. \A s \in b.fresh : SeenFresh(s, b)
  BY <1>2, <1>5 DEF AssessmentInv, SeenFresh
<1>10. AssessmentInv(b)
  BY <1>2, <1>5, <1>7, <1>8, <1>9 DEF AssessmentInv
<1> QED BY <1>4, <1>10, AssessStep

\* Steps outside the coordinator: the provider's trail grows, time passes.
LEMMA OutsideInv ==
  ASSUME IInv, TypeOK', Grows, UNCHANGED <<cursors, results, findings, polls, assess>>
  PROVE  IInv'
BY CursorsStay, PollsStay, ResultsStay, AssessStay DEF IInv

LEMMA HappenGrows ==
  ASSUME TypeOK, NEW s \in Sources, NEW e \in Events, Happen(s, e)
  PROVE  Grows
<1>1. PICK x : x = [id |-> e, at |-> now]
  OBVIOUS
<1>2. x \in ExternalAuditEvent /\ log' = [log EXCEPT ![s] = Append(log[s], x)]
  BY <1>1 DEF Happen, TypeOK, ExternalAuditEvent
<1>3. ASSUME NEW t \in Sources
      PROVE  /\ Len(log[t]) <= Len(log'[t])
             /\ \A i \in 1..Len(log[t]) : log'[t][i] = log[t][i]
  <2>1. log[t] \in Seq(ExternalAuditEvent)
    BY DEF TypeOK
  <2>2. log'[t] = IF t = s THEN Append(log[t], x) ELSE log[t]
    BY <1>2 DEF TypeOK
  <2> QED BY <1>2, <2>1, <2>2
<1> QED BY <1>3 DEF Grows, Happen, evidenceVars

LEMMA HappenInv ==
  ASSUME IInv, TypeOK', NEW s \in Sources, NEW e \in Events, Happen(s, e)
  PROVE  IInv'
<1>1. UNCHANGED <<cursors, results, findings, polls, assess>>
  BY DEF Happen, evidenceVars, assessVars
<1> QED BY <1>1, HappenGrows, OutsideInv DEF IInv

LEMMA InvInit == Init => IInv
<1> SUFFICES ASSUME Init PROVE IInv
  OBVIOUS
<1>1. TypeOK
  BY TypingInit
<1>2. CursorsInv /\ PollsInv /\ ResultsInv /\ MatchesAreSupported /\ AssessInv
  BY DEF Init, CursorsInv, PollsInv, Running, ResultsInv, MatchesAreSupported, AssessInv
<1> QED BY <1>1, <1>2 DEF IInv

LEMMA InvNext == IInv /\ [Next]_vars => IInv'
<1> SUFFICES ASSUME IInv, [Next]_vars PROVE IInv'
  OBVIOUS
<1>0. TypeOK'
  BY TypingNext DEF IInv
<1>1. ASSUME NEW c \in Pollers, PollNext(c) PROVE IInv'
  BY <1>0, <1>1, BeginPollInv, CollectInv, StandalonePollInv, IngestInv, SaveResultInv,
     SaveCursorInv, CollectFailsInv, ReportFailureInv, StandaloneFailsInv, CrashInv DEF PollNext
<1>2. ASSUME NEW p \in Profiles, SaveProfile(p) PROVE IInv'
  <2>1. UNCHANGED <<log, cursors, results, findings, ingested, polls, assess>>
    BY <1>2 DEF SaveProfile, evidenceVars
  <2>2. Grows
    BY <2>1, MoreEvidence DEF IInv
  <2> QED BY <1>0, <2>1, <2>2, OutsideInv
<1>3. CASE AssessNext
  BY <1>0, <1>2, <1>3, BeginAssessInv, ReadCursorInv, FinishAssessInv DEF AssessNext
<1>4. ASSUME Tick \/ UNCHANGED vars PROVE IInv'
  <2>1. UNCHANGED <<log, cursors, results, findings, ingested, polls, assess>>
    BY <1>4 DEF Tick, vars, evidenceVars, assessVars
  <2>2. Grows
    BY <2>1, MoreEvidence DEF IInv
  <2> QED BY <1>0, <2>1, <2>2, OutsideInv
<1> QED BY <1>0, <1>1, <1>3, <1>4, HappenInv DEF Next

\* The inductive invariant of reconciliation: every stored cursor and every
\* cursor a call has read stands behind evidence, every stored result was
\* admitted under its source's health, and an assessment in progress has
\* recorded only what the store showed it (reconciliation.py poll, assess).
THEOREM ReconciliationInvariance == Spec => []IInv
BY InvInit, InvNext, PTL DEF Spec

-----------------------------------------------------------------------------
(* The properties *)

\* The cursor never runs ahead of the evidence: whatever crashes, fails or
\* polls at the same time, an audit event a stored cursor has passed is in the
\* store, and reported if no plan accounts for it.
THEOREM EvidencePrecedesCursor == Spec => []EvidenceBeforeCursor
<1>1. IInv => EvidenceBeforeCursor
  BY DEF IInv, CursorsInv, CursorInv, Accounted, OnRecord, EvidenceBeforeCursor
<1> QED BY <1>1, ReconciliationInvariance, PTL

\* Every match on record is the conclusion of a stored result that was healthy
\* and not stale by its high-water mark, whatever marks the sources set
\* (run_source, save_result).
THEOREM MatchesRestOnResults == Spec => []MatchesAreSupported
<1>1. IInv => MatchesAreSupported
  BY DEF IInv
<1> QED BY <1>1, ReconciliationInvariance, PTL

\* A complete verdict stands on fresh healthy results, with no unhealthy
\* result and no bypass that the assessment could have known of.
THEOREM CompletenessIsEarned == Spec => []CompleteIsEarned
<1>1. IInv => CompleteIsEarned
  BY DEF IInv, AssessInv, AssessmentInv, SeenFresh, NoBypass, CompleteIsEarned
<1> QED BY <1>1, ReconciliationInvariance, PTL

\* Evidence is append-only: no step takes back a result, a finding or an
\* ingested event, or rewrites a provider's trail.
THEOREM EvidenceIsAppendOnly == Spec => [][Grows]_vars
<1>1. TypeOK /\ [Next]_vars => Grows
  <2> SUFFICES ASSUME TypeOK, [Next]_vars PROVE Grows
    OBVIOUS
  <2>1. ASSUME NEW c \in Pollers,
               \/ \E s \in Sources, A \in Plans : BeginPoll(c, s, A)
               \/ \E O \in Snapshots, h \in Reports : \E w \in Marks(polls[c], O) :
                     Collect(c, O, h, w)
               \/ SaveCursor(c) \/ CollectFails(c) \/ Crash(c)
        PROVE  Grows
    <3>1. UNCHANGED <<log, results, findings, ingested>>
      BY <2>1 DEF BeginPoll, Collect, SaveCursor, CollectFails, Crash, evidenceVars
    <3> QED BY <3>1, MoreEvidence
  <2>2. ASSUME NEW c \in Pollers, NEW event, IngestAuditEvent(c, event) PROVE Grows
    <3>1. UNCHANGED <<log, results, findings>> /\ ingested \subseteq ingested'
      BY <2>2 DEF IngestAuditEvent, Ingest
    <3> QED BY <3>1, MoreEvidence
  <2>3. ASSUME NEW c \in Pollers, SaveResult(c) \/ ReportFailure(c) PROVE Grows
    <3>1. UNCHANGED <<log, ingested>> /\ findings \subseteq findings' /\ results \subseteq results'
      BY <2>3 DEF SaveResult, ReportFailure, Insert
    <3> QED BY <3>1, MoreEvidence
  <2>4. ASSUME NEW r, NEW found, StandaloneSaveResult(r, found)
        PROVE  findings \subseteq findings' /\ results \subseteq results'
    BY <2>4 DEF StandaloneSaveResult
  <2>5. ASSUME NEW c \in Pollers, NEW O, NEW h, NEW w, StandalonePoll(c, O, h, w) PROVE Grows
    <3>1. PICK r, found : StandaloneSaveResult(r, found)
      BY <2>5 DEF StandalonePoll
    <3>2. log' = log /\ ingested \subseteq ingested'
      BY <2>5 DEF StandalonePoll
    <3> QED BY <2>4, <3>1, <3>2, MoreEvidence
  <2>6. ASSUME NEW c \in Pollers, StandaloneFails(c) PROVE Grows
    <3>1. PICK r, found : StandaloneSaveResult(r, found)
      BY <2>6 DEF StandaloneFails
    <3>2. UNCHANGED <<log, ingested>>
      BY <2>6 DEF StandaloneFails
    <3> QED BY <2>4, <3>1, <3>2, MoreEvidence
  <2>7. ASSUME AssessNext \/ Tick \/ UNCHANGED vars PROVE Grows
    <3>1. UNCHANGED <<log, results, findings, ingested>>
      BY <2>7 DEF AssessNext, SaveProfile, BeginAssess, ReadCursor, FinishAssess, Tick, vars,
                  evidenceVars
    <3> QED BY <3>1, MoreEvidence
  <2>8. ASSUME NEW s \in Sources, NEW e \in Events, Happen(s, e) PROVE Grows
    BY <2>8, HappenGrows
  <2> QED BY <2>1, <2>2, <2>3, <2>5, <2>6, <2>7, <2>8 DEF Next, PollNext
<1> QED BY <1>1, ReconciliationTyping, PTL DEF Spec
=============================================================================
