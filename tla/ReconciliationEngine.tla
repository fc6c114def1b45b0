------------------------ MODULE ReconciliationEngine ------------------------
(***************************************************************************)
(* The deterministic comparison of controlled intent with external         *)
(* evidence. A finding is its identity (source, outcome, action, evidence: *)
(* what the hashed finding_id is computed from) and its content: when it   *)
(* was observed, and whether a collection error is among its details. The  *)
(* run and the tenant are fixed; summaries and references are left out.    *)
(***************************************************************************)
EXTENDS Integers, FiniteSets, FiniteSetsExt

CONSTANTS
    Sources,          \* the tenant's evidence sources
    Actions,          \* controlled actions
    SourceOf,         \* [Actions -> Sources], where an action takes effect
    ExpectedDigest,   \* [Actions -> Digests \cup {NoDigest}]
    Digests, NoDigest,
    NoAction,         \* a record that names no action
    ObservationIds,   \* provider identities of state records
    Events,           \* provider identities of audit events
    EventAction,      \* [Events -> Actions \cup {NoAction}]
    NoTime,           \* a null high-water mark
    MaxTime           \* bound on the clock

Time == 1..MaxTime

ReconciliationSourceHealth == {"healthy", "stale", "unavailable", "conflicting"}

ReconciliationOutcome ==
    {"matched", "missing_external_evidence", "unexpected_external_action",
     "state_mismatch", "conflicting_evidence", "unverifiable"}

ExternalStateObservation ==
    [id: ObservationIds, action: Actions \cup {NoAction}, digest: Digests, at: Time]

ExternalAuditEvent == [id: Events, at: Time]

FindingId ==
    [source: Sources, outcome: ReconciliationOutcome, action: Actions \cup {NoAction},
     evidence: SUBSET (Digests \cup ObservationIds \cup Events \cup ReconciliationSourceHealth)]

ReconciliationFinding == [id: FindingId, at: Time, raised: BOOLEAN]

ASSUME EngineAssumption ==
    /\ SourceOf \in [Actions -> Sources]
    /\ ExpectedDigest \in [Actions -> Digests \cup {NoDigest}] /\ NoDigest \notin Digests
    /\ EventAction \in [Events -> Actions \cup {NoAction}] /\ NoAction \notin Actions
    /\ MaxTime \in Nat \ {0} /\ NoTime \notin Int

----------------------------------------------------------------------------
(* MappingReconciler.normalize *)

\* the high-water mark of a batch: the latest time of its records
HighWatermark(observations, events) ==
    LET times == {r.at : r \in observations \cup events} IN
    IF times = {} THEN NoTime ELSE Max(times)

\* validate_scope: no record may be later than the collection
ValidBatch(watermark, collected) == watermark # NoTime => watermark <= collected

----------------------------------------------------------------------------
(* ReconciliationEngine.reconcile; a batch is [health, observations, events] *)

Finding(source, outcome, action, evidence, at) ==
    [id |-> [source |-> source, outcome |-> outcome, action |-> action, evidence |-> evidence],
     at |-> at, raised |-> FALSE]

HealthFindings(source, batch, collected) ==
    IF batch.health = "healthy" THEN {}
    ELSE {Finding(source,
                  IF batch.health = "conflicting" THEN "conflicting_evidence" ELSE "unverifiable",
                  NoAction, {batch.health}, collected)}

\* the actions of the caller's list that belong to this source
ExpectedIn(actions, source) == {a \in actions : SourceOf[a] = source}

UnexpectedObservations(source, expected, batch) ==
    {Finding(source, "unexpected_external_action", o.action, {o.id}, o.at) :
        o \in {o \in batch.observations : o.action \notin expected}}

UnexpectedEvents(source, expected, batch) ==
    {Finding(source, "unexpected_external_action", EventAction[e.id], {e.id}, e.at) :
        e \in {e \in batch.events : EventAction[e.id] \notin expected}}

Observed(a, batch) == {o \in batch.observations : o.action = a}
ObservedDigests(a, batch) == {o.digest : o \in Observed(a, batch)}
LastObserved(a, batch) == Max({o.at : o \in Observed(a, batch)})

MissingFindings(source, expected, batch, collected) ==
    {Finding(source,
             IF batch.health = "healthy" THEN "missing_external_evidence" ELSE "unverifiable",
             a, {}, collected) :
        a \in {a \in expected : Observed(a, batch) = {}}}

Disagreeing(a, batch) == Cardinality(ObservedDigests(a, batch)) > 1

ConflictFindings(source, expected, batch) ==
    {Finding(source, "conflicting_evidence", a, ObservedDigests(a, batch), LastObserved(a, batch)) :
        a \in {a \in expected : Disagreeing(a, batch)}}

\* the observations agree with each other, but not with the expectation
Deviates(a, batch) ==
    ExpectedDigest[a] # NoDigest /\ ObservedDigests(a, batch) # {ExpectedDigest[a]}

\* observed at all, and without contradiction
Settled(expected, batch) ==
    {a \in expected : Observed(a, batch) # {} /\ ~Disagreeing(a, batch)}

MismatchFindings(source, expected, batch) ==
    {Finding(source, "state_mismatch", a, ObservedDigests(a, batch), LastObserved(a, batch)) :
        a \in {a \in Settled(expected, batch) : Deviates(a, batch)}}

\* an unhealthy source matches nothing
MatchFindings(source, expected, batch) ==
    IF batch.health # "healthy" THEN {}
    ELSE {Finding(source, "matched", a, ObservedDigests(a, batch), LastObserved(a, batch)) :
            a \in {a \in Settled(expected, batch) : ~Deviates(a, batch)}}

Reconcile(source, actions, batch, collected) ==
    LET expected == ExpectedIn(actions, source) IN
    HealthFindings(source, batch, collected)
    \cup UnexpectedObservations(source, expected, batch)
    \cup UnexpectedEvents(source, expected, batch)
    \cup MissingFindings(source, expected, batch, collected)
    \cup ConflictFindings(source, expected, batch)
    \cup MismatchFindings(source, expected, batch)
    \cup MatchFindings(source, expected, batch)

----------------------------------------------------------------------------
(* assess_production_completeness *)

\* health and high-water mark of a source satisfy the profile
FreshAndHealthy(health, watermark, at, maxAge) ==
    health = "healthy" /\ watermark # NoTime /\ at - watermark <= maxAge

\* mutant: only findings without a match for the same action block
BlockingUnmatched(findings, required) ==
    {f \in findings : /\ f.id.source \in required /\ f.id.outcome # "matched"
                      /\ \A g \in findings : g.id.source = f.id.source => g.id.outcome # "matched"}

\* every finding of a required source that is not a match, however old
Blocking(findings, required) ==
    {f \in findings : f.id.source \in required /\ f.id.outcome # "matched"}

MatchedSources(findings) ==
    {f.id.source : f \in {f \in findings : f.id.outcome = "matched"}}
=============================================================================
