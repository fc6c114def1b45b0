--------------------------- MODULE Reconciliation ---------------------------
(***************************************************************************)
(* ReconciliationCoordinator over its durable and its standalone store.    *)
(*                                                                         *)
(* Several pollers may run the same source at once: each reads the cursor, *)
(* awaits the provider, and then writes audit events, result and cursor in *)
(* transactions of their own, so that other pollers, assessments and       *)
(* crashes come in between. On the standalone store only the provider is   *)
(* really awaited; what follows runs to its end, or to the exception that  *)
(* save_result raises.                                                     *)
(***************************************************************************)
EXTENDS ReconciliationEngine, Sequences

CONSTANTS
    Pollers,          \* run_source calls
    Plans,            \* the lists of expected actions callers pass
    Snapshots,        \* sets of state records a provider may answer with
    Reports,          \* what a provider may say of its own health
    OwnMarks,         \* high-water marks a source may set by itself, or none
    PollInterval, StaleAfter, BaseBackoff, MaxBackoff,   \* ReconciliationSourceConfig
    Profiles,         \* production-completeness profiles
    NoCursor, NoPoll, Ended, NoProfile, NoAssessment

VARIABLES
    store,            \* "postgres" or "standalone"
    now,
    log,              \* external: the audit trail of each provider
    cursors, results, findings, ingested,
    polls,            \* locals of every run_source call
    profile,          \* the saved completeness profile
    assess            \* locals of the latest assess_completeness call

evidenceVars == <<cursors, results, findings, ingested>>
assessVars == <<profile, assess>>
vars == <<store, now, log, cursors, results, findings, ingested, polls, profile, assess>>

Health == ReconciliationSourceHealth

\* position: how far into the provider's audit trail the cursor points
ReconciliationCursor ==
    [position: Nat, watermark: Int \cup {NoTime}, health: Health, failures: Nat, next: Nat]

ReconciliationBatch ==
    [health: Health, watermark: Int \cup {NoTime}, position: Nat,
     observations: SUBSET ExternalStateObservation, events: SUBSET ExternalAuditEvent]

ReconciliationRunResult ==
    [source: Sources, at: Time, health: Health, watermark: Int \cup {NoTime}, ids: SUBSET FindingId]

Unavailable == [health |-> "unavailable", watermark |-> NoTime, position |-> 0,
                observations |-> {}, events |-> {}]

Poll ==
    [pc: {"collecting", "ingesting", "saving", "reporting"}, source: Sources, at: Time,
     actions: Plans, cursor: ReconciliationCursor \cup {NoCursor},
     batch: ReconciliationBatch, todo: SUBSET ExternalAuditEvent]

ProductionCompletenessProfile == [required: SUBSET Sources, maxAge: Nat, matched: BOOLEAN]

\* fresh: required sources found fresh and healthy so far; covered: how far
\* the cursors read for them point; failed: sources with an unhealthy result
\* on record when the assessment began
Assessment ==
    [at: Time, profile: Profiles, left: SUBSET Sources, fresh: SUBSET Sources,
     covered: [Sources -> Nat], failed: SUBSET Sources,
     verdict: {"open", "complete", "incomplete"}]

ASSUME CoordinatorAssumption ==
    /\ Plans \subseteq SUBSET Actions /\ Reports \subseteq Health
    /\ OwnMarks \subseteq Int \cup {NoTime}
    /\ Snapshots \subseteq SUBSET ExternalStateObservation
    /\ Profiles \subseteq ProductionCompletenessProfile
    /\ \A p \in Profiles : p.required # {}
    /\ PollInterval \in Nat \ {0} /\ StaleAfter \in Nat \ {0}
    /\ BaseBackoff \in Nat \ {0} /\ MaxBackoff \in Nat /\ BaseBackoff <= MaxBackoff
    /\ NoCursor \notin ReconciliationCursor /\ NoPoll \notin Poll /\ Ended \notin Poll
    /\ NoProfile \notin Profiles /\ NoAssessment \notin Assessment

----------------------------------------------------------------------------
(* run_source *)

\* backoff_for
BackoffFor(n) ==
    IF n <= 0 THEN PollInterval
    ELSE LET doubled == BaseBackoff * 2 ^ (IF n - 1 < 30 THEN n - 1 ELSE 30) IN
         IF doubled < MaxBackoff THEN doubled ELSE MaxBackoff

Running(c) == polls[c] \notin {NoPoll, Ended}

BeginPoll(c, s, actions) ==
    /\ polls[c] = NoPoll
    /\ cursors[s] # NoCursor => cursors[s].next <= now
    /\ polls' = [polls EXCEPT ![c] =
          [pc |-> "collecting", source |-> s, at |-> now, actions |-> actions,
           cursor |-> cursors[s], batch |-> Unavailable, todo |-> {}]]
    /\ UNCHANGED <<store, now, log, evidenceVars, assessVars>>

PositionOf(cursor) == IF cursor = NoCursor THEN 0 ELSE cursor.position

\* the provider's audit events after the cursor
EventsAfter(poll) ==
    {log[poll.source][i] : i \in (PositionOf(poll.cursor) + 1)..Len(log[poll.source])}

\* normalize marks a batch with its latest record; a source that builds its
\* batch itself may mark it otherwise, or not at all
Marks(poll, observations) == {HighWatermark(observations, EventsAfter(poll))} \cup OwnMarks

\* the provider answers with its state records and its audit events
Answer(poll, observations, health, mark) ==
    [health |-> health, watermark |-> mark, position |-> Len(log[poll.source]),
     observations |-> observations, events |-> EventsAfter(poll)]

\* a healthy answer whose high-water mark is too old counts as stale; one
\* without a mark does not
EffectiveHealth(poll) ==
    IF /\ poll.batch.health = "healthy"
       /\ poll.batch.watermark # NoTime /\ poll.at - poll.batch.watermark > StaleAfter
    THEN "stale" ELSE poll.batch.health

\* mutant: staleness is only noticed after the comparison
ReconciledAsReported(poll) ==
    Reconcile(poll.source, poll.actions,
              [health |-> poll.batch.health, observations |-> poll.batch.observations,
               events |-> poll.batch.events], poll.at)

Reconciled(poll) ==
    Reconcile(poll.source, poll.actions,
              [health |-> EffectiveHealth(poll), observations |-> poll.batch.observations,
               events |-> poll.batch.events], poll.at)

ResultOf(poll, found) ==
    [source |-> poll.source, at |-> poll.at, health |-> EffectiveHealth(poll),
     watermark |-> poll.batch.watermark, ids |-> {f.id : f \in found}]

NextCursor(poll) ==
    [position |-> poll.batch.position, watermark |-> poll.batch.watermark,
     health |-> EffectiveHealth(poll), failures |-> 0, next |-> poll.at + BackoffFor(0)]

\* mutant: a failure is taken off the count
FailureForgiven(poll) ==
    [position |-> PositionOf(poll.cursor),
     watermark |-> IF poll.cursor = NoCursor THEN NoTime ELSE poll.cursor.watermark,
     health |-> "unavailable",
     failures |-> (IF poll.cursor = NoCursor THEN 0 ELSE poll.cursor.failures) - 1,
     next |-> poll.at + BackoffFor(0)]

\* after a failure: what the call read at its start, not what is stored now
FailureCursor(poll) ==
    LET n == 1 + (IF poll.cursor = NoCursor THEN 0 ELSE poll.cursor.failures) IN
    [position |-> PositionOf(poll.cursor),
     watermark |-> IF poll.cursor = NoCursor THEN NoTime ELSE poll.cursor.watermark,
     health |-> "unavailable", failures |-> n, next |-> poll.at + BackoffFor(n)]

\* the findings of an empty, unavailable batch, with the error in their details
FailureFindings(poll) ==
    {[f EXCEPT !.raised = TRUE] : f \in Reconciled([poll EXCEPT !.batch = Unavailable])}

\* the result of a failed poll keeps the high-water mark of the cursor
FailureResult(poll, found) ==
    [source |-> poll.source, at |-> poll.at, health |-> "unavailable",
     watermark |-> FailureCursor(poll).watermark, ids |-> {f.id : f \in found}]

\* INSERT ... ON CONFLICT DO NOTHING
Insert(found) ==
    findings \cup {f \in found : \A g \in findings : g.id # f.id}

\* ingest_audit_event: one event per (tenant, source, event_id)
Ingest(s, event) ==
    IF \E n \in ingested : n.source = s /\ n.id = event.id THEN ingested
    ELSE ingested \cup {[source |-> s, id |-> event.id]}

Collect(c, observations, health, mark) ==
    LET batch == Answer(polls[c], observations, health, mark) IN
    /\ store = "postgres"
    /\ Running(c) /\ polls[c].pc = "collecting"
    /\ ValidBatch(batch.watermark, polls[c].at)
    /\ polls' = [polls EXCEPT ![c] = [polls[c] EXCEPT !.pc = "ingesting",
                                      !.batch = batch, !.todo = batch.events]]
    /\ UNCHANGED <<store, now, log, evidenceVars, assessVars>>

IngestAuditEvent(c, event) ==
    /\ Running(c) /\ polls[c].pc = "ingesting" /\ event \in polls[c].todo
    /\ ingested' = Ingest(polls[c].source, event)
    /\ polls' = [polls EXCEPT ![c] = [polls[c] EXCEPT !.todo = polls[c].todo \ {event}]]
    /\ UNCHANGED <<store, now, log, cursors, results, findings, assessVars>>

\* mutant: a poll goes on to its result before its events are stored
SaveResultEarly(c) ==
    LET found == Reconciled(polls[c]) IN
    /\ Running(c) /\ polls[c].pc = "ingesting"
    /\ results' = results \cup {ResultOf(polls[c], found)}
    /\ findings' = Insert(found)
    /\ polls' = [polls EXCEPT ![c] = [polls[c] EXCEPT !.pc = "saving"]]
    /\ UNCHANGED <<store, now, log, cursors, ingested, assessVars>>

\* save_result: the result and its findings in one transaction
SaveResult(c) ==
    LET found == Reconciled(polls[c]) IN
    /\ Running(c) /\ polls[c].pc = "ingesting" /\ polls[c].todo = {}
    /\ results' = results \cup {ResultOf(polls[c], found)}
    /\ findings' = Insert(found)
    /\ polls' = [polls EXCEPT ![c] = [polls[c] EXCEPT !.pc = "saving"]]
    /\ UNCHANGED <<store, now, log, cursors, ingested, assessVars>>

SaveCursor(c) ==
    /\ Running(c) /\ polls[c].pc = "saving"
    /\ cursors' = [cursors EXCEPT ![polls[c].source] = NextCursor(polls[c])]
    /\ polls' = [polls EXCEPT ![c] = Ended]
    /\ UNCHANGED <<store, now, log, results, findings, ingested, assessVars>>

\* the provider, or the validation of its batch, raises
CollectFails(c) ==
    /\ store = "postgres"
    /\ Running(c) /\ polls[c].pc = "collecting"
    /\ cursors' = [cursors EXCEPT ![polls[c].source] = FailureCursor(polls[c])]
    /\ polls' = [polls EXCEPT ![c] = [polls[c] EXCEPT !.pc = "reporting", !.batch = Unavailable]]
    /\ UNCHANGED <<store, now, log, results, findings, ingested, assessVars>>

ReportFailure(c) ==
    LET found == FailureFindings(polls[c]) IN
    /\ Running(c) /\ polls[c].pc = "reporting"
    /\ results' = results \cup {FailureResult(polls[c], found)}
    /\ findings' = Insert(found)
    /\ polls' = [polls EXCEPT ![c] = Ended]
    /\ UNCHANGED <<store, now, log, cursors, ingested, assessVars>>

\* the process dies, or a transaction fails and the exception leaves the call
Crash(c) ==
    /\ Running(c)
    /\ polls' = [polls EXCEPT ![c] = Ended]
    /\ UNCHANGED <<store, now, log, evidenceVars, assessVars>>

----------------------------------------------------------------------------
(* The standalone store *)

\* same identity on record, other content
Rewrites(f) == \E g \in findings : g.id = f.id /\ g # f

Severity(f) ==
    IF f.id.outcome = "matched" THEN 0 ELSE IF f.id.evidence = {"stale"} THEN 2 ELSE 3

\* save_result stores findings by falling severity and raises at the first
\* that would rewrite another; ties are broken by names and hashes
StoredBefore(found, S) ==
    /\ S \subseteq found
    /\ \A f \in S : ~Rewrites(f)
    /\ \E f \in found \ S :
          Rewrites(f) /\ \A g \in found : /\ Severity(g) > Severity(f) => g \in S
                                          /\ Severity(g) < Severity(f) => g \notin S

\* the result is kept even when one of its findings is refused
StandaloneSaveResult(result, found) ==
    /\ results' = results \cup {result}
    /\ findings' \in IF \A f \in found : ~Rewrites(f) THEN {findings \cup found}
                     ELSE {findings \cup S : S \in {S \in SUBSET found : StoredBefore(found, S)}}

StandalonePoll(c, observations, health, mark) ==
    LET batch == Answer(polls[c], observations, health, mark)
        poll == [polls[c] EXCEPT !.batch = batch]
        found == Reconciled(poll) IN
    /\ store = "standalone"
    /\ Running(c)
    /\ ValidBatch(batch.watermark, polls[c].at)
    /\ ingested' = ingested \cup {[source |-> poll.source, id |-> e.id] : e \in batch.events}
    /\ StandaloneSaveResult(ResultOf(poll, found), found)
    /\ cursors' = IF \E f \in found : Rewrites(f) THEN cursors
                  ELSE [cursors EXCEPT ![poll.source] = NextCursor(poll)]
    /\ polls' = [polls EXCEPT ![c] = Ended]
    /\ UNCHANGED <<store, now, log, assessVars>>

StandaloneFails(c) ==
    LET found == FailureFindings(polls[c]) IN
    /\ store = "standalone"
    /\ Running(c)
    /\ cursors' = [cursors EXCEPT ![polls[c].source] = FailureCursor(polls[c])]
    /\ StandaloneSaveResult(FailureResult(polls[c], found), found)
    /\ polls' = [polls EXCEPT ![c] = Ended]
    /\ UNCHANGED <<store, now, log, ingested, assessVars>>

----------------------------------------------------------------------------
(* assess_completeness *)

SaveProfile(p) ==
    /\ store = "postgres" /\ profile # p
    /\ profile' = p
    /\ UNCHANGED <<store, now, log, evidenceVars, polls, assess>>

Failed == {r.source : r \in {r \in results : r.health # "healthy"}}

BeginAssess(p) ==
    /\ assess # NoAssessment => assess.verdict # "open"
    /\ store = "postgres" => p = profile
    /\ assess' = [at |-> now, profile |-> p, left |-> p.required, fresh |-> {},
                  covered |-> [s \in Sources |-> 0], failed |-> Failed, verdict |-> "open"]
    /\ UNCHANGED <<store, now, log, evidenceVars, polls, profile>>

IsFresh(s, a) ==
    /\ cursors[s] # NoCursor
    /\ FreshAndHealthy(cursors[s].health, cursors[s].watermark, a.at, a.profile.maxAge)

ReadCursor(s) ==
    /\ assess # NoAssessment /\ s \in assess.left
    /\ assess' = [assess EXCEPT
          !.left = assess.left \ {s},
          !.fresh = IF IsFresh(s, assess) THEN assess.fresh \cup {s} ELSE assess.fresh,
          !.covered = [assess.covered EXCEPT ![s] = PositionOf(cursors[s])]]
    /\ UNCHANGED <<store, now, log, evidenceVars, polls, profile>>

Complete(a) ==
    /\ a.fresh = a.profile.required
    /\ Blocking(findings, a.profile.required) = {}
    /\ a.profile.matched => a.profile.required \subseteq MatchedSources(findings)

FinishAssess ==
    /\ assess # NoAssessment /\ assess.verdict = "open" /\ assess.left = {}
    /\ assess' = [assess EXCEPT !.verdict = IF Complete(assess) THEN "complete" ELSE "incomplete"]
    /\ UNCHANGED <<store, now, log, evidenceVars, polls, profile>>

----------------------------------------------------------------------------
\* external: something happens at the provider
Happen(s, e) ==
    /\ \A t \in Sources, i \in 1..Len(log[s]) : t = s => log[t][i].id # e
    /\ log' = [log EXCEPT ![s] = Append(log[s], [id |-> e, at |-> now])]
    /\ UNCHANGED <<store, now, evidenceVars, polls, assessVars>>

Tick ==
    /\ now < MaxTime
    /\ now' = now + 1
    /\ UNCHANGED <<store, log, evidenceVars, polls, assessVars>>

Init ==
    /\ store \in {"postgres", "standalone"}
    /\ now = 1
    /\ log = [s \in Sources |-> <<>>]
    /\ cursors = [s \in Sources |-> NoCursor]
    /\ results = {} /\ findings = {} /\ ingested = {}
    /\ polls = [c \in Pollers |-> NoPoll]
    /\ profile = NoProfile
    /\ assess = NoAssessment

PollNext(c) ==
    \/ \E s \in Sources, A \in Plans : BeginPoll(c, s, A)
    \/ /\ Running(c)
       /\ \E O \in Snapshots, h \in Reports : \E mark \in Marks(polls[c], O) :
             Collect(c, O, h, mark) \/ StandalonePoll(c, O, h, mark)
    \/ Running(c) /\ \E event \in polls[c].todo : IngestAuditEvent(c, event)
    \/ SaveResult(c) \/ SaveCursor(c)
    \/ CollectFails(c) \/ ReportFailure(c) \/ StandaloneFails(c)
    \/ Crash(c)

AssessNext ==
    \/ \E p \in Profiles : SaveProfile(p) \/ BeginAssess(p)
    \/ \E s \in Sources : ReadCursor(s)
    \/ FinishAssess

Next ==
    \/ \E c \in Pollers : PollNext(c)
    \/ AssessNext
    \/ \E s \in Sources, e \in Events : Happen(s, e)
    \/ Tick

Spec == Init /\ [][Next]_vars

----------------------------------------------------------------------------
(* Properties *)

\* Every variable keeps the shape of its table or of the call's locals.
TypeOK ==
    /\ store \in {"postgres", "standalone"} /\ now \in Time
    /\ log \in [Sources -> Seq(ExternalAuditEvent)]
    /\ cursors \in [Sources -> ReconciliationCursor \cup {NoCursor}]
    /\ results \subseteq ReconciliationRunResult
    /\ findings \subseteq ReconciliationFinding
    /\ ingested \subseteq [source: Sources, id: Events]
    /\ polls \in [Pollers -> Poll \cup {NoPoll, Ended}]
    /\ profile \in Profiles \cup {NoProfile}
    /\ assess \in Assessment \cup {NoAssessment}

\* external activity no list of expected actions accounts for
Bypass(s, e) == \A A \in Plans : EventAction[e] \notin ExpectedIn(A, s)

Reported(s, e) ==
    \E f \in findings : /\ f.id.source = s /\ f.id.outcome = "unexpected_external_action"
                        /\ f.id.action = EventAction[e] /\ f.id.evidence = {e}

\* The cursor never runs ahead of the evidence: every audit event it has
\* passed was ingested, and reported if it bypassed control. A crash between
\* the writes, a failed poll, a refused result and a concurrent poller can
\* make the provider be asked again, never make an event be skipped.
EvidenceBeforeCursor ==
    \A s \in Sources : cursors[s] # NoCursor =>
        \A i \in 1..cursors[s].position :
            /\ [source |-> s, id |-> log[s][i].id] \in ingested
            /\ Bypass(s, log[s][i].id) => Reported(s, log[s][i].id)

\* healthy, and not stale by its own high-water mark, if it has one
Supports(r) ==
    r.health = "healthy" /\ (r.watermark # NoTime => r.at - r.watermark <= StaleAfter)

\* A match on record is the conclusion of a stored result, and no result that
\* was unhealthy, or whose high-water mark was older than the stale threshold,
\* concludes one: not through a failed poll, nor after a crash, nor when the
\* store kept an earlier finding or refused the new one. This is what the code
\* makes of "matched - fresh healthy evidence agrees": the mark bounds the
\* batch, not the observation that agrees, and a batch without a mark is not
\* checked for its age.
MatchesAreSupported ==
    /\ \A f \in findings : f.id.outcome = "matched" => \E r \in results : f.id \in r.ids
    /\ \A r \in results : (\E id \in r.ids : id.outcome = "matched") => Supports(r)

\* Completeness is fail-closed: production is called complete only when no
\* required source had an unhealthy result on record when the assessment
\* began, no bypass lies before the cursors it read, and every required source
\* was polled with a fresh high-water mark. Pollers that overwrite each
\* other's cursor cannot bring back a green verdict.
CompleteIsEarned ==
    LET a == assess IN
    a # NoAssessment /\ a.verdict = "complete" =>
        \A s \in a.profile.required :
            /\ s \notin a.failed
            /\ \A i \in 1..a.covered[s] : ~Bypass(s, log[s][i].id)
            /\ \E r \in results : /\ r.source = s /\ r.health = "healthy"
                                  /\ r.watermark # NoTime /\ a.at - r.watermark <= a.profile.maxAge
=============================================================================
