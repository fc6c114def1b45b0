-------------------------- MODULE RecoveryControl --------------------------
(***************************************************************************)
(* Disaster recovery in both of its store profiles. The deployment runs    *)
(* either the durable store of module Recovery or the standalone in-memory *)
(* store. A standalone operation never awaits while it holds the asyncio   *)
(* lock, so it too is one step, but it reads the clock again after the     *)
(* break-glass use: the second reading may be later. Its reconciliation    *)
(* takes the attempts from the caller and does not check the grant again   *)
(* after the resolver.                                                     *)
(***************************************************************************)
EXTENDS Recovery

StandalonePublishProfile(doc) ==
    /\ store = "standalone"
    /\ doc.revision = Len(profiles) + 1
    /\ profiles' = Append(profiles, doc)
    /\ UNCHANGED <<store, now, backups, grantVars, uses, stageVars, attempts, calls, exercises>>

StandaloneRecordBackup(b, manifest) ==
    /\ store = "standalone"
    /\ Recordable(manifest, now)
    /\ backups[b] \in {NoBackup, manifest}
    /\ backups' = [backups EXCEPT ![b] = manifest]
    /\ UNCHANGED <<store, now, profiles, grantVars, uses, stageVars, attempts, calls, exercises>>

StandaloneIssueBreakGlass(g, operator, approver, scope, ttl) ==
    /\ store = "standalone"
    /\ grants[g] = NoGrant
    /\ \E i \in Effective(now) : IsActive(i, now) /\ ttl <= profiles[i].window
    /\ ValidGrant(NewGrant(operator, approver, scope, ttl))
    /\ grants' = [grants EXCEPT ![g] = NewGrant(operator, approver, scope, ttl)]
    /\ UNCHANGED <<store, now, catalogVars, revoked, uses, stageVars, attempts, calls, exercises>>

StandaloneRevokeBreakGlass(g) ==
    /\ store = "standalone"
    /\ grants[g] # NoGrant
    /\ revoked' = revoked \cup {g}
    /\ UNCHANGED <<store, now, catalogVars, grants, uses, stageVars, attempts, calls, exercises>>

\* also what is left of a stage that raises after its use was recorded
StandaloneUseBreakGlass(g, capability, actor) ==
    /\ store = "standalone"
    /\ Live(g, capability, actor)
    /\ UseWith(g, capability)
    /\ UNCHANGED <<store, now, catalogVars, grantVars, stageVars, attempts, calls, exercises>>

StandalonePlanRestore(x, b, g, actor, later) ==
    /\ store = "standalone"
    /\ plans[x] = NoPlan
    /\ Live(g, "restore", actor)
    /\ UseWith(g, "restore")
    /\ later >= now /\ now' = later
    /\ backups[b] # NoBackup
    /\ IsActive(backups[b].revision, later)
    /\ plans' = [plans EXCEPT ![x] = [backup |-> b, revision |-> backups[b].revision,
                                      grant |-> g, failed |-> later]]
    /\ UNCHANGED <<store, catalogVars, grantVars, scans, recoveries, gaps, results,
                   attempts, calls, exercises>>

StandaloneVerifyRestore(x, obs, actor) ==
    /\ store = "standalone"
    /\ plans[x] # NoPlan
    /\ Live(plans[x].grant, "integrity_scan", actor)
    /\ UseWith(plans[x].grant, "integrity_scan")
    /\ scans' = scans \cup {Verify(backups[plans[x].backup], x, obs)}
    /\ UNCHANGED <<store, now, catalogVars, grantVars, plans, recoveries, gaps, results,
                   attempts, calls, exercises>>

StandaloneBeginReconcile(c, x, chosen, actor) ==
    /\ store = "standalone"
    /\ calls[c] = NoCall /\ plans[x] # NoPlan
    /\ Live(plans[x].grant, "reconcile", actor)
    /\ UseWith(plans[x].grant, "reconcile")
    /\ calls' = [calls EXCEPT ![c] = [restore |-> x, seen |-> chosen]]
    /\ UNCHANGED <<store, now, catalogVars, grantVars, stageVars, attempts, exercises>>

\* the last reconciliation to finish replaces what others recorded
StandaloneEndReconcile(c, found) ==
    /\ store = "standalone"
    /\ calls[c] # NoCall
    /\ recoveries' = [recoveries EXCEPT ![calls[c].restore] =
                        [a \in calls[c].seen |-> found[a]]]
    /\ calls' = [calls EXCEPT ![c] = NoCall]
    /\ UNCHANGED <<store, now, catalogVars, grantVars, uses, plans, scans, gaps, results,
                   attempts, exercises>>

StandaloneRecordGap(x, unresolved, actor) ==
    /\ store = "standalone"
    /\ plans[x] # NoPlan
    /\ Live(plans[x].grant, "reconcile", actor)
    /\ UseWith(plans[x].grant, "reconcile")
    /\ gaps[x] = NoGap
    /\ gaps' = [gaps EXCEPT ![x] = unresolved]
    /\ UNCHANGED <<store, now, catalogVars, grantVars, plans, scans, recoveries, results,
                   attempts, calls, exercises>>

\* neither the plan's profile nor the journal is looked at, and a second
\* completion replaces the first
StandaloneCompleteRestore(x, scan, actor, later) ==
    /\ store = "standalone"
    /\ plans[x] # NoPlan
    /\ Live(plans[x].grant, "failover", actor)
    /\ UseWith(plans[x].grant, "failover")
    /\ later >= now /\ now' = later
    /\ scan \in scans /\ scan.restore = x
    /\ gaps[x] # NoGap
    /\ \E i \in Effective(later) :
          /\ IsActive(i, later)
          /\ results' = [results EXCEPT ![x] =
                ResultOf(x, scan, profiles[i], later,
                         \E a \in DOMAIN recoveries[x] : recoveries[x][a] \in Inconclusive)]
    /\ UNCHANGED <<store, catalogVars, grantVars, plans, scans, recoveries, gaps,
                   attempts, calls, exercises>>

\* a standalone exercise never passes
StandaloneRecordGameDay(result, simulated) ==
    /\ store = "standalone"
    /\ result.scan \in scans
    /\ Effective(now) # {}
    /\ exercises' = exercises \cup {[restore |-> result.restore, simulated |-> simulated,
                                     scan |-> result.scan, passed |-> FALSE]}
    /\ UNCHANGED <<store, now, catalogVars, grantVars, uses, stageVars, attempts, calls>>

Init ==
    /\ store \in {"postgres", "standalone"}
    /\ now = 1
    /\ profiles = <<>>
    /\ backups = [b \in Backups |-> NoBackup]
    /\ grants = [g \in Grants |-> NoGrant]
    /\ revoked = {}
    /\ uses = [g \in Grants |-> {}]
    /\ plans = [x \in Restores |-> NoPlan]
    /\ scans = {}
    /\ attempts = [a \in Attempts |-> Never]
    /\ calls = [c \in Calls |-> NoCall]
    /\ recoveries = [x \in Restores |-> <<>>]
    /\ gaps = [x \in Restores |-> NoGap]
    /\ results = [x \in Restores |-> NoResult]
    /\ exercises = {}

CatalogNext ==
    \/ \E doc \in Profiles :
          PublishProfile(doc) \/ StandalonePublishProfile(doc)
    \/ \E b \in Backups, manifest \in Manifests :
          RecordBackup(b, manifest) \/ StandaloneRecordBackup(b, manifest)

GrantNext ==
    \/ \E g \in Grants, operator, approver \in Actors, scope \in GrantScopes, ttl \in GrantTimes :
          \/ IssueBreakGlass(g, operator, approver, scope, ttl)
          \/ StandaloneIssueBreakGlass(g, operator, approver, scope, ttl)
    \/ \E g \in Grants : RevokeBreakGlass(g) \/ StandaloneRevokeBreakGlass(g)
    \/ \E g \in Grants, capability \in DirectUses, actor \in Actors :
          UseBreakGlass(g, capability, actor) \/ StandaloneUseBreakGlass(g, capability, actor)

StageNext ==
    \/ \E x \in Restores, b \in Backups, g \in Grants, actor \in Actors :
          \/ PlanRestore(x, b, g, actor)
          \/ \E later \in Time : StandalonePlanRestore(x, b, g, actor, later)
    \/ \E x \in Restores, obs \in Observations, actor \in Actors :
          VerifyRestore(x, obs, actor) \/ StandaloneVerifyRestore(x, obs, actor)
    \/ \E x \in Restores, unresolved \in 0..1, actor \in Actors :
          RecordRecoveryGap(x, unresolved, actor) \/ StandaloneRecordGap(x, unresolved, actor)
    \/ \E x \in Restores, scan \in scans, actor \in Actors :
          \/ CompleteRestore(x, scan, actor)
          \/ \E later \in Time : StandaloneCompleteRestore(x, scan, actor, later)

ReconcileNext ==
    \/ \E a \in Attempts : AttemptBecomesUncertain(a)
    \/ \E c \in Calls, x \in Restores, actor \in Actors :
          \/ BeginReconcile(c, x, actor)
          \/ \E chosen \in SUBSET Uncertain : StandaloneBeginReconcile(c, x, chosen, actor)
    \/ \E c \in Calls, found \in [Attempts -> Dispositions] :
          \/ \E actor \in Actors : CommitReconcile(c, found, actor)
          \/ StandaloneEndReconcile(c, found)
    \/ \E c \in Calls : AbandonReconcile(c)

GameDayNext ==
    \E result \in ReportedResults \cup {results[x] : x \in {y \in Restores : results[y] # NoResult}},
       simulated \in BOOLEAN :
        RecordGameDay(result, simulated) \/ StandaloneRecordGameDay(result, simulated)

Next == CatalogNext \/ GrantNext \/ StageNext \/ ReconcileNext \/ GameDayNext \/ Tick

Spec == Init /\ [][Next]_vars

(***************************************************************************)
(* Properties                                                              *)
(***************************************************************************)

\* The shapes of the recovery tables, and that no result has a negative RPO
\* or RTO although complete_restore subtracts clock readings of three stages.
TypeOK ==
    /\ store \in {"postgres", "standalone"}
    /\ now \in Time
    /\ profiles \in Seq(Profiles)
    /\ backups \in [Backups -> BackupManifest \cup {NoBackup}]
    /\ grants \in [Grants -> BreakGlassGrant \cup {NoGrant}]
    /\ revoked \subseteq Grants
    /\ uses \in [Grants -> SUBSET BreakGlassCapability]
    /\ plans \in [Restores -> RestorePlan \cup {NoPlan}]
    /\ scans \subseteq IntegrityScanResult
    /\ attempts \in [Attempts -> Time \cup {Never}]
    /\ calls \in [Calls -> [restore: Restores, seen: SUBSET Attempts] \cup {NoCall}]
    /\ recoveries \in [Restores -> Recoveries]
    /\ gaps \in [Restores -> Nat \cup {NoGap}]
    /\ results \in [Restores -> RestoreResult \cup {NoResult}]
    /\ exercises \subseteq GameDayExercise

Promoted(x) == results[x] # NoResult /\ results[x].promoted

\* complete_restore promotes only on the evidence of the same restore: a scan
\* of it that verified every component, the chain, the checkpoint and the
\* anchor, a reconciled recovery gap, and conclusive findings about every
\* attempt it took into account.
PromotionIsEarned ==
    \A x \in Restores : Promoted(x) =>
        /\ results[x].status = "verified"
        /\ results[x].scan \in scans /\ results[x].scan.restore = x
        /\ results[x].scan.chain /\ results[x].scan.anchor
        /\ results[x].scan.checkpoint /\ results[x].scan.objects
        /\ gaps[x] = 0
        /\ \A a \in DOMAIN results[x].recovered : results[x].recovered[a] \notin Inconclusive

\* A promoted restore of the durable store met the targets of one profile
\* throughout: its backup was recorded, its plan made and its completion
\* accepted under the same revision, whose RPO and RTO it kept.
PromotionMeetsItsProfile ==
    \A x \in Restores : store = "postgres" /\ Promoted(x) =>
        LET backup == backups[plans[x].backup]
            profile == profiles[plans[x].revision]
        IN  /\ backup.revision = plans[x].revision
            /\ profile.required \subseteq backup.components
            /\ plans[x].failed - backup.point <= profile.rpo
            /\ results[x].at - plans[x].failed <= profile.rto

\* The class comment of PostgresRecoveryStore: a verified promotion requires
\* reconciliation of every durable uncertain attempt. Every attempt that was
\* uncertain before the completion has a conclusive finding in the result,
\* however the broker and the reconciliation were interleaved.
PromotionReconciledUncertainty ==
    \A x \in Restores : store = "postgres" /\ Promoted(x) =>
        \A a \in Attempts : attempts[a] # Never /\ attempts[a] < results[x].at =>
            /\ a \in DOMAIN results[x].recovered
            /\ results[x].recovered[a] \notin Inconclusive

\* Break-glass authority is checked live: no stage of a durable restore is
\* recorded once its grant has been revoked or has expired, the second half
\* of a reconciliation that began before included.
StagesAreLive ==
    [][store = "postgres" => \A x \in Restores :
          plans'[x] # plans[x] \/ recoveries'[x] # recoveries[x] \/ gaps'[x] # gaps[x]
              \/ results'[x] # results[x]
          => LET g == plans'[x].grant IN
             g \notin revoked /\ now < grants[g].expires /\ grants[g].operator # grants[g].approver]_vars

\* Recovery evidence is append-only: once the durable store has a restore's
\* plan, gap, result or finding about an attempt, no operation changes it.
EvidenceIsFinal ==
    [][store = "postgres" => \A x \in Restores :
          /\ plans[x] # NoPlan => plans'[x] = plans[x]
          /\ gaps[x] # NoGap => gaps'[x] = gaps[x]
          /\ results[x] # NoResult => results'[x] = results[x]
          /\ \A a \in DOMAIN recoveries[x] :
                a \in DOMAIN recoveries'[x] /\ recoveries'[x][a] = recoveries[x][a]]_vars

=============================================================================
