------------------------------ MODULE Recovery ------------------------------
(***************************************************************************)
(* The durable disaster-recovery store of one tenant: reliability profiles, *)
(* backup manifests, break-glass grants and the stages of a restore (plan, *)
(* integrity scan, reconciliation of uncertain attempts, recovery gap,     *)
(* completion), each recorded append-only.                                 *)
(*                                                                         *)
(* Every operation is one transaction under the tenant's recovery lock     *)
(* that reads the database clock once it has the lock, so it is one step.  *)
(* reconcile_uncertain_attempts is two transactions with the resolver's    *)
(* awaits between them. The broker, which does not take that lock, leaves  *)
(* attempts uncertain at any time.                                         *)
(***************************************************************************)
EXTENDS Integers, Sequences, FiniteSets

CONSTANTS
    Actors,         \* operators and approvers of the tenant
    Profiles,       \* reliability profile documents
    Components,     \* recovery components
    ObjectStore,    \* RecoveryComponent.OBJECT_STORE
    Backups,        \* backup ids
    Manifests,      \* backup manifests a caller may record
    Grants,         \* break-glass grant ids
    GrantScopes,    \* capability sets a grant may be issued with
    GrantTimes,     \* ttl_seconds an approver may ask for
    DirectUses,     \* capabilities used outside a restore's stages
    Restores,       \* restore ids
    Observations,   \* what a restored site may look like to the verifier
    Attempts,       \* execution attempts of the broker
    Dispositions,   \* what a resolver may find about an attempt
    Calls,          \* concurrent reconcile_uncertain_attempts calls
    ReportedResults, \* restore results a caller may report from elsewhere
    Never, NoBackup, NoGrant, NoPlan, NoGap, NoResult, NoCall,
    MaxTime         \* bound on the clock

VARIABLES
    store,          \* which store profile this deployment runs
    now,            \* the clock
    profiles,       \* recovery_profiles, in revision order
    backups,        \* recovery_backup_manifests
    grants,         \* recovery_break_glass_grants
    revoked,        \* recovery_break_glass_revocations
    uses,           \* recovery_break_glass_uses: the capabilities used, by grant
    plans,          \* recovery_restore_plans
    scans,          \* recovery_integrity_scans
    attempts,       \* when the broker left an attempt UNCERTAIN
    calls,          \* reconciliations waiting for their resolver
    recoveries,     \* recovery_uncertain_executions, by restore
    gaps,           \* recovery_gap_reconciliations
    results,        \* recovery_restore_results
    exercises       \* recovery_game_day_exercises

catalogVars == <<profiles, backups>>
grantVars == <<grants, revoked>>
stageVars == <<plans, scans, recoveries, gaps, results>>
vars == <<store, now, catalogVars, grantVars, uses, stageVars, attempts, calls, exercises>>

BreakGlassCapability == {"restore", "failover", "integrity_scan", "reconcile", "configure_recovery"}
UncertainRecoveryDisposition ==
    {"reconcile_required", "matched_success", "matched_failure", "not_observed", "unverifiable"}
RestoreStatus == {"verified", "degraded", "failed"}

Time == 1..MaxTime

ReliabilityProfile ==
    [revision: Nat \ {0}, created: Time, effective: Time, rpo: Nat, rto: Nat \ {0},
     required: SUBSET Components, window: Nat \ {0}]

BackupManifest ==
    [revision: Nat \ {0}, components: SUBSET Components \ {{}}, point: Time]

BreakGlassGrant ==
    [operator: Actors, approver: Actors, capabilities: SUBSET BreakGlassCapability, expires: Nat]

RestorePlan == [backup: Backups, revision: Nat \ {0}, grant: Grants, failed: Time]

Observation ==
    [seen: SUBSET Components, altered: SUBSET Components, chain: BOOLEAN,
     anchor: BOOLEAN, checkpoint: BOOLEAN, signature: BOOLEAN]

IntegrityScanResult ==
    [restore: Restores, chain: BOOLEAN, anchor: BOOLEAN, checkpoint: BOOLEAN,
     objects: BOOLEAN, verified: BOOLEAN]

\* the attempts a reconciliation recorded and what it found about each
Recoveries == UNION {[seen -> UncertainRecoveryDisposition] : seen \in SUBSET Attempts}

RestoreResult ==
    [restore: Restores, backup: Backups, status: RestoreStatus, promoted: BOOLEAN,
     rpo: Nat, rto: Nat, scan: IntegrityScanResult, gapReconciled: BOOLEAN,
     recovered: Recoveries, at: Time]

GameDayExercise ==
    [restore: Restores, simulated: BOOLEAN, scan: IntegrityScanResult, passed: BOOLEAN]

ASSUME RecoveryAssumption ==
    /\ MaxTime \in Nat \ {0}
    /\ \A doc \in Profiles : doc \in ReliabilityProfile /\ doc.created <= doc.effective
    /\ Manifests \subseteq BackupManifest
    /\ GrantScopes \subseteq (SUBSET BreakGlassCapability) \ {{}}
    /\ GrantTimes \subseteq Nat \ {0} /\ DirectUses \subseteq BreakGlassCapability
    /\ Observations \subseteq Observation
    /\ Dispositions \subseteq UncertainRecoveryDisposition
    /\ ReportedResults \subseteq RestoreResult
    /\ NoBackup \notin BackupManifest /\ NoGrant \notin BreakGlassGrant
    /\ NoPlan \notin RestorePlan /\ NoGap \notin Nat /\ NoResult \notin RestoreResult
    /\ Never \notin Time
    /\ NoCall \notin [restore: Restores, seen: SUBSET Attempts]

(***************************************************************************)
(* Profiles and backups                                                    *)
(***************************************************************************)

\* _active_profile: the highest revision among the effective ones
Effective(at) == {i \in 1..Len(profiles) : profiles[i].effective <= at}
IsActive(i, at) == i \in Effective(at) /\ \A j \in Effective(at) : j <= i

PublishProfile(doc) ==
    /\ store = "postgres"
    /\ doc.created <= now
    /\ doc.revision = Len(profiles) + 1
    /\ profiles' = Append(profiles, doc)
    /\ UNCHANGED <<store, now, backups, grantVars, uses, stageVars, attempts, calls, exercises>>

\* what both stores demand of a manifest recorded at a time
Recordable(manifest, at) ==
    \E i \in Effective(at) :
        /\ IsActive(i, at)
        /\ manifest.revision = i
        /\ profiles[i].required \subseteq manifest.components
        /\ manifest.point <= at
        /\ at - manifest.point <= profiles[i].rpo

RecordBackup(b, manifest) ==
    /\ store = "postgres"
    /\ Recordable(manifest, now)
    /\ backups[b] \in {NoBackup, manifest}
    /\ backups' = [backups EXCEPT ![b] = manifest]
    /\ UNCHANGED <<store, now, profiles, grantVars, uses, stageVars, attempts, calls, exercises>>

(***************************************************************************)
(* Break-glass authority                                                   *)
(***************************************************************************)

NewGrant(operator, approver, scope, ttl) ==
    [operator |-> operator, approver |-> approver, capabilities |-> scope, expires |-> now + ttl]

\* validate_grant and the check constraints of the table
ValidGrant(grant) == grant.operator # grant.approver

IssueBreakGlass(g, operator, approver, scope, ttl) ==
    /\ store = "postgres"
    /\ grants[g] = NoGrant
    /\ \E i \in Effective(now) : IsActive(i, now) /\ ttl <= profiles[i].window
    /\ ValidGrant(NewGrant(operator, approver, scope, ttl))
    /\ grants' = [grants EXCEPT ![g] = NewGrant(operator, approver, scope, ttl)]
    /\ UNCHANGED <<store, now, catalogVars, revoked, uses, stageVars, attempts, calls, exercises>>

RevokeBreakGlass(g) ==
    /\ store = "postgres"
    /\ grants[g] # NoGrant
    /\ revoked' = revoked \cup {g}
    /\ UNCHANGED <<store, now, catalogVars, grants, uses, stageVars, attempts, calls, exercises>>

\* the checks of _record_break_glass_use
Live(g, capability, actor) ==
    /\ grants[g] # NoGrant
    /\ g \notin revoked
    /\ now < grants[g].expires
    /\ capability \in grants[g].capabilities
    /\ actor = grants[g].operator

UseWith(g, capability) == uses' = [uses EXCEPT ![g] = uses[g] \cup {capability}]

UseBreakGlass(g, capability, actor) ==
    /\ store = "postgres"
    /\ Live(g, capability, actor)
    /\ UseWith(g, capability)
    /\ UNCHANGED <<store, now, catalogVars, grantVars, stageVars, attempts, calls, exercises>>

(***************************************************************************)
(* The stages of a restore                                                 *)
(***************************************************************************)

PlanRestore(x, b, g, actor) ==
    /\ store = "postgres"
    /\ plans[x] = NoPlan
    /\ Live(g, "restore", actor)
    /\ UseWith(g, "restore")
    /\ backups[b] # NoBackup
    /\ IsActive(backups[b].revision, now)
    /\ plans' = [plans EXCEPT ![x] = [backup |-> b, revision |-> backups[b].revision,
                                      grant |-> g, failed |-> now]]
    /\ UNCHANGED <<store, now, catalogVars, grantVars, scans, recoveries, gaps, results,
                   attempts, calls, exercises>>

\* RecoveryIntegrityVerifier.verify: any finding fails the scan; the
\* signature is checked only once the anchor and the digest are right
Verify(manifest, x, obs) ==
    LET verified == (manifest.components \cap obs.seen) \ obs.altered
        checkpoint == obs.checkpoint /\ (obs.anchor => obs.signature)
        objects == ObjectStore \in manifest.components => ObjectStore \in verified
    IN  [restore |-> x, chain |-> obs.chain, anchor |-> obs.anchor,
         checkpoint |-> checkpoint, objects |-> objects,
         verified |-> /\ verified = manifest.components /\ obs.seen \subseteq manifest.components
                      /\ obs.chain /\ obs.anchor /\ checkpoint /\ objects]

VerifyRestore(x, obs, actor) ==
    /\ store = "postgres"
    /\ plans[x] # NoPlan
    /\ Live(plans[x].grant, "integrity_scan", actor)
    /\ UseWith(plans[x].grant, "integrity_scan")
    /\ scans' = scans \cup {Verify(backups[plans[x].backup], x, obs)}
    /\ UNCHANGED <<store, now, catalogVars, grantVars, plans, recoveries, gaps, results,
                   attempts, calls, exercises>>

\* the broker's journal: an attempt ends UNCERTAIN and stays so
AttemptBecomesUncertain(a) ==
    /\ attempts[a] = Never
    /\ attempts' = [attempts EXCEPT ![a] = now]
    /\ UNCHANGED <<store, now, catalogVars, grantVars, uses, stageVars, calls, exercises>>

Uncertain == {a \in Attempts : attempts[a] # Never}

\* first transaction of reconcile_uncertain_attempts
BeginReconcile(c, x, actor) ==
    /\ store = "postgres"
    /\ calls[c] = NoCall /\ plans[x] # NoPlan
    /\ Live(plans[x].grant, "reconcile", actor)
    /\ UseWith(plans[x].grant, "reconcile")
    /\ calls' = [calls EXCEPT ![c] = [restore |-> x, seen |-> Uncertain]]
    /\ UNCHANGED <<store, now, catalogVars, grantVars, stageVars, attempts, exercises>>

\* mutant: the grant is not looked at again when the stage commits
CommitWithoutRecheck(c, found, actor) ==
    /\ store = "postgres"
    /\ calls[c] # NoCall
    /\ UseWith(plans[calls[c].restore].grant, "reconcile")
    /\ calls[c].seen = Uncertain
    /\ calls[c].seen \cap DOMAIN recoveries[calls[c].restore] = {}
    /\ recoveries' = [recoveries EXCEPT ![calls[c].restore] =
          [a \in DOMAIN recoveries[calls[c].restore] \cup calls[c].seen |->
              IF a \in calls[c].seen THEN found[a] ELSE recoveries[calls[c].restore][a]]]
    /\ calls' = [calls EXCEPT ![c] = NoCall]
    /\ UNCHANGED <<store, now, catalogVars, grantVars, plans, scans, gaps, results,
                   attempts, exercises>>

\* second transaction: the authority is used again and the uncertain set must
\* still be the one the resolver was asked about; an attempt this restore has
\* already recorded violates the table's unique constraint
CommitReconcile(c, found, actor) ==
    LET x == calls[c].restore
        seen == calls[c].seen
    IN  /\ store = "postgres"
        /\ calls[c] # NoCall
        /\ Live(plans[x].grant, "reconcile", actor)
        /\ UseWith(plans[x].grant, "reconcile")
        /\ seen = Uncertain
        /\ seen \cap DOMAIN recoveries[x] = {}
        /\ recoveries' = [recoveries EXCEPT ![x] =
              [a \in DOMAIN recoveries[x] \cup seen |->
                  IF a \in seen THEN found[a] ELSE recoveries[x][a]]]
        /\ calls' = [calls EXCEPT ![c] = NoCall]
        /\ UNCHANGED <<store, now, catalogVars, grantVars, plans, scans, gaps, results,
                       attempts, exercises>>

\* the resolver raises, or the second transaction is refused
AbandonReconcile(c) ==
    /\ calls[c] # NoCall
    /\ calls' = [calls EXCEPT ![c] = NoCall]
    /\ UNCHANGED <<store, now, catalogVars, grantVars, uses, stageVars, attempts, exercises>>

RecordRecoveryGap(x, unresolved, actor) ==
    /\ store = "postgres"
    /\ plans[x] # NoPlan
    /\ Live(plans[x].grant, "reconcile", actor)
    /\ UseWith(plans[x].grant, "reconcile")
    /\ gaps[x] = NoGap
    /\ gaps' = [gaps EXCEPT ![x] = unresolved]
    /\ UNCHANGED <<store, now, catalogVars, grantVars, plans, scans, recoveries, results,
                   attempts, calls, exercises>>

Inconclusive == {"reconcile_required", "unverifiable"}

\* mutant: attempts without a recovery record are overlooked
KnownAttemptsOnly(x) == \E a \in DOMAIN recoveries[x] : recoveries[x][a] \in Inconclusive

\* complete_restore's unresolved: the journal and the records must agree
Unresolved(x) ==
    \/ Uncertain # DOMAIN recoveries[x]
    \/ \E a \in DOMAIN recoveries[x] : recoveries[x][a] \in Inconclusive

\* mutant: the recovery point is not measured against the profile
ResultTrustsBackup(x, scan, profile, at, unresolved) ==
    LET rpo == plans[x].failed - backups[plans[x].backup].point
        rto == at - plans[x].failed
        earned == /\ scan.verified /\ ~unresolved /\ gaps[x] = 0
                  /\ rto <= profile.rto
    IN  [restore |-> x, backup |-> plans[x].backup,
         status |-> IF earned THEN "verified" ELSE IF scan.verified THEN "degraded" ELSE "failed",
         promoted |-> earned, rpo |-> rpo, rto |-> rto, scan |-> scan,
         gapReconciled |-> gaps[x] = 0, recovered |-> recoveries[x], at |-> at]

\* the result both stores compute under a profile at a time
ResultOf(x, scan, profile, at, unresolved) ==
    LET rpo == plans[x].failed - backups[plans[x].backup].point
        rto == at - plans[x].failed
        earned == /\ scan.verified /\ ~unresolved /\ gaps[x] = 0
                  /\ rpo <= profile.rpo /\ rto <= profile.rto
    IN  [restore |-> x, backup |-> plans[x].backup,
         status |-> IF earned THEN "verified" ELSE IF scan.verified THEN "degraded" ELSE "failed",
         promoted |-> earned, rpo |-> rpo, rto |-> rto, scan |-> scan,
         gapReconciled |-> gaps[x] = 0, recovered |-> recoveries[x], at |-> at]

CompleteRestore(x, scan, actor) ==
    /\ store = "postgres"
    /\ plans[x] # NoPlan
    /\ Live(plans[x].grant, "failover", actor)
    /\ UseWith(plans[x].grant, "failover")
    /\ IsActive(plans[x].revision, now)
    /\ scan \in scans /\ scan.restore = x
    /\ gaps[x] # NoGap
    /\ results[x] = NoResult
    /\ results' = [results EXCEPT ![x] =
          ResultOf(x, scan, profiles[plans[x].revision], now, Unresolved(x))]
    /\ UNCHANGED <<store, now, catalogVars, grantVars, plans, scans, recoveries, gaps,
                   attempts, calls, exercises>>

\* GameDayExercise.passed
Passed(result, profile, simulated) ==
    /\ simulated
    /\ result.status = "verified" /\ result.promoted
    /\ result.rpo <= profile.rpo /\ result.rto <= profile.rto
    /\ result.scan.chain /\ result.scan.checkpoint /\ result.scan.anchor /\ result.scan.objects
    /\ \A a \in DOMAIN result.recovered : result.recovered[a] \notin Inconclusive
    /\ result.gapReconciled

\* the caller brings the result; only its scan, plan and backup are looked up
RecordGameDay(result, simulated) ==
    /\ store = "postgres"
    /\ result.scan \in scans
    /\ plans[result.restore] # NoPlan /\ backups[result.backup] # NoBackup
    /\ \E i \in Effective(now) :
          /\ IsActive(i, now)
          /\ exercises' = exercises \cup
                {[restore |-> result.restore, simulated |-> simulated, scan |-> result.scan,
                  passed |-> Passed(result, profiles[i], simulated)]}
    /\ UNCHANGED <<store, now, catalogVars, grantVars, uses, stageVars, attempts, calls>>

Tick ==
    /\ now < MaxTime
    /\ now' = now + 1
    /\ UNCHANGED <<store, catalogVars, grantVars, uses, stageVars, attempts, calls, exercises>>
=============================================================================
