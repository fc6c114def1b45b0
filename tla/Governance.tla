----------------------------- MODULE Governance -----------------------------
(***************************************************************************)
(* The durable governance store of one tenant: governed change requests,   *)
(* the retention policy revisions and legal-hold releases applied through  *)
(* them, and retention execution, which deletes through an adapter.        *)
(*                                                                         *)
(* Every mutation is one transaction under the tenant's advisory lock, so  *)
(* it is one step that needs the lock free. execute_retention is several:  *)
(* a transaction that commits the deletion intents, then one transaction   *)
(* per candidate that keeps the lock while the adapter deletes.            *)
(*                                                                         *)
(* A document stands for its own digest. The trust-root tables are in      *)
(* module TrustRoots, the standalone store in GovernanceControl.           *)
(***************************************************************************)
EXTENDS Integers, Sequences, FiniteSets

CONSTANTS
    Actors,             \* the identities that propose and approve
    PrincipalOf,        \* the principal of an identity, its workload left out
    Requests,           \* change request ids
    Proposals,          \* the changes a caller may propose
    RetentionPolicies,  \* retention policy documents
    Holds,              \* legal hold ids
    HoldScopes,         \* the resource sets a hold may be placed on
    Resources,          \* retention candidates
    Created,            \* when each candidate was created
    Executions,         \* concurrent execute_retention calls
    TrustPolicies,      \* trust-root policy documents
    TrustedKeys,        \* the keys each of them trusts
    Keys,               \* signing key ids
    Transfers,          \* evidence transfer ids
    Packages,           \* portable packages on disk
    Bundles,            \* evidence bundle manifests
    BundleOf,           \* the bundle a package really holds
    Sound,              \* the packages the offline verifier accepts
    SchemaVersions,     \* schema versions an export may claim
    MinSchema,          \* minimum_supported_schema_version
    CurrentSchema,      \* current_schema_version
    Forever,            \* an absent retain_for_seconds, or a non-deletable rule
    NoRequest, NoHold, NoDigest, NoLock, NoResource, NoTransfer,
    MaxTime             \* bound on the clock

VARIABLES
    store,          \* which store profile this deployment runs
    now,            \* the clock
    requests,       \* governance_change_requests and governance_approvals
    policies,       \* governance_retention_policies, in revision order
    holds,          \* governance_legal_holds
    lock,           \* the tenant's advisory lock
    exec,           \* the execute_retention calls under way
    intents,        \* retention_deletion_intent_recorded audit events
    deleted,        \* resources the adapter has deleted
    records,        \* governance_retention_executions
    roots,          \* governance_trust_roots, in revision order
    transfers,      \* governance_evidence_transfers
    verifications,  \* EvidenceTransferVerification results handed to callers
    imports         \* governance_evidence_imports

changeVars == <<requests, policies, holds>>
retentionVars == <<lock, exec, intents, deleted, records>>
transferVars == <<transfers, verifications, imports>>
vars == <<store, now, changeVars, retentionVars, roots, transferVars>>

GovernanceRisk == {"low", "medium", "high", "critical"}
GovernanceTargetType == {"retention_policy", "legal_hold_release", "trust_root_policy"}
GovernanceChangeStatus == {"proposed", "approved", "rejected", "applied"}

Time == 1..MaxTime
Document == RetentionPolicies \cup Holds \cup TrustPolicies

RetentionPolicy == [revision: Nat \ {0}, effective: Time, retain: [Resources -> Nat \cup {Forever}]]

Proposal == [type: GovernanceTargetType, digest: Document,
             expected: Document \cup {NoDigest}, risk: GovernanceRisk]

GovernanceChangeRequest ==
    [change: Proposal, proposer: Actors, approver: Actors, status: GovernanceChangeStatus]

LegalHold ==
    [status: {"active", "released"}, scope: SUBSET Resources, request: Requests \cup {NoRequest}]

Execution ==
    [pc: {"idle", "pending", "deleting", "deleted"}, todo: SUBSET Resources,
     revision: Nat, at: Time, cur: Resources \cup {NoResource}]

ASSUME GovernanceAssumption ==
    /\ MaxTime \in Nat \ {0}
    /\ RetentionPolicies \subseteq RetentionPolicy
    /\ Proposals \subseteq Proposal
    /\ HoldScopes \subseteq SUBSET Resources
    /\ Created \in [Resources -> Time]
    /\ NoRequest \notin GovernanceChangeRequest /\ NoRequest \notin Requests
    /\ NoHold \notin LegalHold
    /\ NoDigest \notin Document
    /\ NoLock \notin Executions /\ NoResource \notin Resources
    /\ Forever \notin Nat

\* a call that is not running
NoExecution == [pc |-> "idle", todo |-> {}, revision |-> 0, at |-> 1, cur |-> NoResource]

HighRisk(risk) == risk \in {"high", "critical"}

----------------------------------------------------------------------------
(* Change requests *)

ProposeChange(r, change, actor) ==
    /\ store = "postgres" /\ lock = NoLock
    /\ requests[r] = NoRequest
    /\ requests' = [requests EXCEPT ![r] = [change |-> change, proposer |-> actor,
                                            approver |-> actor, status |-> "proposed"]]
    /\ UNCHANGED <<store, now, policies, holds, retentionVars, roots, transferVars>>

\* _same_actor: the identities are compared with their workload identity
SameActor(request, actor) == request.proposer = actor

\* the approver is recorded with an approval only; a rejection ends the request
Decided(request, actor, decision) ==
    IF decision = "approve"
      THEN [request EXCEPT !.approver = actor, !.status = "approved"]
      ELSE [request EXCEPT !.status = "rejected"]

ApproveChange(r, actor, decision) ==
    /\ store = "postgres" /\ lock = NoLock
    /\ requests[r] # NoRequest /\ requests[r].status = "proposed"
    /\ ~(HighRisk(requests[r].change.risk) /\ SameActor(requests[r], actor))
    /\ requests' = [requests EXCEPT ![r] = Decided(requests[r], actor, decision)]
    /\ UNCHANGED <<store, now, policies, holds, retentionVars, roots, transferVars>>

\* validate_change, run whenever the request is read back from its document:
\* a high-risk approval needs another principal, workload identity aside
ValidChange(request) ==
    HighRisk(request.change.risk) =>
        PrincipalOf[request.approver] # PrincipalOf[request.proposer]

\* mutant: the current digest is not compared with the one that was expected
ApprovedWhatever(request, type, digest, current) ==
    /\ request # NoRequest
    /\ request.status = "approved"
    /\ request.change.type = type /\ request.change.digest = digest

\* mutant: the stored request is not validated when it is read back
ApprovedUnread(request, type, digest, current) ==
    /\ ApprovedWhatever(request, type, digest, current)
    /\ request.change.expected = current

\* _request and _approved_request; the target id is part of the document
ApprovedRequest(request, type, digest, current) ==
    /\ request # NoRequest
    /\ ValidChange(request)
    /\ request.status = "approved"
    /\ request.change.type = type /\ request.change.digest = digest
    /\ request.change.expected = current

\* _mark_applied
MarkApplied(r) == [requests EXCEPT ![r].status = "applied"]

----------------------------------------------------------------------------
(* Retention policies and legal holds *)

\* _current_retention_policy(include_future): the highest revision
LatestDigest == IF policies = <<>> THEN NoDigest ELSE policies[Len(policies)].doc

ApplyRetentionPolicy(doc, r) ==
    /\ store = "postgres" /\ lock = NoLock
    /\ doc.revision = Len(policies) + 1
    /\ ApprovedRequest(requests[r], "retention_policy", doc, LatestDigest)
    /\ policies' = Append(policies, [doc |-> doc, request |-> r])
    /\ requests' = MarkApplied(r)
    /\ UNCHANGED <<store, now, holds, retentionVars, roots, transferVars>>

\* mutant: a hold is placed without the tenant lock
PlaceUnlocked(h, scope) ==
    /\ store = "postgres"
    /\ holds[h] = NoHold
    /\ holds' = [holds EXCEPT ![h] = [status |-> "active", scope |-> scope,
                                      request |-> NoRequest]]
    /\ UNCHANGED <<store, now, requests, policies, retentionVars, roots, transferVars>>

PlaceLegalHold(h, scope) ==
    /\ store = "postgres" /\ lock = NoLock
    /\ holds[h] = NoHold
    /\ holds' = [holds EXCEPT ![h] = [status |-> "active", scope |-> scope,
                                      request |-> NoRequest]]
    /\ UNCHANGED <<store, now, requests, policies, retentionVars, roots, transferVars>>

\* a critical proposal for an active hold. Its check of the hold is a
\* transaction of its own; ProposeChange allows every outcome of the race.
ProposeLegalHoldRelease(r, h, actor) ==
    /\ holds[h] # NoHold /\ holds[h].status = "active"
    /\ ProposeChange(r, [type |-> "legal_hold_release", digest |-> h,
                         expected |-> NoDigest, risk |-> "critical"], actor)

ReleaseLegalHold(h, r) ==
    /\ store = "postgres" /\ lock = NoLock
    /\ holds[h] # NoHold /\ holds[h].status = "active"
    /\ ApprovedRequest(requests[r], "legal_hold_release", h, NoDigest)
    /\ holds' = [holds EXCEPT ![h] = [status |-> "released", scope |-> holds[h].scope,
                                      request |-> r]]
    /\ requests' = MarkApplied(r)
    /\ UNCHANGED <<store, now, policies, retentionVars, roots, transferVars>>

----------------------------------------------------------------------------
(* Retention decisions and execution *)

\* the last of the effective policies by effective time, then by revision
Effective(at) == {i \in 1..Len(policies) : policies[i].doc.effective <= at}
IsCurrentPolicy(i, at) ==
    /\ i \in Effective(at)
    /\ \A j \in Effective(at) :
          \/ policies[j].doc.effective < policies[i].doc.effective
          \/ policies[j].doc.effective = policies[i].doc.effective /\ j <= i

\* applies_to
AppliesTo(hold, resource) ==
    hold # NoHold /\ hold.status = "active" /\ resource \in hold.scope

\* _decision_for, whether it disposes DELETE: no matching hold, and a
\* retention (with its grace) that has elapsed
DecisionIsDelete(policy, resource, at) ==
    /\ \A h \in Holds : ~AppliesTo(holds[h], resource)
    /\ policy.retain[resource] # Forever
    /\ Created[resource] + policy.retain[resource] <= at

\* execute_retention's first transaction: evaluate and commit the intents.
\* A call with nothing to delete returns.
RecordIntents(e, candidates) ==
    /\ store = "postgres" /\ lock = NoLock
    /\ exec[e].pc = "idle"
    /\ \E i \in Effective(now) :
          LET todo == {c \in candidates : DecisionIsDelete(policies[i].doc, c, now)} IN
          /\ IsCurrentPolicy(i, now)
          /\ intents' = intents \cup [resource: todo, revision: {i}]
          /\ exec' = [exec EXCEPT ![e] =
                IF todo = {} THEN NoExecution
                ELSE [pc |-> "pending", todo |-> todo, revision |-> i, at |-> now,
                      cur |-> NoResource]]
    /\ UNCHANGED <<store, now, changeVars, lock, deleted, records, roots, transferVars>>

\* a call goes on with the candidates it has left
Continue(e, todo) ==
    IF todo = {} THEN NoExecution
    ELSE [pc |-> "pending", todo |-> todo, revision |-> exec[e].revision, at |-> exec[e].at,
          cur |-> NoResource]

\* mutant: the decision is not taken again under the second lock
EligibleAsIntended(e, c, i) == TRUE

\* eligibility is re-read under the lock and must be what was intended
StillEligible(e, c, i) ==
    DecisionIsDelete(policies[i].doc, c, now) /\ exec[e].revision = i

\* a candidate's own transaction keeps the lock for the adapter call
BeginDeletion(e, c) ==
    /\ store = "postgres" /\ lock = NoLock
    /\ exec[e].pc = "pending" /\ c \in exec[e].todo
    /\ \E i \in Effective(now) :
          IsCurrentPolicy(i, now) /\ StillEligible(e, c, i)
    /\ lock' = e
    /\ exec' = [exec EXCEPT ![e].pc = "deleting", ![e].cur = c, ![e].at = now]
    /\ UNCHANGED <<store, now, changeVars, intents, deleted, records, roots, transferVars>>

\* or records retention_deletion_cancelled
CancelDeletion(e, c) ==
    /\ store = "postgres" /\ lock = NoLock
    /\ exec[e].pc = "pending" /\ c \in exec[e].todo
    /\ \E i \in Effective(now) :
          IsCurrentPolicy(i, now) /\ ~StillEligible(e, c, i)
    /\ exec' = [exec EXCEPT ![e] = Continue(e, exec[e].todo \ {c})]
    /\ UNCHANGED <<store, now, changeVars, lock, intents, deleted, records, roots, transferVars>>

\* RetentionDeletionAdapter.delete takes effect
AdapterDelete(e) ==
    /\ exec[e].pc = "deleting"
    /\ deleted' = deleted \cup {exec[e].cur}
    /\ exec' = [exec EXCEPT ![e].pc = "deleted"]
    /\ UNCHANGED <<store, now, changeVars, lock, intents, records, roots, transferVars>>

\* the execution record and its audit event commit, the lock is released
CommitDeletion(e) ==
    /\ store = "postgres"
    /\ exec[e].pc = "deleted"
    /\ records' = records \cup {[resource |-> exec[e].cur, revision |-> exec[e].revision]}
    /\ lock' = NoLock
    /\ exec' = [exec EXCEPT ![e] = Continue(e, exec[e].todo \ {exec[e].cur})]
    /\ UNCHANGED <<store, now, changeVars, intents, deleted, roots, transferVars>>

\* mutant: an adapter that raised is recorded as if it had deleted
AbortRecording(e) ==
    /\ store = "postgres"
    /\ exec[e].pc # "idle"
    /\ records' = IF exec[e].pc = "pending" THEN records
                  ELSE records \cup {[resource |-> exec[e].cur, revision |-> exec[e].revision]}
    /\ lock' = IF lock = e THEN NoLock ELSE lock
    /\ exec' = [exec EXCEPT ![e] = NoExecution]
    /\ UNCHANGED <<store, now, changeVars, intents, deleted, roots, transferVars>>

\* the adapter raises, or the process dies: the transaction rolls back, its
\* lock goes with it, and the committed intents stay
AbortExecution(e) ==
    /\ store = "postgres"
    /\ exec[e].pc # "idle"
    /\ lock' = IF lock = e THEN NoLock ELSE lock
    /\ exec' = [exec EXCEPT ![e] = NoExecution]
    /\ UNCHANGED <<store, now, changeVars, intents, deleted, records, roots, transferVars>>

Tick ==
    /\ now < MaxTime
    /\ now' = now + 1
    /\ UNCHANGED <<store, changeVars, retentionVars, roots, transferVars>>
=============================================================================
