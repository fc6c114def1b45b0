------------------------- MODULE GovernanceControl -------------------------
(***************************************************************************)
(* Governance in both of its store profiles. The deployment runs either    *)
(* the durable store of modules Governance and TrustRoots or the standalone *)
(* in-memory store, whose operations hold one asyncio lock; only           *)
(* execute_retention awaits (the adapter) while it holds it. Standalone    *)
(* operations read the clock before they wait for the lock, so the time    *)
(* they decide with may be any earlier one.                                *)
(***************************************************************************)
EXTENDS TrustRoots

StandalonePropose(r, change, actor) ==
    /\ store = "standalone" /\ lock = NoLock
    /\ requests[r] = NoRequest
    /\ requests' = [requests EXCEPT ![r] = [change |-> change, proposer |-> actor,
                                            approver |-> actor, status |-> "proposed"]]
    /\ UNCHANGED <<store, now, policies, holds, retentionVars, roots, transferVars>>

\* _same_actor of the standalone store leaves the workload identity out
SamePrincipal(request, actor) == PrincipalOf[request.proposer] = PrincipalOf[actor]

StandaloneApprove(r, actor, decision) ==
    /\ store = "standalone" /\ lock = NoLock
    /\ requests[r] # NoRequest /\ requests[r].status = "proposed"
    /\ ~(HighRisk(requests[r].change.risk) /\ SamePrincipal(requests[r], actor))
    /\ requests' = [requests EXCEPT ![r] = Decided(requests[r], actor, decision)]
    /\ UNCHANGED <<store, now, policies, holds, retentionVars, roots, transferVars>>

\* _approved_request_locked: the request in memory is not validated again
ApprovedRequestLocked(request, type, digest, current) ==
    /\ request # NoRequest
    /\ request.status = "approved"
    /\ request.change.type = type /\ request.change.digest = digest
    /\ request.change.expected = current

StandaloneApplyPolicy(doc, r) ==
    /\ store = "standalone" /\ lock = NoLock
    /\ doc.revision = Len(policies) + 1
    /\ ApprovedRequestLocked(requests[r], "retention_policy", doc, LatestDigest)
    /\ policies' = Append(policies, [doc |-> doc, request |-> r])
    /\ requests' = MarkApplied(r)
    /\ UNCHANGED <<store, now, holds, retentionVars, roots, transferVars>>

StandalonePlaceHold(h, scope) ==
    /\ store = "standalone" /\ lock = NoLock
    /\ holds[h] = NoHold
    /\ holds' = [holds EXCEPT ![h] = [status |-> "active", scope |-> scope,
                                      request |-> NoRequest]]
    /\ UNCHANGED <<store, now, requests, policies, retentionVars, roots, transferVars>>

StandaloneProposeRelease(r, h, actor) ==
    /\ holds[h] # NoHold /\ holds[h].status = "active"
    /\ StandalonePropose(r, [type |-> "legal_hold_release", digest |-> h,
                             expected |-> NoDigest, risk |-> "critical"], actor)

StandaloneReleaseHold(h, r) ==
    /\ store = "standalone" /\ lock = NoLock
    /\ holds[h] # NoHold /\ holds[h].status = "active"
    /\ ApprovedRequestLocked(requests[r], "legal_hold_release", h, NoDigest)
    /\ holds' = [holds EXCEPT ![h] = [status |-> "released", scope |-> holds[h].scope,
                                      request |-> r]]
    /\ requests' = MarkApplied(r)
    /\ UNCHANGED <<store, now, policies, retentionVars, roots, transferVars>>

\* _effective_policy_locked: the last revision among the effective ones,
\* whatever their effective times
IsEffectiveLocked(i, at) == i \in Effective(at) /\ \A j \in Effective(at) : j <= i

\* execute_retention: all decisions are taken at once and the lock is kept
\* until the last candidate is done
StandaloneExecute(e, candidates, at) ==
    /\ store = "standalone" /\ lock = NoLock
    /\ exec[e].pc = "idle" /\ at <= now
    /\ \E i \in Effective(at) :
          LET todo == {c \in candidates : DecisionIsDelete(policies[i].doc, c, at)} IN
          /\ IsEffectiveLocked(i, at)
          /\ lock' = IF todo = {} THEN NoLock ELSE e
          /\ exec' = [exec EXCEPT ![e] =
                IF todo = {} THEN NoExecution
                ELSE [pc |-> "pending", todo |-> todo, revision |-> i, at |-> at,
                      cur |-> NoResource]]
    /\ UNCHANGED <<store, now, changeVars, intents, deleted, records, roots, transferVars>>

\* the intent is appended before the adapter is awaited
StandaloneIntent(e, c) ==
    /\ store = "standalone"
    /\ exec[e].pc = "pending" /\ c \in exec[e].todo
    /\ intents' = intents \cup {[resource |-> c, revision |-> exec[e].revision]}
    /\ exec' = [exec EXCEPT ![e].pc = "deleting", ![e].cur = c]
    /\ UNCHANGED <<store, now, changeVars, lock, deleted, records, roots, transferVars>>

StandaloneRecord(e) ==
    LET todo == exec[e].todo \ {exec[e].cur} IN
    /\ store = "standalone"
    /\ exec[e].pc = "deleted"
    /\ records' = records \cup {[resource |-> exec[e].cur, revision |-> exec[e].revision]}
    /\ exec' = [exec EXCEPT ![e] = Continue(e, todo)]
    /\ lock' = IF todo = {} THEN NoLock ELSE e
    /\ UNCHANGED <<store, now, changeVars, intents, deleted, roots, transferVars>>

\* the adapter raises: the call ends, nothing in memory is undone
StandaloneRaise(e) ==
    /\ store = "standalone"
    /\ exec[e].pc \in {"deleting", "deleted"}
    /\ lock' = NoLock
    /\ exec' = [exec EXCEPT ![e] = NoExecution]
    /\ UNCHANGED <<store, now, changeVars, intents, deleted, records, roots, transferVars>>

StandaloneBootstrap(doc, r, activated) ==
    /\ store = "standalone" /\ lock = NoLock
    /\ roots = <<>>
    /\ ApprovedRequestLocked(requests[r], "trust_root_policy", doc, NoDigest)
    /\ roots' = <<NewRoot(doc, activated, r)>>
    /\ requests' = MarkApplied(r)
    /\ UNCHANGED <<store, now, policies, holds, retentionVars, transferVars>>

\* the last root is current; no window check when it is retired
StandaloneRotate(doc, r, activate, overlap, emergency, at) ==
    /\ store = "standalone" /\ lock = NoLock
    /\ ValidRotation(activate, overlap)
    /\ at <= now
    /\ activate >= at \/ emergency
    /\ roots # <<>>
    /\ ApprovedRequestLocked(requests[r], "trust_root_policy", doc, roots[Len(roots)].doc)
    /\ roots' = Append(Retired(Len(roots), overlap), NewRoot(doc, activate, r))
    /\ requests' = MarkApplied(r)
    /\ UNCHANGED <<store, now, policies, holds, retentionVars, transferVars>>

StandaloneExport(t, manifest) ==
    /\ store = "standalone" /\ lock = NoLock
    /\ transfers[t] = NoTransfer
    /\ transfers' = [transfers EXCEPT ![t] = manifest]
    /\ UNCHANGED <<store, now, changeVars, retentionVars, roots, verifications, imports>>

StandaloneImport(t, manifest, v, archive) ==
    /\ store = "standalone" /\ lock = NoLock
    /\ ValidateImportVerification(v, t, manifest, archive)
    /\ PathFrom(manifest.schema)
    /\ imports' = imports \cup {Receipt(t, manifest, v, archive)}
    /\ UNCHANGED <<store, now, changeVars, retentionVars, roots, transfers, verifications>>

----------------------------------------------------------------------------
Init ==
    /\ store \in {"postgres", "standalone"}
    /\ now = 1
    /\ requests = [r \in Requests |-> NoRequest]
    /\ policies = <<>>
    /\ holds = [h \in Holds |-> NoHold]
    /\ lock = NoLock
    /\ exec = [e \in Executions |-> NoExecution]
    /\ intents = {} /\ deleted = {} /\ records = {}
    /\ roots = <<>>
    /\ transfers = [t \in Transfers |-> NoTransfer]
    /\ verifications = {} /\ imports = {}

ChangeNext ==
    \E r \in Requests, a \in Actors :
        \/ \E change \in Proposals : ProposeChange(r, change, a) \/ StandalonePropose(r, change, a)
        \/ \E h \in Holds : ProposeLegalHoldRelease(r, h, a) \/ StandaloneProposeRelease(r, h, a)
        \/ \E d \in {"approve", "reject"} : ApproveChange(r, a, d) \/ StandaloneApprove(r, a, d)

ApplyNext ==
    \E r \in Requests :
        \/ \E doc \in RetentionPolicies : ApplyRetentionPolicy(doc, r) \/ StandaloneApplyPolicy(doc, r)
        \/ \E h \in Holds : ReleaseLegalHold(h, r) \/ StandaloneReleaseHold(h, r)

PlaceNext ==
    \E h \in Holds, scope \in HoldScopes : PlaceLegalHold(h, scope) \/ StandalonePlaceHold(h, scope)

RootNext ==
    \E r \in Requests, doc \in TrustPolicies, a \in Time :
        \/ BootstrapTrustRoot(doc, r, a) \/ StandaloneBootstrap(doc, r, a)
        \/ \E overlap \in Time, emergency \in BOOLEAN :
              \/ RotateTrustRoot(doc, r, a, overlap, emergency)
              \/ \E at \in Time : StandaloneRotate(doc, r, a, overlap, emergency, at)

ExecutionNext(e) ==
    \/ \E C \in SUBSET Resources :
          RecordIntents(e, C) \/ (\E at \in Time : StandaloneExecute(e, C, at))
    \/ \E c \in Resources : BeginDeletion(e, c) \/ CancelDeletion(e, c) \/ StandaloneIntent(e, c)
    \/ AdapterDelete(e) \/ CommitDeletion(e) \/ StandaloneRecord(e)
    \/ AbortExecution(e) \/ StandaloneRaise(e)

TransferNext ==
    \E t \in Transfers, m \in EvidenceTransferManifest :
        \/ CreateTransferManifest(t, m) \/ StandaloneExport(t, m)
        \/ \E p \in Packages :
              \/ VerifyTransfer(t, m, p)
              \/ \E v \in EvidenceTransferVerification :
                    RecordVerifiedImport(t, m, v, p) \/ StandaloneImport(t, m, v, p)

Next ==
    \/ ChangeNext \/ ApplyNext \/ PlaceNext \/ RootNext
    \/ \E e \in Executions : ExecutionNext(e)
    \/ TransferNext
    \/ Tick

Spec == Init /\ [][Next]_vars

----------------------------------------------------------------------------
(* Properties *)

\* Every variable keeps the shape of its table or of the call's locals.
TypeOK ==
    /\ store \in {"postgres", "standalone"}
    /\ now \in Time
    /\ requests \in [Requests -> GovernanceChangeRequest \cup {NoRequest}]
    /\ policies \in Seq([doc: RetentionPolicies, request: Requests])
    /\ holds \in [Holds -> LegalHold \cup {NoHold}]
    /\ lock \in Executions \cup {NoLock}
    /\ exec \in [Executions -> Execution]
    /\ intents \subseteq [resource: Resources, revision: Nat]
    /\ deleted \subseteq Resources
    /\ records \subseteq [resource: Resources, revision: Nat]
    /\ roots \in Seq(GovernedTrustRoot)
    /\ transfers \in [Transfers -> EvidenceTransferManifest \cup {NoTransfer}]
    /\ verifications \subseteq EvidenceTransferVerification
    /\ imports \subseteq EvidenceImportReceipt

\* "The proposer cannot approve the same high/critical change": no high-risk
\* change is applied on the approval of the principal that proposed it, not
\* even through another workload identity of that principal.
FourEyes ==
    \A r \in Requests :
        requests[r] # NoRequest /\ requests[r].status = "applied"
            /\ HighRisk(requests[r].change.risk)
        => PrincipalOf[requests[r].approver] # PrincipalOf[requests[r].proposer]

\* what must have been approved for doc to follow prev in a revision stream
AppliedFor(r, type, doc, prev) ==
    /\ requests[r] # NoRequest /\ requests[r].status = "applied"
    /\ requests[r].change.type = type
    /\ requests[r].change.digest = doc /\ requests[r].change.expected = prev

\* Every retention policy revision and every trust root was approved as the
\* successor of exactly the revision it follows: a change approved against a
\* revision that was replaced meanwhile is never applied.
RevisionsChain ==
    /\ \A i \in 1..Len(policies) :
          /\ policies[i].doc.revision = i
          /\ AppliedFor(policies[i].request, "retention_policy", policies[i].doc,
                        IF i = 1 THEN NoDigest ELSE policies[i - 1].doc)
    /\ \A i \in 1..Len(roots) :
          AppliedFor(roots[i].request, "trust_root_policy", roots[i].doc,
                     IF i = 1 THEN NoDigest ELSE roots[i - 1].doc)

\* An approval is spent by its application: no two revisions, roots or hold
\* releases rest on the same request.
ApprovalIsSpent ==
    /\ \A i, j \in 1..Len(policies) : policies[i].request = policies[j].request => i = j
    /\ \A i, j \in 1..Len(roots) : roots[i].request = roots[j].request => i = j
    /\ \A h \in Holds : holds[h] # NoHold /\ holds[h].status = "released" =>
          AppliedFor(holds[h].request, "legal_hold_release", h, NoDigest)

\* "Legal hold wins over retention deletion": while the adapter deletes a
\* resource no active hold covers it, however the hold and the execution raced.
HoldWinsOverDeletion ==
    \A e \in Executions : exec[e].pc = "deleting" =>
        \A h \in Holds : ~AppliesTo(holds[h], exec[e].cur)

\* the policy an execution decides by is the current one of its profile
DecidesBy(e) ==
    IF store = "postgres" THEN IsCurrentPolicy(exec[e].revision, exec[e].at)
                          ELSE IsEffectiveLocked(exec[e].revision, exec[e].at)

\* Whatever is being deleted is due under the policy revision the execution
\* names, and that revision is the current one when the deletion is decided.
DeletionIsGoverned ==
    \A e \in Executions : exec[e].pc = "deleting" =>
        LET policy == policies[exec[e].revision].doc IN
        /\ DecidesBy(e)
        /\ policy.retain[exec[e].cur] # Forever
        /\ Created[exec[e].cur] + policy.retain[exec[e].cur] <= exec[e].at

\* Nothing is deleted without an intent on record first, and an execution
\* record is evidence of a deletion that did happen: a crash or a failing
\* adapter loses records, never intents, and invents none.
DeletionLeavesEvidence ==
    /\ \A c \in deleted : \E n \in intents : n.resource = c
    /\ records \subseteq intents
    /\ \A n \in records : n.resource \in deleted

\* The history can be read (exactly one root is current) and has no gap:
\* every time since the first activation is covered by some root, through
\* every planned, overlapping and emergency rotation.
TrustHasNoGap ==
    roots # <<>> =>
        /\ \A i \in 1..Len(roots) : roots[i].retired = 0 <=> i = Len(roots)
        /\ \A t \in Time : t >= roots[1].activated =>
              \E i \in 1..Len(roots) : Covers(roots[i], t)

\* a planned rotation, decided with the clock reading at
RotatesAsPlanned(at) ==
    \E r \in Requests, doc \in TrustPolicies, a, overlap \in Time :
        \/ at = now /\ RotateTrustRoot(doc, r, a, overlap, FALSE)
        \/ StandaloneRotate(doc, r, a, overlap, FALSE, at)

\* The roots in history and in its successor that answer for t are the same.
SelectsAlike(t) == \A key \in Keys : Matches(roots', t, key) = Matches(roots, t, key)

\* What a rotation leaves of the history: no root's document, activation or
\* approval is rewritten and no retirement is moved; checkpoints signed before
\* the new activation select the roots they selected, and the root it retires
\* stays selected until the overlap ends; a planned rotation changes nothing
\* that was signed before it was decided. Only an emergency rotation may be
\* dated back, and it then adds its root to the times since its activation,
\* past ones included, which "Rotation never rewrites historical signing
\* policy" (docs/architecture/governance-lifecycle.md) does not say.
RotationKeepsHistory ==
    [][roots # <<>> /\ roots' # roots =>
          /\ \A i \in 1..Len(roots) :
                /\ roots'[i].doc = roots[i].doc /\ roots'[i].request = roots[i].request
                /\ roots'[i].activated = roots[i].activated
                /\ roots[i].retired # 0 => roots'[i].retired = roots[i].retired
          /\ \A t \in Time : t < roots'[Len(roots')].activated => SelectsAlike(t)
          /\ \A t \in Time, key \in Keys :
                t < roots'[Len(roots)].retired => Matches(roots, t, key) \subseteq Matches(roots', t, key)
          /\ \A at \in Time : RotatesAsPlanned(at) =>
                \A t \in Time : t < at => SelectsAlike(t)]_vars

\* "The import API consumes the exact EvidenceTransferVerification; the
\* resulting receipt binds its ... canonical verification digest": whatever
\* manifest, report and archive are presented together, a receipt's schema is
\* supported, its report is about that transfer, archive and schema, and a
\* report of the verifier (the store does not tell it from one its caller
\* built) was written for a sound package: a receipt over an unsound package
\* names a report the verifier never returned, before or after the import.
ReceiptsBindTheirReports ==
    \A i \in imports :
        /\ MinSchema <= i.schema /\ i.schema <= CurrentSchema
        /\ i.report.transfer = i.transfer
        /\ i.report.manifest.archive = i.archive /\ i.report.manifest.schema = i.schema
        /\ i.report \in verifications =>
              i.archive \in Sound /\ i.report.manifest.bundle = BundleOf[i.archive]
=============================================================================
