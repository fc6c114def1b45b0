-------------------------- MODULE GovernanceProofs --------------------------
(***************************************************************************)
(* Theorems about GovernanceControl, for all sets of actors, requests,     *)
(* documents, holds, resources and executions and any time horizon.        *)
(***************************************************************************)
EXTENDS GovernanceControl, TLAPS

----------------------------------------------------------------------------
(* The actions of both profiles, grouped by the table they write *)

\* a step that leaves the change requests and what they govern alone
KeepsChanges == UNCHANGED <<requests, policies, holds, roots>>

Proposes(r, change, a) == ProposeChange(r, change, a) \/ StandalonePropose(r, change, a)
Approves(r, a, d) == ApproveChange(r, a, d) \/ StandaloneApprove(r, a, d)
AppliesPolicy(doc, r) == ApplyRetentionPolicy(doc, r) \/ StandaloneApplyPolicy(doc, r)
ReleasesHold(h, r) == ReleaseLegalHold(h, r) \/ StandaloneReleaseHold(h, r)
PlacesHold(h, scope) == PlaceLegalHold(h, scope) \/ StandalonePlaceHold(h, scope)
Bootstraps(doc, r, a) == BootstrapTrustRoot(doc, r, a) \/ StandaloneBootstrap(doc, r, a)
Rotates(doc, r, a, overlap) ==
    \E emergency \in BOOLEAN :
        \/ RotateTrustRoot(doc, r, a, overlap, emergency)
        \/ \E at \in Time : StandaloneRotate(doc, r, a, overlap, emergency, at)

\* the change a caller proposes, directly or as the release of a hold
Change == Proposals \cup [type: {"legal_hold_release"}, digest: Holds,
                          expected: {NoDigest}, risk: {"critical"}]

\* Every step of the specification is a step of one of these groups.
LEMMA Steps ==
  ASSUME Next
  PROVE  \/ \E r \in Requests, change \in Change, a \in Actors : Proposes(r, change, a)
         \/ \E r \in Requests, a \in Actors, d \in {"approve", "reject"} : Approves(r, a, d)
         \/ \E r \in Requests, doc \in RetentionPolicies : AppliesPolicy(doc, r)
         \/ \E r \in Requests, h \in Holds : ReleasesHold(h, r)
         \/ \E h \in Holds, scope \in HoldScopes : PlacesHold(h, scope)
         \/ \E r \in Requests, doc \in TrustPolicies, a \in Time : Bootstraps(doc, r, a)
         \/ \E r \in Requests, doc \in TrustPolicies, a, overlap \in Time :
               Rotates(doc, r, a, overlap)
         \/ \E e \in Executions : ExecutionNext(e)
         \/ TransferNext
         \/ Tick
<1>1. ASSUME NEW r \in Requests, NEW h \in Holds, NEW a \in Actors,
             ProposeLegalHoldRelease(r, h, a) \/ StandaloneProposeRelease(r, h, a)
      PROVE  \E change \in Change : Proposes(r, change, a)
  <2>1. [type |-> "legal_hold_release", digest |-> h, expected |-> NoDigest,
         risk |-> "critical"] \in Change
    BY DEF Change
  <2> QED BY <1>1, <2>1 DEF ProposeLegalHoldRelease, StandaloneProposeRelease, Proposes
<1>2. CASE ChangeNext
  <2>1. ASSUME NEW r \in Requests, NEW a \in Actors, NEW change \in Proposals,
               ProposeChange(r, change, a) \/ StandalonePropose(r, change, a)
        PROVE  \E c \in Change : Proposes(r, c, a)
    BY <2>1 DEF Change, Proposes
  <2> QED BY <1>1, <1>2, <2>1 DEF ChangeNext, Approves
<1>3. CASE ApplyNext
  BY <1>3 DEF ApplyNext, AppliesPolicy, ReleasesHold
<1>4. CASE PlaceNext
  BY <1>4 DEF PlaceNext, PlacesHold
<1>5. CASE RootNext
  BY <1>5 DEF RootNext, Bootstraps, Rotates
<1> QED BY <1>2, <1>3, <1>4, <1>5 DEF Next

\* Steps of executions, of transfers and of the clock write no governed table.
LEMMA OtherStepsKeepChanges ==
  ASSUME (\E e \in Executions : ExecutionNext(e)) \/ TransferNext \/ Tick
  PROVE  KeepsChanges /\ UNCHANGED store
<1>1. ASSUME NEW e \in Executions, ExecutionNext(e) PROVE KeepsChanges /\ UNCHANGED store
  BY <1>1 DEF ExecutionNext, KeepsChanges, RecordIntents, StandaloneExecute, BeginDeletion,
     CancelDeletion, StandaloneIntent, AdapterDelete, CommitDeletion, StandaloneRecord,
     AbortExecution, StandaloneRaise, changeVars
<1>2. CASE TransferNext
  BY <1>2 DEF TransferNext, KeepsChanges, CreateTransferManifest, StandaloneExport,
     VerifyTransfer, RecordVerifiedImport, StandaloneImport, changeVars
<1>3. CASE Tick
  BY <1>3 DEF Tick, KeepsChanges, changeVars
<1> QED BY <1>1, <1>2, <1>3

----------------------------------------------------------------------------
(* Types *)

ChangeTypes ==
    /\ requests \in [Requests -> GovernanceChangeRequest \cup {NoRequest}]
    /\ policies \in Seq([doc: RetentionPolicies, request: Requests])
    /\ holds \in [Holds -> LegalHold \cup {NoHold}]
    /\ roots \in Seq(GovernedTrustRoot)

\* a call in a candidate's transaction has a candidate
Occupied(x) == x.pc \in {"deleting", "deleted"} => x.cur \in Resources

ExecutionTypes ==
    /\ store \in {"postgres", "standalone"}
    /\ now \in Time
    /\ lock \in Executions \cup {NoLock}
    /\ exec \in [Executions -> Execution]
    /\ \A e \in Executions : Occupied(exec[e])
    /\ intents \subseteq [resource: Resources, revision: Nat]
    /\ deleted \subseteq Resources
    /\ records \subseteq [resource: Resources, revision: Nat]

TransferTypes ==
    /\ transfers \in [Transfers -> EvidenceTransferManifest \cup {NoTransfer}]
    /\ verifications \subseteq EvidenceTransferVerification
    /\ imports \subseteq EvidenceImportReceipt

\* A change that callers may propose is well formed.
LEMMA ChangeTyped == Change \subseteq Proposal
BY GovernanceAssumption, SMT DEF Change, Proposal, GovernanceTargetType, GovernanceRisk, Document

\* Applying a request keeps the table of requests well formed.
LEMMA MarkAppliedTyped ==
  ASSUME requests \in [Requests -> GovernanceChangeRequest \cup {NoRequest}],
         NEW r \in Requests, requests[r] # NoRequest, requests' = MarkApplied(r)
  PROVE  requests' \in [Requests -> GovernanceChangeRequest \cup {NoRequest}]
BY SMT DEF MarkApplied, GovernanceChangeRequest, GovernanceChangeStatus

\* The step of every group keeps the governed tables well formed.
LEMMA ChangesTyped ==
  ASSUME ChangeTypes, Next
  PROVE  ChangeTypes'
<1> USE DEF ChangeTypes
<1>1. ASSUME NEW r \in Requests, NEW change \in Change, NEW a \in Actors, Proposes(r, change, a)
      PROVE  ChangeTypes'
  <2>1. [change |-> change, proposer |-> a, approver |-> a, status |-> "proposed"]
          \in GovernanceChangeRequest
    BY ChangeTyped DEF GovernanceChangeRequest, GovernanceChangeStatus
  <2> QED BY <1>1, <2>1 DEF Proposes, ProposeChange, StandalonePropose
<1>2. ASSUME NEW r \in Requests, NEW a \in Actors, NEW d \in {"approve", "reject"},
             Approves(r, a, d)
      PROVE  ChangeTypes'
  <2>1. Decided(requests[r], a, d) \in GovernanceChangeRequest
    BY <1>2 DEF Approves, ApproveChange, StandaloneApprove, Decided, GovernanceChangeRequest,
       GovernanceChangeStatus
  <2> QED BY <1>2, <2>1 DEF Approves, ApproveChange, StandaloneApprove
<1>3. ASSUME NEW r \in Requests, NEW doc \in RetentionPolicies, AppliesPolicy(doc, r)
      PROVE  ChangeTypes'
  <2>1. requests[r] # NoRequest /\ requests' = MarkApplied(r)
    BY <1>3 DEF AppliesPolicy, ApplyRetentionPolicy, StandaloneApplyPolicy, ApprovedRequest,
       ApprovedRequestLocked
  <2>2. policies' = Append(policies, [doc |-> doc, request |-> r]) /\ UNCHANGED <<holds, roots>>
    BY <1>3 DEF AppliesPolicy, ApplyRetentionPolicy, StandaloneApplyPolicy
  <2> QED BY <2>1, <2>2, MarkAppliedTyped
<1>4. ASSUME NEW r \in Requests, NEW h \in Holds, ReleasesHold(h, r) PROVE ChangeTypes'
  <2>1. requests[r] # NoRequest /\ requests' = MarkApplied(r)
    BY <1>4 DEF ReleasesHold, ReleaseLegalHold, StandaloneReleaseHold, ApprovedRequest,
       ApprovedRequestLocked
  <2>2. /\ holds[h] # NoHold
        /\ holds' = [holds EXCEPT ![h] = [status |-> "released", scope |-> holds[h].scope,
                                          request |-> r]]
        /\ UNCHANGED <<policies, roots>>
    BY <1>4 DEF ReleasesHold, ReleaseLegalHold, StandaloneReleaseHold
  <2>3. holds' \in [Holds -> LegalHold \cup {NoHold}]
    BY <2>2 DEF LegalHold
  <2> QED BY <2>1, <2>2, <2>3, MarkAppliedTyped
<1>5. ASSUME NEW h \in Holds, NEW scope \in HoldScopes, PlacesHold(h, scope) PROVE ChangeTypes'
  BY <1>5, GovernanceAssumption DEF PlacesHold, PlaceLegalHold, StandalonePlaceHold, LegalHold
<1>6. ASSUME NEW r \in Requests, NEW doc \in TrustPolicies, NEW a \in Time, Bootstraps(doc, r, a)
      PROVE  ChangeTypes'
  <2>1. requests[r] # NoRequest /\ requests' = MarkApplied(r)
    BY <1>6 DEF Bootstraps, BootstrapTrustRoot, StandaloneBootstrap, ApprovedRequest,
       ApprovedRequestLocked
  <2>2. roots' = <<NewRoot(doc, a, r)>> /\ UNCHANGED <<holds, policies>>
    BY <1>6 DEF Bootstraps, BootstrapTrustRoot, StandaloneBootstrap
  <2>3. NewRoot(doc, a, r) \in GovernedTrustRoot
    BY GovernanceAssumption DEF NewRoot, GovernedTrustRoot, Time
  <2> QED BY <2>1, <2>2, <2>3, MarkAppliedTyped
<1>7. ASSUME NEW r \in Requests, NEW doc \in TrustPolicies, NEW a \in Time,
             NEW overlap \in Time, Rotates(doc, r, a, overlap)
      PROVE  ChangeTypes'
  <2>1. requests[r] # NoRequest /\ requests' = MarkApplied(r)
    BY <1>7 DEF Rotates, RotateTrustRoot, StandaloneRotate, ApprovedRequest, ApprovedRequestLocked
  <2>2. PICK i \in 1..Len(roots) : roots' = Append(Retired(i, overlap), NewRoot(doc, a, r))
    <3>1. roots # <<>> => Len(roots) \in 1..Len(roots)
      OBVIOUS
    <3> QED BY <1>7, <3>1 DEF Rotates, RotateTrustRoot, StandaloneRotate
  <2>3. NewRoot(doc, a, r) \in GovernedTrustRoot
    BY GovernanceAssumption DEF NewRoot, GovernedTrustRoot, Time
  <2>4. Retired(i, overlap) \in Seq(GovernedTrustRoot)
    <3>1. roots[i] \in GovernedTrustRoot
      OBVIOUS
    <3>2. overlap \in 0..MaxTime
      BY GovernanceAssumption DEF Time
    <3>3. [roots[i] EXCEPT !.retired = overlap] \in GovernedTrustRoot
      BY <3>1, <3>2 DEF GovernedTrustRoot
    <3> QED BY <3>3 DEF Retired
  <2>5. UNCHANGED <<holds, policies>>
    BY <1>7 DEF Rotates, RotateTrustRoot, StandaloneRotate
  <2> QED BY <2>1, <2>2, <2>3, <2>4, <2>5, MarkAppliedTyped
<1>8. CASE (\E e \in Executions : ExecutionNext(e)) \/ TransferNext \/ Tick
  BY <1>8, OtherStepsKeepChanges DEF KeepsChanges
<1> HIDE DEF ChangeTypes
<1> QED BY <1>1, <1>2, <1>3, <1>4, <1>5, <1>6, <1>7, <1>8, Steps

\* Groups other than executions and the clock leave the executions alone.
LEMMA ChangesKeepExecutions ==
  ASSUME Next
  PROVE  \/ \E e \in Executions : ExecutionNext(e)
         \/ Tick
         \/ UNCHANGED <<store, now, lock, exec, intents, deleted, records>>
<1>1. ASSUME NEW r \in Requests, NEW change \in Change, NEW a \in Actors, Proposes(r, change, a)
      PROVE  UNCHANGED <<store, now, lock, exec, intents, deleted, records>>
  BY <1>1 DEF Proposes, ProposeChange, StandalonePropose, retentionVars
<1>2. ASSUME NEW r \in Requests, NEW a \in Actors, NEW d \in {"approve", "reject"},
             Approves(r, a, d)
      PROVE  UNCHANGED <<store, now, lock, exec, intents, deleted, records>>
  BY <1>2 DEF Approves, ApproveChange, StandaloneApprove, retentionVars
<1>3. ASSUME NEW r \in Requests, NEW doc \in RetentionPolicies, AppliesPolicy(doc, r)
      PROVE  UNCHANGED <<store, now, lock, exec, intents, deleted, records>>
  BY <1>3 DEF AppliesPolicy, ApplyRetentionPolicy, StandaloneApplyPolicy, retentionVars
<1>4. ASSUME NEW r \in Requests, NEW h \in Holds, ReleasesHold(h, r)
      PROVE  UNCHANGED <<store, now, lock, exec, intents, deleted, records>>
  BY <1>4 DEF ReleasesHold, ReleaseLegalHold, StandaloneReleaseHold, retentionVars
<1>5. ASSUME NEW h \in Holds, NEW scope \in HoldScopes, PlacesHold(h, scope)
      PROVE  UNCHANGED <<store, now, lock, exec, intents, deleted, records>>
  BY <1>5 DEF PlacesHold, PlaceLegalHold, StandalonePlaceHold, retentionVars
<1>6. ASSUME NEW r \in Requests, NEW doc \in TrustPolicies, NEW a \in Time, Bootstraps(doc, r, a)
      PROVE  UNCHANGED <<store, now, lock, exec, intents, deleted, records>>
  BY <1>6 DEF Bootstraps, BootstrapTrustRoot, StandaloneBootstrap, retentionVars
<1>7. ASSUME NEW r \in Requests, NEW doc \in TrustPolicies, NEW a \in Time,
             NEW overlap \in Time, Rotates(doc, r, a, overlap)
      PROVE  UNCHANGED <<store, now, lock, exec, intents, deleted, records>>
  BY <1>7 DEF Rotates, RotateTrustRoot, StandaloneRotate, retentionVars
<1>8. CASE TransferNext
  BY <1>8 DEF TransferNext, CreateTransferManifest, StandaloneExport, VerifyTransfer,
     RecordVerifiedImport, StandaloneImport, retentionVars
<1> QED BY <1>1, <1>2, <1>3, <1>4, <1>5, <1>6, <1>7, <1>8, Steps

\* What a call does next is well formed.
LEMMA ContinueTyped ==
  ASSUME ExecutionTypes, NEW e \in Executions, NEW todo \in SUBSET Resources
  PROVE  /\ Continue(e, todo) \in Execution /\ Occupied(Continue(e, todo))
         /\ NoExecution \in Execution /\ Occupied(NoExecution)
<1>1. 1 \in Time
  BY GovernanceAssumption DEF Time
<1> QED BY <1>1 DEF ExecutionTypes, Continue, NoExecution, Execution, Occupied

\* So is a call that has just decided what to delete.
LEMMA PendingTyped ==
  ASSUME ChangeTypes, NEW at \in Time, NEW i \in Effective(at), NEW todo \in SUBSET Resources
  PROVE  /\ i \in Nat
         /\ [pc |-> "pending", todo |-> todo, revision |-> i, at |-> at, cur |-> NoResource]
               \in Execution
         /\ Occupied([pc |-> "pending", todo |-> todo, revision |-> i, at |-> at,
                       cur |-> NoResource])
<1>1. i \in Nat
  BY DEF Effective, ChangeTypes
<1> QED BY <1>1 DEF Execution, Occupied

\* Executions keep the types of their tables and locals.
LEMMA ExecutionsTyped ==
  ASSUME ExecutionTypes, ChangeTypes, Next
  PROVE  ExecutionTypes'
<1>1. ASSUME NEW e \in Executions, ExecutionNext(e) PROVE ExecutionTypes'
  <2>0. /\ exec[e] \in Execution /\ Occupied(exec[e])
        /\ NoExecution \in Execution /\ Occupied(NoExecution)
        /\ \A todo \in SUBSET Resources :
              Continue(e, todo) \in Execution /\ Occupied(Continue(e, todo))
    BY ContinueTyped DEF ExecutionTypes
  <2>1. ASSUME NEW x \in Execution, Occupied(x), exec' = [exec EXCEPT ![e] = x],
               now' = now, store' = store, lock' \in Executions \cup {NoLock},
               intents' \subseteq [resource: Resources, revision: Nat],
               deleted' \subseteq Resources,
               records' \subseteq [resource: Resources, revision: Nat]
        PROVE  ExecutionTypes'
    BY <2>1 DEF ExecutionTypes
  <2>2. ASSUME NEW C \in SUBSET Resources, RecordIntents(e, C) PROVE ExecutionTypes'
    <3>1. PICK i \in Effective(now) :
            LET todo == {c \in C : DecisionIsDelete(policies[i].doc, c, now)} IN
            /\ intents' = intents \cup [resource: todo, revision: {i}]
            /\ exec' = [exec EXCEPT ![e] =
                  IF todo = {} THEN NoExecution
                  ELSE [pc |-> "pending", todo |-> todo, revision |-> i, at |-> now,
                        cur |-> NoResource]]
      BY <2>2 DEF RecordIntents
    <3> DEFINE todo == {c \in C : DecisionIsDelete(policies[i].doc, c, now)}
               x == IF todo = {} THEN NoExecution
                    ELSE [pc |-> "pending", todo |-> todo, revision |-> i, at |-> now,
                          cur |-> NoResource]
    <3>2. i \in Nat /\ x \in Execution /\ Occupied(x)
      BY <2>0, PendingTyped DEF ExecutionTypes
    <3>3. intents' \subseteq [resource: Resources, revision: Nat]
      BY <3>1, <3>2 DEF ExecutionTypes
    <3>4. exec' = [exec EXCEPT ![e] = x]
      BY <3>1
    <3> HIDE DEF x
    <3> QED BY <2>1, <2>2, <3>2, <3>3, <3>4 DEF RecordIntents, ExecutionTypes
  <2>3. ASSUME NEW C \in SUBSET Resources, NEW at \in Time, StandaloneExecute(e, C, at)
        PROVE  ExecutionTypes'
    <3>1. PICK i \in Effective(at) :
            LET todo == {c \in C : DecisionIsDelete(policies[i].doc, c, at)} IN
            /\ lock' = IF todo = {} THEN NoLock ELSE e
            /\ exec' = [exec EXCEPT ![e] =
                  IF todo = {} THEN NoExecution
                  ELSE [pc |-> "pending", todo |-> todo, revision |-> i, at |-> at,
                        cur |-> NoResource]]
      BY <2>3 DEF StandaloneExecute
    <3> DEFINE todo == {c \in C : DecisionIsDelete(policies[i].doc, c, at)}
               x == IF todo = {} THEN NoExecution
                    ELSE [pc |-> "pending", todo |-> todo, revision |-> i, at |-> at,
                          cur |-> NoResource]
    <3>2. x \in Execution /\ Occupied(x)
      BY <2>0, PendingTyped DEF ExecutionTypes
    <3>3. exec' = [exec EXCEPT ![e] = x] /\ lock' \in Executions \cup {NoLock}
      BY <3>1
    <3> HIDE DEF x
    <3> QED BY <2>1, <2>3, <3>2, <3>3 DEF StandaloneExecute, ExecutionTypes
  <2>4. ASSUME NEW c \in Resources, BeginDeletion(e, c) PROVE ExecutionTypes'
    <3> DEFINE x == [exec[e] EXCEPT !.pc = "deleting", !.cur = c, !.at = now]
    <3>1. x \in Execution /\ Occupied(x)
      BY <2>0 DEF ExecutionTypes, Execution, Occupied
    <3>2. exec' = [exec EXCEPT ![e] = x]
      BY <2>4 DEF BeginDeletion, ExecutionTypes
    <3> HIDE DEF x
    <3> QED BY <2>1, <2>4, <3>1, <3>2 DEF BeginDeletion, ExecutionTypes
  <2>5. ASSUME NEW c \in Resources, CancelDeletion(e, c) PROVE ExecutionTypes'
    <3>1. exec[e].todo \ {c} \in SUBSET Resources
      BY <2>0 DEF Execution
    <3> QED BY <2>1, <2>5, <2>0, <3>1 DEF CancelDeletion, ExecutionTypes
  <2>6. ASSUME NEW c \in Resources, StandaloneIntent(e, c) PROVE ExecutionTypes'
    <3> DEFINE x == [exec[e] EXCEPT !.pc = "deleting", !.cur = c]
    <3>1. x \in Execution /\ Occupied(x)
      BY <2>0 DEF Execution, Occupied
    <3>2. exec' = [exec EXCEPT ![e] = x]
      BY <2>6 DEF StandaloneIntent, ExecutionTypes
    <3>3. intents' \subseteq [resource: Resources, revision: Nat]
      BY <2>6, <2>0 DEF StandaloneIntent, ExecutionTypes, Execution
    <3> HIDE DEF x
    <3> QED BY <2>1, <2>6, <3>1, <3>2, <3>3 DEF StandaloneIntent, ExecutionTypes
  <2>7. CASE AdapterDelete(e)
    BY <2>7, <2>0 DEF AdapterDelete, ExecutionTypes, Execution, Occupied
  <2>8. CASE CommitDeletion(e) \/ StandaloneRecord(e)
    <3>1. exec[e].todo \ {exec[e].cur} \in SUBSET Resources
      BY <2>0 DEF Execution
    <3>2. [resource |-> exec[e].cur, revision |-> exec[e].revision]
            \in [resource: Resources, revision: Nat]
      BY <2>0, <2>8 DEF CommitDeletion, StandaloneRecord, Execution, Occupied
    <3> QED BY <2>1, <2>8, <2>0, <3>1, <3>2 DEF CommitDeletion, StandaloneRecord, ExecutionTypes
  <2>9. CASE AbortExecution(e) \/ StandaloneRaise(e)
    BY <2>1, <2>9, <2>0 DEF AbortExecution, StandaloneRaise, ExecutionTypes
  <2> QED BY <1>1, <2>2, <2>3, <2>4, <2>5, <2>6, <2>7, <2>8, <2>9 DEF ExecutionNext
<1>2. CASE Tick
  <2>1. now' \in Time
    BY <1>2, GovernanceAssumption DEF Tick, ExecutionTypes, Time
  <2> QED BY <1>2, <2>1 DEF Tick, ExecutionTypes, retentionVars
<1>3. CASE UNCHANGED <<store, now, lock, exec, intents, deleted, records>>
  BY <1>3 DEF ExecutionTypes
<1> QED BY <1>1, <1>2, <1>3, ChangesKeepExecutions

\* Transfers keep the types of their tables.
LEMMA TransfersTyped ==
  ASSUME TransferTypes, Next
  PROVE  TransferTypes'
<1>1. CASE TransferNext
  <2>1. PICK t \in Transfers, m \in EvidenceTransferManifest :
          \/ CreateTransferManifest(t, m) \/ StandaloneExport(t, m)
          \/ \E p \in Packages :
                \/ VerifyTransfer(t, m, p)
                \/ \E v \in EvidenceTransferVerification :
                      RecordVerifiedImport(t, m, v, p) \/ StandaloneImport(t, m, v, p)
    BY <1>1 DEF TransferNext
  <2>2. CASE CreateTransferManifest(t, m) \/ StandaloneExport(t, m)
    BY <2>2 DEF CreateTransferManifest, StandaloneExport, TransferTypes
  <2>3. ASSUME NEW p \in Packages, VerifyTransfer(t, m, p) PROVE TransferTypes'
    BY <2>3 DEF VerifyTransfer, TransferTypes, EvidenceTransferVerification
  <2>4. ASSUME NEW p \in Packages, NEW v \in EvidenceTransferVerification,
               RecordVerifiedImport(t, m, v, p) \/ StandaloneImport(t, m, v, p)
        PROVE  TransferTypes'
    <3>1. Receipt(t, m, v, p) \in EvidenceImportReceipt
      BY DEF Receipt, EvidenceImportReceipt, EvidenceTransferManifest
    <3> QED BY <2>4, <3>1 DEF RecordVerifiedImport, StandaloneImport, TransferTypes
  <2> QED BY <2>1, <2>2, <2>3, <2>4
<1>2. CASE UNCHANGED transferVars
  BY <1>2 DEF transferVars, TransferTypes
<1>3. ASSUME NEW e \in Executions, ExecutionNext(e) PROVE UNCHANGED transferVars
  BY <1>3 DEF ExecutionNext, RecordIntents, StandaloneExecute, BeginDeletion,
     CancelDeletion, StandaloneIntent, AdapterDelete, CommitDeletion, StandaloneRecord,
     AbortExecution, StandaloneRaise
<1>4. CASE Tick
  BY <1>2, <1>4 DEF Tick
<1>5. CASE ChangeNext \/ ApplyNext \/ PlaceNext
  BY <1>2, <1>5 DEF ChangeNext, ApplyNext, PlaceNext, ProposeChange, StandalonePropose,
     ProposeLegalHoldRelease, StandaloneProposeRelease, ApproveChange, StandaloneApprove,
     ApplyRetentionPolicy, StandaloneApplyPolicy, ReleaseLegalHold, StandaloneReleaseHold,
     PlaceLegalHold, StandalonePlaceHold
<1>6. CASE RootNext
  BY <1>2, <1>6 DEF RootNext, BootstrapTrustRoot, StandaloneBootstrap, RotateTrustRoot,
     StandaloneRotate
<1> QED BY <1>1, <1>2, <1>3, <1>4, <1>5, <1>6 DEF Next

\* The types are those of TypeOK; an occupied call has a candidate.
LEMMA TypesAre == TypeOK /\ (\A e \in Executions : Occupied(exec[e]))
                  <=> ChangeTypes /\ ExecutionTypes /\ TransferTypes
BY DEF TypeOK, ChangeTypes, ExecutionTypes, TransferTypes

----------------------------------------------------------------------------
(* Retention execution *)

\* candidate c may be deleted by execution e: no hold, and due under the
\* policy revision that e decides by
Governed(e, c) ==
    LET policy == policies[exec[e].revision].doc IN
    /\ \A h \in Holds : ~AppliesTo(holds[h], c)
    /\ DecidesBy(e)
    /\ policy.retain[c] # Forever
    /\ Created[c] + policy.retain[c] <= exec[e].at

\* the executions that hold the lock
Busy(e) ==
    \/ exec[e].pc \in {"deleting", "deleted"}
    \/ store = "standalone" /\ exec[e].pc = "pending"

LockInv == \A e \in Executions : Busy(e) => lock = e

\* what a busy execution deletes next stays deletable while it has the lock
RuleInv ==
    \A e \in Executions :
        /\ exec[e].pc = "deleting" => Governed(e, exec[e].cur)
        /\ store = "standalone" /\ exec[e].pc # "idle" => \A c \in exec[e].todo : Governed(e, c)

\* intents come first
TraceInv ==
    \A e \in Executions :
        /\ exec[e].pc \in {"deleting", "deleted"} =>
              [resource |-> exec[e].cur, revision |-> exec[e].revision] \in intents
        /\ exec[e].pc = "deleted" => exec[e].cur \in deleted
        /\ store = "postgres" /\ exec[e].pc # "idle" =>
              \A c \in exec[e].todo : [resource |-> c, revision |-> exec[e].revision] \in intents

\* Policies and holds change only while nobody has the lock.
LEMMA LockGuardsTables ==
  ASSUME Next
  PROVE  UNCHANGED <<policies, holds>> \/ lock = NoLock
<1>1. CASE \E r \in Requests, change \in Change, a \in Actors : Proposes(r, change, a)
  BY <1>1 DEF Proposes, ProposeChange, StandalonePropose
<1>2. CASE \E r \in Requests, a \in Actors, d \in {"approve", "reject"} : Approves(r, a, d)
  BY <1>2 DEF Approves, ApproveChange, StandaloneApprove
<1>3. CASE \E r \in Requests, doc \in RetentionPolicies : AppliesPolicy(doc, r)
  BY <1>3 DEF AppliesPolicy, ApplyRetentionPolicy, StandaloneApplyPolicy
<1>4. CASE \E r \in Requests, h \in Holds : ReleasesHold(h, r)
  BY <1>4 DEF ReleasesHold, ReleaseLegalHold, StandaloneReleaseHold
<1>5. CASE \E h \in Holds, scope \in HoldScopes : PlacesHold(h, scope)
  BY <1>5 DEF PlacesHold, PlaceLegalHold, StandalonePlaceHold
<1>6. CASE \E r \in Requests, doc \in TrustPolicies, a \in Time : Bootstraps(doc, r, a)
  BY <1>6 DEF Bootstraps, BootstrapTrustRoot, StandaloneBootstrap
<1>7. CASE \E r \in Requests, doc \in TrustPolicies, a, overlap \in Time :
             Rotates(doc, r, a, overlap)
  BY <1>7 DEF Rotates, RotateTrustRoot, StandaloneRotate
<1>8. CASE (\E e \in Executions : ExecutionNext(e)) \/ TransferNext \/ Tick
  BY <1>8, OtherStepsKeepChanges DEF KeepsChanges
<1> QED BY <1>1, <1>2, <1>3, <1>4, <1>5, <1>6, <1>7, <1>8, Steps

\* What governs a candidate does not change with the rest of the state.
LEMMA GovernedFrame ==
  ASSUME UNCHANGED <<store, policies, holds>>, NEW e \in Executions, NEW c,
         exec'[e].revision = exec[e].revision, exec'[e].at = exec[e].at, Governed(e, c)
  PROVE  Governed(e, c)'
BY DEF Governed, DecidesBy, IsCurrentPolicy, IsEffectiveLocked, Effective, AppliesTo

\* An execution's step concerns its own entry only.
LEMMA OwnEntry ==
  ASSUME ExecutionTypes, NEW e \in Executions, ExecutionNext(e), NEW d \in Executions, d # e
  PROVE  exec'[d] = exec[d]
BY DEF ExecutionTypes, ExecutionNext, RecordIntents, StandaloneExecute, BeginDeletion,
   CancelDeletion, StandaloneIntent, AdapterDelete, CommitDeletion, StandaloneRecord,
   AbortExecution, StandaloneRaise

\* The lock is with the execution that is in its critical section.
LEMMA LockInductive ==
  ASSUME ExecutionTypes, LockInv, Next
  PROVE  LockInv'
<1>1. ASSUME NEW e \in Executions, ExecutionNext(e) PROVE LockInv'
  <2>1. UNCHANGED store
    BY <1>1, OtherStepsKeepChanges
  <2>2. ASSUME NEW d \in Executions, d # e PROVE (Busy(d) => lock = d)'
    <3>1. exec'[d] = exec[d]
      BY <1>1, <2>2, OwnEntry
    <3>2. Busy(d) => lock = d /\ d # NoLock
      BY GovernanceAssumption DEF LockInv
    <3>3. Busy(d) => lock' = d
      BY <1>1, <2>2, <3>2 DEF LockInv, Busy, ExecutionNext, RecordIntents, StandaloneExecute,
         BeginDeletion, CancelDeletion, StandaloneIntent, AdapterDelete, CommitDeletion,
         StandaloneRecord, AbortExecution, StandaloneRaise
    <3> QED BY <2>1, <3>1, <3>3 DEF Busy
  <2>3. (Busy(e) => lock = e)'
    <3>1. CASE \E C \in SUBSET Resources : RecordIntents(e, C)
      BY <2>1, <3>1 DEF RecordIntents, Busy, ExecutionTypes, NoExecution
    <3>2. CASE \E C \in SUBSET Resources, at \in Time : StandaloneExecute(e, C, at)
      BY <2>1, <3>2 DEF StandaloneExecute, Busy, ExecutionTypes, NoExecution
    <3>3. CASE \E c \in Resources : BeginDeletion(e, c) \/ CancelDeletion(e, c) \/ StandaloneIntent(e, c)
      BY <2>1, <3>3 DEF BeginDeletion, CancelDeletion, StandaloneIntent, Busy, ExecutionTypes,
         Continue, NoExecution, LockInv
    <3>4. CASE AdapterDelete(e)
      BY <2>1, <3>4 DEF AdapterDelete, Busy, ExecutionTypes, LockInv
    <3>5. CASE CommitDeletion(e)
      BY <2>1, <3>5 DEF CommitDeletion, Busy, ExecutionTypes, Continue, NoExecution
    <3>6. CASE StandaloneRecord(e)
      BY <2>1, <3>6 DEF StandaloneRecord, Busy, ExecutionTypes, Continue, NoExecution
    <3>7. CASE AbortExecution(e) \/ StandaloneRaise(e)
      BY <3>7 DEF AbortExecution, StandaloneRaise, Busy, ExecutionTypes, NoExecution
    <3> QED BY <1>1, <3>1, <3>2, <3>3, <3>4, <3>5, <3>6, <3>7 DEF ExecutionNext
  <2> QED BY <2>2, <2>3 DEF LockInv
<1>2. CASE Tick
  BY <1>2 DEF Tick, LockInv, Busy, retentionVars
<1>3. CASE UNCHANGED <<store, now, lock, exec, intents, deleted, records>>
  BY <1>3 DEF LockInv, Busy
<1> QED BY <1>1, <1>2, <1>3, ChangesKeepExecutions

\* A candidate that is decided on is due until the lock is given up.
LEMMA RuleInductive ==
  ASSUME ExecutionTypes, LockInv, RuleInv, Next
  PROVE  RuleInv'
<1> DEFINE Ruled(e) ==
        /\ exec[e].pc = "deleting" => Governed(e, exec[e].cur)
        /\ store = "standalone" /\ exec[e].pc # "idle" => \A c \in exec[e].todo : Governed(e, c)
<1>1. ASSUME UNCHANGED <<store, policies, holds>>, NEW d \in Executions, exec'[d] = exec[d]
      PROVE  Ruled(d)'
  <2>1. \A c : Governed(d, c) => Governed(d, c)'
    BY <1>1, GovernedFrame
  <2> HIDE DEF Governed
  <2> QED BY <1>1, <2>1 DEF RuleInv
<1>2. ASSUME NEW e \in Executions, ExecutionNext(e) PROVE RuleInv'
  <2>1. UNCHANGED <<store, policies, holds>>
    BY <1>2, OtherStepsKeepChanges DEF KeepsChanges
  <2>2. ASSUME NEW d \in Executions, d # e PROVE Ruled(d)'
    BY <1>1, <1>2, <2>1, <2>2, OwnEntry
  <2>3. Ruled(e)
    BY DEF RuleInv
  <2>4. \A c : Governed(e, c) /\ exec'[e].revision = exec[e].revision /\ exec'[e].at = exec[e].at
               => Governed(e, c)'
    BY <2>1, GovernedFrame
  <2>6. ASSUME \E C \in SUBSET Resources : RecordIntents(e, C) PROVE Ruled(e)'
    BY <2>1, <2>6 DEF RecordIntents, ExecutionTypes, NoExecution
  <2>7. ASSUME NEW C \in SUBSET Resources, NEW at \in Time, StandaloneExecute(e, C, at)
        PROVE  Ruled(e)'
    <3>1. PICK i \in Effective(at) :
            LET todo == {c \in C : DecisionIsDelete(policies[i].doc, c, at)} IN
            /\ IsEffectiveLocked(i, at)
            /\ exec' = [exec EXCEPT ![e] =
                  IF todo = {} THEN NoExecution
                  ELSE [pc |-> "pending", todo |-> todo, revision |-> i, at |-> at,
                        cur |-> NoResource]]
      BY <2>7 DEF StandaloneExecute
    <3> DEFINE todo == {c \in C : DecisionIsDelete(policies[i].doc, c, at)}
    <3>2. CASE todo = {}
      BY <3>1, <3>2 DEF ExecutionTypes, NoExecution
    <3>3. CASE todo # {}
      <4>1. exec'[e] = [pc |-> "pending", todo |-> todo, revision |-> i, at |-> at,
                        cur |-> NoResource]
        BY <3>1, <3>3 DEF ExecutionTypes
      <4>2. DecidesBy(e)'
        <5>1. IsEffectiveLocked(i, at)'
          BY <2>1, <3>1 DEF IsEffectiveLocked, Effective
        <5> QED BY <2>1, <2>7, <4>1, <5>1 DEF DecidesBy, StandaloneExecute
      <4>3. ASSUME NEW c \in todo PROVE Governed(e, c)'
        <5>1. DecisionIsDelete(policies[i].doc, c, at)
          OBVIOUS
        <5> QED BY <2>1, <4>1, <4>2, <5>1 DEF Governed, DecisionIsDelete, AppliesTo
      <4> HIDE DEF todo
      <4> QED BY <4>1, <4>3
    <3> QED BY <3>2, <3>3
  <2>8. ASSUME NEW c \in Resources, BeginDeletion(e, c) PROVE Ruled(e)'
    <3>1. PICK i \in Effective(now) : IsCurrentPolicy(i, now) /\ StillEligible(e, c, i)
      BY <2>8 DEF BeginDeletion
    <3>2. /\ exec'[e].pc = "deleting" /\ exec'[e].cur = c /\ exec'[e].at = now
          /\ exec'[e].revision = i /\ store = "postgres" /\ store' = "postgres"
      BY <2>1, <2>8, <3>1 DEF BeginDeletion, StillEligible, ExecutionTypes, Execution
    <3>3. DecidesBy(e)'
      <4>1. IsCurrentPolicy(exec'[e].revision, exec'[e].at)
        BY <3>1, <3>2
      <4>2. IsCurrentPolicy(exec[e].revision, exec[e].at)'
        BY <2>1, <4>1 DEF IsCurrentPolicy, Effective
      <4> QED BY <3>2, <4>2 DEF DecidesBy
    <3>4. Governed(e, exec[e].cur)'
      BY <2>1, <3>1, <3>2, <3>3 DEF Governed, StillEligible, DecisionIsDelete, AppliesTo
    <3> QED BY <3>2, <3>4
  <2>9. ASSUME NEW c \in Resources, CancelDeletion(e, c) PROVE Ruled(e)'
    BY <2>1, <2>9 DEF CancelDeletion, ExecutionTypes, Continue, NoExecution
  <2>10. ASSUME NEW c \in Resources, StandaloneIntent(e, c) PROVE Ruled(e)'
    <3>1. /\ exec'[e].pc = "deleting" /\ exec'[e].cur = c /\ exec'[e].todo = exec[e].todo
          /\ exec'[e].at = exec[e].at /\ exec'[e].revision = exec[e].revision
      BY <2>10 DEF StandaloneIntent, ExecutionTypes, Execution
    <3>2. \A b \in exec[e].todo : Governed(e, b)
      BY <2>3, <2>10 DEF StandaloneIntent
    <3> HIDE DEF Governed
    <3>3. \A b \in exec[e].todo : Governed(e, b)'
      BY <2>4, <3>1, <3>2
    <3> QED BY <2>10, <3>1, <3>3 DEF StandaloneIntent
  <2>11. ASSUME AdapterDelete(e) PROVE Ruled(e)'
    <3>1. /\ exec'[e].pc = "deleted" /\ exec'[e].todo = exec[e].todo /\ exec[e].pc = "deleting"
          /\ exec'[e].at = exec[e].at /\ exec'[e].revision = exec[e].revision
      BY <2>11 DEF AdapterDelete, ExecutionTypes, Execution
    <3> HIDE DEF Governed
    <3> QED BY <2>1, <2>3, <2>4, <3>1
  <2>12. ASSUME CommitDeletion(e) PROVE Ruled(e)'
    BY <2>1, <2>12 DEF CommitDeletion, ExecutionTypes, Continue, NoExecution
  <2>13. ASSUME StandaloneRecord(e) PROVE Ruled(e)'
    <3>1. \/ exec'[e].pc = "idle"
          \/ /\ exec'[e].pc = "pending" /\ exec'[e].todo \subseteq exec[e].todo
             /\ exec'[e].at = exec[e].at /\ exec'[e].revision = exec[e].revision
      BY <2>13 DEF StandaloneRecord, ExecutionTypes, Continue, NoExecution
    <3>2. exec[e].pc # "idle"
      BY <2>13 DEF StandaloneRecord
    <3> HIDE DEF Governed
    <3> QED BY <2>1, <2>3, <2>4, <3>1, <3>2
  <2>14. ASSUME AbortExecution(e) \/ StandaloneRaise(e) PROVE Ruled(e)'
    BY <2>14 DEF AbortExecution, StandaloneRaise, ExecutionTypes, NoExecution
  <2>15. Ruled(e)'
    BY <1>2, <2>6, <2>7, <2>8, <2>9, <2>10, <2>11, <2>12, <2>13, <2>14 DEF ExecutionNext
  <2> QED BY <2>2, <2>15 DEF RuleInv
<1>3. CASE UNCHANGED <<store, lock, exec>>
  <2>1. CASE UNCHANGED <<policies, holds>>
    BY <1>1, <1>3, <2>1 DEF RuleInv
  <2>2. CASE lock = NoLock
    <3>1. \A d \in Executions : ~Busy(d)
      BY <2>2, GovernanceAssumption DEF LockInv
    <3>2. ASSUME NEW d \in Executions
          PROVE  /\ exec'[d].pc # "deleting"
                 /\ store' = "standalone" => exec'[d].pc = "idle"
      BY <1>3, <3>1 DEF Busy, ExecutionTypes, Execution
    <3>3. ASSUME NEW d \in Executions PROVE Ruled(d)'
      BY <3>2
    <3> QED BY <3>3 DEF RuleInv
  <2> QED BY <2>1, <2>2, LockGuardsTables
<1>4. CASE Tick
  BY <1>3, <1>4 DEF Tick, retentionVars
<1> QED BY <1>2, <1>3, <1>4, ChangesKeepExecutions

\* Intents are on record before a candidate is deleted, and stay.
LEMMA TraceInductive ==
  ASSUME ExecutionTypes, ChangeTypes, TraceInv, DeletionLeavesEvidence, Next
  PROVE  TraceInv' /\ DeletionLeavesEvidence'
<1> DEFINE Traced(e) ==
        /\ exec[e].pc \in {"deleting", "deleted"} =>
              [resource |-> exec[e].cur, revision |-> exec[e].revision] \in intents
        /\ exec[e].pc = "deleted" => exec[e].cur \in deleted
        /\ store = "postgres" /\ exec[e].pc # "idle" =>
              \A c \in exec[e].todo : [resource |-> c, revision |-> exec[e].revision] \in intents
<1>1. ASSUME NEW e \in Executions, ExecutionNext(e)
      PROVE  TraceInv' /\ DeletionLeavesEvidence'
  <2>1. UNCHANGED store /\ intents \subseteq intents' /\ deleted \subseteq deleted'
    BY <1>1 DEF ExecutionNext, RecordIntents, StandaloneExecute, BeginDeletion, CancelDeletion,
       StandaloneIntent, AdapterDelete, CommitDeletion, StandaloneRecord, AbortExecution,
       StandaloneRaise
  <2>2. ASSUME NEW d \in Executions, d # e PROVE Traced(d)'
    <3>1. exec'[d] = exec[d]
      BY <1>1, <2>2, OwnEntry
    <3> QED BY <2>1, <3>1 DEF TraceInv
  <2>3. Traced(e)
    BY DEF TraceInv
  <2>4. exec[e] \in Execution
    BY DEF ExecutionTypes
  <2>5. ASSUME NEW C \in SUBSET Resources, RecordIntents(e, C)
        PROVE  Traced(e)' /\ DeletionLeavesEvidence'
    <3>1. PICK i \in Effective(now) :
            LET todo == {c \in C : DecisionIsDelete(policies[i].doc, c, now)} IN
            /\ intents' = intents \cup [resource: todo, revision: {i}]
            /\ exec' = [exec EXCEPT ![e] =
                  IF todo = {} THEN NoExecution
                  ELSE [pc |-> "pending", todo |-> todo, revision |-> i, at |-> now,
                        cur |-> NoResource]]
      BY <2>5 DEF RecordIntents
    <3> DEFINE todo == {c \in C : DecisionIsDelete(policies[i].doc, c, now)}
    <3> HIDE DEF todo
    <3>2. intents' = intents \cup [resource: todo, revision: {i}]
      BY <3>1 DEF todo
    <3>3. exec'[e] = IF todo = {} THEN NoExecution
                     ELSE [pc |-> "pending", todo |-> todo, revision |-> i, at |-> now,
                           cur |-> NoResource]
      BY <3>1 DEF todo, ExecutionTypes
    <3>4. Traced(e)'
      BY <3>2, <3>3 DEF NoExecution
    <3> QED BY <2>1, <2>5, <3>4 DEF RecordIntents, DeletionLeavesEvidence
  <2>6. ASSUME NEW C \in SUBSET Resources, NEW at \in Time, StandaloneExecute(e, C, at)
        PROVE  Traced(e)' /\ DeletionLeavesEvidence'
    <3>1. exec'[e].pc \in {"idle", "pending"} /\ store' = "standalone"
      BY <2>1, <2>6 DEF StandaloneExecute, ExecutionTypes, NoExecution
    <3> QED BY <2>6, <3>1 DEF StandaloneExecute, DeletionLeavesEvidence
  <2>7. ASSUME NEW c \in Resources, BeginDeletion(e, c)
        PROVE  Traced(e)' /\ DeletionLeavesEvidence'
    <3>1. /\ exec'[e].pc = "deleting" /\ exec'[e].cur = c /\ exec'[e].todo = exec[e].todo
          /\ exec'[e].revision = exec[e].revision
      BY <2>4, <2>7 DEF BeginDeletion, ExecutionTypes, Execution
    <3> QED BY <2>1, <2>3, <2>7, <3>1 DEF BeginDeletion, DeletionLeavesEvidence
  <2>8. ASSUME NEW c \in Resources, CancelDeletion(e, c)
        PROVE  Traced(e)' /\ DeletionLeavesEvidence'
    <3>1. \/ exec'[e].pc = "idle"
          \/ /\ exec'[e].pc = "pending" /\ exec'[e].todo \subseteq exec[e].todo
             /\ exec'[e].revision = exec[e].revision
      BY <2>8 DEF CancelDeletion, ExecutionTypes, Continue, NoExecution
    <3> QED BY <2>1, <2>3, <2>8, <3>1 DEF CancelDeletion, DeletionLeavesEvidence
  <2>9. ASSUME NEW c \in Resources, StandaloneIntent(e, c)
        PROVE  Traced(e)' /\ DeletionLeavesEvidence'
    <3>1. /\ exec'[e].pc = "deleting" /\ exec'[e].cur = c
          /\ exec'[e].revision = exec[e].revision /\ store' = "standalone"
      BY <2>1, <2>4, <2>9 DEF StandaloneIntent, ExecutionTypes, Execution
    <3>2. /\ intents' = intents \cup {[resource |-> c, revision |-> exec[e].revision]}
          /\ UNCHANGED <<deleted, records>>
      BY <2>9 DEF StandaloneIntent
    <3>3. Traced(e)'
      BY <3>1, <3>2
    <3> QED BY <2>1, <3>2, <3>3 DEF DeletionLeavesEvidence
  <2>10. ASSUME AdapterDelete(e) PROVE Traced(e)' /\ DeletionLeavesEvidence'
    <3>1. /\ exec'[e].pc = "deleted" /\ exec'[e].cur = exec[e].cur
          /\ exec'[e].todo = exec[e].todo /\ exec'[e].revision = exec[e].revision
      BY <2>4, <2>10 DEF AdapterDelete, ExecutionTypes, Execution
    <3>2. exec[e].pc = "deleting" /\ intents' = intents /\ records' = records
          /\ deleted' = deleted \cup {exec[e].cur} /\ store' = store
      BY <2>10 DEF AdapterDelete
    <3>3. Traced(e)'
      BY <2>3, <3>1, <3>2
    <3>4. \E n \in intents : n.resource = exec[e].cur
      BY <2>3, <3>2
    <3>5. \A c \in deleted' : \E n \in intents' : n.resource = c
      BY <3>2, <3>4 DEF DeletionLeavesEvidence
    <3>6. records' \subseteq intents' /\ \A n \in records' : n.resource \in deleted'
      BY <3>2 DEF DeletionLeavesEvidence
    <3> QED BY <3>3, <3>5, <3>6 DEF DeletionLeavesEvidence
  <2>11. ASSUME CommitDeletion(e) \/ StandaloneRecord(e)
         PROVE  Traced(e)' /\ DeletionLeavesEvidence'
    <3>1. \/ exec'[e].pc = "idle"
          \/ /\ exec'[e].pc = "pending" /\ exec'[e].todo \subseteq exec[e].todo
             /\ exec'[e].revision = exec[e].revision
      BY <2>11 DEF CommitDeletion, StandaloneRecord, ExecutionTypes, Continue, NoExecution
    <3>2. /\ exec[e].pc = "deleted" /\ intents' = intents /\ deleted' = deleted /\ store' = store
          /\ records' = records \cup {[resource |-> exec[e].cur, revision |-> exec[e].revision]}
      BY <2>11 DEF CommitDeletion, StandaloneRecord
    <3>3. Traced(e)'
      BY <2>3, <3>1, <3>2
    <3> QED BY <2>3, <3>2, <3>3 DEF DeletionLeavesEvidence
  <2>12. ASSUME AbortExecution(e) \/ StandaloneRaise(e)
         PROVE  Traced(e)' /\ DeletionLeavesEvidence'
    BY <2>12 DEF AbortExecution, StandaloneRaise, ExecutionTypes, NoExecution,
       DeletionLeavesEvidence
  <2>13. Traced(e)' /\ DeletionLeavesEvidence'
    BY <1>1, <2>5, <2>6, <2>7, <2>8, <2>9, <2>10, <2>11, <2>12 DEF ExecutionNext
  <2> QED BY <2>2, <2>13 DEF TraceInv
<1>2. CASE UNCHANGED <<store, exec, intents, deleted, records>>
  BY <1>2 DEF TraceInv, DeletionLeavesEvidence
<1>3. CASE Tick
  BY <1>2, <1>3 DEF Tick, retentionVars
<1> QED BY <1>1, <1>2, <1>3, ChangesKeepExecutions

----------------------------------------------------------------------------
(* Change requests and what was applied through them *)

\* high-risk requests that are past their approval have two principals; the
\* durable store finds out when it reads the request back, the standalone
\* store when it is approved
TwoPrincipals ==
    \A r \in Requests :
        requests[r] # NoRequest /\ HighRisk(requests[r].change.risk)
            /\ (requests[r].status = "applied"
                \/ (store = "standalone" /\ requests[r].status = "approved"))
        => PrincipalOf[requests[r].approver] # PrincipalOf[requests[r].proposer]

\* the request r is applied by this step, as the change of prev into doc
Applies(r, type, doc, prev) ==
    /\ ApprovedRequest(requests[r], type, doc, prev) \/ ApprovedRequestLocked(requests[r], type, doc, prev)
    /\ requests' = MarkApplied(r)

\* An applied request stays as it is.
LEMMA AppliedStays ==
  ASSUME ChangeTypes, Next, NEW r \in Requests,
         requests[r] # NoRequest, requests[r].status = "applied"
  PROVE  requests'[r] = requests[r]
<1>1. CASE \E q \in Requests, change \in Change, a \in Actors : Proposes(q, change, a)
  BY <1>1 DEF Proposes, ProposeChange, StandalonePropose, ChangeTypes
<1>2. CASE \E q \in Requests, a \in Actors, d \in {"approve", "reject"} : Approves(q, a, d)
  BY <1>2 DEF Approves, ApproveChange, StandaloneApprove, ChangeTypes
<1>3. ASSUME NEW q \in Requests, NEW type, NEW doc, NEW prev, Applies(q, type, doc, prev)
      PROVE  requests'[r] = requests[r]
  <2>1. requests[q].status = "approved" /\ q # r
    BY <1>3 DEF Applies, ApprovedRequest, ApprovedRequestLocked
  <2> QED BY <1>3, <2>1 DEF Applies, MarkApplied, ChangeTypes
<1>4. CASE \E q \in Requests, doc \in RetentionPolicies : AppliesPolicy(doc, q)
  BY <1>3, <1>4 DEF AppliesPolicy, ApplyRetentionPolicy, StandaloneApplyPolicy, Applies
<1>5. CASE \E q \in Requests, h \in Holds : ReleasesHold(h, q)
  BY <1>3, <1>5 DEF ReleasesHold, ReleaseLegalHold, StandaloneReleaseHold, Applies
<1>6. CASE \E h \in Holds, scope \in HoldScopes : PlacesHold(h, scope)
  BY <1>6 DEF PlacesHold, PlaceLegalHold, StandalonePlaceHold
<1>7. CASE \E q \in Requests, doc \in TrustPolicies, a \in Time : Bootstraps(doc, q, a)
  BY <1>3, <1>7 DEF Bootstraps, BootstrapTrustRoot, StandaloneBootstrap, Applies
<1>8. CASE \E q \in Requests, doc \in TrustPolicies, a, overlap \in Time : Rotates(doc, q, a, overlap)
  BY <1>3, <1>8 DEF Rotates, RotateTrustRoot, StandaloneRotate, Applies
<1>9. CASE (\E e \in Executions : ExecutionNext(e)) \/ TransferNext \/ Tick
  BY <1>9, OtherStepsKeepChanges DEF KeepsChanges
<1> QED BY <1>1, <1>2, <1>4, <1>5, <1>6, <1>7, <1>8, <1>9, Steps

\* An approved request that is applied is on record as such.
LEMMA NewlyApplied ==
  ASSUME ChangeTypes, NEW r \in Requests, NEW type, NEW doc, NEW prev, Applies(r, type, doc, prev)
  PROVE  /\ requests[r] # NoRequest /\ requests[r].status = "approved"
         /\ AppliedFor(r, type, doc, prev)'
<1>1. /\ requests[r] # NoRequest /\ requests[r].status = "approved"
      /\ requests[r].change.type = type /\ requests[r].change.digest = doc
      /\ requests[r].change.expected = prev
  BY DEF Applies, ApprovedRequest, ApprovedRequestLocked
<1>2. requests[r] \in GovernanceChangeRequest
  BY <1>1 DEF ChangeTypes
<1>3. requests'[r] = [requests[r] EXCEPT !.status = "applied"]
  BY DEF Applies, MarkApplied, ChangeTypes
<1>4. requests'[r] \in GovernanceChangeRequest /\ requests'[r].status = "applied"
      /\ requests'[r].change = requests[r].change
  BY <1>2, <1>3 DEF GovernanceChangeRequest, GovernanceChangeStatus
<1> QED BY <1>1, <1>4, GovernanceAssumption DEF AppliedFor

\* Nobody is the second pair of eyes on a change of their own.
LEMMA EyesInductive ==
  ASSUME ChangeTypes, TwoPrincipals, Next
  PROVE  TwoPrincipals'
<1> DEFINE Reviewed(x, s) ==
        x # NoRequest /\ HighRisk(x.change.risk)
            /\ (x.status = "applied" \/ (s = "standalone" /\ x.status = "approved"))
        => PrincipalOf[x.approver] # PrincipalOf[x.proposer]
<1>1. \A r \in Requests : Reviewed(requests[r], store)
  BY DEF TwoPrincipals
<1>2. ASSUME store' = store, NEW q \in Requests, NEW x, requests' = [requests EXCEPT ![q] = x],
             Reviewed(x, store)
      PROVE  TwoPrincipals'
  <2>1. ASSUME NEW r \in Requests PROVE Reviewed(requests'[r], store')
    BY <1>1, <1>2 DEF ChangeTypes
  <2> QED BY <2>1 DEF TwoPrincipals
<1>3. ASSUME NEW q \in Requests, NEW change \in Change, NEW a \in Actors, Proposes(q, change, a)
      PROVE  TwoPrincipals'
  <2> DEFINE x == [change |-> change, proposer |-> a, approver |-> a, status |-> "proposed"]
  <2>1. requests' = [requests EXCEPT ![q] = x] /\ store' = store /\ Reviewed(x, store)
    BY <1>3 DEF Proposes, ProposeChange, StandalonePropose
  <2> QED BY <1>2, <2>1
<1>4. ASSUME NEW q \in Requests, NEW a \in Actors, NEW d \in {"approve", "reject"},
             Approves(q, a, d)
      PROVE  TwoPrincipals'
  <2>1. requests[q] \in GovernanceChangeRequest
    BY <1>4 DEF Approves, ApproveChange, StandaloneApprove, ChangeTypes
  <2> DEFINE x == Decided(requests[q], a, d)
  <2>2. /\ x.change = requests[q].change /\ x.proposer = requests[q].proposer
        /\ d = "approve" => x.approver = a
        /\ x.status = IF d = "approve" THEN "approved" ELSE "rejected"
    BY <2>1 DEF Decided, GovernanceChangeRequest
  <2>3. Reviewed(x, store)
    BY <1>4, <2>2 DEF Approves, ApproveChange, StandaloneApprove, SamePrincipal
  <2>4. requests' = [requests EXCEPT ![q] = x] /\ store' = store
    BY <1>4 DEF Approves, ApproveChange, StandaloneApprove
  <2> HIDE DEF x
  <2> QED BY <1>2, <2>3, <2>4
<1>5. ASSUME NEW q \in Requests, NEW type, NEW doc, NEW prev, store' = store,
             \/ store = "postgres" /\ ApprovedRequest(requests[q], type, doc, prev)
             \/ store = "standalone" /\ ApprovedRequestLocked(requests[q], type, doc, prev),
             requests' = MarkApplied(q)
      PROVE  TwoPrincipals'
  <2>1. requests[q] \in GovernanceChangeRequest /\ requests[q].status = "approved"
        /\ requests[q] # NoRequest
    BY <1>5 DEF ApprovedRequest, ApprovedRequestLocked, ChangeTypes
  <2> DEFINE x == [requests[q] EXCEPT !.status = "applied"]
  <2>2. /\ x.change = requests[q].change /\ x.proposer = requests[q].proposer
        /\ x.approver = requests[q].approver
    BY <2>1 DEF GovernanceChangeRequest
  <2>3. HighRisk(requests[q].change.risk) =>
          PrincipalOf[requests[q].approver] # PrincipalOf[requests[q].proposer]
    BY <1>1, <1>5, <2>1 DEF ApprovedRequest, ValidChange
  <2>4. Reviewed(x, store)
    BY <2>2, <2>3
  <2>5. requests' = [requests EXCEPT ![q] = x]
    BY <1>5 DEF MarkApplied, ChangeTypes
  <2> HIDE DEF x
  <2> QED BY <1>2, <1>5, <2>4, <2>5
<1>6. CASE UNCHANGED <<store, requests>>
  BY <1>6 DEF TwoPrincipals
<1>7. CASE \E q \in Requests, doc \in RetentionPolicies : AppliesPolicy(doc, q)
  BY <1>5, <1>7 DEF AppliesPolicy, ApplyRetentionPolicy, StandaloneApplyPolicy
<1>8. CASE \E q \in Requests, h \in Holds : ReleasesHold(h, q)
  BY <1>5, <1>8 DEF ReleasesHold, ReleaseLegalHold, StandaloneReleaseHold
<1>9. CASE \E h \in Holds, scope \in HoldScopes : PlacesHold(h, scope)
  BY <1>6, <1>9 DEF PlacesHold, PlaceLegalHold, StandalonePlaceHold
<1>10. CASE \E q \in Requests, doc \in TrustPolicies, a \in Time : Bootstraps(doc, q, a)
  BY <1>5, <1>10 DEF Bootstraps, BootstrapTrustRoot, StandaloneBootstrap
<1>11. CASE \E q \in Requests, doc \in TrustPolicies, a, overlap \in Time :
              Rotates(doc, q, a, overlap)
  BY <1>5, <1>11 DEF Rotates, RotateTrustRoot, StandaloneRotate
<1>12. CASE (\E e \in Executions : ExecutionNext(e)) \/ TransferNext \/ Tick
  BY <1>6, <1>12, OtherStepsKeepChanges DEF KeepsChanges
<1> QED BY <1>3, <1>4, <1>7, <1>8, <1>9, <1>10, <1>11, <1>12, Steps

\* the change on record in a request
OnRecord(request, type, doc, prev) ==
    /\ request # NoRequest /\ request.status = "applied"
    /\ request.change.type = type
    /\ request.change.digest = doc /\ request.change.expected = prev

\* what RevisionsChain and ApprovalIsSpent say of the first n revisions of a
\* stream, given the table of requests
ChainTo(table, stream, n, type) ==
    /\ \A i \in 1..n : OnRecord(table[stream[i].request], type, stream[i].doc,
                                IF i = 1 THEN NoDigest ELSE stream[i - 1].doc)
    /\ \A i, j \in 1..n : stream[i].request = stream[j].request => i = j

\* A stream stays chained when its next revision is applied against its tip.
LEMMA ChainGrows ==
  ASSUME NEW table, NEW table2, NEW stream, NEW stream2, NEW n \in Nat, NEW type, NEW r, NEW doc,
         \A i \in 1..n : /\ stream2[i].request = stream[i].request
                         /\ stream2[i].doc = stream[i].doc
                         /\ table2[stream[i].request] = table[stream[i].request],
         stream2[n + 1].request = r, stream2[n + 1].doc = doc,
         OnRecord(table2[r], type, doc, IF n = 0 THEN NoDigest ELSE stream[n].doc),
         table[r].status = "approved",
         ChainTo(table, stream, n, type)
  PROVE  ChainTo(table2, stream2, n + 1, type)
<1>1. ASSUME NEW i \in 1..(n + 1)
      PROVE  OnRecord(table2[stream2[i].request], type, stream2[i].doc,
                      IF i = 1 THEN NoDigest ELSE stream2[i - 1].doc)
  <2>1. CASE i = n + 1
    <3>1. CASE n = 0
      BY <2>1, <3>1
    <3>2. CASE n # 0
      BY <2>1, <3>2
    <3> QED BY <3>1, <3>2
  <2>2. CASE i # n + 1
    <3>1. i \in 1..n /\ (i # 1 => i - 1 \in 1..n)
      BY <2>2
    <3> QED BY <3>1 DEF ChainTo
  <2> QED BY <2>1, <2>2
<1>2. \A i \in 1..n : stream[i].request # r
  BY DEF ChainTo, OnRecord
<1>3. ASSUME NEW i \in 1..(n + 1), NEW j \in 1..(n + 1), stream2[i].request = stream2[j].request
      PROVE  i = j
  <2>1. (i \in 1..n \/ i = n + 1) /\ (j \in 1..n \/ j = n + 1)
    OBVIOUS
  <2> QED BY <1>2, <1>3, <2>1 DEF ChainTo
<1> QED BY <1>1, <1>3 DEF ChainTo

\* A chain outlives every step that leaves its stream alone.
LEMMA ChainStays ==
  ASSUME ChangeTypes, Next, NEW stream, NEW n \in Nat, NEW type,
         \A i \in 1..n : stream[i].request \in Requests,
         ChainTo(requests, stream, n, type)
  PROVE  ChainTo(requests', stream, n, type)
<1>1. \A i \in 1..n : requests'[stream[i].request] = requests[stream[i].request]
  BY AppliedStays DEF ChainTo, OnRecord
<1> QED BY <1>1 DEF ChainTo

\* released holds rest on the request that was approved for them
ReleasesOnRecord ==
    \A h \in Holds : holds[h] # NoHold /\ holds[h].status = "released" =>
        /\ holds[h].request \in Requests
        /\ OnRecord(requests[holds[h].request], "legal_hold_release", h, NoDigest)

ChainInv ==
    /\ ChainTo(requests, policies, Len(policies), "retention_policy")
    /\ \A i \in 1..Len(policies) : policies[i].doc.revision = i
    /\ ChainTo(requests, roots, Len(roots), "trust_root_policy")
    /\ ReleasesOnRecord

\* The chain invariant gives RevisionsChain and ApprovalIsSpent.
LEMMA ChainMeaning == ChainInv => RevisionsChain /\ ApprovalIsSpent
BY DEF ChainInv, ChainTo, ReleasesOnRecord, OnRecord, RevisionsChain, ApprovalIsSpent, AppliedFor

\* What a rotation makes of the history of roots.
LEMMA RotatedRoots ==
  ASSUME ChangeTypes, NEW r \in Requests, NEW doc \in TrustPolicies, NEW a \in Time,
         NEW overlap \in Time, Len(roots) # 0,
         roots' = Append(Retired(Len(roots), overlap), NewRoot(doc, a, r))
  PROVE  /\ Len(roots') = Len(roots) + 1
         /\ roots'[Len(roots) + 1] = NewRoot(doc, a, r)
         /\ \A i \in 1..(Len(roots) - 1) : roots'[i] = roots[i]
         /\ roots'[Len(roots)].retired = overlap
         /\ \A i \in 1..Len(roots) : /\ roots'[i].request = roots[i].request
                                     /\ roots'[i].doc = roots[i].doc
                                     /\ roots'[i].activated = roots[i].activated
<1> DEFINE n == Len(roots)
           last == [roots[n] EXCEPT !.retired = overlap]
<1>1. n \in Nat /\ n \in 1..n /\ roots[n] \in GovernedTrustRoot
  BY DEF ChangeTypes
<1>2. overlap \in 0..MaxTime
  BY GovernanceAssumption DEF Time
<1>3. /\ last \in GovernedTrustRoot /\ last.retired = overlap /\ last.request = roots[n].request
      /\ last.doc = roots[n].doc /\ last.activated = roots[n].activated
  BY <1>1, <1>2 DEF GovernedTrustRoot
<1>4. Retired(n, overlap) = [roots EXCEPT ![n] = last]
  BY DEF Retired
<1> HIDE DEF last
<1>5. /\ Retired(n, overlap) \in Seq(GovernedTrustRoot) /\ Len(Retired(n, overlap)) = n
      /\ \A i \in 1..n : Retired(n, overlap)[i] = IF i = n THEN last ELSE roots[i]
  BY <1>1, <1>3, <1>4 DEF ChangeTypes
<1>6. /\ Len(roots') = n + 1 /\ roots'[n + 1] = NewRoot(doc, a, r)
      /\ \A i \in 1..n : roots'[i] = IF i = n THEN last ELSE roots[i]
  BY <1>5
<1> QED BY <1>1, <1>3, <1>6

\* Every applied change extends its stream at the tip it was approved against.
LEMMA ChainInductive ==
  ASSUME ChangeTypes, ChainInv, Next
  PROVE  ChainInv'
<1>1. /\ Len(policies) \in Nat /\ Len(roots) \in Nat
      /\ \A i \in 1..Len(policies) : policies[i].request \in Requests
      /\ \A i \in 1..Len(roots) : roots[i].request \in Requests
  <2>1. \A i \in 1..Len(policies) : policies[i].request \in Requests
    <3> DEFINE Row == [doc: RetentionPolicies, request: Requests]
    <3>1. policies \in Seq(Row)
      BY DEF ChangeTypes
    <3>2. \A row \in Row : row.request \in Requests
      OBVIOUS
    <3> HIDE DEF Row
    <3> QED BY <3>1, <3>2
  <2>2. \A i \in 1..Len(roots) : roots[i] \in GovernedTrustRoot
    BY DEF ChangeTypes
  <2>3. \A i \in 1..Len(roots) : roots[i].request \in Requests
    BY <2>2 DEF GovernedTrustRoot
  <2> QED BY <2>1, <2>3 DEF ChangeTypes
<1>2. /\ ChainTo(requests', policies, Len(policies), "retention_policy")
      /\ ChainTo(requests', roots, Len(roots), "trust_root_policy")
  BY <1>1, ChainStays DEF ChainInv
<1>3. \A h \in Holds : holds[h] # NoHold /\ holds[h].status = "released" =>
        /\ holds[h].request \in Requests
        /\ OnRecord(requests'[holds[h].request], "legal_hold_release", h, NoDigest)
  <2>1. \A h \in Holds : holds[h] # NoHold /\ holds[h].status = "released" =>
          requests'[holds[h].request] = requests[holds[h].request]
    BY AppliedStays DEF ChainInv, ReleasesOnRecord, OnRecord
  <2> QED BY <2>1 DEF ChainInv, ReleasesOnRecord
<1>4. policies' = policies => /\ ChainTo(requests, policies, Len(policies), "retention_policy")'
                              /\ (\A i \in 1..Len(policies) : policies[i].doc.revision = i)'
  BY <1>2 DEF ChainInv, ChainTo
<1>5. roots' = roots => ChainTo(requests, roots, Len(roots), "trust_root_policy")'
  BY <1>2 DEF ChainTo
<1>6. holds' = holds => ReleasesOnRecord'
  BY <1>3 DEF ReleasesOnRecord
<1>7. ASSUME NEW r \in Requests, NEW doc \in RetentionPolicies, AppliesPolicy(doc, r)
      PROVE  ChainInv'
  <2>1. /\ policies' = Append(policies, [doc |-> doc, request |-> r])
        /\ doc.revision = Len(policies) + 1
        /\ Applies(r, "retention_policy", doc, LatestDigest)
        /\ UNCHANGED <<holds, roots>>
    BY <1>7 DEF AppliesPolicy, ApplyRetentionPolicy, StandaloneApplyPolicy, Applies
  <2>2. /\ requests[r].status = "approved"
        /\ OnRecord(requests'[r], "retention_policy", doc, LatestDigest)
    BY <2>1, NewlyApplied DEF AppliedFor, OnRecord
  <2>3. /\ Len(policies') = Len(policies) + 1
        /\ policies'[Len(policies) + 1] = [doc |-> doc, request |-> r]
        /\ \A i \in 1..Len(policies) : policies'[i] = policies[i]
    BY <2>1 DEF ChangeTypes
  <2>4. LatestDigest = IF Len(policies) = 0 THEN NoDigest ELSE policies[Len(policies)].doc
    BY DEF LatestDigest, ChangeTypes
  <2>5. \A i \in 1..Len(policies) : requests'[policies[i].request] = requests[policies[i].request]
    BY <1>1, AppliedStays DEF ChainInv, ChainTo, OnRecord
  <2>6. ChainTo(requests', policies', Len(policies) + 1, "retention_policy")
    <3>1. policies'[Len(policies) + 1].request = r /\ policies'[Len(policies) + 1].doc = doc
      BY <2>3
    <3> QED BY <1>1, <2>2, <2>3, <2>4, <2>5, <3>1, ChainGrows DEF ChainInv
  <2>7. (\A i \in 1..Len(policies) : policies[i].doc.revision = i)'
    BY <1>1, <2>1, <2>3 DEF ChainInv
  <2>8. ChainTo(requests, policies, Len(policies), "retention_policy")'
    BY <2>3, <2>6 DEF ChainTo
  <2> QED BY <1>5, <1>6, <2>1, <2>7, <2>8 DEF ChainInv
<1>8. ASSUME NEW r \in Requests, NEW h \in Holds, ReleasesHold(h, r) PROVE ChainInv'
  <2>1. /\ holds' = [holds EXCEPT ![h] = [status |-> "released", scope |-> holds[h].scope,
                                          request |-> r]]
        /\ Applies(r, "legal_hold_release", h, NoDigest)
        /\ UNCHANGED <<policies, roots>>
    BY <1>8 DEF ReleasesHold, ReleaseLegalHold, StandaloneReleaseHold, Applies
  <2>2. OnRecord(requests'[r], "legal_hold_release", h, NoDigest)
    BY <2>1, NewlyApplied DEF AppliedFor, OnRecord
  <2>3. ReleasesOnRecord'
    BY <1>3, <2>1, <2>2 DEF ReleasesOnRecord, ChangeTypes
  <2> QED BY <1>4, <1>5, <2>1, <2>3 DEF ChainInv
<1>9. ASSUME NEW h \in Holds, NEW scope \in HoldScopes, PlacesHold(h, scope) PROVE ChainInv'
  <2>1. /\ holds' = [holds EXCEPT ![h] = [status |-> "active", scope |-> scope,
                                          request |-> NoRequest]]
        /\ UNCHANGED <<policies, roots>>
    BY <1>9 DEF PlacesHold, PlaceLegalHold, StandalonePlaceHold
  <2>2. ReleasesOnRecord'
    BY <1>3, <2>1 DEF ReleasesOnRecord, ChangeTypes
  <2> QED BY <1>4, <1>5, <2>1, <2>2 DEF ChainInv
<1>10. ASSUME NEW r \in Requests, NEW doc \in TrustPolicies, NEW a \in Time, Bootstraps(doc, r, a)
       PROVE  ChainInv'
  <2>1. /\ roots = <<>> /\ roots' = <<NewRoot(doc, a, r)>>
        /\ Applies(r, "trust_root_policy", doc, NoDigest)
        /\ UNCHANGED <<policies, holds>>
    BY <1>10 DEF Bootstraps, BootstrapTrustRoot, StandaloneBootstrap, Applies
  <2>2. OnRecord(requests'[r], "trust_root_policy", doc, NoDigest)
    BY <2>1, NewlyApplied DEF AppliedFor, OnRecord
  <2>3. Len(roots') = 1 /\ roots'[1].doc = doc /\ roots'[1].request = r
    BY <2>1 DEF NewRoot
  <2>4. ChainTo(requests, roots, Len(roots), "trust_root_policy")'
    BY <2>2, <2>3 DEF ChainTo
  <2> QED BY <1>4, <1>6, <2>1, <2>4 DEF ChainInv
<1>11. ASSUME NEW r \in Requests, NEW doc \in TrustPolicies, NEW a \in Time,
              NEW overlap \in Time, Rotates(doc, r, a, overlap)
       PROVE  ChainInv'
  <2>1. /\ Len(roots) # 0
        /\ roots' = Append(Retired(Len(roots), overlap), NewRoot(doc, a, r))
        /\ Applies(r, "trust_root_policy", doc, roots[Len(roots)].doc)
        /\ UNCHANGED <<policies, holds>>
    BY <1>1, <1>11 DEF Rotates, RotateTrustRoot, StandaloneRotate, Applies, ChangeTypes
  <2>2. /\ requests[r].status = "approved"
        /\ OnRecord(requests'[r], "trust_root_policy", doc, roots[Len(roots)].doc)
    BY <2>1, NewlyApplied DEF AppliedFor, OnRecord
  <2>3. /\ Len(roots') = Len(roots) + 1
        /\ roots'[Len(roots) + 1] = NewRoot(doc, a, r)
        /\ \A i \in 1..Len(roots) : /\ roots'[i].request = roots[i].request
                                    /\ roots'[i].doc = roots[i].doc
    BY <1>1, <2>1, RotatedRoots
  <2>4. \A i \in 1..Len(roots) : requests'[roots[i].request] = requests[roots[i].request]
    BY <1>1, AppliedStays DEF ChainInv, ChainTo, OnRecord
  <2>5. roots'[Len(roots) + 1].request = r /\ roots'[Len(roots) + 1].doc = doc
    BY <2>3 DEF NewRoot
  <2>6. ChainTo(requests', roots', Len(roots) + 1, "trust_root_policy")
    BY <1>1, <2>1, <2>2, <2>3, <2>4, <2>5, ChainGrows DEF ChainInv
  <2>7. ChainTo(requests, roots, Len(roots), "trust_root_policy")'
    BY <2>3, <2>6 DEF ChainTo
  <2> QED BY <1>4, <1>6, <2>1, <2>7 DEF ChainInv
<1>12. CASE UNCHANGED <<policies, holds, roots>>
  BY <1>4, <1>5, <1>6, <1>12 DEF ChainInv
<1>13. CASE \E r \in Requests, change \in Change, a \in Actors : Proposes(r, change, a)
  BY <1>12, <1>13 DEF Proposes, ProposeChange, StandalonePropose
<1>14. CASE \E r \in Requests, a \in Actors, d \in {"approve", "reject"} : Approves(r, a, d)
  BY <1>12, <1>14 DEF Approves, ApproveChange, StandaloneApprove
<1>15. CASE (\E e \in Executions : ExecutionNext(e)) \/ TransferNext \/ Tick
  BY <1>12, <1>15, OtherStepsKeepChanges DEF KeepsChanges
<1> QED BY <1>7, <1>8, <1>9, <1>10, <1>11, <1>13, <1>14, <1>15, Steps

----------------------------------------------------------------------------
(* Trust roots and evidence transfer *)

\* a root covers a signing time, with its fields spelled out
LEMMA RootTyped ==
  ASSUME ChangeTypes
  PROVE  /\ Len(roots) \in Nat
         /\ \A i \in 1..Len(roots) : roots[i].activated \in Nat /\ roots[i].retired \in Nat
<1>1. \A i \in 1..Len(roots) : roots[i] \in GovernedTrustRoot
  BY DEF ChangeTypes
<1>2. \A i \in 1..Len(roots) : roots[i].activated \in Time /\ roots[i].retired \in 0..MaxTime
  BY <1>1 DEF GovernedTrustRoot
<1> QED BY <1>2, GovernanceAssumption DEF ChangeTypes, Time

\* what RotationKeepsHistory says of any rotation
KeepsHistory ==
    /\ \A i \in 1..Len(roots) :
          /\ roots'[i].doc = roots[i].doc /\ roots'[i].request = roots[i].request
          /\ roots'[i].activated = roots[i].activated
          /\ roots[i].retired # 0 => roots'[i].retired = roots[i].retired
    /\ \A t \in Time : t < roots'[Len(roots')].activated => SelectsAlike(t)
    /\ \A t \in Time, key \in Keys :
          t < roots'[Len(roots)].retired => Matches(roots, t, key) \subseteq Matches(roots', t, key)

\* A rotation overlaps the root it retires, so it opens no gap, and the new
\* root covers no time before its activation.
LEMMA RotationInductive ==
  ASSUME ChangeTypes, TrustHasNoGap, NEW r \in Requests, NEW doc \in TrustPolicies,
         NEW a \in Time, NEW overlap \in Time, Rotates(doc, r, a, overlap)
  PROVE  /\ TrustHasNoGap'
         /\ KeepsHistory
<1> DEFINE n == Len(roots)
<1>1. n \in Nat /\ n # 0 /\ roots # <<>> /\ n \in 1..n
  BY RootTyped DEF Rotates, RotateTrustRoot, StandaloneRotate, ChangeTypes
<1>2. roots' = Append(Retired(Len(roots), overlap), NewRoot(doc, a, r)) /\ a <= overlap
  BY DEF Rotates, RotateTrustRoot, StandaloneRotate, ValidRotation
<1>3. /\ Len(roots') = n + 1
      /\ roots'[n + 1].activated = a /\ roots'[n + 1].retired = 0
      /\ \A i \in 1..(n - 1) : roots'[i] = roots[i]
      /\ roots'[n].retired = overlap
      /\ \A i \in 1..n : roots'[i].doc = roots[i].doc /\ roots'[i].activated = roots[i].activated
      /\ \A i \in 1..n : roots'[i].request = roots[i].request
  BY <1>1, <1>2, RotatedRoots DEF NewRoot
<1>4. /\ a \in Nat /\ overlap \in Nat \ {0}
      /\ \A i \in 1..n : roots[i].activated \in Nat /\ roots[i].retired \in Nat
      /\ Time \subseteq Nat
  BY RootTyped, GovernanceAssumption DEF Time
<1>5. \A i \in 1..n : roots[i].retired = 0 <=> i = n
  BY <1>1 DEF TrustHasNoGap
<1>6. ASSUME NEW t \in Time, NEW i \in 1..n, Covers(roots[i], t)
      PROVE  Covers(roots'[i], t) \/ Covers(roots'[n + 1], t)
  <2>1. CASE i = n
    BY <1>2, <1>3, <1>4, <1>6, <2>1 DEF Covers
  <2>2. CASE i # n
    <3>1. i \in 1..(n - 1)
      BY <1>1, <2>2
    <3> QED BY <1>3, <1>6, <3>1
  <2> QED BY <2>1, <2>2
<1>7. TrustHasNoGap'
  <2>1. \A i \in 1..(n + 1) : roots'[i].retired = 0 <=> i = n + 1
    <3>1. ASSUME NEW i \in 1..(n + 1) PROVE roots'[i].retired = 0 <=> i = n + 1
      <4>1. i = n + 1 \/ i = n \/ i \in 1..(n - 1)
        BY <1>1
      <4> QED BY <1>1, <1>3, <1>4, <1>5, <4>1
    <3> QED BY <3>1
  <2>2. ASSUME NEW t \in Time, t >= roots'[1].activated
        PROVE  \E i \in 1..(n + 1) : Covers(roots'[i], t)
    <3>1. t >= roots[1].activated
      BY <1>1, <1>3, <2>2
    <3>2. PICK i \in 1..n : Covers(roots[i], t)
      BY <1>1, <3>1 DEF TrustHasNoGap
    <3>3. i \in 1..(n + 1) /\ n + 1 \in 1..(n + 1)
      BY <1>1
    <3> QED BY <1>6, <3>2, <3>3
  <2> QED BY <1>3, <2>1, <2>2 DEF TrustHasNoGap
<1>8. ASSUME NEW t \in Time, NEW key \in Keys, t < a
      PROVE  Matches(roots', t, key) = Matches(roots, t, key)
  <2>1. ~Covers(roots'[n + 1], t)
    BY <1>3, <1>4, <1>8 DEF Covers
  <2>2. ASSUME NEW i \in 1..n PROVE Covers(roots'[i], t) <=> Covers(roots[i], t)
    <3>1. CASE i = n
      BY <1>1, <1>2, <1>3, <1>4, <1>5, <1>8, <3>1 DEF Covers
    <3>2. CASE i # n
      <4>1. i \in 1..(n - 1)
        BY <1>1, <3>2
      <4> QED BY <1>3, <4>1
    <3> QED BY <3>1, <3>2
  <2>3. \A i : i \in 1..(n + 1) <=> i \in 1..n \/ i = n + 1
    BY <1>1
  <2> QED BY <1>1, <1>3, <2>1, <2>2, <2>3 DEF Matches
<1>9. ASSUME NEW t \in Time, NEW key \in Keys, t < overlap, NEW i \in Matches(roots, t, key)
      PROVE  i \in Matches(roots', t, key)
  <2>1. i \in 1..n /\ i \in 1..(n + 1) /\ Covers(roots[i], t)
        /\ key \in TrustedKeys[roots[i].doc]
    BY <1>1, <1>9 DEF Matches
  <2>2. Covers(roots'[i], t)
    <3>1. CASE i = n
      BY <1>3, <1>4, <1>9, <2>1, <3>1 DEF Covers
    <3>2. CASE i # n
      <4>1. i \in 1..(n - 1)
        BY <1>1, <2>1, <3>2
      <4> QED BY <1>3, <2>1, <4>1
    <3> QED BY <3>1, <3>2
  <2> QED BY <1>3, <2>1, <2>2 DEF Matches
<1>10. ASSUME NEW i \in 1..n, roots[i].retired # 0 PROVE roots'[i].retired = roots[i].retired
  <2>1. i \in 1..(n - 1)
    BY <1>1, <1>5, <1>10
  <2> QED BY <1>3, <2>1
<1>11. KeepsHistory
  <2>1. \A t \in Time : t < roots'[Len(roots')].activated => SelectsAlike(t)
    BY <1>3, <1>8 DEF SelectsAlike
  <2>2. \A t \in Time, key \in Keys :
            t < roots'[Len(roots)].retired => Matches(roots, t, key) \subseteq Matches(roots', t, key)
    BY <1>3, <1>9
  <2> QED BY <1>3, <1>10, <2>1, <2>2 DEF KeepsHistory
<1> QED BY <1>7, <1>11

\* A rotation planned ahead is dated at or after the clock it was decided by.
LEMMA PlannedRotation ==
  ASSUME ChangeTypes, now \in Time, KeepsHistory,
         NEW at \in Time, RotatesAsPlanned(at), NEW t \in Time, t < at
  PROVE  SelectsAlike(t)
<1>1. PICK r \in Requests, doc \in TrustPolicies, a \in Time, overlap \in Time :
          /\ a >= at
          /\ roots' = Append(Retired(Len(roots), overlap), NewRoot(doc, a, r))
          /\ roots # <<>>
  BY RootTyped DEF RotatesAsPlanned, RotateTrustRoot, StandaloneRotate
<1>2. roots'[Len(roots')].activated = a
  <2>1. Len(roots) \in Nat \ {0}
    BY <1>1, RootTyped DEF ChangeTypes
  <2> QED BY <1>1, <2>1, RotatedRoots DEF NewRoot
<1>3. t < a
  BY <1>1, GovernanceAssumption DEF Time
<1> QED BY <1>2, <1>3 DEF KeepsHistory

\* what RotationKeepsHistory says of one step
HistoryKept ==
    roots # <<>> /\ roots' # roots =>
        /\ \A i \in 1..Len(roots) :
              /\ roots'[i].doc = roots[i].doc /\ roots'[i].request = roots[i].request
              /\ roots'[i].activated = roots[i].activated
              /\ roots[i].retired # 0 => roots'[i].retired = roots[i].retired
        /\ \A t \in Time : t < roots'[Len(roots')].activated => SelectsAlike(t)
        /\ \A t \in Time, key \in Keys :
              t < roots'[Len(roots)].retired => Matches(roots, t, key) \subseteq Matches(roots', t, key)
        /\ \A at \in Time : RotatesAsPlanned(at) =>
              \A t \in Time : t < at => SelectsAlike(t)

\* No step opens a gap in the history or rewrites it.
LEMMA HistoryInductive ==
  ASSUME ChangeTypes, now \in Time, TrustHasNoGap, Next
  PROVE  TrustHasNoGap' /\ HistoryKept
<1>1. CASE \E r \in Requests, doc \in TrustPolicies, a, overlap \in Time :
              Rotates(doc, r, a, overlap)
  BY <1>1, RotationInductive, PlannedRotation DEF HistoryKept, KeepsHistory
<1>2. ASSUME NEW r \in Requests, NEW doc \in TrustPolicies, NEW a \in Time, Bootstraps(doc, r, a)
      PROVE  TrustHasNoGap' /\ HistoryKept
  <2>1. roots = <<>> /\ roots' = <<NewRoot(doc, a, r)>>
    BY <1>2 DEF Bootstraps, BootstrapTrustRoot, StandaloneBootstrap
  <2>2. Len(roots') = 1 /\ roots'[1].activated = a /\ roots'[1].retired = 0
    BY <2>1 DEF NewRoot
  <2>3. \A t \in Time : t >= a => Covers(roots'[1], t)
    BY <2>2, GovernanceAssumption DEF Covers, Time
  <2> QED BY <2>1, <2>2, <2>3 DEF TrustHasNoGap, HistoryKept
<1>3. CASE UNCHANGED roots
  BY <1>3 DEF TrustHasNoGap, HistoryKept
<1>4. CASE \E r \in Requests, change \in Change, a \in Actors : Proposes(r, change, a)
  BY <1>3, <1>4 DEF Proposes, ProposeChange, StandalonePropose
<1>5. CASE \E r \in Requests, a \in Actors, d \in {"approve", "reject"} : Approves(r, a, d)
  BY <1>3, <1>5 DEF Approves, ApproveChange, StandaloneApprove
<1>6. CASE \E r \in Requests, doc \in RetentionPolicies : AppliesPolicy(doc, r)
  BY <1>3, <1>6 DEF AppliesPolicy, ApplyRetentionPolicy, StandaloneApplyPolicy
<1>7. CASE \E r \in Requests, h \in Holds : ReleasesHold(h, r)
  BY <1>3, <1>7 DEF ReleasesHold, ReleaseLegalHold, StandaloneReleaseHold
<1>8. CASE \E h \in Holds, scope \in HoldScopes : PlacesHold(h, scope)
  BY <1>3, <1>8 DEF PlacesHold, PlaceLegalHold, StandalonePlaceHold
<1>9. CASE (\E e \in Executions : ExecutionNext(e)) \/ TransferNext \/ Tick
  BY <1>3, <1>9, OtherStepsKeepChanges DEF KeepsChanges
<1> QED BY <1>1, <1>2, <1>4, <1>5, <1>6, <1>7, <1>8, <1>9, Steps

\* a verification was handed out for a sound package of a supported schema
VerifiedInv ==
    \A v \in verifications :
        /\ v.manifest.archive \in Sound
        /\ PathFrom(v.manifest.schema)
        /\ v.manifest.bundle = BundleOf[v.manifest.archive]

\* Receipts agree with the report they name, and the verifier's are sound.
LEMMA ImportsInductive ==
  ASSUME TransferTypes, VerifiedInv, ReceiptsBindTheirReports, Next
  PROVE  VerifiedInv' /\ ReceiptsBindTheirReports'
<1>1. CASE UNCHANGED <<verifications, imports>>
  BY <1>1 DEF VerifiedInv, ReceiptsBindTheirReports
<1>2. ASSUME NEW t \in Transfers, NEW m \in EvidenceTransferManifest, NEW p \in Packages,
             VerifyTransfer(t, m, p)
      PROVE  VerifiedInv' /\ ReceiptsBindTheirReports'
  <2>1. /\ verifications' = verifications \cup {[transfer |-> t, manifest |-> m]}
        /\ imports' = imports /\ m.archive \in Sound /\ PathFrom(m.schema)
        /\ m.bundle = BundleOf[m.archive]
    BY <1>2 DEF VerifyTransfer
  <2> QED BY <2>1 DEF VerifiedInv, ReceiptsBindTheirReports
<1>3. ASSUME NEW t \in Transfers, NEW m \in EvidenceTransferManifest, NEW p \in Packages,
             NEW v \in EvidenceTransferVerification,
             RecordVerifiedImport(t, m, v, p) \/ StandaloneImport(t, m, v, p)
      PROVE  VerifiedInv' /\ ReceiptsBindTheirReports'
  <2> DEFINE new == Receipt(t, m, v, p)
  <2>1. /\ imports' = imports \cup {new} /\ verifications' = verifications
        /\ v.transfer = t /\ v.manifest.archive = p
        /\ v.manifest.schema = m.schema
        /\ MinSchema <= m.schema /\ m.schema <= CurrentSchema
    BY <1>3 DEF RecordVerifiedImport, StandaloneImport, ValidateImportVerification, PathFrom
  <2>2. new.archive = p /\ new.transfer = t /\ new.schema = m.schema /\ new.report = v
    BY DEF Receipt
  <2>3. v \in verifications => p \in Sound /\ v.manifest.bundle = BundleOf[p]
    BY <2>1 DEF VerifiedInv
  <2> HIDE DEF new
  <2> QED BY <2>1, <2>2, <2>3 DEF VerifiedInv, ReceiptsBindTheirReports
<1>4. CASE TransferNext
  <2>1. ASSUME NEW t \in Transfers, NEW m \in EvidenceTransferManifest,
               CreateTransferManifest(t, m) \/ StandaloneExport(t, m)
        PROVE  UNCHANGED <<verifications, imports>>
    BY <2>1 DEF CreateTransferManifest, StandaloneExport
  <2> QED BY <1>1, <1>2, <1>3, <1>4, <2>1 DEF TransferNext
<1>5. ASSUME NEW e \in Executions, ExecutionNext(e) PROVE UNCHANGED <<verifications, imports>>
  BY <1>5 DEF ExecutionNext, RecordIntents, StandaloneExecute, BeginDeletion,
     CancelDeletion, StandaloneIntent, AdapterDelete, CommitDeletion, StandaloneRecord,
     AbortExecution, StandaloneRaise, transferVars
<1>6. CASE Tick
  BY <1>1, <1>6 DEF Tick, transferVars
<1>7. CASE ChangeNext \/ ApplyNext \/ PlaceNext
  <2>1. UNCHANGED transferVars
    BY <1>7 DEF ChangeNext, ApplyNext, PlaceNext, ProposeChange, StandalonePropose,
       ProposeLegalHoldRelease, StandaloneProposeRelease, ApproveChange, StandaloneApprove,
       ApplyRetentionPolicy, StandaloneApplyPolicy, ReleaseLegalHold, StandaloneReleaseHold,
       PlaceLegalHold, StandalonePlaceHold
  <2> QED BY <1>1, <2>1 DEF transferVars
<1>8. CASE RootNext
  BY <1>1, <1>8 DEF RootNext, BootstrapTrustRoot, StandaloneBootstrap, RotateTrustRoot,
     StandaloneRotate, transferVars
<1> QED BY <1>1, <1>4, <1>5, <1>6, <1>7, <1>8 DEF Next

----------------------------------------------------------------------------
(* The theorems *)

IInv ==
    /\ ChangeTypes /\ ExecutionTypes /\ TransferTypes
    /\ LockInv /\ RuleInv /\ TraceInv /\ DeletionLeavesEvidence
    /\ TwoPrincipals /\ ChainInv
    /\ TrustHasNoGap /\ VerifiedInv /\ ReceiptsBindTheirReports

\* Every store starts with empty tables.
LEMMA Initially == Init => IInv
<1> SUFFICES ASSUME Init PROVE IInv
  OBVIOUS
<1>1. NoExecution \in Execution /\ NoExecution.pc = "idle"
  BY GovernanceAssumption DEF NoExecution, Execution, Time
<1>2. \A e \in Executions : exec[e] = NoExecution
  BY DEF Init
<1>3. ChangeTypes
  BY DEF Init, ChangeTypes
<1>4. ExecutionTypes
  BY <1>1, GovernanceAssumption DEF Init, ExecutionTypes, Occupied, Time
<1>5. TransferTypes /\ VerifiedInv /\ ReceiptsBindTheirReports
  BY DEF Init, TransferTypes, VerifiedInv, ReceiptsBindTheirReports
<1>6. LockInv /\ RuleInv /\ TraceInv
  BY <1>1, <1>2 DEF LockInv, Busy, RuleInv, TraceInv
<1>7. DeletionLeavesEvidence /\ TwoPrincipals /\ TrustHasNoGap
  BY DEF Init, DeletionLeavesEvidence, TwoPrincipals, TrustHasNoGap
<1>8. ChainInv
  BY DEF Init, ChainInv, ChainTo, ReleasesOnRecord
<1> QED BY <1>3, <1>4, <1>5, <1>6, <1>7, <1>8 DEF IInv

\* IInv is inductive.
LEMMA Inductive == IInv /\ [Next]_vars => IInv'
<1> SUFFICES ASSUME IInv, [Next]_vars PROVE IInv'
  OBVIOUS
<1> USE DEF IInv
<1>1. CASE Next
  <2>1. ChangeTypes' /\ ExecutionTypes' /\ TransferTypes'
    BY <1>1, ChangesTyped, ExecutionsTyped, TransfersTyped
  <2>2. LockInv' /\ RuleInv' /\ TraceInv' /\ DeletionLeavesEvidence'
    BY <1>1, LockInductive, RuleInductive, TraceInductive
  <2>3. TwoPrincipals' /\ ChainInv' /\ TrustHasNoGap'
    BY <1>1, EyesInductive, ChainInductive, HistoryInductive DEF ExecutionTypes
  <2>4. VerifiedInv' /\ ReceiptsBindTheirReports'
    BY <1>1, ImportsInductive
  <2> QED BY <2>1, <2>2, <2>3, <2>4
<1>2. CASE UNCHANGED vars
  <2> USE <1>2 DEF vars, changeVars, retentionVars, transferVars
  <2>1. ChangeTypes' /\ ExecutionTypes' /\ TransferTypes'
    BY DEF ChangeTypes, ExecutionTypes, TransferTypes
  <2>2. LockInv' /\ TraceInv' /\ DeletionLeavesEvidence' /\ TwoPrincipals'
    BY DEF LockInv, Busy, TraceInv, DeletionLeavesEvidence, TwoPrincipals
  <2>3. RuleInv'
    BY DEF RuleInv, Governed, DecidesBy, IsCurrentPolicy, IsEffectiveLocked, Effective, AppliesTo
  <2>4. ChainInv' /\ TrustHasNoGap'
    BY DEF ChainInv, ChainTo, ReleasesOnRecord, TrustHasNoGap
  <2>5. VerifiedInv' /\ ReceiptsBindTheirReports'
    BY DEF VerifiedInv, ReceiptsBindTheirReports
  <2> HIDE <1>2 DEF vars, changeVars, retentionVars, transferVars
  <2> QED BY <2>1, <2>2, <2>3, <2>4, <2>5
<1> QED BY <1>1, <1>2

\* The inductive invariant holds in every reachable state of both stores.
THEOREM Invariance == Spec => []IInv
BY Initially, Inductive, PTL DEF Spec

\* Typing: the tables and the calls under way keep their types.
THEOREM Typing == Spec => []TypeOK
<1>1. IInv => TypeOK
  BY TypesAre DEF IInv
<1> QED BY <1>1, Invariance, PTL

\* No high-risk change is applied on the approval of the principal that
\* proposed it (_same_actor of both stores, validate_change).
THEOREM SecondPrincipal == Spec => []FourEyes
<1>1. IInv => FourEyes
  BY DEF IInv, TwoPrincipals, FourEyes
<1> QED BY <1>1, Invariance, PTL

\* Every revision was approved as the successor of the one it follows
\* (_approved_request against the current digest, under the tenant lock).
THEOREM RevisionsHold == Spec => []RevisionsChain
<1>1. IInv => RevisionsChain
  BY ChainMeaning DEF IInv
<1> QED BY <1>1, Invariance, PTL

\* No two revisions, roots or releases rest on one approval (_mark_applied).
THEOREM ApprovalsAreSpent == Spec => []ApprovalIsSpent
<1>1. IInv => ApprovalIsSpent
  BY ChainMeaning DEF IInv
<1> QED BY <1>1, Invariance, PTL

\* No active hold covers what the adapter is deleting: place_legal_hold and
\* the deletion transaction exclude each other.
THEOREM HoldsWin == Spec => []HoldWinsOverDeletion
<1>1. IInv => HoldWinsOverDeletion
  BY DEF IInv, RuleInv, Governed, HoldWinsOverDeletion
<1> QED BY <1>1, Invariance, PTL

\* What is deleted is due under the policy current when it was decided.
THEOREM DeletionsAreGoverned == Spec => []DeletionIsGoverned
<1>1. IInv => DeletionIsGoverned
  BY DEF IInv, RuleInv, Governed, DeletionIsGoverned
<1> QED BY <1>1, Invariance, PTL

\* Intents precede deletions and records name real ones (execute_retention).
THEOREM EvidenceRemains == Spec => []DeletionLeavesEvidence
<1>1. IInv => DeletionLeavesEvidence
  BY DEF IInv
<1> QED BY <1>1, Invariance, PTL

\* The trust-root history has one current root and no gap (rotate_trust_root).
THEOREM TrustIsGapless == Spec => []TrustHasNoGap
<1>1. IInv => TrustHasNoGap
  BY DEF IInv
<1> QED BY <1>1, Invariance, PTL

\* A rotation rewrites no root and leaves the selection before its activation
\* alone, a planned one the whole past (rotate_trust_root).
THEOREM HistoryIsKept == Spec => RotationKeepsHistory
<1>1. IInv /\ Next => HistoryKept
  BY HistoryInductive DEF IInv, ExecutionTypes
<1>2. IInv /\ [Next]_vars => [HistoryKept]_vars
  BY <1>1
<1> QED BY <1>2, Invariance, PTL DEF Spec, RotationKeepsHistory, HistoryKept

\* Every import receipt names a report about its transfer, archive and schema;
\* a report of the verifier among them stands for a sound package, whatever
\* reports callers build (_validate_import_verification).
THEOREM ReceiptsAreBound == Spec => []ReceiptsBindTheirReports
<1>1. IInv => ReceiptsBindTheirReports
  BY DEF IInv
<1> QED BY <1>1, Invariance, PTL
=============================================================================
