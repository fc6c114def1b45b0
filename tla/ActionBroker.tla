---------------------------- MODULE ActionBroker ----------------------------
(***************************************************************************)
(* ActionBroker.execute (runtime/broker.py) with the stores it owns: the   *)
(* tenant-scoped idempotency claims, the execution-attempt journal, the    *)
(* credential leases, the approval store and the per-call trail of control *)
(* events.  Every await of execute() is a step of its own, so any number   *)
(* of calls interleave at every await, and a call may be cut off at any of *)
(* them (cancellation, process crash, or an exception of a store that the  *)
(* broker does not catch).                                                 *)
(*                                                                         *)
(* The stores are the durable ones (postgres/execution.py): what a call    *)
(* wrote before it was cut off stays.                                      *)
(***************************************************************************)
EXTENDS Naturals, FiniteSets

CONSTANTS
    Calls,          \* invocations of execute(), first tries and retries alike
    Bodies,         \* everything of an ActionSpec that its digest covers
    Artifacts,      \* values of ActionSpec.argument_artifact
    Keys,           \* (tenant_id, idempotency_key) pairs
    KeyOf,          \* the key a body carries
    Revisions,      \* policy revisions
    PolicyOf,       \* outcome of a revision for a body
    Expirable,      \* bodies that carry an expires_at
    Decisions,      \* decisions approvers may come to record
    Unsupported,    \* bodies whose executor is missing or cannot take a lease
    UseAttempts,    \* the broker was built with execution_attempts
    UseLeases,      \* the broker was built with credential_leases
    None

Actions  == [body: Bodies, artifact: Artifacts]
Result   == [attempt: Calls, succeeded: BOOLEAN]
IdempotencyRow == [digest: Bodies \cup {None}, result: Result \cup {None}]
PolicyOutcome == {"deny", "require_approval", "allow"}
ApprovalOutcome == {"approved", "denied", "revoked"}
Approval == [action: Actions, revision: Revisions, outcome: ApprovalOutcome]

ASSUME BrokerAssumption ==
    /\ KeyOf \in [Bodies -> Keys]
    /\ PolicyOf \in [Revisions -> [Bodies -> PolicyOutcome]]
    /\ Expirable \subseteq Bodies
    /\ Decisions \subseteq Approval
    /\ Unsupported \subseteq Bodies
    /\ UseAttempts \in BOOLEAN
    /\ UseLeases \in BOOLEAN
    /\ None \notin Bodies \cup Revisions
    /\ None \notin Result

EventType == {"action.proposed", "policy.evaluated", "approval.requested",
              "approval.decided", "lease.issued", "lease.revoked",
              "lease.revocation_failed", "execution.started",
              "execution.uncertain", "execution.completed",
              "state.observed", "verification.completed"}

AttemptState == {"absent", "claimed", "started", "succeeded", "failed", "uncertain"}

\* ended: how a call can end.  "aborted" is a call cut off at an await, and
\* "unrecorded" one that raises because recording an uncertain outcome raised.
Ended == {"returned", "raised", "unrecorded", "aborted"}

\* the points of execute() at which a call waits
PC == {"idle", "policy", "approval", "executor", "lease_issued", "claim",
       "attempt", "start", "started", "dispatch", "executing",
       "uncertain", "revoke", "revoked", "revoke_failed", "uncertain_event",
       "read_result", "finish", "complete", "completed", "observe", "verify"}
      \cup Ended

VARIABLES
    pc,         \* where each call waits
    act,        \* the ActionSpec each call was given
    decision,   \* the policy revision each call was decided under
    path,       \* which of the three callers of _revoke_lease a call is in
    result,     \* the ExecutionResult a call holds
    events,     \* control events recorded for each call
    attempt,    \* the attempt journal: each call owns one fresh attempt id
    lease,      \* the credential lease issued to each call
    idem,       \* the idempotency rows
    target,     \* what the target system knows of each call's request
    approvals,  \* approval decisions recorded so far
    lapsed,     \* those past their expires_at
    revision,   \* the policy revision in force
    expired     \* bodies past their expires_at

callVars  == <<pc, path, result>>
envVars   == <<approvals, lapsed, revision, expired>>
vars == <<pc, act, decision, path, result, events, attempt, lease, idem,
          target, approvals, lapsed, revision, expired>>

-----------------------------------------------------------------------------
\* digest_material() leaves argument_artifact out of the digest.
digest(a) == a.body

key(c) == KeyOf[act[c].body]

\* mutant: an approval given under any revision counts
authorizesAnyRevision(ap, c) ==
    /\ ap.outcome = "approved"
    /\ digest(ap.action) = digest(act[c])
    /\ ap \notin lapsed

\* ApprovalDecision.authorizes; `action' is the action the approver was shown.
authorizes(ap, c) ==
    /\ ap.outcome = "approved"
    /\ digest(ap.action) = digest(act[c])
    /\ ap.revision = decision[c]
    /\ ap \notin lapsed

find_valid_approval(c) == {ap \in approvals : authorizes(ap, c)}

Goto(c, p) == pc' = [pc EXCEPT ![c] = p]

Record(c, e) == events' = [events EXCEPT ![c] = @ \cup {e}]

\* the call appends an event and waits at p, or only waits at p
Emit(c, e, p) ==
    /\ Record(c, e)
    /\ Goto(c, p)
    /\ UNCHANGED <<act, decision, path, result, attempt, lease, idem, target, envVars>>

Jump(c, p) ==
    /\ Goto(c, p)
    /\ UNCHANGED <<act, decision, path, result, events, attempt, lease, idem, target, envVars>>

Transitions == {<<"absent", "claimed">>, <<"claimed", "started">>,
                <<"started", "succeeded">>, <<"started", "failed">>,
                <<"started", "uncertain">>}

\* ExecutionAttemptStore.create and replace.  A move outside Transitions raises
\* and writes nothing: the call ends as in Abort.
Journal(c, s) ==
    IF UseAttempts
    THEN /\ <<attempt[c], s>> \in Transitions
         /\ attempt' = [attempt EXCEPT ![c] = s]
    ELSE UNCHANGED attempt

Init ==
    /\ pc = [c \in Calls |-> "idle"]
    /\ act \in [Calls -> Actions]
    /\ decision = [c \in Calls |-> None]
    /\ path = [c \in Calls |-> "ok"]
    /\ result = [c \in Calls |-> None]
    /\ events = [c \in Calls |-> {}]
    /\ attempt = [c \in Calls |-> "absent"]
    /\ lease = [c \in Calls |-> "none"]
    /\ idem = [k \in Keys |-> [digest |-> None, result |-> None]]
    /\ target = [c \in Calls |-> "idle"]
    /\ approvals = {}
    /\ lapsed = {}
    /\ revision \in Revisions
    /\ expired = {}

-----------------------------------------------------------------------------
(* execute(), up to the executor call *)

\* an actor of another tenant, or an action past its expiry
Refuse(c) ==
    /\ pc[c] = "idle"
    /\ Jump(c, "raised")

Propose(c) ==
    /\ pc[c] = "idle"
    /\ act[c].body \notin expired
    /\ Emit(c, "action.proposed", "policy")

AfterPolicy(o) == CASE o = "deny"             -> "raised"
                    [] o = "require_approval" -> "approval"
                    [] o = "allow"            -> "executor"

EvaluatePolicy(c) ==
    /\ pc[c] = "policy"
    /\ decision' = [decision EXCEPT ![c] = revision]
    /\ Record(c, "policy.evaluated")
    /\ Goto(c, AfterPolicy(PolicyOf[revision][act[c].body]))
    /\ UNCHANGED <<act, path, result, attempt, lease, idem, target, envVars>>

RequestApproval(c) ==
    /\ pc[c] = "approval"
    /\ find_valid_approval(c) = {}
    /\ Emit(c, "approval.requested", "raised")

UseApproval(c) ==
    /\ pc[c] = "approval"
    /\ find_valid_approval(c) # {}
    /\ Emit(c, "approval.decided", "executor")

RefuseExecutor(c) ==
    /\ pc[c] = "executor"
    /\ act[c].body \in Unsupported
    /\ Jump(c, "raised")

IssueLease(c) ==
    /\ pc[c] = "executor"
    /\ act[c].body \notin Unsupported
    /\ IF UseLeases
       THEN /\ lease' = [lease EXCEPT ![c] = "live"]
            /\ Goto(c, "lease_issued")
       ELSE /\ Goto(c, "claim")
            /\ UNCHANGED lease
    /\ UNCHANGED <<act, decision, path, result, events, attempt, idem, target, envVars>>

RecordLease(c) ==
    /\ pc[c] = "lease_issued"
    /\ Emit(c, "lease.issued", "claim")

\* mutant: a row without a result is up for grabs
ClaimUnfinished(c) ==
    /\ pc[c] = "claim"
    /\ idem[key(c)].result = None
    /\ idem' = [idem EXCEPT ![key(c)].digest = digest(act[c])]
    /\ Goto(c, "attempt")
    /\ UNCHANGED <<act, decision, path, result, events, attempt, lease, target, envVars>>

\* mutant: the inserted row is not committed
ClaimUncommitted(c) ==
    /\ pc[c] = "claim"
    /\ idem[key(c)].digest = None
    /\ Jump(c, "attempt")

\* IdempotencyStore.claim: the row is inserted, or it is found
Claim(c) ==
    /\ pc[c] = "claim"
    /\ idem[key(c)].digest = None
    /\ idem' = [idem EXCEPT ![key(c)].digest = digest(act[c])]
    /\ Goto(c, "attempt")
    /\ UNCHANGED <<act, decision, path, result, events, attempt, lease, target, envVars>>

\* the key belongs to another digest: DuplicateActionError leaves execute()
ClaimConflict(c) ==
    /\ pc[c] = "claim"
    /\ idem[key(c)].digest \notin {None, digest(act[c])}
    /\ Jump(c, "raised")

ClaimDuplicate(c) ==
    /\ pc[c] = "claim"
    /\ idem[key(c)].digest = digest(act[c])
    /\ path' = [path EXCEPT ![c] = "duplicate"]
    /\ Goto(c, IF UseLeases THEN "revoke" ELSE "read_result")
    /\ UNCHANGED <<act, decision, result, events, attempt, lease, idem, target, envVars>>

\* mutant: a repeated action waits for the result
AwaitResult(c) ==
    /\ pc[c] = "read_result"
    /\ idem[key(c)].result # None
    /\ result' = [result EXCEPT ![c] = idem[key(c)].result]
    /\ Goto(c, "observe")
    /\ UNCHANGED <<act, decision, path, events, attempt, lease, idem, target, envVars>>

\* a repeated action gets the stored result, or DuplicateActionError
ReadResult(c) ==
    /\ pc[c] = "read_result"
    /\ result' = [result EXCEPT ![c] = idem[key(c)].result]
    /\ Goto(c, IF idem[key(c)].result = None THEN "raised" ELSE "observe")
    /\ UNCHANGED <<act, decision, path, events, attempt, lease, idem, target, envVars>>

CreateAttempt(c) ==
    /\ pc[c] = "attempt"
    /\ Journal(c, "claimed")
    /\ Goto(c, "start")
    /\ UNCHANGED <<act, decision, path, result, events, lease, idem, target, envVars>>

\* mutant: the executor is called before EXECUTION_STARTED is recorded
StartAttemptUnrecorded(c) ==
    /\ pc[c] = "start"
    /\ Journal(c, "started")
    /\ Goto(c, "dispatch")
    /\ UNCHANGED <<act, decision, path, result, events, lease, idem, target, envVars>>

StartAttempt(c) ==
    /\ pc[c] = "start"
    /\ Journal(c, "started")
    /\ Goto(c, "started")
    /\ UNCHANGED <<act, decision, path, result, events, lease, idem, target, envVars>>

RecordStart(c) ==
    /\ pc[c] = "started"
    /\ Emit(c, "execution.started", "dispatch")

-----------------------------------------------------------------------------
(* the executor call and what follows it *)

Dispatch(c) ==
    /\ pc[c] = "dispatch"
    /\ target' = [target EXCEPT ![c] = "inflight"]
    /\ Goto(c, "executing")
    /\ UNCHANGED <<act, decision, path, result, events, attempt, lease, idem, envVars>>

\* External: the target applies the request, perhaps after its caller is gone.
TargetApplies(c) ==
    /\ target[c] = "inflight"
    /\ target' = [target EXCEPT ![c] = "applied"]
    /\ UNCHANGED <<callVars, act, decision, events, attempt, lease, idem, envVars>>

\* a result bound to the action, the executor and the attempt id
ExecutorReturns(c) ==
    /\ pc[c] = "executing"
    /\ \E ok \in BOOLEAN :
          /\ ok => target[c] = "applied"
          /\ result' = [result EXCEPT ![c] = [attempt |-> c, succeeded |-> ok]]
    /\ path' = [path EXCEPT ![c] = "ok"]
    /\ Goto(c, IF UseLeases THEN "revoke" ELSE "finish")
    /\ UNCHANGED <<act, decision, events, attempt, lease, idem, target, envVars>>

\* a result that fails _validate_result or names another attempt
ExecutorReturnsUnbound(c) ==
    /\ pc[c] = "executing"
    /\ Jump(c, "raised")

ExecutorRaises(c) ==
    /\ pc[c] = "executing"
    /\ path' = [path EXCEPT ![c] = "exception"]
    /\ Goto(c, "uncertain")
    /\ UNCHANGED <<act, decision, result, events, attempt, lease, idem, target, envVars>>

\* the attempt turns UNCERTAIN; the lease is still to be revoked only when it
\* was the executor that raised
MarkUncertain(c) ==
    /\ pc[c] = "uncertain"
    /\ Journal(c, "uncertain")
    /\ Goto(c, IF UseLeases /\ path[c] = "exception" THEN "revoke" ELSE "uncertain_event")
    /\ UNCHANGED <<act, decision, path, result, events, lease, idem, target, envVars>>

RecordUncertain(c) ==
    /\ pc[c] = "uncertain_event"
    /\ Emit(c, "execution.uncertain", "raised")

\* The journal write or the append that records the uncertainty raises, the
\* write perhaps after its commit: execute() raises without the event.
RecordUncertainFails(c) ==
    /\ \/ /\ pc[c] = "uncertain"
          /\ Journal(c, "uncertain") \/ UNCHANGED attempt
       \/ /\ pc[c] = "uncertain_event"
          /\ UNCHANGED attempt
    /\ Goto(c, "unrecorded")
    /\ UNCHANGED <<act, decision, path, result, events, lease, idem, target, envVars>>

\* where execute() goes on after _revoke_lease returned, or raised
AfterRevoke(p)  == CASE p = "duplicate" -> "read_result"
                     [] p = "exception" -> "uncertain_event"
                     [] p = "ok"        -> "finish"
\* mutant: a failed revocation after an execution is ignored
AfterFailureIgnored(p)  == CASE p = "duplicate" -> "raised"
                             [] p = "exception" -> "uncertain_event"
                             [] p = "ok"        -> "finish"
\* mutant: a failed revocation replaces the executor's exception
AfterFailureEscapes(p)  == CASE p = "duplicate" -> "raised"
                             [] p = "exception" -> "raised"
                             [] p = "ok"        -> "uncertain"
AfterFailure(p) == CASE p = "duplicate" -> "raised"
                     [] p = "exception" -> "uncertain_event"
                     [] p = "ok"        -> "uncertain"

\* CredentialLeaseProvider.revoke: done, or it raised and may be done or not
RevokeLease(c) ==
    /\ pc[c] = "revoke"
    /\ \/ /\ lease' = [lease EXCEPT ![c] = "revoked"]
          /\ Goto(c, "revoked")
       \/ /\ lease' \in {lease, [lease EXCEPT ![c] = "revoked"]}
          /\ Goto(c, "revoke_failed")
    /\ UNCHANGED <<act, decision, path, result, events, attempt, idem, target, envVars>>

\* an append that raises here is caught by the callers as a failed revocation
RecordRevocation(c) ==
    /\ pc[c] = "revoked"
    /\ \/ /\ Record(c, "lease.revoked")
          /\ Goto(c, AfterRevoke(path[c]))
       \/ /\ UNCHANGED events
          /\ Goto(c, AfterFailure(path[c]))
    /\ UNCHANGED <<act, decision, path, result, attempt, lease, idem, target, envVars>>

RecordRevocationFailure(c) ==
    /\ pc[c] = "revoke_failed"
    /\ \/ Record(c, "lease.revocation_failed")
       \/ UNCHANGED events
    /\ Goto(c, AfterFailure(path[c]))
    /\ UNCHANGED <<act, decision, path, result, attempt, lease, idem, target, envVars>>

FinishAttempt(c) ==
    /\ pc[c] = "finish"
    /\ Journal(c, IF result[c].succeeded THEN "succeeded" ELSE "failed")
    /\ Goto(c, "complete")
    /\ UNCHANGED <<act, decision, path, result, events, lease, idem, target, envVars>>

\* IdempotencyStore.complete: a completed row only accepts the same result
CompleteClaim(c) ==
    /\ pc[c] = "complete"
    /\ IF idem[key(c)].result \in {None, result[c]}
       THEN /\ idem' = [idem EXCEPT ![key(c)].result = result[c]]
            /\ Goto(c, "completed")
       ELSE /\ Goto(c, "raised")
            /\ UNCHANGED idem
    /\ UNCHANGED <<act, decision, path, result, events, attempt, lease, target, envVars>>

RecordCompletion(c) ==
    /\ pc[c] = "completed"
    /\ Emit(c, "execution.completed", "observe")

Observe(c) ==
    /\ pc[c] = "observe"
    /\ Emit(c, "state.observed", "verify")

Verify(c) ==
    /\ pc[c] = "verify"
    /\ Emit(c, "verification.completed", "returned")

\* The call is cut off at an await: its task is cancelled, its process dies,
\* or an await outside the except blocks (RecordUncertainFails) and the two
\* try blocks raises.  Nothing is undone.
Abort(c) ==
    /\ pc[c] \notin Ended \cup {"idle"}
    /\ Jump(c, "aborted")

-----------------------------------------------------------------------------
(* the world around the broker *)

\* ApprovalStore.record: an approver decides on an action under a revision
RecordApproval(ap) ==
    /\ approvals' = approvals \cup {ap}
    /\ UNCHANGED <<callVars, act, decision, events, attempt, lease, idem,
                   target, lapsed, revision, expired>>

ApprovalLapses(ap) ==
    /\ ap \in approvals \ lapsed
    /\ lapsed' = lapsed \cup {ap}
    /\ UNCHANGED <<callVars, act, decision, events, attempt, lease, idem,
                   target, approvals, revision, expired>>

ActionExpires(b) ==
    /\ b \notin expired
    /\ expired' = expired \cup {b}
    /\ UNCHANGED <<callVars, act, decision, events, attempt, lease, idem,
                   target, approvals, lapsed, revision>>

DeployPolicy(r) ==
    /\ r # revision
    /\ revision' = r
    /\ UNCHANGED <<callVars, act, decision, events, attempt, lease, idem,
                   target, approvals, lapsed, expired>>

Step(c) ==
    \/ Propose(c) \/ EvaluatePolicy(c) \/ RequestApproval(c) \/ UseApproval(c)
    \/ RefuseExecutor(c) \/ IssueLease(c) \/ RecordLease(c)
    \/ Claim(c) \/ ClaimConflict(c) \/ ClaimDuplicate(c) \/ ReadResult(c)
    \/ CreateAttempt(c) \/ StartAttempt(c) \/ RecordStart(c)
    \/ Dispatch(c) \/ ExecutorReturns(c) \/ ExecutorReturnsUnbound(c)
    \/ ExecutorRaises(c) \/ MarkUncertain(c) \/ RecordUncertain(c)
    \/ RevokeLease(c) \/ RecordRevocation(c) \/ RecordRevocationFailure(c)
    \/ FinishAttempt(c) \/ CompleteClaim(c) \/ RecordCompletion(c)
    \/ Observe(c) \/ Verify(c)

Environment ==
    \/ \E c \in Calls : \/ Refuse(c) \/ RecordUncertainFails(c)
                      \/ Abort(c) \/ TargetApplies(c)
    \/ \E ap \in Decisions : RecordApproval(ap) \/ ApprovalLapses(ap)
    \/ \E b \in Expirable : ActionExpires(b)
    \/ \E r \in Revisions : DeployPolicy(r)

Next == Environment \/ \E c \in Calls : Step(c)

Spec == Init /\ [][Next]_vars

\* Once submitted, a call is driven by its task: each await returns or raises
\* (every client of the broker has a timeout), so its next step is taken.
FairSpec == Spec /\ \A c \in Calls : WF_vars(pc[c] # "idle" /\ Step(c))

-----------------------------------------------------------------------------
(* Properties *)

TypeOK ==
    /\ pc \in [Calls -> PC]
    /\ act \in [Calls -> Actions]
    /\ decision \in [Calls -> Revisions \cup {None}]
    /\ path \in [Calls -> {"ok", "duplicate", "exception"}]
    /\ result \in [Calls -> Result \cup {None}]
    /\ events \in [Calls -> SUBSET EventType]
    /\ attempt \in [Calls -> AttemptState]
    /\ lease \in [Calls -> {"none", "live", "revoked"}]
    /\ idem \in [Keys -> IdempotencyRow]
    /\ target \in [Calls -> {"idle", "inflight", "applied"}]
    /\ approvals \subseteq Decisions
    /\ lapsed \subseteq approvals
    /\ revision \in Revisions
    /\ expired \subseteq Expirable

\* the call's request has left for the target system
Dispatched(c) == target[c] # "idle"

\* However calls race, retry, are cut off or time out, at most one of the
\* calls that carry an idempotency key ever reaches the target (broker.py 187).
AtMostOneDispatch ==
    \A c, d \in Calls : Dispatched(c) /\ Dispatched(d) /\ key(c) = key(d) => c = d

\* A request leaves for the target only when everything recovery needs is
\* already durable: the claim of its key for its digest, its attempt past
\* CLAIMED, and the events of its proposal, decision, lease and start.
DispatchIsJournaled ==
    \A c \in Calls : Dispatched(c) =>
        /\ idem[key(c)].digest = digest(act[c])
        /\ UseAttempts => attempt[c] \notin {"absent", "claimed"}
        /\ {"action.proposed", "policy.evaluated", "execution.started"} \subseteq events[c]
        /\ UseLeases => "lease.issued" \in events[c]

\* A request leaves for the target only if the revision the call was decided
\* under allows the action, or asks for an approval and an approver approved
\* this digest under this very revision (broker.py 104-148).
DispatchWasAuthorized ==
    \A c \in Calls : Dispatched(c) =>
        \/ PolicyOf[decision[c]][act[c].body] = "allow"
        \/ /\ PolicyOf[decision[c]][act[c].body] = "require_approval"
           /\ \E ap \in approvals : /\ ap.outcome = "approved"
                                    /\ digest(ap.action) = digest(act[c])
                                    /\ ap.revision = decision[c]

\* what a published result r of key k rests on
Settled(k, r) ==
    /\ key(r.attempt) = k
    /\ digest(act[r.attempt]) = idem[k].digest
    /\ r.succeeded => target[r.attempt] = "applied"
    /\ UseAttempts => attempt[r.attempt] = IF r.succeeded THEN "succeeded" ELSE "failed"
    /\ UseLeases => lease[r.attempt] = "revoked"

\* A result others may reuse is the result of the one call that executed: its
\* attempt is closed with that very outcome, its lease is revoked, and a
\* success was really applied by the target (broker.py 305-367).
PublishedResultIsFinal ==
    \A k \in Keys : idem[k].result # None => Settled(k, idem[k].result)

\* All calls that return for one key return for the same action and with the
\* same result, whether they executed it or reused it (broker.py 192-218).
ReturnedCallsAgree ==
    \A c, d \in Calls :
        pc[c] = "returned" /\ pc[d] = "returned" /\ key(c) = key(d) =>
            /\ digest(act[c]) = digest(act[d])
            /\ result[c] = result[d]
            /\ result[c] # None

\* An uncertain attempt keeps its key owned, without a result: no later call
\* can execute the action again or be handed an outcome (broker.py 55-58).
UncertainKeepsOwnership ==
    \A c \in Calls : attempt[c] = "uncertain" =>
        idem[key(c)] = [digest |-> digest(act[c]), result |-> None]

\* A call that raises over an uncertain attempt has told the ledger, also when
\* the revocation of its lease, or the append that records it, fails on the way
\* (broker.py 267-343).  Only when recording the uncertainty raises itself does
\* the caller learn of it alone, and then the attempt is still open in the
\* journal and its key stays owned, without a result, for recovery to find.
UncertaintyIsRecorded ==
    \A c \in Calls :
        /\ pc[c] = "raised" /\ attempt[c] = "uncertain" => "execution.uncertain" \in events[c]
        /\ pc[c] = "unrecorded" =>
              /\ UseAttempts => attempt[c] \in {"started", "uncertain"}
              /\ idem[key(c)] = [digest |-> digest(act[c]), result |-> None]

\* No step, crash included, gives up a claim, hands it to another digest, or
\* changes a stored result (postgres/execution.py 27-69).
ClaimsAreFinal ==
    [][\A k \in Keys :
          /\ idem[k].digest # None => idem'[k].digest = idem[k].digest
          /\ idem[k].result # None => idem'[k].result = idem[k].result]_vars

\* What the broker shows of a key, and the abstract promise it implements:
\* claims, dispatches and completed results are the only visible changes, and
\* each happens at most once per key (broker.py 187-374).
Contract == INSTANCE AtMostOnceEffect
            WITH owner   <- [k \in Keys |-> idem[k].digest],
                 asked   <- [k \in Keys |-> \E c \in Calls : key(c) = k /\ Dispatched(c)],
                 outcome <- [k \in Keys |-> idem[k].result]
ImplementsContract == Contract!Spec

\* Every submitted call ends, whatever the others do: no call waits for ever
\* behind the owner of its key (broker.py 199-202).
CallsEnd == \A c \in Calls : pc[c] # "idle" ~> pc[c] \in Ended
=============================================================================
