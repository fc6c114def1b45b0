------------------------- MODULE ActionBrokerProofs -------------------------
(***************************************************************************)
(* Proofs about ActionBroker for any calls, keys, policies and approvals.  *)
(***************************************************************************)
EXTENDS ActionBroker, TLAPS

-----------------------------------------------------------------------------
(* The inductive invariant, in three layers on top of TypeOK. *)

Revoking == {"revoke", "revoked", "revoke_failed"}
BeforeAttempt == {"idle", "policy", "approval", "executor", "lease_issued",
                  "claim", "attempt"}

\* a call that may still dispatch, or has dispatched, under its key's claim
Owning(c) == pc[c] \in {"attempt", "start", "started", "dispatch"} \/ Dispatched(c)

\* a call that read its key's row as its own, to finish it or to reuse it
Reusing(c) == pc[c] \in Revoking \cup {"read_result", "completed", "observe",
                                       "verify", "returned"}

\* what a program point says about the request
Phase(c) ==
    /\ pc[c] \in BeforeAttempt \cup {"start", "started", "dispatch", "read_result"}
          => ~Dispatched(c)
    /\ pc[c] \in {"executing", "uncertain", "uncertain_event", "unrecorded", "finish", "complete",
                  "completed"}
          => Dispatched(c)
    /\ pc[c] \in Revoking => (Dispatched(c) <=> path[c] # "duplicate")

\* first layer: one owner per key, and it is the one the idempotency row names
Ownership ==
    /\ \A c \in Calls : Phase(c)
    /\ \A c \in Calls : Owning(c) \/ Reusing(c) => idem[key(c)].digest = digest(act[c])
    /\ \A c, d \in Calls : Owning(c) /\ Owning(d) /\ key(c) = key(d) => c = d

Closed(r) == IF r.succeeded THEN "succeeded" ELSE "failed"

\* what a program point says about the attempt, the lease and the held result
Evidence(c) ==
    /\ UseAttempts =>
         /\ pc[c] \in BeforeAttempt => attempt[c] = "absent"
         /\ pc[c] = "start" => attempt[c] = "claimed"
         /\ pc[c] \in {"started", "dispatch", "executing", "uncertain", "finish"}
               => attempt[c] = "started"
         /\ pc[c] \in Revoking /\ path[c] = "ok" => attempt[c] = "started"
         /\ pc[c] \in Revoking /\ path[c] = "exception" => attempt[c] = "uncertain"
         /\ pc[c] = "uncertain_event" => attempt[c] = "uncertain"
         /\ pc[c] = "unrecorded" => attempt[c] \in {"started", "uncertain"}
         /\ pc[c] = "complete" => attempt[c] = Closed(result[c])
    /\ ~UseAttempts => attempt[c] = "absent"
    /\ attempt[c] = "uncertain" => Dispatched(c)
    /\ pc[c] \in {"finish", "complete"} \/ (pc[c] \in Revoking /\ path[c] = "ok") =>
         /\ result[c] \in Result
         /\ result[c].attempt = c
         /\ result[c].succeeded => target[c] = "applied"
    /\ UseLeases /\ pc[c] \in {"revoked", "finish", "complete"} => lease[c] = "revoked"
    /\ pc[c] \in {"completed", "observe", "verify", "returned"} =>
         /\ result[c] # None
         /\ result[c] = idem[key(c)].result

\* second layer: what a published result rests on
Publication ==
    /\ \A c \in Calls : Evidence(c)
    /\ \A k \in Keys : idem[k].result # None => Dispatched(idem[k].result.attempt)
    /\ PublishedResultIsFinal

Decided == {"approval", "executor", "lease_issued", "claim", "attempt", "start",
            "started", "dispatch"}

Authorized(c) ==
    \/ PolicyOf[decision[c]][act[c].body] = "allow"
    \/ /\ PolicyOf[decision[c]][act[c].body] = "require_approval"
       /\ \E ap \in approvals : /\ ap.outcome = "approved"
                                /\ digest(ap.action) = digest(act[c])
                                /\ ap.revision = decision[c]

\* what a program point says about the trail and the authority of a call
Trail(c) ==
    /\ pc[c] \in Decided \cup {"policy"} => "action.proposed" \in events[c]
    /\ pc[c] \in Decided => "policy.evaluated" \in events[c]
    /\ pc[c] \in {"claim", "attempt", "start", "started", "dispatch"} /\ UseLeases
          => "lease.issued" \in events[c]
    /\ pc[c] = "dispatch" => "execution.started" \in events[c]
    /\ pc[c] = "approval" => PolicyOf[decision[c]][act[c].body] = "require_approval"
    /\ pc[c] \in Decided \ {"approval"} => Authorized(c)
    /\ UseAttempts /\ Dispatched(c) => attempt[c] \notin {"absent", "claimed"}

\* third layer: what a dispatch rests on
Authority ==
    /\ \A c \in Calls : Trail(c)
    /\ DispatchIsJournaled
    /\ DispatchWasAuthorized

IInv == TypeOK /\ Ownership /\ Publication /\ Authority


-----------------------------------------------------------------------------
(* Facts about the operators of the module *)

\* a call's key is a key and its digest is never the marker of a free row
LEMMA KeyType ==
    ASSUME TypeOK, NEW c \in Calls
    PROVE  /\ act[c].body \in Bodies
           /\ key(c) \in Keys
           /\ digest(act[c]) \in Bodies
           /\ digest(act[c]) # None
BY BrokerAssumption DEF TypeOK, Actions, key, digest

\* execute() goes on at a known point after _revoke_lease
LEMMA AfterRevokeType ==
    ASSUME NEW p \in {"ok", "duplicate", "exception"}
    PROVE  /\ AfterRevoke(p) \in {"read_result", "uncertain_event", "finish"}
           /\ AfterFailure(p) \in {"raised", "uncertain_event", "uncertain"}
BY DEF AfterRevoke, AfterFailure

\* and after the policy has answered
LEMMA AfterPolicyType ==
    ASSUME NEW o \in PolicyOutcome
    PROVE  AfterPolicy(o) \in {"raised", "approval", "executor"}
BY DEF AfterPolicy, PolicyOutcome

\* a stored result names the call that produced it
LEMMA ResultType ==
    ASSUME TypeOK, NEW k \in Keys, idem[k].result # None
    PROVE  idem[k].result \in Result /\ idem[k].result.attempt \in Calls
BY DEF TypeOK, IdempotencyRow, Result


-----------------------------------------------------------------------------
(* Type correctness *)

\* Every reachable state is well typed: each store holds only the records the
\* code can write, for any number of calls.
THEOREM Typing == Spec => []TypeOK
<1>1. Init => TypeOK
  BY BrokerAssumption DEF Init, TypeOK, IdempotencyRow, PC, Ended, AttemptState
<1>2. TypeOK /\ [Next]_vars => TypeOK'
  <2> SUFFICES ASSUME TypeOK, [Next]_vars
          PROVE  TypeOK'
    OBVIOUS
  <2> USE DEF Goto, Record, Emit, Jump, Journal, callVars, envVars, PC, Ended, AttemptState, EventType, PolicyOutcome
  <2>1. ASSUME NEW c \in Calls, Propose(c) PROVE TypeOK'
    BY <2>1 DEF Propose, TypeOK
  <2>2. ASSUME NEW c \in Calls, EvaluatePolicy(c) PROVE TypeOK'
    <3>1. /\ key(c) \in Keys
          /\ act[c].body \in Bodies
          /\ digest(act[c]) \in Bodies
      BY KeyType
    <3>2. PolicyOf[revision][act[c].body] \in PolicyOutcome
      BY <3>1, BrokerAssumption DEF TypeOK
    <3>3. AfterPolicy(PolicyOf[revision][act[c].body]) \in PC
      BY <3>2, AfterPolicyType
    <3> QED
      BY <2>2, <3>3 DEF EvaluatePolicy, TypeOK
  <2>3. ASSUME NEW c \in Calls, RequestApproval(c) PROVE TypeOK'
    BY <2>3 DEF RequestApproval, TypeOK
  <2>4. ASSUME NEW c \in Calls, UseApproval(c) PROVE TypeOK'
    BY <2>4 DEF UseApproval, TypeOK
  <2>5. ASSUME NEW c \in Calls, RefuseExecutor(c) PROVE TypeOK'
    BY <2>5 DEF RefuseExecutor, TypeOK
  <2>6. ASSUME NEW c \in Calls, IssueLease(c) PROVE TypeOK'
    BY <2>6 DEF IssueLease, TypeOK
  <2>7. ASSUME NEW c \in Calls, RecordLease(c) PROVE TypeOK'
    BY <2>7 DEF RecordLease, TypeOK
  <2>8. ASSUME NEW c \in Calls, Claim(c) PROVE TypeOK'
    <3>1. /\ key(c) \in Keys
          /\ act[c].body \in Bodies
          /\ digest(act[c]) \in Bodies
      BY KeyType
    <3>2. idem' \in [Keys -> IdempotencyRow]
      BY <2>8, <3>1 DEF Claim, TypeOK, IdempotencyRow
    <3> QED
      BY <2>8, <3>2 DEF Claim, TypeOK
  <2>9. ASSUME NEW c \in Calls, ClaimConflict(c) PROVE TypeOK'
    BY <2>9 DEF ClaimConflict, TypeOK
  <2>10. ASSUME NEW c \in Calls, ClaimDuplicate(c) PROVE TypeOK'
    BY <2>10 DEF ClaimDuplicate, TypeOK
  <2>11. ASSUME NEW c \in Calls, ReadResult(c) PROVE TypeOK'
    <3>1. /\ key(c) \in Keys
          /\ act[c].body \in Bodies
          /\ digest(act[c]) \in Bodies
      BY KeyType
    <3>2. idem[key(c)].result \in Result \cup {None}
      BY <3>1 DEF TypeOK, IdempotencyRow
    <3> QED
      BY <2>11, <3>2 DEF ReadResult, TypeOK
  <2>12. ASSUME NEW c \in Calls, CreateAttempt(c) PROVE TypeOK'
    BY <2>12 DEF CreateAttempt, TypeOK
  <2>13. ASSUME NEW c \in Calls, StartAttempt(c) PROVE TypeOK'
    BY <2>13 DEF StartAttempt, TypeOK
  <2>14. ASSUME NEW c \in Calls, RecordStart(c) PROVE TypeOK'
    BY <2>14 DEF RecordStart, TypeOK
  <2>15. ASSUME NEW c \in Calls, Dispatch(c) PROVE TypeOK'
    BY <2>15 DEF Dispatch, TypeOK
  <2>16. ASSUME NEW c \in Calls, ExecutorReturns(c) PROVE TypeOK'
    <3>1. PICK ok \in BOOLEAN : result' = [result EXCEPT ![c] = [attempt |-> c, succeeded |-> ok]]
      BY <2>16 DEF ExecutorReturns
    <3>2. result' \in [Calls -> Result \cup {None}]
      BY <3>1 DEF Result, TypeOK
    <3> QED
      BY <2>16, <3>2 DEF ExecutorReturns, TypeOK
  <2>17. ASSUME NEW c \in Calls, ExecutorReturnsUnbound(c) PROVE TypeOK'
    BY <2>17 DEF ExecutorReturnsUnbound, TypeOK
  <2>18. ASSUME NEW c \in Calls, ExecutorRaises(c) PROVE TypeOK'
    BY <2>18 DEF ExecutorRaises, TypeOK
  <2>19. ASSUME NEW c \in Calls, MarkUncertain(c) PROVE TypeOK'
    BY <2>19 DEF MarkUncertain, TypeOK
  <2>20. ASSUME NEW c \in Calls, RecordUncertain(c) PROVE TypeOK'
    BY <2>20 DEF RecordUncertain, TypeOK
  <2>21. ASSUME NEW c \in Calls, RevokeLease(c) PROVE TypeOK'
    BY <2>21 DEF RevokeLease, TypeOK
  <2>22. ASSUME NEW c \in Calls, RecordRevocation(c) PROVE TypeOK'
    <3>1. path[c] \in {"ok", "duplicate", "exception"}
      BY DEF TypeOK
    <3>2. AfterRevoke(path[c]) \in PC /\ AfterFailure(path[c]) \in PC
      BY <3>1, AfterRevokeType
    <3> QED
      BY <2>22, <3>2 DEF RecordRevocation, TypeOK
  <2>23. ASSUME NEW c \in Calls, RecordRevocationFailure(c) PROVE TypeOK'
    <3>1. path[c] \in {"ok", "duplicate", "exception"}
      BY DEF TypeOK
    <3>2. AfterRevoke(path[c]) \in PC /\ AfterFailure(path[c]) \in PC
      BY <3>1, AfterRevokeType
    <3> QED
      BY <2>23, <3>2 DEF RecordRevocationFailure, TypeOK
  <2>24. ASSUME NEW c \in Calls, FinishAttempt(c) PROVE TypeOK'
    BY <2>24 DEF FinishAttempt, TypeOK
  <2>25. ASSUME NEW c \in Calls, CompleteClaim(c) PROVE TypeOK'
    <3>1. /\ key(c) \in Keys
          /\ act[c].body \in Bodies
          /\ digest(act[c]) \in Bodies
      BY KeyType
    <3>2. idem' \in [Keys -> IdempotencyRow]
      BY <2>25, <3>1 DEF CompleteClaim, TypeOK, IdempotencyRow
    <3> QED
      BY <2>25, <3>2 DEF CompleteClaim, TypeOK
  <2>26. ASSUME NEW c \in Calls, RecordCompletion(c) PROVE TypeOK'
    BY <2>26 DEF RecordCompletion, TypeOK
  <2>27. ASSUME NEW c \in Calls, Observe(c) PROVE TypeOK'
    BY <2>27 DEF Observe, TypeOK
  <2>28. ASSUME NEW c \in Calls, Verify(c) PROVE TypeOK'
    BY <2>28 DEF Verify, TypeOK
  <2>29. ASSUME NEW c \in Calls, Refuse(c) PROVE TypeOK'
    BY <2>29 DEF Refuse, TypeOK
  <2>30. ASSUME NEW c \in Calls, Abort(c) PROVE TypeOK'
    BY <2>30 DEF Abort, TypeOK
  <2>30b. ASSUME NEW c \in Calls, RecordUncertainFails(c) PROVE TypeOK'
    BY <2>30b
       DEF RecordUncertainFails, TypeOK
  <2>31. ASSUME NEW c \in Calls, TargetApplies(c) PROVE TypeOK'
    BY <2>31 DEF TargetApplies, TypeOK
  <2>32. ASSUME NEW ap \in Decisions, RecordApproval(ap) PROVE TypeOK'
    BY <2>32 DEF RecordApproval, TypeOK
  <2>33. ASSUME NEW ap \in Decisions, ApprovalLapses(ap) PROVE TypeOK'
    BY <2>33 DEF ApprovalLapses, TypeOK
  <2>34. ASSUME NEW b \in Expirable, ActionExpires(b) PROVE TypeOK'
    BY <2>34 DEF ActionExpires, TypeOK
  <2>35. ASSUME NEW r \in Revisions, DeployPolicy(r) PROVE TypeOK'
    BY <2>35 DEF DeployPolicy, TypeOK
  <2>36. CASE UNCHANGED vars
    BY <2>36 DEF vars, TypeOK
  <2> QED
    BY <2>1, <2>2, <2>3, <2>4, <2>5, <2>6, <2>7, <2>8, <2>9, <2>10, <2>11,
       <2>12, <2>13, <2>14, <2>15, <2>16, <2>17, <2>18, <2>19, <2>20, <2>21, <2>22,
       <2>23, <2>24, <2>25, <2>26, <2>27, <2>28, <2>29, <2>30, <2>30b, <2>31, <2>32, <2>33,
       <2>34, <2>35, <2>36 DEF Next, Environment, Step
<1> QED
  BY <1>1, <1>2, PTL DEF Spec

-----------------------------------------------------------------------------
(* Ownership of keys *)

\* Layer one is inductive: calls that race for a key leave one owner, and it
\* stays the owner after it dispatched, however it ended.
LEMMA OwnershipInductive ==
    /\ TypeOK /\ Init => Ownership
    /\ TypeOK /\ Ownership /\ [Next]_vars => Ownership'
<1>1. TypeOK /\ Init => Ownership
  BY DEF Init, Ownership, Phase, Owning, Reusing, Dispatched, Revoking, BeforeAttempt
<1>2. TypeOK /\ Ownership /\ [Next]_vars => Ownership'
  <2> SUFFICES ASSUME TypeOK, Ownership, [Next]_vars
          PROVE  Ownership'
    OBVIOUS
  <2> USE DEF Goto, Emit, Jump, callVars, envVars, Ended, key, digest
  <2>1. ASSUME NEW c \in Calls, Propose(c) PROVE Ownership'
    BY <2>1
       DEF Propose, Ownership, Phase, Owning, Reusing, Dispatched, Revoking, BeforeAttempt,
           TypeOK
  <2>2. ASSUME NEW c \in Calls, EvaluatePolicy(c) PROVE Ownership'
    <3>1. /\ key(c) \in Keys
          /\ act[c].body \in Bodies
          /\ digest(act[c]) \in Bodies
      BY KeyType
    <3>2. PolicyOf[revision][act[c].body] \in PolicyOutcome
      BY <3>1, BrokerAssumption DEF TypeOK
    <3>3. AfterPolicy(PolicyOf[revision][act[c].body]) \in {"raised", "approval", "executor"}
      BY <3>2, AfterPolicyType
    <3> QED
      BY <2>2, <3>3
         DEF EvaluatePolicy, Ownership, Phase, Owning, Reusing, Dispatched, Revoking,
             BeforeAttempt, TypeOK
  <2>3. ASSUME NEW c \in Calls, RequestApproval(c) PROVE Ownership'
    BY <2>3
       DEF RequestApproval, Ownership, Phase, Owning, Reusing, Dispatched, Revoking,
           BeforeAttempt, TypeOK
  <2>4. ASSUME NEW c \in Calls, UseApproval(c) PROVE Ownership'
    BY <2>4
       DEF UseApproval, Ownership, Phase, Owning, Reusing, Dispatched, Revoking, BeforeAttempt,
           TypeOK
  <2>5. ASSUME NEW c \in Calls, RefuseExecutor(c) PROVE Ownership'
    BY <2>5
       DEF RefuseExecutor, Ownership, Phase, Owning, Reusing, Dispatched, Revoking, BeforeAttempt,
           TypeOK
  <2>6. ASSUME NEW c \in Calls, IssueLease(c) PROVE Ownership'
    BY <2>6
       DEF IssueLease, Ownership, Phase, Owning, Reusing, Dispatched, Revoking, BeforeAttempt,
           TypeOK
  <2>7. ASSUME NEW c \in Calls, RecordLease(c) PROVE Ownership'
    BY <2>7
       DEF RecordLease, Ownership, Phase, Owning, Reusing, Dispatched, Revoking, BeforeAttempt,
           TypeOK
  <2>8. ASSUME NEW c \in Calls, Claim(c) PROVE Ownership'
    <3>1. /\ key(c) \in Keys
          /\ act[c].body \in Bodies
          /\ digest(act[c]) \in Bodies
      BY KeyType
    <3>2. ASSUME NEW d \in Calls, Owning(d) \/ Reusing(d) PROVE key(d) # key(c)
      BY <2>8, <3>2, KeyType DEF Claim, Ownership
    <3>3. /\ idem'[key(c)].digest = digest(act[c])
          /\ \A k \in Keys \ {key(c)} : idem'[k] = idem[k]
      BY <2>8, <3>1 DEF Claim, TypeOK, IdempotencyRow
    <3>4. \A d \in Calls : (Owning(d)' => Owning(d) \/ d = c) /\ (Reusing(d)' => Reusing(d))
      BY <2>8 DEF Claim, TypeOK, Owning, Reusing, Revoking, Dispatched
    <3>5. \A d \in Calls : key(d)' = key(d) /\ key(d) \in Keys
      BY <2>8, KeyType DEF Claim
    <3>6. \A d \in Calls : Phase(d)'
      BY <2>8
         DEF Claim, Ownership, Phase, Owning, Reusing, Dispatched, Revoking, BeforeAttempt,
             TypeOK
    <3>7. act' = act
      BY <2>8 DEF Claim
    <3>8. ASSUME NEW d \in Calls, Owning(d)' \/ Reusing(d)'
          PROVE  (idem[key(d)].digest = digest(act[d]))'
      <4>1. CASE d = c
        BY <3>3, <3>7, <4>1
      <4>2. CASE d # c
        <5>1. Owning(d) \/ Reusing(d)
          BY <3>4, <3>8, <4>2
        <5>2. idem'[key(d)] = idem[key(d)] /\ idem[key(d)].digest = digest(act[d])
          BY <3>2, <3>3, <3>5, <5>1 DEF Ownership
        <5> QED
          BY <3>7, <5>2
      <4> QED
        BY <4>1, <4>2
    <3>9. ASSUME NEW d \in Calls, NEW e \in Calls, Owning(d)', Owning(e)', (key(d) = key(e))'
          PROVE  d = e
      <4>1. (Owning(d) \/ d = c) /\ (Owning(e) \/ e = c) /\ key(d) = key(e)
        BY <3>4, <3>5, <3>9
      <4> QED
        BY <3>2, <4>1 DEF Ownership
    <3> QED
      BY <3>6, <3>8, <3>9 DEF Ownership
  <2>9. ASSUME NEW c \in Calls, ClaimConflict(c) PROVE Ownership'
    BY <2>9
       DEF ClaimConflict, Ownership, Phase, Owning, Reusing, Dispatched, Revoking, BeforeAttempt,
           TypeOK
  <2>10. ASSUME NEW c \in Calls, ClaimDuplicate(c) PROVE Ownership'
    BY <2>10
       DEF ClaimDuplicate, Ownership, Phase, Owning, Reusing, Dispatched, Revoking, BeforeAttempt,
           TypeOK
  <2>11. ASSUME NEW c \in Calls, ReadResult(c) PROVE Ownership'
    BY <2>11
       DEF ReadResult, Ownership, Phase, Owning, Reusing, Dispatched, Revoking, BeforeAttempt,
           TypeOK
  <2>12. ASSUME NEW c \in Calls, CreateAttempt(c) PROVE Ownership'
    BY <2>12
       DEF CreateAttempt, Ownership, Phase, Owning, Reusing, Dispatched, Revoking, BeforeAttempt,
           TypeOK
  <2>13. ASSUME NEW c \in Calls, StartAttempt(c) PROVE Ownership'
    BY <2>13
       DEF StartAttempt, Ownership, Phase, Owning, Reusing, Dispatched, Revoking, BeforeAttempt,
           TypeOK
  <2>14. ASSUME NEW c \in Calls, RecordStart(c) PROVE Ownership'
    BY <2>14
       DEF RecordStart, Ownership, Phase, Owning, Reusing, Dispatched, Revoking, BeforeAttempt,
           TypeOK
  <2>15. ASSUME NEW c \in Calls, Dispatch(c) PROVE Ownership'
    BY <2>15
       DEF Dispatch, Ownership, Phase, Owning, Reusing, Dispatched, Revoking, BeforeAttempt,
           TypeOK
  <2>16. ASSUME NEW c \in Calls, ExecutorReturns(c) PROVE Ownership'
    BY <2>16
       DEF ExecutorReturns, Ownership, Phase, Owning, Reusing, Dispatched, Revoking,
           BeforeAttempt, TypeOK
  <2>17. ASSUME NEW c \in Calls, ExecutorReturnsUnbound(c) PROVE Ownership'
    BY <2>17
       DEF ExecutorReturnsUnbound, Ownership, Phase, Owning, Reusing, Dispatched, Revoking,
           BeforeAttempt, TypeOK
  <2>18. ASSUME NEW c \in Calls, ExecutorRaises(c) PROVE Ownership'
    BY <2>18
       DEF ExecutorRaises, Ownership, Phase, Owning, Reusing, Dispatched, Revoking, BeforeAttempt,
           TypeOK
  <2>19. ASSUME NEW c \in Calls, MarkUncertain(c) PROVE Ownership'
    BY <2>19
       DEF MarkUncertain, Ownership, Phase, Owning, Reusing, Dispatched, Revoking, BeforeAttempt,
           TypeOK
  <2>20. ASSUME NEW c \in Calls, RecordUncertain(c) PROVE Ownership'
    BY <2>20
       DEF RecordUncertain, Ownership, Phase, Owning, Reusing, Dispatched, Revoking,
           BeforeAttempt, TypeOK
  <2>21. ASSUME NEW c \in Calls, RevokeLease(c) PROVE Ownership'
    BY <2>21
       DEF RevokeLease, Ownership, Phase, Owning, Reusing, Dispatched, Revoking, BeforeAttempt,
           TypeOK
  <2>22. ASSUME NEW c \in Calls, RecordRevocation(c) PROVE Ownership'
    <3>1. path[c] \in {"ok", "duplicate", "exception"}
      BY DEF TypeOK
    <3>2. /\ AfterRevoke(path[c]) \in {"read_result", "uncertain_event", "finish"}
          /\ AfterFailure(path[c]) \in {"raised", "uncertain_event", "uncertain"}
          /\ path[c] = "duplicate" => AfterRevoke(path[c]) = "read_result" /\ AfterFailure(path[c]) = "raised"
          /\ path[c] # "duplicate" => AfterRevoke(path[c]) # "read_result"
      BY <3>1 DEF AfterRevoke, AfterFailure
    <3>3. path[c] = "duplicate" => ~Dispatched(c)
      BY <2>22 DEF RecordRevocation, Ownership, Phase, Revoking
    <3> QED
      BY <2>22, <3>2, <3>3
         DEF RecordRevocation, Ownership, Phase, Owning, Reusing, Dispatched, Revoking,
             BeforeAttempt, TypeOK
  <2>23. ASSUME NEW c \in Calls, RecordRevocationFailure(c) PROVE Ownership'
    BY <2>23
       DEF RecordRevocationFailure, AfterFailure, Ownership, Phase, Owning, Reusing, Dispatched,
           Revoking, BeforeAttempt, TypeOK
  <2>24. ASSUME NEW c \in Calls, FinishAttempt(c) PROVE Ownership'
    BY <2>24
       DEF FinishAttempt, Ownership, Phase, Owning, Reusing, Dispatched, Revoking, BeforeAttempt,
           TypeOK
  <2>25. ASSUME NEW c \in Calls, CompleteClaim(c) PROVE Ownership'
    <3>1. /\ key(c) \in Keys
          /\ act[c].body \in Bodies
          /\ digest(act[c]) \in Bodies
      BY KeyType
    <3>2. \A k \in Keys : idem'[k].digest = idem[k].digest
      BY <2>25, <3>1 DEF CompleteClaim, TypeOK, IdempotencyRow
    <3>3. \A d \in Calls : key(d) \in Keys
      BY KeyType
    <3> QED
      BY <2>25, <3>2, <3>3
         DEF CompleteClaim, Ownership, Phase, Owning, Reusing, Dispatched, Revoking,
             BeforeAttempt, TypeOK
  <2>26. ASSUME NEW c \in Calls, RecordCompletion(c) PROVE Ownership'
    BY <2>26
       DEF RecordCompletion, Ownership, Phase, Owning, Reusing, Dispatched, Revoking,
           BeforeAttempt, TypeOK
  <2>27. ASSUME NEW c \in Calls, Observe(c) PROVE Ownership'
    BY <2>27
       DEF Observe, Ownership, Phase, Owning, Reusing, Dispatched, Revoking, BeforeAttempt,
           TypeOK
  <2>28. ASSUME NEW c \in Calls, Verify(c) PROVE Ownership'
    BY <2>28
       DEF Verify, Ownership, Phase, Owning, Reusing, Dispatched, Revoking, BeforeAttempt, TypeOK
  <2>29. ASSUME NEW c \in Calls, Refuse(c) PROVE Ownership'
    BY <2>29
       DEF Refuse, Ownership, Phase, Owning, Reusing, Dispatched, Revoking, BeforeAttempt, TypeOK
  <2>30. ASSUME NEW c \in Calls, Abort(c) PROVE Ownership'
    BY <2>30
       DEF Abort, Ownership, Phase, Owning, Reusing, Dispatched, Revoking, BeforeAttempt, TypeOK
  <2>30b. ASSUME NEW c \in Calls, RecordUncertainFails(c) PROVE Ownership'
    BY <2>30b
       DEF RecordUncertainFails, Ownership, Phase, Owning, Reusing, Dispatched,
           Revoking, BeforeAttempt, TypeOK
  <2>31. ASSUME NEW c \in Calls, TargetApplies(c) PROVE Ownership'
    BY <2>31
       DEF TargetApplies, Ownership, Phase, Owning, Reusing, Dispatched, Revoking, BeforeAttempt,
           TypeOK
  <2>32. ASSUME NEW ap \in Decisions, RecordApproval(ap) PROVE Ownership'
    BY <2>32
       DEF RecordApproval, Ownership, Phase, Owning, Reusing, Dispatched, Revoking, BeforeAttempt,
           TypeOK
  <2>33. ASSUME NEW ap \in Decisions, ApprovalLapses(ap) PROVE Ownership'
    BY <2>33
       DEF ApprovalLapses, Ownership, Phase, Owning, Reusing, Dispatched, Revoking, BeforeAttempt,
           TypeOK
  <2>34. ASSUME NEW b \in Expirable, ActionExpires(b) PROVE Ownership'
    BY <2>34
       DEF ActionExpires, Ownership, Phase, Owning, Reusing, Dispatched, Revoking, BeforeAttempt,
           TypeOK
  <2>35. ASSUME NEW r \in Revisions, DeployPolicy(r) PROVE Ownership'
    BY <2>35
       DEF DeployPolicy, Ownership, Phase, Owning, Reusing, Dispatched, Revoking, BeforeAttempt,
           TypeOK
  <2>36. CASE UNCHANGED vars
    BY <2>36
       DEF vars, Ownership, Phase, Owning, Reusing, Dispatched, Revoking, BeforeAttempt, TypeOK
  <2> QED
    BY <2>1, <2>2, <2>3, <2>4, <2>5, <2>6, <2>7, <2>8, <2>9, <2>10, <2>11,
       <2>12, <2>13, <2>14, <2>15, <2>16, <2>17, <2>18, <2>19, <2>20, <2>21, <2>22,
       <2>23, <2>24, <2>25, <2>26, <2>27, <2>28, <2>29, <2>30, <2>30b, <2>31, <2>32, <2>33,
       <2>34, <2>35, <2>36 DEF Next, Environment, Step
<1> QED
  BY <1>1, <1>2

-----------------------------------------------------------------------------
(* Published results *)

\* Layer two is inductive: an outcome is published only by the owner, after
\* its lease is revoked and its attempt is closed, and nothing undoes either.
LEMMA PublicationInductive ==
    /\ TypeOK /\ Init => Publication
    /\ TypeOK /\ Ownership /\ Publication /\ [Next]_vars => Publication'
<1>1. TypeOK /\ Init => Publication
  BY DEF Init, Publication, Evidence, PublishedResultIsFinal, Revoking, BeforeAttempt
<1>2. TypeOK /\ Ownership /\ Publication /\ [Next]_vars => Publication'
  <2> SUFFICES ASSUME TypeOK, Ownership, Publication, [Next]_vars
          PROVE  Publication'
    OBVIOUS
  <2> USE DEF Goto, Emit, Jump, Journal, Transitions, callVars, envVars, Ended, key, digest
  <2>1. ASSUME NEW c \in Calls, Propose(c) PROVE Publication'
    BY <2>1
       DEF Propose, Publication, Evidence, PublishedResultIsFinal, Settled, Closed, Dispatched,
           Revoking, BeforeAttempt, Ownership, Phase, TypeOK
  <2>2. ASSUME NEW c \in Calls, EvaluatePolicy(c) PROVE Publication'
    <3>1. \A k \in Keys : idem[k].result # None => idem[k].result.attempt \in Calls
      BY ResultType
    <3>a. /\ key(c) \in Keys
          /\ act[c].body \in Bodies
          /\ digest(act[c]) \in Bodies
      BY KeyType
    <3>b. PolicyOf[revision][act[c].body] \in PolicyOutcome
      BY <3>a, BrokerAssumption DEF TypeOK
    <3>c. AfterPolicy(PolicyOf[revision][act[c].body]) \in {"raised", "approval", "executor"}
      BY <3>b, AfterPolicyType
    <3>2. \A d \in Calls : Evidence(d)'
      BY <2>2, <3>c
         DEF EvaluatePolicy, Ownership, Publication, Evidence, Closed, Dispatched, Revoking,
             BeforeAttempt, Phase, TypeOK
    <3>3. \A k \in Keys : idem[k].result # None => idem'[k] = idem[k] /\ Dispatched(idem[k].result.attempt)'
      BY <2>2, <3>1, <3>c DEF EvaluatePolicy, Publication, Dispatched, TypeOK
    <3>4. PublishedResultIsFinal'
      BY <2>2, <3>1, <3>3, <3>c
         DEF EvaluatePolicy, Publication, PublishedResultIsFinal, Settled, Ownership, Evidence,
             Closed, Dispatched, Revoking, BeforeAttempt, Phase, TypeOK
    <3> QED
      BY <2>2, <3>2, <3>3, <3>4, <3>c DEF EvaluatePolicy, Publication
  <2>3. ASSUME NEW c \in Calls, RequestApproval(c) PROVE Publication'
    BY <2>3
       DEF RequestApproval, Publication, Evidence, PublishedResultIsFinal, Settled, Closed,
           Dispatched, Revoking, BeforeAttempt, Ownership, Phase, TypeOK
  <2>4. ASSUME NEW c \in Calls, UseApproval(c) PROVE Publication'
    BY <2>4
       DEF UseApproval, Publication, Evidence, PublishedResultIsFinal, Settled, Closed,
           Dispatched, Revoking, BeforeAttempt, Ownership, Phase, TypeOK
  <2>5. ASSUME NEW c \in Calls, RefuseExecutor(c) PROVE Publication'
    BY <2>5
       DEF RefuseExecutor, Publication, Evidence, PublishedResultIsFinal, Settled, Closed,
           Dispatched, Revoking, BeforeAttempt, Ownership, Phase, TypeOK
  <2>6. ASSUME NEW c \in Calls, IssueLease(c) PROVE Publication'
    <3>1. \A k \in Keys : idem[k].result # None => idem[k].result.attempt \in Calls
      BY ResultType
    <3>2. \A d \in Calls : Evidence(d)'
      BY <2>6
         DEF IssueLease, Ownership, Publication, Evidence, Closed, Dispatched, Revoking,
             BeforeAttempt, Phase, TypeOK
    <3>3. \A k \in Keys : idem[k].result # None => idem'[k] = idem[k] /\ Dispatched(idem[k].result.attempt)'
      BY <2>6, <3>1 DEF IssueLease, Publication, Dispatched, TypeOK
    <3>4. PublishedResultIsFinal'
      BY <2>6, <3>1, <3>3
         DEF IssueLease, Publication, PublishedResultIsFinal, Settled, Ownership, Evidence,
             Closed, Dispatched, Revoking, BeforeAttempt, Phase, TypeOK
    <3> QED
      BY <2>6, <3>2, <3>3, <3>4 DEF IssueLease, Publication
  <2>7. ASSUME NEW c \in Calls, RecordLease(c) PROVE Publication'
    BY <2>7
       DEF RecordLease, Publication, Evidence, PublishedResultIsFinal, Settled, Closed,
           Dispatched, Revoking, BeforeAttempt, Ownership, Phase, TypeOK
  <2>8. ASSUME NEW c \in Calls, Claim(c) PROVE Publication'
    <3>1. /\ \A d \in Calls : key(d) \in Keys /\ digest(act[d]) # None
          /\ \A k \in Keys : idem[k].result # None => idem[k].result.attempt \in Calls
      BY KeyType, ResultType
    <3>2. /\ \A k \in Keys : idem'[k].result = idem[k].result
          /\ \A k \in Keys \ {key(c)} : idem'[k] = idem[k]
      BY <2>8, <3>1 DEF Claim, TypeOK, IdempotencyRow
    <3>3. idem[key(c)].result = None
      BY <2>8, <3>1 DEF Claim, Publication, PublishedResultIsFinal, Settled
    <3>4. \A d \in Calls : Evidence(d)'
      BY <2>8, <3>1, <3>2
         DEF Claim, Publication, Evidence, Closed, Dispatched, Revoking, BeforeAttempt, TypeOK
    <3>5. PublishedResultIsFinal'
      <4>1. \A k \in Keys : idem'[k].result # None => idem'[k] = idem[k]
        BY <3>2, <3>3
      <4>2. UNCHANGED <<act, attempt, lease, target>>
        BY <2>8 DEF Claim
      <4> QED
        BY <4>1, <4>2 DEF Publication, PublishedResultIsFinal, Settled
    <3> QED
      BY <2>8, <3>1, <3>2, <3>4, <3>5 DEF Claim, Publication, Dispatched
  <2>9. ASSUME NEW c \in Calls, ClaimConflict(c) PROVE Publication'
    BY <2>9
       DEF ClaimConflict, Publication, Evidence, PublishedResultIsFinal, Settled, Closed,
           Dispatched, Revoking, BeforeAttempt, Ownership, Phase, TypeOK
  <2>10. ASSUME NEW c \in Calls, ClaimDuplicate(c) PROVE Publication'
    BY <2>10
       DEF ClaimDuplicate, Publication, Evidence, PublishedResultIsFinal, Settled, Closed,
           Dispatched, Revoking, BeforeAttempt, Ownership, Phase, TypeOK
  <2>11. ASSUME NEW c \in Calls, ReadResult(c) PROVE Publication'
    BY <2>11
       DEF ReadResult, Publication, Evidence, PublishedResultIsFinal, Settled, Closed, Dispatched,
           Revoking, BeforeAttempt, Ownership, Phase, TypeOK
  <2>12. ASSUME NEW c \in Calls, CreateAttempt(c) PROVE Publication'
    <3>1. \A k \in Keys : idem[k].result # None => idem[k].result.attempt \in Calls
      BY ResultType
    <3>2. \A d \in Calls : Evidence(d)'
      BY <2>12
         DEF CreateAttempt, Ownership, Publication, Evidence, Closed, Dispatched, Revoking,
             BeforeAttempt, Phase, TypeOK
    <3>3. \A k \in Keys : idem[k].result # None => idem'[k] = idem[k] /\ Dispatched(idem[k].result.attempt)'
      BY <2>12, <3>1 DEF CreateAttempt, Publication, Dispatched, TypeOK
    <3>4. PublishedResultIsFinal'
      BY <2>12, <3>1, <3>3
         DEF CreateAttempt, Publication, PublishedResultIsFinal, Settled, Ownership, Evidence,
             Closed, Dispatched, Revoking, BeforeAttempt, Phase, TypeOK
    <3> QED
      BY <2>12, <3>2, <3>3, <3>4 DEF CreateAttempt, Publication
  <2>13. ASSUME NEW c \in Calls, StartAttempt(c) PROVE Publication'
    <3>1. \A k \in Keys : idem[k].result # None => idem[k].result.attempt \in Calls
      BY ResultType
    <3>2. \A d \in Calls : Evidence(d)'
      BY <2>13
         DEF StartAttempt, Ownership, Publication, Evidence, Closed, Dispatched, Revoking,
             BeforeAttempt, Phase, TypeOK
    <3>3. \A k \in Keys : idem[k].result # None => idem'[k] = idem[k] /\ Dispatched(idem[k].result.attempt)'
      BY <2>13, <3>1 DEF StartAttempt, Publication, Dispatched, TypeOK
    <3>4. PublishedResultIsFinal'
      BY <2>13, <3>1, <3>3
         DEF StartAttempt, Publication, PublishedResultIsFinal, Settled, Ownership, Evidence,
             Closed, Dispatched, Revoking, BeforeAttempt, Phase, TypeOK
    <3> QED
      BY <2>13, <3>2, <3>3, <3>4 DEF StartAttempt, Publication
  <2>14. ASSUME NEW c \in Calls, RecordStart(c) PROVE Publication'
    BY <2>14
       DEF RecordStart, Publication, Evidence, PublishedResultIsFinal, Settled, Closed,
           Dispatched, Revoking, BeforeAttempt, Ownership, Phase, TypeOK
  <2>15. ASSUME NEW c \in Calls, Dispatch(c) PROVE Publication'
    BY <2>15
       DEF Dispatch, Publication, Evidence, PublishedResultIsFinal, Settled, Closed, Dispatched,
           Revoking, BeforeAttempt, Ownership, Phase, TypeOK
  <2>16. ASSUME NEW c \in Calls, ExecutorReturns(c) PROVE Publication'
    <3>a. PICK ok \in BOOLEAN :
             /\ ok => target[c] = "applied"
             /\ result' = [result EXCEPT ![c] = [attempt |-> c, succeeded |-> ok]]
      BY <2>16 DEF ExecutorReturns
    <3>b. /\ result'[c] \in Result
          /\ result'[c].attempt = c
          /\ result'[c].succeeded => target[c] = "applied"
          /\ \A d \in Calls \ {c} : result'[d] = result[d]
      BY <3>a DEF Result, TypeOK
    <3>1. \A k \in Keys : idem[k].result # None => idem[k].result.attempt \in Calls
      BY ResultType
    <3>2. \A d \in Calls : Evidence(d)'
      BY <2>16, <3>b
         DEF ExecutorReturns, Ownership, Publication, Evidence, Closed, Dispatched, Revoking,
             BeforeAttempt, Phase, TypeOK
    <3>3. \A k \in Keys : idem[k].result # None => idem'[k] = idem[k] /\ Dispatched(idem[k].result.attempt)'
      BY <2>16, <3>1, <3>b DEF ExecutorReturns, Publication, Dispatched, TypeOK
    <3>4. PublishedResultIsFinal'
      BY <2>16, <3>1, <3>3, <3>b
         DEF ExecutorReturns, Publication, PublishedResultIsFinal, Settled, Ownership, Evidence,
             Closed, Dispatched, Revoking, BeforeAttempt, Phase, TypeOK
    <3> QED
      BY <2>16, <3>2, <3>3, <3>4, <3>b DEF ExecutorReturns, Publication
  <2>17. ASSUME NEW c \in Calls, ExecutorReturnsUnbound(c) PROVE Publication'
    BY <2>17
       DEF ExecutorReturnsUnbound, Publication, Evidence, PublishedResultIsFinal, Settled, Closed,
           Dispatched, Revoking, BeforeAttempt, Ownership, Phase, TypeOK
  <2>18. ASSUME NEW c \in Calls, ExecutorRaises(c) PROVE Publication'
    BY <2>18
       DEF ExecutorRaises, Publication, Evidence, PublishedResultIsFinal, Settled, Closed,
           Dispatched, Revoking, BeforeAttempt, Ownership, Phase, TypeOK
  <2>19. ASSUME NEW c \in Calls, MarkUncertain(c) PROVE Publication'
    <3>1. \A k \in Keys : idem[k].result # None => idem[k].result.attempt \in Calls
      BY ResultType
    <3>2. \A d \in Calls : Evidence(d)'
      BY <2>19
         DEF MarkUncertain, Ownership, Publication, Evidence, Closed, Dispatched, Revoking,
             BeforeAttempt, Phase, TypeOK
    <3>3. \A k \in Keys : idem[k].result # None => idem'[k] = idem[k] /\ Dispatched(idem[k].result.attempt)'
      BY <2>19, <3>1 DEF MarkUncertain, Publication, Dispatched, TypeOK
    <3>4. PublishedResultIsFinal'
      BY <2>19, <3>1, <3>3
         DEF MarkUncertain, Publication, PublishedResultIsFinal, Settled, Ownership, Evidence,
             Closed, Dispatched, Revoking, BeforeAttempt, Phase, TypeOK
    <3> QED
      BY <2>19, <3>2, <3>3, <3>4 DEF MarkUncertain, Publication
  <2>20. ASSUME NEW c \in Calls, RecordUncertain(c) PROVE Publication'
    BY <2>20
       DEF RecordUncertain, Publication, Evidence, PublishedResultIsFinal, Settled, Closed,
           Dispatched, Revoking, BeforeAttempt, Ownership, Phase, TypeOK
  <2>21. ASSUME NEW c \in Calls, RevokeLease(c) PROVE Publication'
    <3>1. \A k \in Keys : idem[k].result # None => idem[k].result.attempt \in Calls
      BY ResultType
    <3>2. \A d \in Calls : Evidence(d)'
      BY <2>21
         DEF RevokeLease, Ownership, Publication, Evidence, Closed, Dispatched, Revoking,
             BeforeAttempt, Phase, TypeOK
    <3>3. \A k \in Keys : idem[k].result # None => idem'[k] = idem[k] /\ Dispatched(idem[k].result.attempt)'
      BY <2>21, <3>1 DEF RevokeLease, Publication, Dispatched, TypeOK
    <3>4. PublishedResultIsFinal'
      BY <2>21, <3>1, <3>3
         DEF RevokeLease, Publication, PublishedResultIsFinal, Settled, Ownership, Evidence,
             Closed, Dispatched, Revoking, BeforeAttempt, Phase, TypeOK
    <3> QED
      BY <2>21, <3>2, <3>3, <3>4 DEF RevokeLease, Publication
  <2>22. ASSUME NEW c \in Calls, RecordRevocation(c) PROVE Publication'
    BY <2>22
       DEF RecordRevocation, AfterRevoke, AfterFailure, Publication, Evidence,
           PublishedResultIsFinal, Settled, Closed, Dispatched, Revoking, BeforeAttempt,
           Ownership, Phase, TypeOK
  <2>23. ASSUME NEW c \in Calls, RecordRevocationFailure(c) PROVE Publication'
    BY <2>23
       DEF RecordRevocationFailure, AfterFailure, Publication, Evidence, PublishedResultIsFinal,
           Settled, Closed, Dispatched, Revoking, BeforeAttempt, Ownership, Phase, TypeOK
  <2>24. ASSUME NEW c \in Calls, FinishAttempt(c) PROVE Publication'
    <3>1. \A k \in Keys : idem[k].result # None => idem[k].result.attempt \in Calls
      BY ResultType
    <3>2. \A d \in Calls : Evidence(d)'
      BY <2>24
         DEF FinishAttempt, Ownership, Publication, Evidence, Closed, Dispatched, Revoking,
             BeforeAttempt, Phase, TypeOK
    <3>3. \A k \in Keys : idem[k].result # None => idem'[k] = idem[k] /\ Dispatched(idem[k].result.attempt)'
      BY <2>24, <3>1 DEF FinishAttempt, Publication, Dispatched, TypeOK
    <3>4. PublishedResultIsFinal'
      BY <2>24, <3>1, <3>3
         DEF FinishAttempt, Publication, PublishedResultIsFinal, Settled, Ownership, Evidence,
             Closed, Dispatched, Revoking, BeforeAttempt, Phase, TypeOK
    <3> QED
      BY <2>24, <3>2, <3>3, <3>4 DEF FinishAttempt, Publication
  <2>25. ASSUME NEW c \in Calls, CompleteClaim(c) PROVE Publication'
    <3>1. /\ \A d \in Calls : key(d) \in Keys
          /\ \A k \in Keys : idem[k].result # None => idem[k].result.attempt \in Calls
      BY KeyType, ResultType
    <3>2. /\ Dispatched(c)
          /\ idem[key(c)].digest = digest(act[c])
          /\ result[c] \in Result /\ result[c].attempt = c
          /\ result[c].succeeded => target[c] = "applied"
          /\ UseAttempts => attempt[c] = Closed(result[c])
          /\ UseLeases => lease[c] = "revoked"
      BY <2>25 DEF CompleteClaim, Ownership, Phase, Owning, Publication, Evidence
    <3>3. CASE idem[key(c)].result \in {None, result[c]}
      <4>1. /\ idem'[key(c)] = [digest |-> digest(act[c]), result |-> result[c]]
            /\ \A k \in Keys \ {key(c)} : idem'[k] = idem[k]
        BY <2>25, <3>1, <3>2, <3>3 DEF CompleteClaim, TypeOK, IdempotencyRow
      <4>2. pc' = [pc EXCEPT ![c] = "completed"]
        BY <2>25, <3>3 DEF CompleteClaim
      <4>3. result[c] # None
        BY <3>2, BrokerAssumption
      <4>4. \A d \in Calls : Evidence(d)'
        BY <2>25, <3>1, <3>2, <3>3, <4>1, <4>2, <4>3
           DEF CompleteClaim, Publication, Evidence, Closed, Dispatched, Revoking, BeforeAttempt,
               TypeOK
      <4>5. PublishedResultIsFinal'
        BY <2>25, <3>1, <3>2, <4>1
           DEF CompleteClaim, Publication, PublishedResultIsFinal, Settled, Closed
      <4> QED
        BY <2>25, <3>1, <3>2, <4>1, <4>4, <4>5 DEF CompleteClaim, Publication, Dispatched
    <3>4. CASE idem[key(c)].result \notin {None, result[c]}
      BY <2>25, <3>1, <3>4
         DEF CompleteClaim, Publication, PublishedResultIsFinal, Settled, Evidence, Closed,
             Dispatched, Revoking, BeforeAttempt, TypeOK
    <3> QED
      BY <3>3, <3>4
  <2>26. ASSUME NEW c \in Calls, RecordCompletion(c) PROVE Publication'
    BY <2>26
       DEF RecordCompletion, Publication, Evidence, PublishedResultIsFinal, Settled, Closed,
           Dispatched, Revoking, BeforeAttempt, Ownership, Phase, TypeOK
  <2>27. ASSUME NEW c \in Calls, Observe(c) PROVE Publication'
    BY <2>27
       DEF Observe, Publication, Evidence, PublishedResultIsFinal, Settled, Closed, Dispatched,
           Revoking, BeforeAttempt, Ownership, Phase, TypeOK
  <2>28. ASSUME NEW c \in Calls, Verify(c) PROVE Publication'
    BY <2>28
       DEF Verify, Publication, Evidence, PublishedResultIsFinal, Settled, Closed, Dispatched,
           Revoking, BeforeAttempt, Ownership, Phase, TypeOK
  <2>29. ASSUME NEW c \in Calls, Refuse(c) PROVE Publication'
    BY <2>29
       DEF Refuse, Publication, Evidence, PublishedResultIsFinal, Settled, Closed, Dispatched,
           Revoking, BeforeAttempt, Ownership, Phase, TypeOK
  <2>30. ASSUME NEW c \in Calls, Abort(c) PROVE Publication'
    BY <2>30
       DEF Abort, Publication, Evidence, PublishedResultIsFinal, Settled, Closed, Dispatched,
           Revoking, BeforeAttempt, Ownership, Phase, TypeOK
  <2>30b. ASSUME NEW c \in Calls, RecordUncertainFails(c) PROVE Publication'
    <3>1. \A k \in Keys : idem[k].result # None => idem[k].result.attempt \in Calls
      BY ResultType
    <3>2. \A d \in Calls : Evidence(d)'
      BY <2>30b
         DEF RecordUncertainFails, Ownership, Publication, Evidence, Closed, Dispatched, Revoking,
             BeforeAttempt, Phase, TypeOK
    <3>3. \A k \in Keys : idem[k].result # None => idem'[k] = idem[k] /\ Dispatched(idem[k].result.attempt)'
      BY <2>30b, <3>1 DEF RecordUncertainFails, Publication, Dispatched, TypeOK
    <3>4. PublishedResultIsFinal'
      BY <2>30b, <3>1, <3>3
         DEF RecordUncertainFails, Publication, PublishedResultIsFinal, Settled, Ownership, Evidence,
             Closed, Dispatched, Revoking, BeforeAttempt, Phase, TypeOK
    <3> QED
      BY <2>30b, <3>2, <3>3, <3>4 DEF RecordUncertainFails, Publication
  <2>31. ASSUME NEW c \in Calls, TargetApplies(c) PROVE Publication'
    BY <2>31
       DEF TargetApplies, Publication, Evidence, PublishedResultIsFinal, Settled, Closed,
           Dispatched, Revoking, BeforeAttempt, Ownership, Phase, TypeOK
  <2>32. ASSUME NEW ap \in Decisions, RecordApproval(ap) PROVE Publication'
    BY <2>32
       DEF RecordApproval, Publication, Evidence, PublishedResultIsFinal, Settled, Closed,
           Dispatched, Revoking, BeforeAttempt, Ownership, Phase, TypeOK
  <2>33. ASSUME NEW ap \in Decisions, ApprovalLapses(ap) PROVE Publication'
    BY <2>33
       DEF ApprovalLapses, Publication, Evidence, PublishedResultIsFinal, Settled, Closed,
           Dispatched, Revoking, BeforeAttempt, Ownership, Phase, TypeOK
  <2>34. ASSUME NEW b \in Expirable, ActionExpires(b) PROVE Publication'
    BY <2>34
       DEF ActionExpires, Publication, Evidence, PublishedResultIsFinal, Settled, Closed,
           Dispatched, Revoking, BeforeAttempt, Ownership, Phase, TypeOK
  <2>35. ASSUME NEW r \in Revisions, DeployPolicy(r) PROVE Publication'
    BY <2>35
       DEF DeployPolicy, Publication, Evidence, PublishedResultIsFinal, Settled, Closed,
           Dispatched, Revoking, BeforeAttempt, Ownership, Phase, TypeOK
  <2>36. CASE UNCHANGED vars
    BY <2>36
       DEF vars, Publication, Evidence, PublishedResultIsFinal, Settled, Closed, Dispatched,
           Revoking, BeforeAttempt, Ownership, Phase, TypeOK
  <2> QED
    BY <2>1, <2>2, <2>3, <2>4, <2>5, <2>6, <2>7, <2>8, <2>9, <2>10, <2>11,
       <2>12, <2>13, <2>14, <2>15, <2>16, <2>17, <2>18, <2>19, <2>20, <2>21, <2>22,
       <2>23, <2>24, <2>25, <2>26, <2>27, <2>28, <2>29, <2>30, <2>30b, <2>31, <2>32, <2>33,
       <2>34, <2>35, <2>36 DEF Next, Environment, Step
<1> QED
  BY <1>1, <1>2

-----------------------------------------------------------------------------
(* The authority and the trail of a dispatch *)

\* Layer three is inductive: authority is established before the executor is
\* chosen and is never taken from another call, revision or digest.
LEMMA AuthorityInductive ==
    /\ TypeOK /\ Init => Authority
    /\ TypeOK /\ Ownership /\ Publication /\ Authority /\ [Next]_vars => Authority'
<1>1. TypeOK /\ Init => Authority
  BY DEF Init, Authority, Trail, DispatchIsJournaled, DispatchWasAuthorized, Dispatched, Decided
<1>2. TypeOK /\ Ownership /\ Publication /\ Authority /\ [Next]_vars => Authority'
  <2> SUFFICES ASSUME TypeOK, Ownership, Publication, Authority, [Next]_vars
          PROVE  Authority'
    OBVIOUS
  <2> USE DEF Goto, Record, Emit, Jump, Journal, Transitions, callVars, envVars, Ended, key, digest
  <2>1. ASSUME NEW c \in Calls, Propose(c) PROVE Authority'
    BY <2>1
       DEF Propose, Authority, Trail, Authorized, DispatchIsJournaled, DispatchWasAuthorized,
           Decided, Dispatched, Ownership, Phase, Owning, TypeOK
  <2>2. ASSUME NEW c \in Calls, EvaluatePolicy(c) PROVE Authority'
    <3>1. /\ key(c) \in Keys
          /\ act[c].body \in Bodies
          /\ digest(act[c]) \in Bodies
      BY KeyType
    <3>2. PolicyOf[revision][act[c].body] \in PolicyOutcome
      BY <3>1, BrokerAssumption DEF TypeOK
    <3>3. LET o == PolicyOf[revision][act[c].body] IN
          /\ AfterPolicy(o) \in {"raised", "approval", "executor"}
          /\ AfterPolicy(o) = "approval" => o = "require_approval"
          /\ AfterPolicy(o) = "executor" => o = "allow"
      BY <3>2 DEF AfterPolicy, PolicyOutcome
    <3>4. /\ pc' = [pc EXCEPT ![c] = AfterPolicy(PolicyOf[revision][act[c].body])]
          /\ decision' = [decision EXCEPT ![c] = revision]
          /\ events' = [events EXCEPT ![c] = @ \cup {"policy.evaluated"}]
          /\ ~Dispatched(c)
      BY <2>2 DEF EvaluatePolicy, Ownership, Phase, BeforeAttempt
    <3>5. \A d \in Calls : Trail(d)'
      BY <2>2, <3>3, <3>4
         DEF EvaluatePolicy, Authority, Trail, Authorized, Decided, Dispatched, TypeOK
    <3> QED
      BY <2>2, <3>4, <3>5
         DEF EvaluatePolicy, Authority, DispatchIsJournaled, DispatchWasAuthorized, Dispatched,
             TypeOK
  <2>3. ASSUME NEW c \in Calls, RequestApproval(c) PROVE Authority'
    BY <2>3
       DEF RequestApproval, Authority, Trail, Authorized, DispatchIsJournaled,
           DispatchWasAuthorized, Decided, Dispatched, Ownership, Phase, Owning, TypeOK
  <2>4. ASSUME NEW c \in Calls, UseApproval(c) PROVE Authority'
    <3>1. PICK ap \in approvals : authorizes(ap, c)
      BY <2>4 DEF UseApproval, find_valid_approval
    <3>2. Authorized(c)
      BY <2>4, <3>1 DEF UseApproval, authorizes, Authorized, Authority, Trail
    <3> QED
      BY <2>4, <3>2
         DEF UseApproval, Authority, Trail, Authorized, DispatchIsJournaled,
             DispatchWasAuthorized, Decided, Dispatched, Ownership, Phase, Owning, TypeOK
  <2>5. ASSUME NEW c \in Calls, RefuseExecutor(c) PROVE Authority'
    BY <2>5
       DEF RefuseExecutor, Authority, Trail, Authorized, DispatchIsJournaled,
           DispatchWasAuthorized, Decided, Dispatched, Ownership, Phase, Owning, TypeOK
  <2>6. ASSUME NEW c \in Calls, IssueLease(c) PROVE Authority'
    BY <2>6
       DEF IssueLease, Authority, Trail, Authorized, DispatchIsJournaled, DispatchWasAuthorized,
           Decided, Dispatched, Ownership, Phase, Owning, TypeOK
  <2>7. ASSUME NEW c \in Calls, RecordLease(c) PROVE Authority'
    BY <2>7
       DEF RecordLease, Authority, Trail, Authorized, DispatchIsJournaled, DispatchWasAuthorized,
           Decided, Dispatched, Ownership, Phase, Owning, TypeOK
  <2>8. ASSUME NEW c \in Calls, Claim(c) PROVE Authority'
    <3>1. /\ key(c) \in Keys
          /\ act[c].body \in Bodies
          /\ digest(act[c]) \in Bodies
      BY KeyType
    <3>2. ASSUME NEW d \in Calls, Dispatched(d) PROVE key(d) # key(c)
      BY <2>8, <3>2, KeyType DEF Claim, Ownership, Owning
    <3>3. \A k \in Keys \ {key(c)} : idem'[k] = idem[k]
      BY <2>8, <3>1 DEF Claim, TypeOK
    <3>4. \A d \in Calls : Trail(d)'
      BY <2>8 DEF Claim, Authority, Trail, Authorized, Decided, Dispatched, TypeOK
    <3> QED
      BY <2>8, <3>2, <3>3, <3>4, KeyType
         DEF Claim, Authority, DispatchIsJournaled, DispatchWasAuthorized, Dispatched
  <2>9. ASSUME NEW c \in Calls, ClaimConflict(c) PROVE Authority'
    BY <2>9
       DEF ClaimConflict, Authority, Trail, Authorized, DispatchIsJournaled,
           DispatchWasAuthorized, Decided, Dispatched, Ownership, Phase, Owning, TypeOK
  <2>10. ASSUME NEW c \in Calls, ClaimDuplicate(c) PROVE Authority'
    BY <2>10
       DEF ClaimDuplicate, Authority, Trail, Authorized, DispatchIsJournaled,
           DispatchWasAuthorized, Decided, Dispatched, Ownership, Phase, Owning, TypeOK
  <2>11. ASSUME NEW c \in Calls, ReadResult(c) PROVE Authority'
    BY <2>11
       DEF ReadResult, Authority, Trail, Authorized, DispatchIsJournaled, DispatchWasAuthorized,
           Decided, Dispatched, Ownership, Phase, Owning, TypeOK
  <2>12. ASSUME NEW c \in Calls, CreateAttempt(c) PROVE Authority'
    BY <2>12
       DEF CreateAttempt, Authority, Trail, Authorized, DispatchIsJournaled,
           DispatchWasAuthorized, Decided, Dispatched, Ownership, Phase, Owning, TypeOK
  <2>13. ASSUME NEW c \in Calls, StartAttempt(c) PROVE Authority'
    BY <2>13
       DEF StartAttempt, Authority, Trail, Authorized, DispatchIsJournaled, DispatchWasAuthorized,
           Decided, Dispatched, Ownership, Phase, Owning, TypeOK
  <2>14. ASSUME NEW c \in Calls, RecordStart(c) PROVE Authority'
    BY <2>14
       DEF RecordStart, Authority, Trail, Authorized, DispatchIsJournaled, DispatchWasAuthorized,
           Decided, Dispatched, Ownership, Phase, Owning, TypeOK
  <2>15. ASSUME NEW c \in Calls, Dispatch(c) PROVE Authority'
    <3>1. UseAttempts => attempt[c] = "started"
      BY <2>15 DEF Dispatch, Publication, Evidence
    <3>2. idem[key(c)].digest = digest(act[c])
      BY <2>15 DEF Dispatch, Ownership, Owning
    <3> QED
      BY <2>15, <3>1, <3>2
         DEF Dispatch, Authority, Trail, Authorized, DispatchIsJournaled, DispatchWasAuthorized,
             Decided, Dispatched, Ownership, Phase, Owning, TypeOK
  <2>16. ASSUME NEW c \in Calls, ExecutorReturns(c) PROVE Authority'
    BY <2>16
       DEF ExecutorReturns, Authority, Trail, Authorized, DispatchIsJournaled,
           DispatchWasAuthorized, Decided, Dispatched, Ownership, Phase, Owning, TypeOK
  <2>17. ASSUME NEW c \in Calls, ExecutorReturnsUnbound(c) PROVE Authority'
    BY <2>17
       DEF ExecutorReturnsUnbound, Authority, Trail, Authorized, DispatchIsJournaled,
           DispatchWasAuthorized, Decided, Dispatched, Ownership, Phase, Owning, TypeOK
  <2>18. ASSUME NEW c \in Calls, ExecutorRaises(c) PROVE Authority'
    BY <2>18
       DEF ExecutorRaises, Authority, Trail, Authorized, DispatchIsJournaled,
           DispatchWasAuthorized, Decided, Dispatched, Ownership, Phase, Owning, TypeOK
  <2>19. ASSUME NEW c \in Calls, MarkUncertain(c) PROVE Authority'
    BY <2>19
       DEF MarkUncertain, Authority, Trail, Authorized, DispatchIsJournaled,
           DispatchWasAuthorized, Decided, Dispatched, Ownership, Phase, Owning, TypeOK
  <2>20. ASSUME NEW c \in Calls, RecordUncertain(c) PROVE Authority'
    BY <2>20
       DEF RecordUncertain, Authority, Trail, Authorized, DispatchIsJournaled,
           DispatchWasAuthorized, Decided, Dispatched, Ownership, Phase, Owning, TypeOK
  <2>21. ASSUME NEW c \in Calls, RevokeLease(c) PROVE Authority'
    BY <2>21
       DEF RevokeLease, Authority, Trail, Authorized, DispatchIsJournaled, DispatchWasAuthorized,
           Decided, Dispatched, Ownership, Phase, Owning, TypeOK
  <2>22. ASSUME NEW c \in Calls, RecordRevocation(c) PROVE Authority'
    BY <2>22
       DEF RecordRevocation, AfterRevoke, AfterFailure, Authority, Trail, Authorized,
           DispatchIsJournaled, DispatchWasAuthorized, Decided, Dispatched, Ownership, Phase,
           Owning, TypeOK
  <2>23. ASSUME NEW c \in Calls, RecordRevocationFailure(c) PROVE Authority'
    BY <2>23
       DEF RecordRevocationFailure, AfterFailure, Authority, Trail, Authorized,
           DispatchIsJournaled, DispatchWasAuthorized, Decided, Dispatched, Ownership, Phase,
           Owning, TypeOK
  <2>24. ASSUME NEW c \in Calls, FinishAttempt(c) PROVE Authority'
    BY <2>24
       DEF FinishAttempt, Authority, Trail, Authorized, DispatchIsJournaled,
           DispatchWasAuthorized, Decided, Dispatched, Ownership, Phase, Owning, TypeOK
  <2>25. ASSUME NEW c \in Calls, CompleteClaim(c) PROVE Authority'
    <3>1. /\ key(c) \in Keys
          /\ act[c].body \in Bodies
          /\ digest(act[c]) \in Bodies
      BY KeyType
    <3>2. \A k \in Keys : idem'[k].digest = idem[k].digest
      BY <2>25, <3>1 DEF CompleteClaim, TypeOK, IdempotencyRow
    <3>3. \A d \in Calls : key(d) \in Keys
      BY KeyType
    <3> QED
      BY <2>25, <3>2, <3>3
         DEF CompleteClaim, Authority, Trail, Authorized, DispatchIsJournaled,
             DispatchWasAuthorized, Decided, Dispatched, Ownership, Phase, Owning, TypeOK
  <2>26. ASSUME NEW c \in Calls, RecordCompletion(c) PROVE Authority'
    BY <2>26
       DEF RecordCompletion, Authority, Trail, Authorized, DispatchIsJournaled,
           DispatchWasAuthorized, Decided, Dispatched, Ownership, Phase, Owning, TypeOK
  <2>27. ASSUME NEW c \in Calls, Observe(c) PROVE Authority'
    BY <2>27
       DEF Observe, Authority, Trail, Authorized, DispatchIsJournaled, DispatchWasAuthorized,
           Decided, Dispatched, Ownership, Phase, Owning, TypeOK
  <2>28. ASSUME NEW c \in Calls, Verify(c) PROVE Authority'
    BY <2>28
       DEF Verify, Authority, Trail, Authorized, DispatchIsJournaled, DispatchWasAuthorized,
           Decided, Dispatched, Ownership, Phase, Owning, TypeOK
  <2>29. ASSUME NEW c \in Calls, Refuse(c) PROVE Authority'
    BY <2>29
       DEF Refuse, Authority, Trail, Authorized, DispatchIsJournaled, DispatchWasAuthorized,
           Decided, Dispatched, Ownership, Phase, Owning, TypeOK
  <2>30. ASSUME NEW c \in Calls, Abort(c) PROVE Authority'
    BY <2>30
       DEF Abort, Authority, Trail, Authorized, DispatchIsJournaled, DispatchWasAuthorized,
           Decided, Dispatched, Ownership, Phase, Owning, TypeOK
  <2>30b. ASSUME NEW c \in Calls, RecordUncertainFails(c) PROVE Authority'
    BY <2>30b
       DEF RecordUncertainFails, Authority, Trail, Authorized, DispatchIsJournaled,
           DispatchWasAuthorized, Decided, Dispatched, Ownership, Phase, Owning, TypeOK
  <2>31. ASSUME NEW c \in Calls, TargetApplies(c) PROVE Authority'
    BY <2>31
       DEF TargetApplies, Authority, Trail, Authorized, DispatchIsJournaled,
           DispatchWasAuthorized, Decided, Dispatched, Ownership, Phase, Owning, TypeOK
  <2>32. ASSUME NEW ap \in Decisions, RecordApproval(ap) PROVE Authority'
    BY <2>32
       DEF RecordApproval, Authority, Trail, Authorized, DispatchIsJournaled,
           DispatchWasAuthorized, Decided, Dispatched, Ownership, Phase, Owning, TypeOK
  <2>33. ASSUME NEW ap \in Decisions, ApprovalLapses(ap) PROVE Authority'
    BY <2>33
       DEF ApprovalLapses, Authority, Trail, Authorized, DispatchIsJournaled,
           DispatchWasAuthorized, Decided, Dispatched, Ownership, Phase, Owning, TypeOK
  <2>34. ASSUME NEW b \in Expirable, ActionExpires(b) PROVE Authority'
    BY <2>34
       DEF ActionExpires, Authority, Trail, Authorized, DispatchIsJournaled,
           DispatchWasAuthorized, Decided, Dispatched, Ownership, Phase, Owning, TypeOK
  <2>35. ASSUME NEW r \in Revisions, DeployPolicy(r) PROVE Authority'
    BY <2>35
       DEF DeployPolicy, Authority, Trail, Authorized, DispatchIsJournaled, DispatchWasAuthorized,
           Decided, Dispatched, Ownership, Phase, Owning, TypeOK
  <2>36. CASE UNCHANGED vars
    BY <2>36
       DEF vars, Authority, Trail, Authorized, DispatchIsJournaled, DispatchWasAuthorized,
           Decided, Dispatched, Ownership, Phase, Owning, TypeOK
  <2> QED
    BY <2>1, <2>2, <2>3, <2>4, <2>5, <2>6, <2>7, <2>8, <2>9, <2>10, <2>11,
       <2>12, <2>13, <2>14, <2>15, <2>16, <2>17, <2>18, <2>19, <2>20, <2>21, <2>22,
       <2>23, <2>24, <2>25, <2>26, <2>27, <2>28, <2>29, <2>30, <2>30b, <2>31, <2>32, <2>33,
       <2>34, <2>35, <2>36 DEF Next, Environment, Step
<1> QED
  BY <1>1, <1>2

-----------------------------------------------------------------------------
(* The theorems *)

\* The invariant behind all of them: every reachable state satisfies IInv.
THEOREM Invariance == Spec => []IInv
<1>1. TypeOK /\ Init => IInv
  BY OwnershipInductive, PublicationInductive, AuthorityInductive DEF IInv
<1>2. IInv /\ TypeOK' /\ [Next]_vars => IInv'
  BY OwnershipInductive, PublicationInductive, AuthorityInductive DEF IInv
<1> QED
  BY <1>1, <1>2, Typing, PTL DEF Spec

\* Whatever races, retries, crashes and timeouts happen, one idempotency key
\* sends at most one request to the target system (broker.py 187-266).
THEOREM EffectAtMostOnce == Spec => []AtMostOneDispatch
<1>1. IInv => AtMostOneDispatch
  BY DEF IInv, Ownership, Owning, AtMostOneDispatch
<1> QED
  BY <1>1, Invariance, PTL

\* Nothing reaches the target that is not authorized under the revision it was
\* decided by (broker.py 96-148).
THEOREM DispatchIsCovered == Spec => []DispatchWasAuthorized
<1>1. IInv => DispatchWasAuthorized
  BY DEF IInv, Authority
<1> QED
  BY <1>1, Invariance, PTL

\* Nothing reaches the target before its attempt and its start are on record
\* (broker.py 220-255).
THEOREM JournalComesFirst == Spec => []DispatchIsJournaled
<1>1. IInv => DispatchIsJournaled
  BY DEF IInv, Authority
<1> QED
  BY <1>1, Invariance, PTL

\* A result that can be reused is final, and rests on a closed attempt and a
\* revoked lease (broker.py 305-367).
THEOREM PublishedIsFinal == Spec => []PublishedResultIsFinal
<1>1. IInv => PublishedResultIsFinal
  BY DEF IInv, Publication
<1> QED
  BY <1>1, Invariance, PTL

\* All calls that return for one key return the same result for the same
\* action (broker.py 192-218).
THEOREM ReturnsAgree == Spec => []ReturnedCallsAgree
<1>1. IInv => ReturnedCallsAgree
  <2> SUFFICES ASSUME IInv, NEW c \in Calls, NEW d \in Calls,
                      pc[c] = "returned", pc[d] = "returned", key(c) = key(d)
               PROVE  /\ digest(act[c]) = digest(act[d])
                      /\ result[c] = result[d]
                      /\ result[c] # None
    BY DEF ReturnedCallsAgree
  <2>1. /\ result[c] # None /\ result[c] = idem[key(c)].result
        /\ result[d] # None /\ result[d] = idem[key(d)].result
    BY DEF IInv, Publication, Evidence
  <2>2. digest(act[c]) = idem[key(c)].digest /\ digest(act[d]) = idem[key(d)].digest
    BY DEF IInv, Ownership, Reusing
  <2> QED
    BY <2>1, <2>2
<1> QED
  BY <1>1, Invariance, PTL

\* An uncertain attempt keeps its key for ever, without a result: it is neither
\* retried nor answered for (broker.py 55-58).
THEOREM UncertainStaysOwned == Spec => []UncertainKeepsOwnership
<1>1. IInv => UncertainKeepsOwnership
  <2> SUFFICES ASSUME IInv, NEW c \in Calls, attempt[c] = "uncertain"
               PROVE  idem[key(c)] = [digest |-> digest(act[c]), result |-> None]
    BY DEF UncertainKeepsOwnership
  <2>1. key(c) \in Keys
    BY KeyType DEF IInv
  <2>2. Dispatched(c) /\ UseAttempts
    BY BrokerAssumption DEF IInv, Publication, Evidence
  <2>3. idem[key(c)].digest = digest(act[c])
    BY <2>2 DEF IInv, Ownership, Owning
  <2>4. idem[key(c)].result = None
    <3> SUFFICES ASSUME idem[key(c)].result # None PROVE FALSE
      OBVIOUS
    <3> DEFINE d == idem[key(c)].result.attempt
    <3>1. d \in Calls
      BY <2>1, ResultType DEF IInv
    <3>2. Dispatched(d) /\ key(d) = key(c) /\ attempt[d] \in {"succeeded", "failed"}
      BY <2>1, <2>2 DEF IInv, Publication, PublishedResultIsFinal, Settled
    <3>3. d = c
      BY <2>2, <3>1, <3>2 DEF IInv, Ownership, Owning
    <3> QED
      BY <3>2, <3>3
  <2> QED
    BY <2>1, <2>3, <2>4 DEF IInv, TypeOK, IdempotencyRow
<1> QED
  BY <1>1, Invariance, PTL

\* the part of UncertaintyIsRecorded that is about the ledger
RaiseIsRecorded ==
    \A c \in Calls : pc[c] = "raised" /\ attempt[c] = "uncertain" =>
        "execution.uncertain" \in events[c]

\* No call raises from execute()'s own handlers over an uncertain attempt
\* without its event, whatever fails while its lease is revoked.
LEMMA RaiseIsRecordedAlways == Spec => []RaiseIsRecorded
<1>1. Init => RaiseIsRecorded
  BY DEF Init, RaiseIsRecorded
<1>2. IInv /\ RaiseIsRecorded /\ [Next]_vars => RaiseIsRecorded'
  <2> SUFFICES ASSUME IInv, RaiseIsRecorded, [Next]_vars
               PROVE  RaiseIsRecorded'
    OBVIOUS
  <2>0. TypeOK /\ (\A c \in Calls : Phase(c) /\ Evidence(c))
    BY DEF IInv, Ownership, Publication
  <2> USE DEF Goto, Emit, Jump, Record, Journal, Transitions, callVars, envVars, Ended
  <2>1. ASSUME NEW c \in Calls, Propose(c) PROVE RaiseIsRecorded'
    BY <2>0, <2>1 DEF Propose, RaiseIsRecorded, TypeOK, Phase, Evidence, BeforeAttempt, Closed
  <2>2. ASSUME NEW c \in Calls, EvaluatePolicy(c) PROVE RaiseIsRecorded'
    BY <2>0, <2>2
       DEF EvaluatePolicy, RaiseIsRecorded, TypeOK, Phase, Evidence, BeforeAttempt, Closed,
           AfterPolicy
  <2>3. ASSUME NEW c \in Calls, RequestApproval(c) PROVE RaiseIsRecorded'
    BY <2>0, <2>3
       DEF RequestApproval, RaiseIsRecorded, TypeOK, Phase, Evidence, BeforeAttempt, Closed
  <2>4. ASSUME NEW c \in Calls, UseApproval(c) PROVE RaiseIsRecorded'
    BY <2>0, <2>4
       DEF UseApproval, RaiseIsRecorded, TypeOK, Phase, Evidence, BeforeAttempt, Closed
  <2>5. ASSUME NEW c \in Calls, RefuseExecutor(c) PROVE RaiseIsRecorded'
    BY <2>0, <2>5
       DEF RefuseExecutor, RaiseIsRecorded, TypeOK, Phase, Evidence, BeforeAttempt, Closed
  <2>6. ASSUME NEW c \in Calls, IssueLease(c) PROVE RaiseIsRecorded'
    BY <2>0, <2>6
       DEF IssueLease, RaiseIsRecorded, TypeOK, Phase, Evidence, BeforeAttempt, Closed
  <2>7. ASSUME NEW c \in Calls, RecordLease(c) PROVE RaiseIsRecorded'
    BY <2>0, <2>7
       DEF RecordLease, RaiseIsRecorded, TypeOK, Phase, Evidence, BeforeAttempt, Closed
  <2>8. ASSUME NEW c \in Calls, Claim(c) PROVE RaiseIsRecorded'
    BY <2>0, <2>8 DEF Claim, RaiseIsRecorded, TypeOK, Phase, Evidence, BeforeAttempt, Closed
  <2>9. ASSUME NEW c \in Calls, ClaimConflict(c) PROVE RaiseIsRecorded'
    BY <2>0, <2>9
       DEF ClaimConflict, RaiseIsRecorded, TypeOK, Phase, Evidence, BeforeAttempt, Closed
  <2>10. ASSUME NEW c \in Calls, ClaimDuplicate(c) PROVE RaiseIsRecorded'
    BY <2>0, <2>10
       DEF ClaimDuplicate, RaiseIsRecorded, TypeOK, Phase, Evidence, BeforeAttempt, Closed
  <2>11. ASSUME NEW c \in Calls, ReadResult(c) PROVE RaiseIsRecorded'
    BY <2>0, <2>11
       DEF ReadResult, RaiseIsRecorded, TypeOK, Phase, Evidence, BeforeAttempt, Closed
  <2>12. ASSUME NEW c \in Calls, CreateAttempt(c) PROVE RaiseIsRecorded'
    BY <2>0, <2>12
       DEF CreateAttempt, RaiseIsRecorded, TypeOK, Phase, Evidence, BeforeAttempt, Closed
  <2>13. ASSUME NEW c \in Calls, StartAttempt(c) PROVE RaiseIsRecorded'
    BY <2>0, <2>13
       DEF StartAttempt, RaiseIsRecorded, TypeOK, Phase, Evidence, BeforeAttempt, Closed
  <2>14. ASSUME NEW c \in Calls, RecordStart(c) PROVE RaiseIsRecorded'
    BY <2>0, <2>14
       DEF RecordStart, RaiseIsRecorded, TypeOK, Phase, Evidence, BeforeAttempt, Closed
  <2>15. ASSUME NEW c \in Calls, Dispatch(c) PROVE RaiseIsRecorded'
    BY <2>0, <2>15
       DEF Dispatch, RaiseIsRecorded, TypeOK, Phase, Evidence, BeforeAttempt, Closed
  <2>16. ASSUME NEW c \in Calls, ExecutorReturns(c) PROVE RaiseIsRecorded'
    BY <2>0, <2>16
       DEF ExecutorReturns, RaiseIsRecorded, TypeOK, Phase, Evidence, BeforeAttempt, Closed
  <2>17. ASSUME NEW c \in Calls, ExecutorReturnsUnbound(c) PROVE RaiseIsRecorded'
    BY <2>0, <2>17
       DEF ExecutorReturnsUnbound, RaiseIsRecorded, TypeOK, Phase, Evidence, BeforeAttempt,
           Closed
  <2>18. ASSUME NEW c \in Calls, ExecutorRaises(c) PROVE RaiseIsRecorded'
    BY <2>0, <2>18
       DEF ExecutorRaises, RaiseIsRecorded, TypeOK, Phase, Evidence, BeforeAttempt, Closed
  <2>19. ASSUME NEW c \in Calls, MarkUncertain(c) PROVE RaiseIsRecorded'
    BY <2>0, <2>19
       DEF MarkUncertain, RaiseIsRecorded, TypeOK, Phase, Evidence, BeforeAttempt, Closed
  <2>20. ASSUME NEW c \in Calls, RecordUncertain(c) PROVE RaiseIsRecorded'
    BY <2>0, <2>20
       DEF RecordUncertain, RaiseIsRecorded, TypeOK, Phase, Evidence, BeforeAttempt, Closed
  <2>21. ASSUME NEW c \in Calls, RevokeLease(c) PROVE RaiseIsRecorded'
    BY <2>0, <2>21
       DEF RevokeLease, RaiseIsRecorded, TypeOK, Phase, Evidence, BeforeAttempt, Closed
  <2>22. ASSUME NEW c \in Calls, RecordRevocation(c) PROVE RaiseIsRecorded'
    BY <2>0, <2>22
       DEF RecordRevocation, RaiseIsRecorded, TypeOK, Phase, Evidence, BeforeAttempt,
           Closed, AfterRevoke, AfterFailure, Revoking
  <2>23. ASSUME NEW c \in Calls, RecordRevocationFailure(c) PROVE RaiseIsRecorded'
    BY <2>0, <2>23
       DEF RecordRevocationFailure, RaiseIsRecorded, TypeOK, Phase, Evidence, BeforeAttempt,
           Closed, AfterRevoke, AfterFailure, Revoking
  <2>24. ASSUME NEW c \in Calls, FinishAttempt(c) PROVE RaiseIsRecorded'
    BY <2>0, <2>24
       DEF FinishAttempt, RaiseIsRecorded, TypeOK, Phase, Evidence, BeforeAttempt, Closed
  <2>25. ASSUME NEW c \in Calls, CompleteClaim(c) PROVE RaiseIsRecorded'
    BY <2>0, <2>25
       DEF CompleteClaim, RaiseIsRecorded, TypeOK, Phase, Evidence, BeforeAttempt, Closed
  <2>26. ASSUME NEW c \in Calls, RecordCompletion(c) PROVE RaiseIsRecorded'
    BY <2>0, <2>26
       DEF RecordCompletion, RaiseIsRecorded, TypeOK, Phase, Evidence, BeforeAttempt,
           Closed
  <2>27. ASSUME NEW c \in Calls, Observe(c) PROVE RaiseIsRecorded'
    BY <2>0, <2>27
       DEF Observe, RaiseIsRecorded, TypeOK, Phase, Evidence, BeforeAttempt, Closed
  <2>28. ASSUME NEW c \in Calls, Verify(c) PROVE RaiseIsRecorded'
    BY <2>0, <2>28 DEF Verify, RaiseIsRecorded, TypeOK, Phase, Evidence, BeforeAttempt, Closed
  <2>29. ASSUME NEW c \in Calls, Refuse(c) PROVE RaiseIsRecorded'
    BY <2>0, <2>29 DEF Refuse, RaiseIsRecorded, TypeOK, Phase, Evidence, BeforeAttempt, Closed
  <2>30. ASSUME NEW c \in Calls, Abort(c) PROVE RaiseIsRecorded'
    BY <2>0, <2>30 DEF Abort, RaiseIsRecorded, TypeOK, Phase, Evidence, BeforeAttempt, Closed
  <2>30b. ASSUME NEW c \in Calls, RecordUncertainFails(c) PROVE RaiseIsRecorded'
    BY <2>0, <2>30b
       DEF RecordUncertainFails, RaiseIsRecorded, TypeOK, Phase, Evidence, BeforeAttempt,
           Closed
  <2>31. ASSUME NEW c \in Calls, TargetApplies(c) PROVE RaiseIsRecorded'
    BY <2>0, <2>31
       DEF TargetApplies, RaiseIsRecorded, TypeOK, Phase, Evidence, BeforeAttempt, Closed
  <2>32. CASE UNCHANGED <<callVars, events, attempt>>
    BY <2>32 DEF RaiseIsRecorded
  <2> QED
    BY <2>1, <2>2, <2>3, <2>4, <2>5, <2>6, <2>7, <2>8, <2>9, <2>10, <2>11, <2>12, <2>13, <2>14,
       <2>15, <2>16, <2>17, <2>18, <2>19, <2>20, <2>21, <2>22, <2>23, <2>24, <2>25, <2>26, <2>27,
       <2>28, <2>29, <2>30, <2>30b, <2>31, <2>32
       DEF Next, Step, Environment, vars, RecordApproval, ApprovalLapses, ActionExpires, DeployPolicy
<1> QED
  BY <1>1, <1>2, Invariance, PTL DEF Spec

-----------------------------------------------------------------------------
(* The abstract contract *)

\* Only a claim, a dispatch and a completion show: every other step, crashes
\* and late effects included, leaves each row and each dispatch as it was.
LEMMA QuietSteps ==
    ASSUME TypeOK, [Next]_vars,
           \A c \in Calls : ~Claim(c) /\ ~Dispatch(c) /\ ~CompleteClaim(c)
    PROVE  /\ idem' = idem
           /\ \A c \in Calls : Dispatched(c)' <=> Dispatched(c)
           /\ act' = act
<1> USE DEF Dispatched, Emit, Jump, callVars, envVars
<1>1. ASSUME NEW c \in Calls, Propose(c)
      PROVE  idem' = idem /\ act' = act /\ \A i \in Calls : Dispatched(i)' <=> Dispatched(i)
  BY <1>1 DEF Propose
<1>2. ASSUME NEW c \in Calls, EvaluatePolicy(c)
      PROVE  idem' = idem /\ act' = act /\ \A i \in Calls : Dispatched(i)' <=> Dispatched(i)
  BY <1>2 DEF EvaluatePolicy
<1>3. ASSUME NEW c \in Calls, RequestApproval(c)
      PROVE  idem' = idem /\ act' = act /\ \A i \in Calls : Dispatched(i)' <=> Dispatched(i)
  BY <1>3 DEF RequestApproval
<1>4. ASSUME NEW c \in Calls, UseApproval(c)
      PROVE  idem' = idem /\ act' = act /\ \A i \in Calls : Dispatched(i)' <=> Dispatched(i)
  BY <1>4 DEF UseApproval
<1>5. ASSUME NEW c \in Calls, RefuseExecutor(c)
      PROVE  idem' = idem /\ act' = act /\ \A i \in Calls : Dispatched(i)' <=> Dispatched(i)
  BY <1>5 DEF RefuseExecutor
<1>6. ASSUME NEW c \in Calls, IssueLease(c)
      PROVE  idem' = idem /\ act' = act /\ \A i \in Calls : Dispatched(i)' <=> Dispatched(i)
  BY <1>6 DEF IssueLease
<1>7. ASSUME NEW c \in Calls, RecordLease(c)
      PROVE  idem' = idem /\ act' = act /\ \A i \in Calls : Dispatched(i)' <=> Dispatched(i)
  BY <1>7 DEF RecordLease
<1>8. ASSUME NEW c \in Calls, ClaimConflict(c)
      PROVE  idem' = idem /\ act' = act /\ \A i \in Calls : Dispatched(i)' <=> Dispatched(i)
  BY <1>8 DEF ClaimConflict
<1>9. ASSUME NEW c \in Calls, ClaimDuplicate(c)
      PROVE  idem' = idem /\ act' = act /\ \A i \in Calls : Dispatched(i)' <=> Dispatched(i)
  BY <1>9 DEF ClaimDuplicate
<1>10. ASSUME NEW c \in Calls, ReadResult(c)
       PROVE  idem' = idem /\ act' = act /\ \A i \in Calls : Dispatched(i)' <=> Dispatched(i)
  BY <1>10 DEF ReadResult
<1>11. ASSUME NEW c \in Calls, CreateAttempt(c)
       PROVE  idem' = idem /\ act' = act /\ \A i \in Calls : Dispatched(i)' <=> Dispatched(i)
  BY <1>11 DEF CreateAttempt
<1>12. ASSUME NEW c \in Calls, StartAttempt(c)
       PROVE  idem' = idem /\ act' = act /\ \A i \in Calls : Dispatched(i)' <=> Dispatched(i)
  BY <1>12 DEF StartAttempt
<1>13. ASSUME NEW c \in Calls, RecordStart(c)
       PROVE  idem' = idem /\ act' = act /\ \A i \in Calls : Dispatched(i)' <=> Dispatched(i)
  BY <1>13 DEF RecordStart
<1>14. ASSUME NEW c \in Calls, ExecutorReturns(c)
       PROVE  idem' = idem /\ act' = act /\ \A i \in Calls : Dispatched(i)' <=> Dispatched(i)
  BY <1>14 DEF ExecutorReturns
<1>15. ASSUME NEW c \in Calls, ExecutorReturnsUnbound(c)
       PROVE  idem' = idem /\ act' = act /\ \A i \in Calls : Dispatched(i)' <=> Dispatched(i)
  BY <1>15 DEF ExecutorReturnsUnbound
<1>16. ASSUME NEW c \in Calls, ExecutorRaises(c)
       PROVE  idem' = idem /\ act' = act /\ \A i \in Calls : Dispatched(i)' <=> Dispatched(i)
  BY <1>16 DEF ExecutorRaises
<1>17. ASSUME NEW c \in Calls, MarkUncertain(c)
       PROVE  idem' = idem /\ act' = act /\ \A i \in Calls : Dispatched(i)' <=> Dispatched(i)
  BY <1>17 DEF MarkUncertain
<1>18. ASSUME NEW c \in Calls, RecordUncertain(c)
       PROVE  idem' = idem /\ act' = act /\ \A i \in Calls : Dispatched(i)' <=> Dispatched(i)
  BY <1>18 DEF RecordUncertain
<1>19. ASSUME NEW c \in Calls, RevokeLease(c)
       PROVE  idem' = idem /\ act' = act /\ \A i \in Calls : Dispatched(i)' <=> Dispatched(i)
  BY <1>19 DEF RevokeLease
<1>20. ASSUME NEW c \in Calls, RecordRevocation(c)
       PROVE  idem' = idem /\ act' = act /\ \A i \in Calls : Dispatched(i)' <=> Dispatched(i)
  BY <1>20 DEF RecordRevocation
<1>21. ASSUME NEW c \in Calls, RecordRevocationFailure(c)
       PROVE  idem' = idem /\ act' = act /\ \A i \in Calls : Dispatched(i)' <=> Dispatched(i)
  BY <1>21 DEF RecordRevocationFailure
<1>22. ASSUME NEW c \in Calls, FinishAttempt(c)
       PROVE  idem' = idem /\ act' = act /\ \A i \in Calls : Dispatched(i)' <=> Dispatched(i)
  BY <1>22 DEF FinishAttempt
<1>23. ASSUME NEW c \in Calls, RecordCompletion(c)
       PROVE  idem' = idem /\ act' = act /\ \A i \in Calls : Dispatched(i)' <=> Dispatched(i)
  BY <1>23 DEF RecordCompletion
<1>24. ASSUME NEW c \in Calls, Observe(c)
       PROVE  idem' = idem /\ act' = act /\ \A i \in Calls : Dispatched(i)' <=> Dispatched(i)
  BY <1>24 DEF Observe
<1>25. ASSUME NEW c \in Calls, Verify(c)
       PROVE  idem' = idem /\ act' = act /\ \A i \in Calls : Dispatched(i)' <=> Dispatched(i)
  BY <1>25 DEF Verify
<1>26. ASSUME NEW c \in Calls, Refuse(c)
       PROVE  idem' = idem /\ act' = act /\ \A i \in Calls : Dispatched(i)' <=> Dispatched(i)
  BY <1>26 DEF Refuse
<1>27. ASSUME NEW c \in Calls, Abort(c)
       PROVE  idem' = idem /\ act' = act /\ \A i \in Calls : Dispatched(i)' <=> Dispatched(i)
  BY <1>27 DEF Abort
<1>27b. ASSUME NEW c \in Calls, RecordUncertainFails(c)
        PROVE  idem' = idem /\ act' = act /\ \A i \in Calls : Dispatched(i)' <=> Dispatched(i)
  BY <1>27b DEF RecordUncertainFails
<1>28. ASSUME NEW c \in Calls, TargetApplies(c)
       PROVE  idem' = idem /\ act' = act /\ \A i \in Calls : Dispatched(i)' <=> Dispatched(i)
  BY <1>28 DEF TargetApplies, TypeOK
<1>29. ASSUME NEW ap \in Decisions, RecordApproval(ap)
       PROVE  idem' = idem /\ act' = act /\ \A i \in Calls : Dispatched(i)' <=> Dispatched(i)
  BY <1>29 DEF RecordApproval
<1>30. ASSUME NEW ap \in Decisions, ApprovalLapses(ap)
       PROVE  idem' = idem /\ act' = act /\ \A i \in Calls : Dispatched(i)' <=> Dispatched(i)
  BY <1>30 DEF ApprovalLapses
<1>31. ASSUME NEW b \in Expirable, ActionExpires(b)
       PROVE  idem' = idem /\ act' = act /\ \A i \in Calls : Dispatched(i)' <=> Dispatched(i)
  BY <1>31 DEF ActionExpires
<1>32. ASSUME NEW r \in Revisions, DeployPolicy(r)
       PROVE  idem' = idem /\ act' = act /\ \A i \in Calls : Dispatched(i)' <=> Dispatched(i)
  BY <1>32 DEF DeployPolicy
<1>33. CASE UNCHANGED vars
  BY <1>33 DEF vars
<1> QED
  BY <1>1, <1>2, <1>3, <1>4, <1>5, <1>6, <1>7, <1>8, <1>9, <1>10, <1>11, <1>12,
     <1>13, <1>14, <1>15, <1>16, <1>17, <1>18, <1>19, <1>20, <1>21, <1>22, <1>23, <1>24,
     <1>25, <1>26, <1>27, <1>27b, <1>28, <1>29, <1>30, <1>31, <1>32, <1>33 DEF Next, Environment, Step


\* a step that takes a key is a step of the contract
LEMMA ClaimRefines ==
    ASSUME IInv, NEW c \in Calls, Claim(c)
    PROVE  Contract!Next
<1>1. key(c) \in Keys /\ digest(act[c]) \in Bodies
  BY KeyType DEF IInv
<1>2. /\ idem[key(c)].digest = None
      /\ idem' = [idem EXCEPT ![key(c)].digest = digest(act[c])]
      /\ act' = act /\ target' = target
  BY DEF Claim
<1>3. Contract!Take(key(c), digest(act[c]))
  BY <1>1, <1>2 DEF Contract!Take, IInv, TypeOK, IdempotencyRow, Dispatched, key
<1> QED
  BY <1>1, <1>3 DEF Contract!Next, Contract!Take

\* a dispatch is the one time the contract lets the target be asked
LEMMA DispatchRefines ==
    ASSUME IInv, NEW c \in Calls, Dispatch(c)
    PROVE  Contract!Next
<1>1. key(c) \in Keys /\ digest(act[c]) # None
  BY KeyType DEF IInv
<1>2. Owning(c) /\ ~Dispatched(c)
  BY DEF Dispatch, IInv, Ownership, Phase, Owning
<1>3. idem[key(c)].digest # None
  BY <1>1, <1>2 DEF IInv, Ownership
<1>4. \A d \in Calls : key(d) = key(c) => ~Dispatched(d)
  BY <1>2 DEF IInv, Ownership, Owning
<1>5. /\ idem' = idem /\ act' = act
      /\ \A d \in Calls : Dispatched(d)' <=> (d = c \/ Dispatched(d))
  BY DEF Dispatch, Dispatched, IInv, TypeOK
<1>6. Contract!Ask(key(c))
  BY <1>1, <1>3, <1>4, <1>5 DEF Contract!Ask, key
<1> QED
  BY <1>1, <1>6 DEF Contract!Next

\* a completion publishes once, and repeats nothing else
LEMMA CompleteRefines ==
    ASSUME IInv, NEW c \in Calls, CompleteClaim(c)
    PROVE  Contract!Next \/ UNCHANGED Contract!vars
<1>1. key(c) \in Keys
  BY KeyType DEF IInv
<1>2. Dispatched(c) /\ result[c] \in Result /\ act' = act /\ target' = target
  BY DEF CompleteClaim, IInv, Ownership, Phase, Publication, Evidence
<1>3. CASE idem[key(c)].result = None
  <2>1. idem' = [idem EXCEPT ![key(c)].result = result[c]]
    BY <1>3 DEF CompleteClaim
  <2>2. Contract!Publish(key(c), result[c])
    BY <1>1, <1>2, <1>3, <2>1 DEF Contract!Publish, IInv, TypeOK, IdempotencyRow, Dispatched, key
  <2> QED
    BY <1>1, <1>2, <2>2 DEF Contract!Next, Contract!Publish
<1>4. CASE idem[key(c)].result # None
  <2>1. idem' = idem
    BY <1>1, <1>4 DEF CompleteClaim, IInv, TypeOK, IdempotencyRow
  <2> QED
    BY <1>2, <2>1 DEF Contract!vars, Dispatched, key
<1> QED
  BY <1>3, <1>4

\* The broker implements AtMostOnceEffect: seen through its rows and dispatches
\* it only takes keys, asks the target once, and publishes once.
THEOREM RefinesContract == Spec => ImplementsContract
<1>1. Init => Contract!Init
  BY DEF Init, Contract!Init, Dispatched
<1>2. IInv /\ [Next]_vars => [Contract!Next]_(Contract!vars)
  <2> SUFFICES ASSUME IInv, [Next]_vars
               PROVE  Contract!Next \/ UNCHANGED Contract!vars
    OBVIOUS
  <2>1. CASE \E c \in Calls : Claim(c) \/ Dispatch(c) \/ CompleteClaim(c)
    BY <2>1, ClaimRefines, DispatchRefines, CompleteRefines
  <2>2. CASE ~\E c \in Calls : Claim(c) \/ Dispatch(c) \/ CompleteClaim(c)
    <3>1. idem' = idem /\ act' = act /\ \A c \in Calls : Dispatched(c)' <=> Dispatched(c)
      BY <2>2, QuietSteps DEF IInv
    <3> QED
      BY <3>1 DEF Contract!vars, key
  <2> QED
    BY <2>1, <2>2
<1> QED
  BY <1>1, <1>2, Invariance, PTL DEF Spec, ImplementsContract, Contract!Spec

\* No step gives up a claim, moves it to another digest or changes a stored
\* result (postgres/execution.py 27-69).
THEOREM ClaimsStay == Spec => ClaimsAreFinal
<1>1. IInv /\ [Next]_vars =>
        [\A k \in Keys : /\ idem[k].digest # None => idem'[k].digest = idem[k].digest
                         /\ idem[k].result # None => idem'[k].result = idem[k].result]_vars
  <2> SUFFICES ASSUME IInv, [Next]_vars, NEW k \in Keys
               PROVE  /\ idem[k].digest # None => idem'[k].digest = idem[k].digest
                      /\ idem[k].result # None => idem'[k].result = idem[k].result
    OBVIOUS
  <2>1. ASSUME NEW c \in Calls, Claim(c)
        PROVE  /\ idem[k].digest # None => idem'[k].digest = idem[k].digest
               /\ idem'[k].result = idem[k].result
    BY <2>1, KeyType DEF Claim, IInv, TypeOK, IdempotencyRow
  <2>2. ASSUME NEW c \in Calls, CompleteClaim(c)
        PROVE  /\ idem'[k].digest = idem[k].digest
               /\ idem[k].result # None => idem'[k].result = idem[k].result
    BY <2>2, KeyType DEF CompleteClaim, IInv, TypeOK, IdempotencyRow
  <2>3. ASSUME NEW c \in Calls, Dispatch(c) PROVE idem' = idem
    BY <2>3 DEF Dispatch
  <2> QED
    BY <2>1, <2>2, <2>3, QuietSteps DEF IInv
<1> QED
  BY <1>1, Invariance, PTL DEF Spec, ClaimsAreFinal

-----------------------------------------------------------------------------
(* Progress: what CallsEnd rests on *)

\* the points after which a call's result may be published
Finished == {"completed", "observe", "verify", "returned", "raised", "aborted"}

\* a call that has yet to complete its claim has published nothing
Unpublished ==
    \A c \in Calls, k \in Keys :
        pc[c] \notin Finished /\ idem[k].result # None => idem[k].result.attempt # c

\* How far a call has come through execute(). An uncertain attempt is marked
\* before the revocation when the executor raised, and after it otherwise.
Progress(p, way) ==
    CASE p = "idle"            -> 0
      [] p = "policy"          -> 1
      [] p = "approval"        -> 2
      [] p = "executor"        -> 3
      [] p = "lease_issued"    -> 4
      [] p = "claim"           -> 5
      [] p = "attempt"         -> 6
      [] p = "start"           -> 7
      [] p = "started"         -> 8
      [] p = "dispatch"        -> 9
      [] p = "executing"       -> 10
      [] p = "uncertain"       -> IF way = "exception" THEN 11 ELSE 14
      [] p = "revoke"          -> 12
      [] p = "revoked"         -> 13
      [] p = "revoke_failed"   -> 13
      [] p = "read_result"     -> 14
      [] p = "finish"          -> 14
      [] p = "uncertain_event" -> 15
      [] p = "complete"        -> 15
      [] p = "completed"       -> 16
      [] p = "unrecorded"      -> 16
      [] p = "observe"         -> 17
      [] p = "verify"          -> 18
      [] OTHER                 -> 19

\* A step takes a call onward and touches no other call's position.
Onward(c) ==
    /\ Progress(pc[c], path[c]) < Progress(pc'[c], path'[c])
    /\ \A d \in Calls \ {c} : pc'[d] = pc[d] /\ path'[d] = path[d]

LEMMA StepsGoOnward ==
    ASSUME TypeOK, NEW c \in Calls, Step(c)
    PROVE  Onward(c)
<1> USE DEF Goto, Record, Emit, Jump, callVars, envVars, TypeOK
<1>1. CASE Propose(c) \/ EvaluatePolicy(c) \/ RequestApproval(c) \/ UseApproval(c)
  <2>1. PolicyOf[revision][act[c].body] \in PolicyOutcome
    BY KeyType, BrokerAssumption
  <2>2. AfterPolicy(PolicyOf[revision][act[c].body]) \in {"raised", "approval", "executor"}
    BY <2>1, AfterPolicyType
  <2>3. /\ path' = path /\ \A d \in Calls \ {c} : pc'[d] = pc[d]
        /\ \/ pc[c] = "idle" /\ pc'[c] = "policy"
           \/ pc[c] = "policy" /\ pc'[c] \in {"raised", "approval", "executor"}
           \/ pc[c] = "approval" /\ pc'[c] \in {"raised", "executor"}
    BY <1>1, <2>2 DEF Propose, EvaluatePolicy, RequestApproval, UseApproval
  <2> QED BY <2>3 DEF Progress, Onward
<1>2. CASE RefuseExecutor(c) \/ IssueLease(c) \/ RecordLease(c) \/ Claim(c) \/ ClaimConflict(c)
  <2>1. /\ path' = path /\ \A d \in Calls \ {c} : pc'[d] = pc[d]
        /\ \/ pc[c] = "executor" /\ pc'[c] \in {"raised", "lease_issued", "claim"}
           \/ pc[c] = "lease_issued" /\ pc'[c] = "claim"
           \/ pc[c] = "claim" /\ pc'[c] \in {"attempt", "raised"}
    BY <1>2 DEF RefuseExecutor, IssueLease, RecordLease, Claim, ClaimConflict
  <2> QED BY <2>1 DEF Progress, Onward
<1>3. CASE ClaimDuplicate(c)
  <2>1. /\ \A d \in Calls \ {c} : pc'[d] = pc[d] /\ path'[d] = path[d]
        /\ pc[c] = "claim" /\ pc'[c] \in {"revoke", "read_result"}
    BY <1>3 DEF ClaimDuplicate
  <2> QED BY <2>1 DEF Progress, Onward
<1>4. CASE CreateAttempt(c) \/ StartAttempt(c) \/ RecordStart(c) \/ Dispatch(c)
  <2>1. /\ path' = path /\ \A d \in Calls \ {c} : pc'[d] = pc[d]
        /\ \/ pc[c] = "attempt" /\ pc'[c] = "start"
           \/ pc[c] = "start" /\ pc'[c] = "started"
           \/ pc[c] = "started" /\ pc'[c] = "dispatch"
           \/ pc[c] = "dispatch" /\ pc'[c] = "executing"
    BY <1>4 DEF CreateAttempt, StartAttempt, RecordStart, Dispatch
  <2> QED BY <2>1 DEF Progress, Onward
<1>5. CASE ExecutorReturns(c) \/ ExecutorReturnsUnbound(c) \/ ExecutorRaises(c)
  <2>1. /\ \A d \in Calls \ {c} : pc'[d] = pc[d] /\ path'[d] = path[d]
        /\ pc[c] = "executing" /\ pc'[c] \in {"revoke", "finish", "raised", "uncertain"}
    BY <1>5 DEF ExecutorReturns, ExecutorReturnsUnbound, ExecutorRaises
  <2> QED BY <2>1 DEF Progress, Onward
<1>6. CASE MarkUncertain(c) \/ RecordUncertain(c)
  <2>1. /\ path' = path /\ \A d \in Calls \ {c} : pc'[d] = pc[d]
        /\ \/ /\ pc[c] = "uncertain"
              /\ pc'[c] \in IF path[c] = "exception" THEN {"revoke", "uncertain_event"}
                            ELSE {"uncertain_event"}
           \/ pc[c] = "uncertain_event" /\ pc'[c] = "raised"
    BY <1>6 DEF MarkUncertain, RecordUncertain
  <2> QED BY <2>1 DEF Progress, Onward
<1>7. CASE RevokeLease(c)
  <2>1. /\ path' = path /\ \A d \in Calls \ {c} : pc'[d] = pc[d]
        /\ pc[c] = "revoke" /\ pc'[c] \in {"revoked", "revoke_failed"}
    BY <1>7 DEF RevokeLease
  <2> QED BY <2>1 DEF Progress, Onward
<1>8. CASE RecordRevocation(c) \/ RecordRevocationFailure(c)
  <2>1. /\ path' = path /\ \A d \in Calls \ {c} : pc'[d] = pc[d]
        /\ pc[c] \in {"revoked", "revoke_failed"}
        /\ pc'[c] \in {AfterRevoke(path[c]), AfterFailure(path[c])}
    BY <1>8 DEF RecordRevocation, RecordRevocationFailure
  <2>2. path[c] \in {"ok", "duplicate", "exception"}
    OBVIOUS
  <2>3. /\ pc'[c] \in {"read_result", "uncertain_event", "finish", "raised", "uncertain"}
        /\ pc'[c] = "uncertain" => path[c] = "ok"
    BY <2>1, <2>2 DEF AfterRevoke, AfterFailure
  <2> QED BY <2>1, <2>3 DEF Progress, Onward
<1>9. CASE \/ ReadResult(c) \/ FinishAttempt(c) \/ CompleteClaim(c) \/ RecordCompletion(c)
           \/ Observe(c) \/ Verify(c)
  <2>1. /\ path' = path /\ \A d \in Calls \ {c} : pc'[d] = pc[d]
        /\ \/ pc[c] = "read_result" /\ pc'[c] \in {"raised", "observe"}
           \/ pc[c] = "finish" /\ pc'[c] = "complete"
           \/ pc[c] = "complete" /\ pc'[c] \in {"completed", "raised"}
           \/ pc[c] = "completed" /\ pc'[c] = "observe"
           \/ pc[c] = "observe" /\ pc'[c] = "verify"
           \/ pc[c] = "verify" /\ pc'[c] = "returned"
    BY <1>9 DEF ReadResult, FinishAttempt, CompleteClaim, RecordCompletion, Observe, Verify
  <2> QED BY <2>1 DEF Progress, Onward
<1> QED BY <1>1, <1>2, <1>3, <1>4, <1>5, <1>6, <1>7, <1>8, <1>9 DEF Step

\* What goes on around the calls ends one of them, or moves none.
LEMMA EnvironmentEndsOrRests ==
    ASSUME TypeOK, Environment
    PROVE  \/ \E c \in Calls : Onward(c) /\ pc'[c] \in Ended
           \/ pc' = pc /\ path' = path
<1>1. CASE \E c \in Calls : Refuse(c) \/ RecordUncertainFails(c) \/ Abort(c)
  <2>1. PICK c \in Calls : Refuse(c) \/ RecordUncertainFails(c) \/ Abort(c)
    BY <1>1
  <2>2. /\ path' = path /\ \A d \in Calls \ {c} : pc'[d] = pc[d]
        /\ \/ pc[c] \in PC \ Ended /\ pc'[c] \in {"raised", "aborted"}
           \/ pc[c] \in {"uncertain", "uncertain_event"} /\ pc'[c] = "unrecorded"
    BY <2>1 DEF Refuse, RecordUncertainFails, Abort, Jump, Goto, TypeOK, Ended
  <2> QED BY <2>2 DEF Onward, Progress, PC, Ended
<1>2. CASE ~ \E c \in Calls : Refuse(c) \/ RecordUncertainFails(c) \/ Abort(c)
  BY <1>2 DEF Environment, TargetApplies, RecordApproval, ApprovalLapses, ActionExpires,
              DeployPolicy, callVars
<1> QED BY <1>1, <1>2

\* No call of execute() goes back or waits twice at the same await: whatever
\* moves a call takes it strictly onward, so it ends after at most 19 steps,
\* and the outside world moves it only by ending it.
THEOREM CallsAdvance ==
  Spec => [][(\E c \in Calls : Onward(c)) \/ (pc' = pc /\ path' = path)]_vars
<1>1. TypeOK /\ Next => (\E c \in Calls : Onward(c)) \/ (pc' = pc /\ path' = path)
  BY StepsGoOnward, EnvironmentEndsOrRests DEF Next
<1> QED BY <1>1, Typing, PTL DEF Spec

\* A call publishes once, at its own completion.
LEMMA UnpublishedStep ==
    ASSUME IInv, TypeOK', Unpublished, [Next]_vars
    PROVE  Unpublished'
<1>1. ASSUME NEW c \in Calls PROVE pc[c] \in Finished => pc'[c] \in Finished
  <2>1. CASE pc'[c] = pc[c]
    BY <2>1
  <2>2. CASE pc'[c] # pc[c]
    <3>1. (\E d \in Calls : Onward(d)) \/ (pc' = pc /\ path' = path)
      BY StepsGoOnward, EnvironmentEndsOrRests DEF Next, vars, IInv
    <3>2. Onward(c)
      BY <2>2, <3>1 DEF Onward
    <3>3. pc'[c] \in PC
      BY DEF TypeOK
    <3> QED BY <3>2, <3>3 DEF Onward, Progress, Finished, PC, Ended
  <2> QED BY <2>1, <2>2
<1>2. CASE \E c \in Calls : CompleteClaim(c)
  <2>1. PICK c \in Calls : CompleteClaim(c)
    BY <1>2
  <2>2. pc'[c] \in Finished /\ result[c].attempt = c
    BY <2>1 DEF CompleteClaim, Goto, Finished, Ended, IInv, TypeOK, Publication, Evidence
  <2>3. \A k \in Keys : idem'[k].result \in {idem[k].result, result[c]}
    <3>1. key(c) \in Keys /\ idem \in [Keys -> IdempotencyRow]
      BY KeyType DEF IInv, TypeOK
    <3>2. idem' = idem \/ idem' = [idem EXCEPT ![key(c)].result = result[c]]
      BY <2>1 DEF CompleteClaim
    <3> QED BY <3>1, <3>2 DEF IdempotencyRow
  <2> QED BY <1>1, <2>2, <2>3 DEF Unpublished
<1>3. CASE ~ \E c \in Calls : CompleteClaim(c)
  <2>1. \A k \in Keys : idem'[k].result = idem[k].result
    <3>1. CASE \E c \in Calls : Claim(c)
      BY <3>1, KeyType DEF Claim, IInv, TypeOK, IdempotencyRow
    <3>2. CASE \E c \in Calls : Dispatch(c)
      BY <3>2 DEF Dispatch
    <3> QED BY <1>3, <3>1, <3>2, QuietSteps DEF IInv
  <2> QED BY <1>1, <2>1 DEF Unpublished
<1> QED BY <1>2, <1>3

LEMMA UnpublishedAlways == Spec => []Unpublished
<1>1. Init => Unpublished
  BY DEF Init, Unpublished
<1>2. IInv /\ TypeOK' /\ Unpublished /\ [Next]_vars => Unpublished'
  BY UnpublishedStep
<1> QED BY <1>1, <1>2, Invariance, Typing, PTL DEF Spec

\* The key of a call that has dispatched and not completed has no result: the
\* call that published one would be a second one to dispatch under the key.
LEMMA DispatchedIsUnpublished ==
    ASSUME IInv, Unpublished, NEW c \in Calls, Dispatched(c), pc[c] \notin Finished
    PROVE  idem[key(c)].result = None
<1> SUFFICES ASSUME idem[key(c)].result # None PROVE FALSE
  OBVIOUS
<1>1. PICK k : k = key(c)
  OBVIOUS
<1>2. k \in Keys
  BY <1>1, KeyType DEF IInv
<1>3. PICK d : d = idem[k].result.attempt
  OBVIOUS
<1>4. d \in Calls /\ Dispatched(d) /\ key(d) = k
  BY <1>1, <1>2, <1>3, ResultType DEF IInv, Publication, PublishedResultIsFinal, Settled
<1>5. d = c
  BY <1>1, <1>4 DEF IInv, Ownership, Owning
<1>6. d # c
  BY <1>1, <1>2, <1>3 DEF Unpublished
<1> QED BY <1>5, <1>6

\* A call that raises over an uncertain attempt has told the ledger, or was
\* stopped by the recording itself; then its attempt is open in the journal and
\* its key owned without a result (broker.py 267-343).
THEOREM UncertaintyReachesLedger == Spec => []UncertaintyIsRecorded
<1>1. IInv /\ Unpublished /\ RaiseIsRecorded => UncertaintyIsRecorded
  <2> SUFFICES ASSUME IInv, Unpublished, RaiseIsRecorded, NEW c \in Calls, pc[c] = "unrecorded"
               PROVE  /\ UseAttempts => attempt[c] \in {"started", "uncertain"}
                      /\ idem[key(c)] = [digest |-> digest(act[c]), result |-> None]
    BY DEF UncertaintyIsRecorded, RaiseIsRecorded
  <2>1. UseAttempts => attempt[c] \in {"started", "uncertain"}
    BY DEF IInv, Publication, Evidence
  <2>2. Dispatched(c) /\ key(c) \in Keys
    BY KeyType DEF IInv, Ownership, Phase
  <2>3. idem[key(c)].digest = digest(act[c])
    BY <2>2 DEF IInv, Ownership, Owning
  <2>4. idem[key(c)].result = None
    BY <2>2, DispatchedIsUnpublished DEF Finished
  <2> QED BY <2>1, <2>2, <2>3, <2>4 DEF IInv, TypeOK, IdempotencyRow
<1> QED BY <1>1, Invariance, UnpublishedAlways, RaiseIsRecordedAlways, PTL

\* what the stores check of a call when it closes its attempt and its claim
StoresAccept ==
    \A c \in Calls :
        /\ UseAttempts =>
             /\ pc[c] = "attempt" => <<attempt[c], "claimed">> \in Transitions
             /\ pc[c] = "start" => <<attempt[c], "started">> \in Transitions
             /\ pc[c] = "uncertain" => <<attempt[c], "uncertain">> \in Transitions
             /\ pc[c] = "finish" => /\ <<attempt[c], "succeeded">> \in Transitions
                                    /\ <<attempt[c], "failed">> \in Transitions
        /\ pc[c] = "complete" => idem[key(c)].result = None

\* No store refuses a call what it has earned: the attempt journal accepts
\* every transition execute() asks for, and complete() always finds the row of
\* the call that executed without a result: neither the journal's "illegal
\* transition" nor complete's "result is immutable" follows an execution
\* (postgres/execution.py 65, 126).
THEOREM StoresNeverRefuse == Spec => []StoresAccept
<1>1. IInv /\ Unpublished => StoresAccept
  <2> SUFFICES ASSUME IInv, Unpublished PROVE StoresAccept
    OBVIOUS
  <2>1. ASSUME NEW c \in Calls, UseAttempts
        PROVE  /\ pc[c] = "attempt" => attempt[c] = "absent"
               /\ pc[c] = "start" => attempt[c] = "claimed"
               /\ pc[c] \in {"uncertain", "finish"} => attempt[c] = "started"
    BY <2>1 DEF IInv, Publication, Evidence, BeforeAttempt
  <2>2. ASSUME NEW c \in Calls, pc[c] = "complete" PROVE idem[key(c)].result = None
    BY <2>2, DispatchedIsUnpublished DEF IInv, Ownership, Phase, Finished
  <2> QED BY <2>1, <2>2 DEF StoresAccept, Transitions
<1> QED BY <1>1, Invariance, UnpublishedAlways, PTL
=============================================================================
