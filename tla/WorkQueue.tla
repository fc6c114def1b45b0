----------------------------- MODULE WorkQueue -----------------------------
(***************************************************************************)
(* The durable work queue (PostgresDurableWorkQueue in postgres/ha.py,     *)
(* InMemoryDurableWorkQueue in runtime/ha.py) and the workers that run     *)
(* RecoverableScheduler.run_once over it: one queue, the rows of all its   *)
(* tenants.                                                                *)
(*                                                                         *)
(* Time enters only through comparisons: `ripe' rows are past their        *)
(* available_at, `lapsed' leases past their expires_at.  complete and      *)
(* retry read the clock before they lock the row, so a worker decides with *)
(* what it saw then.  A lease_id is drawn exactly when the fence token     *)
(* grows, so the token stands for both.                                    *)
(***************************************************************************)
EXTENDS Naturals, FiniteSets

CONSTANTS
    Items,          \* submitted DurableWorkItems, by job_id
    Identities,     \* (tenant_id, queue, idempotency_key)
    IdentityOf,
    Tenants,
    TenantOf,
    MaxAttempts,    \* max_attempts of each item
    MaxQueueDepth,
    Workers,        \* owner_id of each scheduler
    None

ASSUME QueueAssumption ==
    /\ IsFiniteSet(Items)
    /\ IdentityOf \in [Items -> Identities]
    /\ TenantOf \in [Items -> Tenants]
    /\ MaxAttempts \in [Items -> Nat \ {0}]
    /\ MaxQueueDepth \in Nat \ {0}
    /\ None \notin Workers
    /\ None \notin [item: Items, attempt: Nat, fence: Nat]

WorkState == {"absent", "queued", "leased", "succeeded", "dead_letter"}
Row       == [state: WorkState, attempt: Nat, fence: Nat, owner: Workers \cup {None}]
Leased    == [item: Items, attempt: Nat, fence: Nat]
Ack       == [item: Items, fence: Nat, outcome: {"succeeded", "retried"}]

VARIABLES
    row,        \* durable_work_items
    ripe,       \* queued rows past their available_at
    lapsed,     \* <<item, fence>> of leases past their expires_at
    wpc,        \* where run_once of each worker waits
    job,        \* the LeasedWorkItem it has in hand
    live,       \* its lease had not lapsed when it read the clock
    acked       \* the transitions that complete and retry acknowledged

vars == <<row, ripe, lapsed, wpc, job, live, acked>>

Init ==
    /\ row = [i \in Items |->
                [state |-> "absent", attempt |-> 0, fence |-> 0, owner |-> None]]
    /\ ripe = {}
    /\ lapsed = {}
    /\ wpc = [w \in Workers |-> "idle"]
    /\ job = [w \in Workers |-> None]
    /\ live = [w \in Workers |-> FALSE]
    /\ acked = {}

-----------------------------------------------------------------------------
\* mutant: work that is being done takes no room
ActiveQueued == {i \in Items : row[i].state = "queued"}

Active == {i \in Items : row[i].state \in {"queued", "leased"}}

\* A new identity is stored while the queue has room.  A known identity
\* returns the stored item or raises DuplicateActionError, a full queue raises
\* QueueOverloadedError: neither changes anything.
Enqueue(i) ==
    /\ \A j \in Items : row[j].state # "absent" => IdentityOf[j] # IdentityOf[i]
    /\ Cardinality(Active) < MaxQueueDepth
    /\ row' = [row EXCEPT ![i].state = "queued"]
    /\ UNCHANGED <<ripe, lapsed, wpc, job, live, acked>>

\* mutant: leased rows are eligible before their lease lapsed
eligibleLeased(i) == (row[i].state = "queued" /\ i \in ripe) \/ row[i].state = "leased"

\* mutant: the work of dead workers is never picked up
eligibleQueued(i) == row[i].state = "queued" /\ i \in ripe

eligible(i) ==
    \/ row[i].state = "queued" /\ i \in ripe
    \/ row[i].state = "leased" /\ <<i, row[i].fence>> \in lapsed

Ready(t) == {i \in Items : /\ TenantOf[i] = t
                           /\ eligible(i)
                           /\ row[i].attempt < MaxAttempts[i]}

Exhausted(t) == {i \in Items : /\ TenantOf[i] = t
                               /\ eligible(i)
                               /\ row[i].attempt >= MaxAttempts[i]}

Buried(r) == [state |-> "dead_letter", attempt |-> r.attempt,
              fence |-> r.fence, owner |-> None]

Taken(r, w) == [state |-> "leased", attempt |-> r.attempt + 1,
                fence |-> r.fence + 1, owner |-> w]

\* acquire goes through the eligible rows of a tenant, passing over the ones
\* another transaction has locked: it buries exhausted rows on its way and
\* stops at the first that has an attempt left.
Acquire(w, t) ==
    /\ wpc[w] = "idle"
    /\ \E i \in Ready(t), dead \in SUBSET Exhausted(t) :
          /\ row' = [j \in Items |-> CASE j = i       -> Taken(row[j], w)
                                       [] j \in dead  -> Buried(row[j])
                                       [] OTHER       -> row[j]]
          /\ job' = [job EXCEPT ![w] = [item |-> i, attempt |-> row[i].attempt + 1,
                                        fence |-> row[i].fence + 1]]
    /\ wpc' = [wpc EXCEPT ![w] = "handling"]
    /\ UNCHANGED <<ripe, lapsed, live, acked>>

\* acquire finds nothing to lease, and may have buried rows
AcquireNothing(w, t) ==
    /\ wpc[w] = "idle"
    /\ \E dead \in (SUBSET Exhausted(t)) \ {{}} :
          row' = [j \in Items |-> IF j \in dead THEN Buried(row[j]) ELSE row[j]]
    /\ UNCHANGED <<ripe, lapsed, wpc, job, live, acked>>

\* the handler is over, and complete or retry has read the clock
HandlerEnds(w, p) ==
    /\ wpc[w] = "handling"
    /\ live' = [live EXCEPT ![w] = <<job[w].item, job[w].fence>> \notin lapsed]
    /\ wpc' = [wpc EXCEPT ![w] = p]
    /\ UNCHANGED <<row, ripe, lapsed, job, acked>>

HandlerReturns(w) == HandlerEnds(w, "completing")
HandlerRaises(w)  == HandlerEnds(w, "retrying")

\* run_once ends: the worker has nothing in hand
Idle(w) ==
    /\ wpc' = [wpc EXCEPT ![w] = "idle"]
    /\ job' = [job EXCEPT ![w] = None]
    /\ live' = [live EXCEPT ![w] = FALSE]

\* mutant: any unlapsed lease of the item will do
currentAnyLease(w) == row[job[w].item].state = "leased" /\ live[w]

\* _require_current_work
current(w) ==
    LET r == row[job[w].item] IN
    /\ r.state = "leased"
    /\ r.attempt = job[w].attempt
    /\ r.owner = w
    /\ r.fence = job[w].fence
    /\ live[w]

Acknowledge(w, o) ==
    acked' = acked \cup {[item |-> job[w].item, fence |-> job[w].fence, outcome |-> o]}

Complete(w) ==
    /\ wpc[w] = "completing"
    /\ current(w)
    /\ row' = [row EXCEPT ![job[w].item].state = "succeeded", ![job[w].item].owner = None]
    /\ Acknowledge(w, "succeeded")
    /\ Idle(w)
    /\ UNCHANGED <<ripe, lapsed>>

\* mutant: a retry starts counting again
RetryAfresh(w) ==
    LET i == job[w].item IN
    /\ wpc[w] = "retrying"
    /\ current(w)
    /\ row' = [row EXCEPT ![i] = [@ EXCEPT !.state = "queued", !.owner = None, !.attempt = 0]]
    /\ ripe' = ripe \ {i}
    /\ Acknowledge(w, "retried")
    /\ Idle(w)
    /\ UNCHANGED lapsed

\* the last attempt is buried, any other waits for its delay
Retry(w) ==
    LET i == job[w].item IN
    /\ wpc[w] = "retrying"
    /\ current(w)
    /\ row' = [row EXCEPT ![i] =
                 IF @.attempt >= MaxAttempts[i]
                 THEN Buried(@)
                 ELSE [@ EXCEPT !.state = "queued", !.owner = None]]
    /\ ripe' = ripe \ {i}
    /\ Acknowledge(w, "retried")
    /\ Idle(w)
    /\ UNCHANGED lapsed

\* complete or retry raises LeaseLostError
LeaseLost(w) ==
    /\ wpc[w] \in {"completing", "retrying"}
    /\ ~current(w)
    /\ Idle(w)
    /\ UNCHANGED <<row, ripe, lapsed, acked>>

\* The worker dies or its task is cancelled; its lease stays in the row.
Crash(w) ==
    /\ wpc[w] # "idle"
    /\ Idle(w)
    /\ UNCHANGED <<row, ripe, lapsed, acked>>

Ripens(i) ==
    /\ row[i].state = "queued"
    /\ i \notin ripe
    /\ ripe' = ripe \cup {i}
    /\ UNCHANGED <<row, lapsed, wpc, job, live, acked>>

LeaseLapses(i) ==
    /\ row[i].state = "leased"
    /\ <<i, row[i].fence>> \notin lapsed
    /\ lapsed' = lapsed \cup {<<i, row[i].fence>>}
    /\ UNCHANGED <<row, ripe, wpc, job, live, acked>>

Poll(w, t) == Acquire(w, t) \/ AcquireNothing(w, t)
Settle(w)  == Complete(w) \/ Retry(w) \/ LeaseLost(w)

Next ==
    \/ \E i \in Items : Enqueue(i) \/ Ripens(i) \/ LeaseLapses(i)
    \/ \E w \in Workers, t \in Tenants : Poll(w, t)
    \/ \E w \in Workers : HandlerReturns(w) \/ HandlerRaises(w) \/ Settle(w) \/ Crash(w)

Spec == Init /\ [][Next]_vars

\* Time passes, schedulers keep polling every tenant, handlers end and the
\* database answers.  Nothing keeps a worker from crashing each time.
FairSpec ==
    /\ Spec
    /\ \A i \in Items : WF_vars(Ripens(i)) /\ WF_vars(LeaseLapses(i))
    /\ \A w \in Workers :
          /\ \A t \in Tenants : WF_vars(Acquire(w, t)) /\ WF_vars(AcquireNothing(w, t))
          /\ WF_vars(HandlerReturns(w) \/ HandlerRaises(w))
          /\ WF_vars(Settle(w))

-----------------------------------------------------------------------------
(* Properties *)

TypeOK ==
    /\ row \in [Items -> Row]
    /\ ripe \subseteq Items
    /\ lapsed \subseteq Items \X Nat
    /\ wpc \in [Workers -> {"idle", "handling", "completing", "retrying"}]
    /\ job \in [Workers -> Leased \cup {None}]
    /\ live \in [Workers -> BOOLEAN]
    /\ acked \subseteq Ack

\* w works on an item under a lease that has not lapsed
holds(w, i) ==
    /\ job[w] # None
    /\ job[w].item = i
    /\ <<i, job[w].fence>> \notin lapsed

\* Two workers never work on one item under unlapsed leases, however often it
\* was reacquired from dead or slow workers (postgres/ha.py 348-352).
AtMostOneLiveWorker ==
    \A v, w \in Workers, i \in Items : holds(v, i) /\ holds(w, i) => v = w

\* What the queue acknowledged stands: one transition per token, and a success
\* only of the last token, of a row that is and stays succeeded.  A worker that
\* was superseded is never told that its work counted (postgres/ha.py 482-501).
AcknowledgedOnce ==
    /\ \A a, b \in acked : a.item = b.item /\ a.fence = b.fence => a = b
    /\ \A a \in acked : a.outcome = "succeeded" =>
          row[a.item].state = "succeeded" /\ row[a.item].fence = a.fence
    /\ \A i \in Items : row[i].state = "succeeded" =>
          \E a \in acked : a.item = i /\ a.outcome = "succeeded"

\* Work is given up only when each of its attempts was handed out and then
\* failed or lost its lease (postgres/ha.py 368-372, 410-413).
DeadLetterIsEarned ==
    \A i \in Items : row[i].state = "dead_letter" =>
        \A f \in 1..MaxAttempts[i] :
            \/ <<i, f>> \in lapsed
            \/ [item |-> i, fence |-> f, outcome |-> "retried"] \in acked

\* Admission bounds the queue: retries and reacquisitions never push it over
\* its depth (postgres/ha.py 296-307).
DepthIsBounded == Cardinality(Active) <= MaxQueueDepth

\* What the queue promises of each item: bounded runs, one settlement.
Promise == INSTANCE BoundedWork
           WITH Budget <- MaxAttempts,
                phase  <- [i \in Items |->
                             CASE row[i].state = "absent"      -> "absent"
                               [] row[i].state = "succeeded"   -> "done"
                               [] row[i].state = "dead_letter" -> "dead"
                               [] OTHER                        -> "open"],
                runs   <- [i \in Items |-> row[i].attempt]
KeepsPromise == Promise!Spec

\* Two items of one identity are never both stored (postgres/ha.py 279-295).
OneRowPerIdentity ==
    \A i, j \in Items :
        /\ row[i].state # "absent"
        /\ row[j].state # "absent"
        /\ IdentityOf[i] = IdentityOf[j]
        => i = j

\* Admitted work is settled in the end, though every worker may crash on every
\* attempt (postgres/ha.py 341-380).
AdmittedWorkIsSettled ==
    \A i \in Items : row[i].state # "absent" ~>
                        row[i].state \in {"succeeded", "dead_letter"}

-----------------------------------------------------------------------------
(* What the proofs add *)

\* the token counts the attempts, and a row's state bounds them
Budgeted(i) ==
    /\ row[i].attempt = row[i].fence
    /\ row[i].fence <= MaxAttempts[i]
    /\ row[i].state = "absent" => row[i].fence = 0
    /\ row[i].state = "queued" => row[i].fence < MaxAttempts[i]
    /\ row[i].state \in {"leased", "succeeded"} => row[i].fence > 0
    /\ row[i].state = "dead_letter" => row[i].fence = MaxAttempts[i]

Failed(i, f) ==
    \/ <<i, f>> \in lapsed
    \/ [item |-> i, fence |-> f, outcome |-> "retried"] \in acked

\* every token but the one of a leased or succeeded row has failed
SpentTokens(i) ==
    \A f \in 1..row[i].fence :
        (f = row[i].fence => row[i].state \notin {"leased", "succeeded"}) => Failed(i, f)

\* the token in a worker's hands is unacknowledged; it is the row's only while
\* the row is leased to this worker, or was buried after it lapsed
HandHeld(w) ==
    job[w] # None =>
        /\ 0 < job[w].fence /\ job[w].fence <= row[job[w].item].fence
        /\ \A a \in acked : ~(a.item = job[w].item /\ a.fence = job[w].fence)
        /\ job[w].fence = row[job[w].item].fence =>
              \/ row[job[w].item].state = "leased" /\ row[job[w].item].owner = w
              \/ /\ row[job[w].item].state = "dead_letter"
                 /\ <<job[w].item, job[w].fence>> \in lapsed

AcksAreOld ==
    \A a \in acked : /\ a.fence <= row[a.item].fence
                     /\ a.fence = row[a.item].fence => row[a.item].state # "leased"

IInv ==
    /\ TypeOK
    /\ \A w \in Workers : wpc[w] # "idle" => job[w] # None
    /\ \A i \in Items : Budgeted(i) /\ SpentTokens(i)
    /\ \A w \in Workers : HandHeld(w)
    /\ AcksAreOld
    /\ AcknowledgedOnce
=============================================================================
