# A TLA+ model of prodkit-control

prodkit-control puts a control plane between automated agents and the systems
they change: an action is proposed, decided by a policy, perhaps approved by a
human, executed once with a short-lived credential, observed, and audited in a
tenant-scoped hash-chained ledger. The promises are easy to keep in one
sequential call. They are hard to keep when calls with one idempotency key
race, when a process dies between two awaits, when a target answers late, or
when a replica acts on a clock it read too long ago. This directory models the
parts that carry those promises, checks them with TLC and proves them with TLAPS.

Paths below are relative to `src/packages/python/`; *runtime* is
`prodkit-control-runtime/src/prodkit_control_runtime`, *postgres* is
`prodkit-control-postgres/src/prodkit_control_postgres`, *contracts* is
`prodkit-control-core/src/prodkit_control_core/contracts`, *fastapi* is
`prodkit-control-fastapi/src/prodkit_control_fastapi`.

## Inventory

| component | state | operations | what makes it correct |
|---|---|---|---|
| **Action broker** (runtime/broker.py; stores in postgres/execution.py, runtime/credentials.py, runtime/approvals.py) | idempotency rows, attempt journal, credential leases, approvals, the events of each call | `execute()` and its `_revoke_lease`, `_observe_and_verify` | a key's effect happens at most once; what was dispatched is journaled and authorized; a published result is final; uncertainty is recorded and keeps the key owned |
| **Fenced leases** (postgres/ha.py, runtime/ha.py) | one row per resource: owner, token, expiry | acquire, renew, release | one unexpired owner; every takeover has a larger token |
| **Durable work queue, scheduler** (same files) | rows with state, attempt, token, owner, times | enqueue, acquire, complete, retry; `run_once` | one live worker per item, bounded attempts, one settlement, bounded depth, nothing admitted is forgotten |
| **Event ledger, runs** (postgres/ledger.py, postgres/runs.py, runtime/coordinator.py) | event rows, run records, lineage nodes | append, start_run, complete_run, bind_lineage | one unforked chain per run, of one tenant; status changes are audited |
| **Tenancy, support elevation** (postgres/tenancy.py, runtime/tenancy.py) | isolation profile, support grants, redeemed contexts, lifecycle row, audit trail | put profile; issue, redeem, revoke; export; hold, schedule, complete | every use of an elevation is live; a deletion is due and never over a hold |
| **Governance, retention** (postgres/governance.py, runtime/governance.py) | change requests, retention policies, legal holds, intents and executions, trust roots, transfers and imports | propose, approve, apply; hold, release; execute retention; bootstrap, rotate; export, verify, import | four eyes; an approval applies once, to the revision it was given for; held data is not deleted; trust has no gap and keeps its history; a receipt binds its report |
| **Disaster recovery** (postgres/recovery.py, runtime/recovery.py) | profiles, backups, break-glass grants, plans, scans, recoveries, gaps, results, game days | publish, record, issue, revoke, use; plan, verify, reconcile, gap, complete; game day | nothing is promoted before uncertain work is resolved; authority is live at every stage |
| **Reconciliation** (runtime/reconciliation.py, postgres/reconciliation.py) | cursors, results, findings, ingested events, completeness profile | `run_source`, `assess_completeness`, `save_profile` | the cursor never passes evidence that is not stored; a match rests on a healthy result that is not stale by its mark; completeness fails closed |
| **Lifecycle, capacity** (runtime/ha.py, fastapi/app.py) | lifecycle state, in-flight counters, slots | admit, drain, stop | counters are exact; drained means empty; shutdown ends |
| **HTTP API** (fastapi/app.py) | in-flight requests | endpoints | it calls the above in the order modelled |
| **Policy** (runtime/policy.py, policy_semantics.py) | none of its own | evaluate, compose | no engine's decision is weakened |
| **Lineage** (runtime/lineage.py, postgres/lineage.py, contracts/lineage.py) | a graph of nodes and relations per run | record node, record relation, assess, bind | the graph stays valid; a complete verdict means one continuous chain, and stays true |
| **Bundles, attestations, packages** | archives | build, verify | sequential; rest on hashes and signatures |
| **Executors, integrations, CLI, TypeScript clients** | none of their own | adapters | external to the model |

How they interact. The API starts a run with the coordinator, hands actions to
the broker, records approvals and lineage nodes. The broker appends every event
to the ledger of the run. Schedulers take work from the queue; replicas use
leases to agree on who does singleton work. Recovery reads the attempt journal
that the broker wrote. Governance holds reach tenant deletion through a
database trigger. Reconciliation compares what the broker was told with what
the external systems say. Most services have two profiles: PostgreSQL, where a
race is between transactions, and standalone, where a race is between `await`s
under an asyncio lock. The tenancy, governance, recovery and reconciliation
models contain both; `store` is chosen in `Init`.

What is hard: every `await` of `execute()` is a place where other calls run and
where the process may die; advisory and row locks order some statements and not
others; operations read the clock *before* they wait for a row; authority is
checked in one transaction and used in the next; an exception of an executor,
an adapter or a provider says nothing about what it did. `PROJECT.json` lists
these hazards at their lines.

## Modules

| module | models | extends or refines |
|---|---|---|
| `ActionBroker` | `execute()`, one action per await, and the stores it writes | refines `AtMostOnceEffect` |
| `AtMostOnceEffect` | the contract of an idempotency key: taken once, asked at most once, published at most once | |
| `FencedLease` | one lease row and the replicas that compete for it | |
| `WorkQueue` | the queue's rows and the schedulers' `run_once` | refines `BoundedWork` |
| `BoundedWork` | the contract of a work item: bounded runs, one settlement | |
| `RunLedger` | one run: its events, its record, the requests that write them | |
| `Lineage` | the lineage graph of one run, the production policy, the assessments of it | |
| `RuntimeLifecycle` | one replica: requests, lifecycle, capacity slots, shutdown | |
| `Tenancy` | the durable tenant store, statement by statement | |
| `TenantControl` | the standalone tenant store, `Next`, properties | extends `Tenancy` |
| `Governance` | the durable store: change requests, policies, holds, retention executions | |
| `TrustRoots` | the durable store: trust roots, transfers, imports | extends `Governance` |
| `GovernanceControl` | the standalone store, `Next`, properties | extends `TrustRoots` |
| `Recovery` | the durable recovery store | |
| `RecoveryControl` | the standalone store, `Next`, properties | extends `Recovery` |
| `ReconciliationEngine` | the comparison of intent with evidence, as operators | |
| `Reconciliation` | pollers and assessments over both stores | extends `ReconciliationEngine` |
| `MC*` | instances for TLC: symmetry sets and the functions given to CONSTANTS | |
| `ActionBrokerProofs`, `WorkQueueProofs`, `TenantControlProofs`, `GovernanceProofs`, `RecoveryProofs`, `ReconciliationProofs` | theorems about one component | extend its module |
| `HighAvailabilityProofs` | theorems about leases and about admission and drain | extends `FencedLease`, `RuntimeLifecycle` |
| `RunProofs` | theorems about a run's ledger and about its lineage | extends `RunLedger`, `Lineage` |

Where two specifications are proved about in one module their names differ:
`LeaseSpec`, `LeaseInit` and `LeaseInv` belong to `FencedLease`, `LineageSpec` and
`LineageInit` to `Lineage`; the others call theirs `Spec` and `Init`.

Operators marked `mutant:` are wrong variants of the definition that follows
them; no specification uses them. Putting one in the place of its definition
violates the property that `PROJECT.json` pairs it with.

### ActionBroker

`pc[c]` is the await at which call `c` waits, `path[c]` which of the three
callers of `_revoke_lease` it is in. Each call owns one fresh attempt id, so the
call stands for its attempt. `act[c]` is chosen once: calls may carry the same
action, or different actions with one key. `events[c]` is the set of events
recorded for the call.

`Abort` can happen at every await: a cancelled task, a dead process, or an
exception of a store outside the broker's two `try` blocks. Nothing is undone.
Recording an uncertainty is two awaits, the journal's `replace` and the append of
`execution.uncertain`, and either may raise in its turn, `replace` also after its
commit: `RecordUncertainFails` ends such a call as "unrecorded". It is the one way
in which a caller learns of an uncertain execution that the ledger does not know of.
`TargetApplies` is the target system, which may act after its caller timed out.
`RevokeLease` may fail with the lease revoked or not; an append that fails
inside `_revoke_lease` counts as a failed revocation, as in the code.
Approvals are recorded, lapse and are denied, actions expire and policy
revisions are deployed at any time.

Abstractions:
- The stores are the PostgreSQL ones. The in-memory idempotency store would
  overwrite a result in `complete()`; the durable one refuses another result.
- A digest is the part of the action it covers (hashes are injective).
  `argument_artifact` is kept beside it because the digest leaves it out.
- The policy decision id is derived from revision and digest, so the revision
  stands for the decision.
- An executor that reports success has had the target apply the request. This
  is what the broker assumes of executors; failure and exceptions say nothing.
- Payloads, observations and verification results are not told apart. The
  tenant check is a guard-free `Refuse`.

### FencedLease

Each operation is two steps, because the code reads `clock_timestamp()` and only
then waits for the row lock: `ReadClock` and then the operation, which decides
on the old reading. `acquire` takes an advisory lock first, so two acquires
never overlap; `renew` and `release` do not. The answer to a committed acquire,
renew or release may be lost, a transaction may roll back, a replica may die and come
back under its own owner id. `held` is the lease object a replica has in hand,
`givenUp` the replicas that have called `release()` with theirs. When the answer to
a release is lost, the former owner still has an unexpired lease object while the
row is free, and another replica may acquire it: two unexpired lease objects then
exist. The former owner asked to give its own up, so it does not count as an owner
(`believes`) until it acquires or renews again; the store refuses the old object,
and the next owner's token is larger (`TakeoverIsFenced`). A lease id is drawn exactly when the token grows; the token
stands for both. The TTL is one constant: callers that renew with a shorter TTL
than they acquired with are not modelled. Owner ids are unique, which the code
requires of its deployment.

### WorkQueue

Time enters only through comparisons: `ripe` rows are past `available_at`,
`lapsed` leases past `expires_at`. `complete` and `retry` read the clock before
they lock the row: `HandlerEnds` notes what the worker saw (`live`), the
settlement decides on it later. `acquire` runs under `SKIP LOCKED`, so it may
bury any subset of the exhausted rows and may take any ready one. `acked`
records what callers were told and exists for the properties only.

### RunLedger

`append` is four steps: take the advisory lock of (tenant, run), check for rows
of another tenant, read the last row, insert and commit. The lock of another
tenant is another lock, so two tenants can pass the foreign-tenant check
together; the constraint UNIQUE (run_id, sequence) then decides. The foreign key
from events to runs (migration 0006) would exclude some of these races; it is
left out, so the properties hold without it. `complete_run`, `bind_lineage` and
the lineage endpoint read a record, compute and write the whole record back.

### RuntimeLifecycle

Each lock section of `RuntimeLifecycle` and `CapacityAdmissionController` never
suspends and is one step. A request is admitted (`Admit`, `Refuse`), takes a
slot in its handler or finds none (`TakeSlot`), and leaves through the nested
`finally` blocks (`ReturnSlot`, `Leave`) however the handler ends. The lifespan
drains, waits with a timeout, and stops; the timeout may fire in the instant in
which the last request leaves. Requests cut off by the stop are the event loop's
affair and are left inside.

### Tenancy and TenantControl

One tenant. A lifecycle operation of the durable store is a transaction of four
steps: clock and authorization, `SELECT ... FOR UPDATE`, upsert, commit. A row
that exists is locked from the read; a row that does not exist locks nothing
until the upsert. The trigger of migration 0007 is a guard of `WriteRow` over
the governance holds that are committed by then. Audit events are kept only for
support elevations. A grant lives for any of `Ttls`, so a use after its revocation
and before its expiry is among the cases; `consented` keeps the times at which the
tenant's opt-in was in force and exists for `SupportUseIsLive` only. An operation
counts at the time it was authorized: it may commit after a revocation or an opt-out
that followed. The standalone operations are single steps.

### Governance, TrustRoots and GovernanceControl

One tenant. The advisory lock of the durable store and the asyncio lock of the
standalone one are `lock`; only a retention execution keeps it over an await,
so only there are the steps apart: intend, take the lock and decide again, let
the adapter delete, record. The adapter may fail after it deleted, and the
process may die anywhere (`AbortExecution`). A digest is the document itself.
A package is sound or not; what a signature check computes is left out, which
root it uses (`Matches`) is not. `verifications` are the reports the verifier
returned; an import takes any report of the right type, because
`record_verified_import` compares fields and does not ask where a report comes from.
A receipt keeps its report, for which the code stores its id and digest (`Receipt`). The two profiles differ, and the model keeps
the differences: which policy is effective, when the clock is read, what counts
as the same actor.

### Recovery and RecoveryControl

One tenant. Each operation of the durable store is one transaction under the
tenant's advisory lock, except reconciliation, which is two with the resolver
in between: `BeginReconcile` notes the attempts it saw, `CommitReconcile` uses
the grant again and compares. The broker is `AttemptBecomesUncertain`. An
observation of a restored site is the set of components it has, those that are
altered, and four facts about chain, anchor, checkpoint and signature, which
`Verify` turns into a scan as the verifier does. The standalone operations read
the clock twice.

### Lineage

Nodes and relations are only added: a node under a used id and a relation that
would make the graph invalid are refused, each in a transaction under the run's
lock. Relations are a sequence, because the policy takes the first candidate that
succeeded: the candidates of a stage are a function from their positions in that
sequence, and `FirstOf` takes the least position with a successful node. `BeginAssess` reads the graph and computes the verdict,
`RecordAssessment` appends it to the ledger, and others record in between. A node
is its kind, id, digest and whether its stage succeeded. `Continuous`, in the
properties, says what the policy looks for without its way of looking: one
successful node per stage, linked without a break.

### Reconciliation

`run_source` is read cursor, await the provider, ingest event by event, save the
result with its findings, save the cursor; on failure save the cursor and then
the result. On the standalone store only the provider is really awaited. A
finding is its identity (what the hash covers) and its time. `save_result` of the
standalone store raises when a finding recurs with another time: the result is
kept, a part of the findings, and no cursor. A batch carries the high-water mark
its source gives it (`Marks`): the adapters mark it with its latest record, a source
of another make may leave it unmarked, and an unmarked healthy batch is not checked
for staleness, as in `run_source`. The result of a failed poll carries the mark of
the cursor it found.
`assess_completeness` reads the cursors one by one and the findings at the end.

## Runs

| run | instance | states | shows |
|---|---|---|---|
| `Broker` | 2 calls, 3 actions, 2 keys, 2 revisions, 1 approval, fair | 409,824 | however calls race and die, one reaches the target, journaled and authorized under the revision it was decided under; results are final; uncertainty is recorded; the broker implements `AtMostOnceEffect`; calls end |
| `LeaseHandover` | 3 owners, TTL 2, clock to 4, token to 4 | 2,231,332 | one unexpired owner whatever answers are lost, takeovers are fenced |
| `Queue` | 2 workers, 4 submissions of 3 identities, 2 tenants, room for 2, fair | 112,008 | one live worker, acknowledgements stand, depth is bounded, `BoundedWork` is implemented, admitted work is settled |
| `RunLedger` | 5 requests, 2 tenants, fair | 271,349 | one sound chain, audited completion, requests end although lock holders die |
| `Tenancy` | 2 transactions, 1 grant of life 1 or 2, clock to 2, both stores | 2,019,674 | support use is granted, unexpired, unrevoked and opted in to, deletions are due, governance holds block later deletions |
| `Retention` | 3 identities of 2 people, 2 requests, 3 policies, 1 hold, 2 resources, 2 executions, clock to 3, both stores | 896,803 | four eyes, holds win, deletions are governed and leave evidence |
| `TrustRoots` | 3 requests, 3 roots, 2 packages, any report at import, clock to 3, both stores | 271,680 | revisions chain, trust has no gap, rotation keeps history, receipts bind their reports |
| `Recovery` | 2 profiles, 1 restore, 1 attempt, 2 reconciliations, clock to 3, both stores | 782,090 | promotions meet one profile and reconciled what was uncertain, stages are live |
| `Lifecycle` | 4 requests of 2 tenants, 3 slots, 2 per tenant, fair | 3,129 | counters are exact, drained is empty, shutdown ends |
| `Reconciliation` | 2 pollers, 1 source, 1 action, 1 foreign event, batches marked or not, clock to 3, both stores | 2,240,869 | evidence before cursor, matches rest on supporting results, completeness is earned |
| `Lineage` | 13 nodes, two actions and two deployments of one observation, 1 assessment at a time | 294,924 | a complete verdict has a continuous chain behind it and stays true |
| `TenantHoldLost` | as `Tenancy` | counterexample | see Findings |

Why the bounds are enough. The broker's promises relate two calls at a time. Two
actions with one key give the conflict of digests; one of them needs an approval,
the other is allowed under one revision and denied under the next, and expires; a
third has no executor. An approval under the first revision that is met by calls
decided under the second gives the stale approval. Three owners let a lease pass on twice, and a
clock to 4 with TTL 2 lets a paused owner come back after two full leases. Two
attempts and two workers let a worker be superseded, and the superseding one be
lost on the last attempt; three identities compete for two places. Two
completions with different outcomes, a binding and a foreign append are all the
kinds of writers of a run. Two lifecycle transactions give every overlap of two,
with a grant that is issued, expires and is revoked around them; a grant of life 2
can be revoked and still be used before it would have expired. Two change
requests let one be approved against a revision the other replaces; two
executions race for the lock while a hold comes and goes. Three trust roots make
two rotations, one of them against a predecessor that was replaced. That run has
no retention policies, and its two packages share one bundle: the retention half of
`RevisionsChain` and the bundle clause of `ReceiptsBindTheirReports` are left to the
theorems `RevisionsHold` and `ReceiptsAreBound`. A second
profile takes effect during the recovery, and a second reconciliation overlaps
the first. Two pollers read the same cursor and overwrite each other. Two
deployments that one observation is linked to, with their own actions of which
one may have failed, are what it takes for pieces of two chains to be mistaken
for one, and for what comes later to change a verdict. Four
requests fill both the total and the per-tenant limit and leave one waiting.
`MaxTime` and `MaxFence` bound what the code does not bound; every theorem holds
for every value of them, `FencedLease` included, whose guards need them only
for TLC.

Deadlock is not checked: calls, requests, executions and polls are finite in
number and end, a clock stops at its bound, and a queue whose work is settled may
rest.

Symmetry is used over owners, transactions, requests, executions and
pollers, which the specifications never tell apart, and only in runs without
liveness properties.

Fairness. `ActionBroker!FairSpec`: once submitted, a call is driven by its task,
and each client the broker awaits has a timeout, so each await returns or
raises. Nothing is assumed of the target, approvers or of calls that were never
submitted. `WorkQueue!FairSpec`: time passes, schedulers poll each tenant,
handlers end, the database answers; workers may still crash on every attempt,
which is why dead-lettering is needed for `AdmittedWorkIsSettled`.
`RunLedger!FairSpec`: the database answers the statements of a request that has
begun; a lock is freed when its holder commits or dies.
`RuntimeLifecycle!FairSpec`: the event loop runs the lifespan once shutdown has
begun, and its grace timer fires; nothing is assumed of the handlers, which may
never end.

## Findings

`TenantHoldLost`: `set_legal_hold` and `schedule_deletion` (postgres/tenancy.py
600) read the lifecycle row `FOR UPDATE`, which locks nothing while there is no
row, and then upsert the whole row. The schedule of a deletion that overlaps the
first legal hold of a tenant overwrites it. docs/operations/tenant-isolation.md
21 says that legal hold takes precedence. What does hold is the theorem
`HoldsAreReleased`: only a release lifts a hold, or a transaction that read
before the first row existed.

Other observations made while modelling, for the maintainers to judge:

- Broker. `_validate_result` and the attempt-id check (broker.py 305-307) stand
  between the executor's return and the `try` that revokes the lease: when they
  raise, the lease stays live until its TTL and the attempt STARTED. A claim that
  conflicts after the lease was issued leaves that lease to its TTL too. The
  digest excludes `argument_artifact`, so an approval survives a change of it. When
  `replace` or the append of `execution.uncertain` raises, `execute()` raises without
  the event; the attempt is then STARTED or UNCERTAIN in the journal, for recovery to
  find.
- Runs. `complete_run` checks a status it read before two awaits, so two
  completions may both pass and both be audited; the later outcome stays.
  `bind_lineage` writes back a whole record and may lose a concurrent update.
  `start_run` stores the run before it appends RUN_STARTED.
- Lineage. The policy follows one candidate per stage, the first recorded that
  succeeded (runtime/lineage.py 319), and does not come back to another. When an
  observation is linked to two successful deployments and only the second was
  made by an authorized, successful action, the verdict is "incomplete" although
  a continuous lineage exists; had the relations been recorded in the other order
  it would be "complete". It errs on the closed side: `CompleteIsContinuous`
  holds, its converse does not.
- Leases. `acquire` hands an unexpired lease to whoever has its owner id:
  replicas must have different ones. A `release()` that raises tells its caller
  nothing: the lease must not be used after it, though it may not have expired.
- Tenancy. `schedule_deletion` accepts a tenant that is already deleted. A support
  operation that was authorized just before a revocation or an opt-out may commit
  after it; docs/operations/tenant-isolation.md 17 calls both "immediately
  effective". The
  governance trigger reads holds without a lock that excludes their placement: a
  deletion that was written before the hold commits is not stopped, which is
  why `GovernanceHoldBlocksDeletion` speaks of deletions that began after it.
- Governance. The durable `release_legal_hold` accepts an approved request of any
  risk for that hold, also a self-approved low-risk one made with the generic
  proposal. The stores choose different effective policies when a later revision
  is dated earlier. A durable approval under another workload identity of the
  proposer is stored and can then never be applied.
- Trust roots. An emergency rotation may be dated back (postgres/governance.py 717),
  and then its root also answers for signing times between its activation and now,
  for which only the older roots answered before. docs/architecture/governance-lifecycle.md
  13 says "Rotation never rewrites historical signing policy". What holds is
  `RotationKeepsHistory`: nothing before the new activation changes, the retired root
  keeps its times until the overlap ends, and a planned rotation changes nothing that
  is past.
- Imports. `record_verified_import` (postgres/governance.py 853, runtime/governance.py
  625) compares the fields of the report it is given and cannot tell whether the
  verifier returned it; tests/test_governance.py 335-353 and 497-517 build one by hand
  and get a receipt. docs/architecture/governance-lifecycle.md 72 says "A caller
  cannot create authoritative import evidence merely by supplying matching archive
  metadata". Callers must take the report from the verifier. What holds is
  `ReceiptsBindTheirReports`.
- Recovery. `record_game_day` takes the result from its caller. An attempt that
  becomes uncertain after the reconciliation, a grant that expires, or a profile
  that is replaced leave a restore that cannot be completed any more: safe, and
  to be started again. Attempts left STARTED by a crash are not considered. A
  disposition of `not_observed` counts as conclusive without an evidence reference,
  in the code and in the model. `StagesAreLive` is about plans, reconciliations, gaps
  and results, not about scans; that a backup was stale is no part of
  `PromotionMeetsItsProfile`.
- Reconciliation. Standalone `save_result` raises when a finding recurs with
  another `observed_at`, after the result was stored and before the cursor is.
  Findings other than a match are never resolved, so one failed poll blocks
  completeness for good. Concurrent pollers may set the cursor back, which makes
  the provider be asked again and loses nothing. docs/architecture/reconciliation.md
  24 calls a match "fresh healthy evidence". In the code (run_source 192-199) the mark
  of the batch is what must be fresh, so an old observation beside a recent audit
  event matches, and a healthy batch without a mark matches whatever its age;
  `assess_completeness` asks for a mark, so such a source cannot make production
  complete.

## Proofs

All are for every value of the constants, from the assumptions the modules name:
`BrokerAssumption`, `LeaseAssumption`, `QueueAssumption`, `RunAssumption`,
`LifecycleAssumption`, `TenancyAssumption`, `GovernanceAssumption`,
`TrustRootAssumption`, `RecoveryAssumption`, `EngineAssumption`,
`CoordinatorAssumption`, `LineageAssumption`. They type the constants and keep the
values that stand for "none" out of the sets they are not in; the queue and the
lifecycle also need finitely many items or requests, because they count them. The
TLC runs evaluate them on their instances. Each component has a theorem for its
inductive invariant (the ledger one for the chain and one for the audit trail), one
for its types, and one theorem per promise; `PROJECT.json` lists the promises.
Every safety property that a run checks is stated by a theorem.

*Broker.* `AtMostOneDispatch` is not inductive: nothing in it says that a call on
its way to the executor is the only one. `IInv` (in `ActionBrokerProofs`) adds
three groups. Ownership: a call past the claim owns its key, and no two calls do,
so the dispatch of one excludes the other. Publication: a stored result is the
owner's, and an owner that has not completed has none; a call that holds a result
after the executor has its attempt, lease and target in step with its position.
Authority: a call past the decision carries a revision that allows its action or
an approval under that very revision, and approvals are never unrecorded. Each
group is preserved action by action (`OwnershipInductive`, `PublicationInductive`,
`AuthorityInductive`); the safety theorems follow. `UncertaintyReachesLedger` is one more
induction over the actions, on top of `IInv`: a call that raises elsewhere has no
uncertain attempt, and one that ends "unrecorded" owns its key and has an open attempt. `RefinesContract` maps `Claim`,
`Dispatch` and `CompleteClaim` to steps of `AtMostOnceEffect` and every other
action to a stutter (`QuietSteps`); `ClaimsStay` follows from the same facts.
`StoresNeverRefuse` adds `Unpublished` (a call publishes only at its own
completion): with or without an attempt journal, the checks of `replace` and
`complete` in postgres/execution.py never turn down the call that executed.
`CallsAdvance` gives `execute()` a measure, `Progress`, that whatever moves a call
increases. Together they are the safety half of `CallsEnd`: a call cannot loop,
and no store leaves it standing.

*Lease.* `OneUnexpiredOwner` follows from `BeliefIsCurrent`, because the row has
one owner. `BeliefIsCurrent` is preserved only because readings of the clock are
never from the future, an owner's lease is never longer than a renewal on its
pending reading would make it (`ReadingsAreOld`: a late renewal cannot shorten
the row below what the owner believes), and the newest token is in no other hands
(`TokenOfOwner`). A belief ends when `release()` is called, not when it is answered:
without that the invariant would fail at a committed release whose answer is lost.

*Queue.* The token counts the attempts (`Budgeted`), every token but the current
one has failed (`SpentTokens`), and the token in a worker's hands is
unacknowledged and the row's only while the row is leased to that worker
(`HandHeld`). `DepthHolds` and `IdentityIsUnique` are inductive given the types,
with finite cardinalities. `RefinesBoundedWork` shows that each row moves by one
step of `BoundedWork` or rests, also when one `acquire` buries several.

*Runs: ledger.* `ChainInv` says that an append past the lock holds it and that what it
read of its own tenant's rows is still the tail; the other tenant can only
collide on a sequence number, which the UNIQUE constraint refuses, because a
nonempty ledger has a first row (`ChainHasRoot`). `AuditInv` says that a status on
its way into the store, in a completion or in a stale copy, has been audited.
`NoLockIsOrphaned` and `RequestsAdvance` are the safety half of `RequestsEnd`: a
lock always belongs to an append that is still under way, and every step takes
one request onward along a path of at most nine steps.

*Runs: lineage.* A recorded verdict must survive what is recorded later, and also
what is recorded between the reading of the graph and the append of the verdict;
so `LineageInv` says of every complete verdict, stored or still in a call, that the
policy would give it again on the graph as it is now (`Standing`), and that the
graph is sound (`SoundGraph`: relations connect known nodes, and a node is known by
one id). The proof follows the policy. `Least` shows that a nonempty set of
positions has a minimum, from the well-foundedness of strict inclusion on finite
sets, since induction over numbers is out of reach. `FirstStays`: when relations
are only appended, the first successful candidate stays the first. `SubjectStays`
and `ObjectStays` lift that to a stage of the policy, `CompleteStays` to the whole
path, and `SubjectIsLinked`, `ObjectIsLinked` and `StagesFollow` turn a complete
path into the continuous chain that `CompleteIsContinuous` asks for.

*Lifecycle.* `LifecycleInv` is `Shape`, `Phases` (once shutdown has begun nothing is
accepted, and only then can `wait_for_drain` have answered), the exact counters,
the envelope and `DrainedIsEmpty`. The counters are cardinalities of sets of
requests, each step of a request adds or removes one element, and the theorems
about finite sets give the new cardinality. `EnvelopeHolds` (`Capacity`) needs
the exact counters: the code compares counters, the promise is about requests.
`DrainingOnlyEmpties` (once a shutdown has begun nobody enters) and
`ShutdownAdvances` (its phases only go forward) are the safety half of
`ShutdownEnds`.

*Tenancy.* `SupportUseIsLive` speaks of the audit trail, which is written at the
commit, so `TxIsLive` carries the authorization through the transaction: the
grant was live at the clock reading, the opt-in was in force then (`ConsentIsNow`), and
a later revocation is dated later (`AuditIsPast`). `TxSeesRow` and `OneLocker` say that a transaction which locked
a row still sees it; from them `DeletionIsDue` and `HoldIsLiftedByRelease` follow
for the committing step. `WrittenBeforeHold` is the trigger's effect, carried to
the commit.

*Governance.* `LockInv`: a busy execution has the lock, and policies and holds
change only while nobody has it (`LockGuardsTables`). So what it decided stays
true until the adapter is done (`RuleInv`), which gives `HoldWinsOverDeletion` and
`DeletionIsGoverned`; `TraceInv` puts intents first. `TwoPrincipals` carries the
four-eyes check from the approval to the application. `ChainInv` says that entry
`i` of a revision stream rests on a request that was applied for its predecessor,
and that requests of different entries differ; a request that is still approved
is in no stream, so an application extends the chain and spends the approval.
`TrustHasNoGap` is inductive given the chain of retirement and activation times
that a rotation keeps, and `RotationKeepsHistory` follows from it; its clause about
planned rotations (`PlannedRotation`) needs their guard that the activation is not
before the clock. `ReceiptsBindTheirReports` follows from the comparisons of an
import and from `VerifiedInv` (what the verifier returned was about a sound package),
which only `VerifyTransfer` can add to; a report that a caller built satisfies the
last clause by not being one of those, before or after the import.

*Recovery.* Both profiles' actions are first reduced to what they do to the
tables (`Publishes`, `Records`, `Plans`, `Completes`, ...), and `RowsStay` says that
recorded rows are never changed. Each part of `IInv` then concerns one table:
backups were recorded under the profile they name (`BackupsInv`), plans name a
backup of an earlier point (`PlansInv`), scans that verified found everything
(`ScansInv`), results are not of the future (`ResultsInv`), reconciliations under
way have a plan (`CallsInv`). The three promotion properties are inductive beside
these; `PromotionReconciledUncertainty` needs that an attempt which becomes
uncertain later is dated no earlier than the result. `StagesAreLive` and
`EvidenceIsFinal` are properties of steps, from `IInv` and the same reductions.

*Reconciliation.* The properties speak of stored cursors and finished verdicts; a
poll that holds a cursor and a batch for several steps, and an assessment that has
read some cursors, must carry the facts there. Everything rests on `Grows`: results,
findings, ingested events and the provider's trail are only added to
(`EvidenceIsAppendOnly`), so a fact about evidence, once true, stays true, however
pollers overlap. `Accounted(s, n)` says that the first `n` events of a source's
trail are ingested, and reported unless a plan accounts for them. `CursorsInv` has
it for every stored cursor, `PollsInv` for the cursor each poll has read and, once
the result is saved, for the position the poll is about to store; so it does not
matter which of two pollers writes the cursor last, nor that a failed poll writes
back the old one. `ResultsInv` says that an unhealthy result left a finding that
blocks its source (`Blocked`), `MatchesAreSupported` is inductive beside it, and
`AssessInv` keeps for each cursor an assessment has read that its source was fresh
then (`SeenFresh`) and what was accounted for then; when the findings are read at
the end and none blocks, there was no bypass (`NoBypass`). Typing needs that
`backoff_for` is a natural number (`Doublings`, up to its thirty doublings) and that
a nonempty set of times has a maximum (`Latest`, by the same well-founded argument
as `Least`). The engine itself is a function of one batch: `OneFindingPerAction`
says that it neither passes over an expected action nor reports it twice, and
`MatchMeansAgreement` what a match says about the observations.

TLC agrees with the newest of these on the instances of the runs: `IInv` of
`ReconciliationProofs` (without symmetry, 3,834,444 states), `LineageInv` (294,924),
`LocksAreManned` and `OneAdvances` (271,349).

Stated by theorems and by no run, because their proofs cover every instance:
the types of all modules but `Reconciliation`, `ReturnedCallsAgree`,
`OneTenantPerRun`, `ClaimsAreFinal`, `UncertainKeepsOwnership`, `BeliefIsCurrent`,
`TokensAreDistinct`, `DeadLetterIsEarned`, `OneRowPerIdentity`,
`HoldIsLiftedByRelease`, `ApprovalIsSpent`, `PromotionIsEarned`, `EvidenceIsFinal`,
`EnvelopeHolds`, and the theorems named above that state their formula themselves.

Only model-checked: liveness (`CallsEnd`, `AdmittedWorkIsSettled`, `RequestsEnd`,
`ShutdownEnds`), because the prover has no rules for fairness and ENABLED; and the
counterexample, which is one execution.

## Plan

Done, in this order: (1) `ActionBroker` and its contract; (2) `FencedLease`,
`WorkQueue`, `BoundedWork`; (3) `RunLedger`; (4) `RuntimeLifecycle`; (5) `Tenancy`;
(6) `Governance`, `TrustRoots`; (7) `Recovery`; (8) `Reconciliation`; (9) `Lineage`. The proofs
cover every component. What could come next: the measure of a work item that
`AdmittedWorkIsSettled` rests on; whether a lineage verdict depends on the order of
relations, as a theorem about the policy; a composition of `Recovery` with
`ActionBroker` in place of `AttemptBecomesUncertain`; and the composition of policy
engines (policy_semantics.py) as the function the broker takes for a revision.

## Not modelled

Executors, reconcilers of single providers and integrations are adapters to
external systems; the models see them only as calls that return, raise or never
end. Bundles, attestations and portable packages build and check archives
sequentially, and rest on hashes and signatures. The composition of policy engines
is a pure computation without state; the broker sees its outcome.
Authentication, serialisation and read endpoints of the API, the command line and
the TypeScript clients keep no state that the properties are about.
