------------------------------ MODULE Tenancy ------------------------------
(***************************************************************************)
(* The durable tenant-control store: one tenant's support opt-in, the      *)
(* support-elevation grants issued against it, the contexts operators      *)
(* redeemed from them, and the tenant's lifecycle row (legal hold,         *)
(* deletion schedule, deletion).                                           *)
(*                                                                         *)
(* A lifecycle operation is a database transaction of four steps: read the *)
(* clock and authorize the caller; SELECT ... FOR UPDATE the lifecycle     *)
(* row; upsert the new row (the governance trigger fires here); commit.    *)
(* A row that exists is locked from the read to the commit, a row that     *)
(* does not exist yet locks nothing: the upsert takes the lock then.       *)
(* Operations that read and write nothing but one row are one step.        *)
(***************************************************************************)
EXTENDS Naturals, FiniteSets

CONSTANTS
    Procs,        \* concurrent lifecycle transactions
    Actors,       \* support staff
    Authorities,  \* those whose identity carries the support-authority attribute
    SupportStaff, \* those whose identity carries the support-operator attribute
    Grants,       \* grant ids
    GrantCaps,    \* the capability sets a grant may be asked for
    Member,       \* the ordinary context of a member of the tenant
    NoRow,        \* no lifecycle row yet
    NoGrant,      \* a grant id not issued yet
    Ttls,         \* the lives a grant may be asked for, in ticks
    MaxTime       \* bound on the clock

VARIABLES
    store,    \* which store profile this deployment runs
    now,      \* the database clock
    optIn,    \* the isolation profile: absent, support access off or on
    grants,   \* support_elevation_grants
    held,     \* the elevations each actor has redeemed into a context
    row,      \* tenant_lifecycle
    govHold,  \* the governance legal hold of the tenant, with its placement time
    tx,       \* the transaction of each process
    audit,    \* tenant_audit_events of a support elevation
    consented \* history: the ticks in which the opt-in was in force

vars == <<store, now, optIn, grants, held, row, govHold, tx, audit, consented>>

TenantCapability ==
    {"read", "write", "execute", "approve", "export", "delete", "legal_hold", "configure"}

TenantLifecycleStatus == {"active", "deletion_scheduled", "deleted"}

TenantAuditEventType ==
    {"support_elevation_issued", "support_elevation_used", "support_elevation_revoked",
     "export_created", "deletion_scheduled", "deletion_completed", "legal_hold_placed",
     "legal_hold_released", "configuration_changed"}

\* now is never 0, so 0 stands for a null timestamp
Time == 1..MaxTime
MaybeTime == 0..MaxTime
Context == Grants \cup {Member}

SupportElevationGrant ==
    [operator: SupportStaff, caps: SUBSET TenantCapability,
     issued: Time, expires: Nat, revoked: MaybeTime]

TenantLifecycleRecord ==
    [status: TenantLifecycleStatus, hold: BOOLEAN, notBefore: MaybeTime]

TenantAuditEvent == [type: TenantAuditEventType, elevation: Grants, at: Time]

ASSUME TenancyAssumption ==
    /\ Authorities \subseteq Actors /\ SupportStaff \subseteq Actors
    /\ Member \notin Grants
    /\ NoRow \notin TenantLifecycleRecord /\ NoGrant \notin SupportElevationGrant
    /\ Ttls \subseteq Nat \ {0} /\ MaxTime \in Nat \ {0}
    /\ GrantCaps \subseteq SUBSET TenantCapability

MaybeRow == TenantLifecycleRecord \cup {NoRow}

Transaction ==
    [pc: {"idle", "authorized", "read", "written"},
     kind: {"hold", "release", "schedule", "complete"},
     ctx: Context, at: Time, notBefore: MaybeTime, seen: MaybeRow, write: MaybeRow]

\* a process between two transactions
Idle == [pc |-> "idle", kind |-> "hold", ctx |-> Member, at |-> 1, notBefore |-> 0,
         seen |-> NoRow, write |-> NoRow]

\* active(at): unrevoked and inside its window
Active(g, at) ==
    /\ grants[g] # NoGrant
    /\ grants[g].revoked = 0
    /\ grants[g].issued <= at /\ at < grants[g].expires

\* validate_lifecycle, which also mirrors the table's CHECK constraints
ValidLifecycle(r) ==
    /\ ~(r.hold /\ r.status = "deleted")
    /\ r.status = "deletion_scheduled" => r.notBefore # 0 /\ ~r.hold
    /\ r.status # "deletion_scheduled" => r.notBefore = 0

\* mutant: a redeemed context is good until it expires, and neither the live
\* grant nor the opt-in is looked at again
AuthorizeByContext(ctx, cap, at) ==
    \/ ctx = Member
    \/ /\ ctx \in Grants
       /\ \E a \in Actors : ctx \in held[a]
       /\ grants[ctx].issued <= at /\ at < grants[ctx].expires
       /\ cap \in grants[ctx].caps

\* context.require, then for a support context the live grant and opt-in
Authorize(ctx, cap, at) ==
    \/ ctx = Member
    \/ /\ ctx \in Grants
       /\ \E a \in Actors : ctx \in held[a]
       /\ optIn = "on"
       /\ Active(ctx, at)
       /\ cap \in grants[ctx].caps

\* the audit events that carry an elevation_id; the others differ in nothing
\* a property looks at
AppendAudit(type, ctx, at) ==
    audit' = audit \cup {[type |-> type, elevation |-> g, at |-> at] : g \in {ctx} \ {Member}}

----------------------------------------------------------------------------
(* Profile and support elevation *)

\* the history of the opt-in: v is in force at time `at'
Consent(v, at) == consented' = IF v = "on" THEN consented \cup {at} ELSE consented

\* put_profile: only an ordinary tenant context may change the opt-in
PutProfile(v) ==
    /\ store = "postgres"
    /\ optIn' = v
    /\ Consent(v, now)
    /\ AppendAudit("configuration_changed", Member, now)
    /\ UNCHANGED <<store, now, grants, held, row, govHold, tx>>

IssueSupportGrant(g, issuer, operator, caps, ttl) ==
    /\ store = "postgres"
    /\ grants[g] = NoGrant
    /\ issuer \in Authorities /\ operator \in SupportStaff /\ caps # {}
    /\ optIn = "on"
    /\ grants' = [grants EXCEPT ![g] = [operator |-> operator, caps |-> caps, issued |-> now,
                                        expires |-> now + ttl, revoked |-> 0]]
    /\ AppendAudit("support_elevation_issued", g, now)
    /\ UNCHANGED <<store, now, optIn, consented, held, row, govHold, tx>>

RedeemSupportGrant(g, operator) ==
    /\ store = "postgres"
    /\ optIn = "on"
    /\ Active(g, now) /\ grants[g].operator = operator
    /\ held' = [held EXCEPT ![operator] = @ \cup {g}]
    /\ AppendAudit("support_elevation_used", g, now)
    /\ UNCHANGED <<store, now, optIn, consented, grants, row, govHold, tx>>

\* the operator may give the grant up, an authority may take it back
RevokeSupportGrant(g, actor) ==
    /\ store = "postgres"
    /\ grants[g] # NoGrant
    /\ actor = grants[g].operator \/ actor \in Authorities
    /\ grants[g].revoked = 0
    /\ grants' = [grants EXCEPT ![g].revoked = now]
    /\ AppendAudit("support_elevation_revoked", g, now)
    /\ UNCHANGED <<store, now, optIn, consented, held, row, govHold, tx>>

ExportManifest(ctx) ==
    /\ store = "postgres"
    /\ Authorize(ctx, "export", now)
    /\ AppendAudit("export_created", ctx, now)
    /\ UNCHANGED <<store, now, optIn, consented, grants, held, row, govHold, tx>>

----------------------------------------------------------------------------
(* The lifecycle row *)

CapabilityOf(kind) == IF kind \in {"hold", "release"} THEN "legal_hold" ELSE "delete"

\* the record set_legal_hold builds: placing a hold takes a schedule back
HeldRow(seen, enabled) ==
    [status |-> IF seen = NoRow \/ (enabled /\ seen.status = "deletion_scheduled")
                  THEN "active" ELSE seen.status,
     hold |-> enabled, notBefore |-> 0]

\* the record schedule_deletion builds, unless a legal hold is in force
ScheduleAllowed(seen) == seen # NoRow => ~seen.hold
ScheduledRow(notBefore) ==
    [status |-> "deletion_scheduled", hold |-> FALSE, notBefore |-> notBefore]

\* mutant: the schedule's time gate is dropped
CompleteAnyTime(seen, at) ==
    seen # NoRow /\ seen.status = "deletion_scheduled" /\ ~seen.hold

\* complete_deletion: a schedule that is due, and no legal hold
CompleteAllowed(seen, at) ==
    /\ seen # NoRow
    /\ seen.status = "deletion_scheduled" /\ seen.notBefore # 0
    /\ seen.notBefore <= at /\ ~seen.hold
DeletedRow == [status |-> "deleted", hold |-> FALSE, notBefore |-> 0]

NewRow(kind, seen, notBefore) ==
    CASE kind = "hold" -> HeldRow(seen, TRUE)
      [] kind = "release" -> HeldRow(seen, FALSE)
      [] kind = "schedule" -> ScheduledRow(notBefore)
      [] kind = "complete" -> DeletedRow

Permitted(kind, seen, notBefore, at) ==
    /\ kind = "schedule" => ScheduleAllowed(seen)
    /\ kind = "complete" => CompleteAllowed(seen, at)
    /\ ValidLifecycle(NewRow(kind, seen, notBefore))

EventOf(kind) ==
    CASE kind = "hold" -> "legal_hold_placed"
      [] kind = "release" -> "legal_hold_released"
      [] kind = "schedule" -> "deletion_scheduled"
      [] kind = "complete" -> "deletion_completed"

\* a caller can only ask for a deletion in the future
AskedTime(kind, notBefore, at) ==
    IF kind = "schedule" THEN notBefore > at ELSE notBefore = 0

\* the transactions that hold the lock of the lifecycle row
RowLocked(p) == tx[p].pc = "written" \/ (tx[p].pc = "read" /\ tx[p].seen # NoRow)
LockFree(p) == \A q \in Procs \ {p} : ~RowLocked(q)

BeginTx(p, kind, ctx, notBefore) ==
    /\ store = "postgres"
    /\ tx[p].pc = "idle"
    /\ AskedTime(kind, notBefore, now)
    /\ Authorize(ctx, CapabilityOf(kind), now)
    /\ tx' = [tx EXCEPT ![p] = [pc |-> "authorized", kind |-> kind, ctx |-> ctx, at |-> now,
                                notBefore |-> notBefore, seen |-> NoRow, write |-> NoRow]]
    /\ UNCHANGED <<store, now, optIn, consented, grants, held, row, govHold, audit>>

\* _lifecycle(for_update=True): waits for the lock of a row that exists
ReadRow(p) ==
    /\ tx[p].pc = "authorized"
    /\ row = NoRow \/ LockFree(p)
    /\ tx' = [tx EXCEPT ![p].pc = "read", ![p].seen = row]
    /\ UNCHANGED <<store, now, optIn, consented, grants, held, row, govHold, audit>>

\* mutant: the trigger lets an existing schedule run to its end
TriggerOnScheduleOnly(r) == r.status = "deletion_scheduled" /\ govHold.state = "active"

\* prodkit_block_tenant_deletion_with_governance_hold
TriggerRejects(r) == r.status \in {"deletion_scheduled", "deleted"} /\ govHold.state = "active"

\* _save_lifecycle: the upsert waits for a concurrent writer of the same key
WriteRow(p) ==
    LET t == tx[p]
        new == NewRow(t.kind, t.seen, t.notBefore) IN
    /\ t.pc = "read"
    /\ LockFree(p)
    /\ Permitted(t.kind, t.seen, t.notBefore, t.at)
    /\ ~TriggerRejects(new)
    /\ tx' = [tx EXCEPT ![p].pc = "written", ![p].write = new]
    /\ UNCHANGED <<store, now, optIn, consented, grants, held, row, govHold, audit>>

\* a refused precondition, a failed validation or the trigger's exception
RollbackTx(p) ==
    LET t == tx[p] IN
    /\ t.pc = "read"
    /\ \/ ~Permitted(t.kind, t.seen, t.notBefore, t.at)
       \/ LockFree(p) /\ TriggerRejects(NewRow(t.kind, t.seen, t.notBefore))
    /\ tx' = [tx EXCEPT ![p] = Idle]
    /\ UNCHANGED <<store, now, optIn, consented, grants, held, row, govHold, audit>>

CommitTx(p) ==
    /\ tx[p].pc = "written"
    /\ row' = tx[p].write
    /\ tx' = [tx EXCEPT ![p] = Idle]
    /\ AppendAudit(EventOf(tx[p].kind), tx[p].ctx, tx[p].at)
    /\ UNCHANGED <<store, now, optIn, consented, grants, held, govHold>>

\* place_legal_hold and release_legal_hold of the governance store commit
\* under the governance lock, which no lifecycle transaction takes
PlaceGovernanceHold ==
    /\ store = "postgres"
    /\ govHold.state = "none"
    /\ govHold' = [state |-> "active", at |-> now]
    /\ UNCHANGED <<store, now, optIn, consented, grants, held, row, tx, audit>>

ReleaseGovernanceHold ==
    /\ store = "postgres"
    /\ govHold.state = "active"
    /\ govHold' = [govHold EXCEPT !.state = "released"]
    /\ UNCHANGED <<store, now, optIn, consented, grants, held, row, tx, audit>>

Tick ==
    /\ now < MaxTime
    /\ now' = now + 1
    /\ Consent(optIn, now')
    /\ UNCHANGED <<store, optIn, grants, held, row, govHold, tx, audit>>
=============================================================================
